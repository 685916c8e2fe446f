------------------------------ MODULE MCBackup ------------------------------
(* One destination with four older archives, one of another host's among    *)
(* them and fewer than were counted last, a schedule with two instants and  *)
(* two runs. Every rule of the policy keeps an archive of its own.          *)
EXTENDS Backup

CONSTANTS us, them, nas

MCInstants == 0 .. MaxClock + 2 * MaxStarts
MCRunNames == 0 .. 2
MCPolicy == [last |-> 1, daily |-> 2, weekly |-> 2, monthly |-> 2]
MCDay == [t \in MCInstants |-> t \div 2]
MCWeek == [t \in MCInstants |-> (t + 2) \div 4]
MCMonth == [t \in MCInstants |-> t \div 3]
MCDue == {4, 6}
MCSuffix == <<2, 1>>
Old(s, t) == [slug |-> s, at |-> t, run |-> 0]
MCEarlier == [d \in {nas} |-> {Old(us, 0), Old(us, 2), Old(us, 3), Old(them, 1)}]
MCEarlierSeen == [d \in {nas} |-> 6]
=============================================================================
