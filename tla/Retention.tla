----------------------------- MODULE Retention -----------------------------
(* Which of a destination's archives a run may delete: Retain of            *)
(* internal/backup/retention.go, a pure function over a listing, and the    *)
(* baseline the next run is measured against.                               *)
(*                                                                          *)
(* An archive is its name taken apart (internal/backup/names.go): the       *)
(* instance it came from, the instant, and the run it was written by, which *)
(* decides between two of one second.                                       *)
EXTENDS Integers, FiniteSets

CONSTANTS Us,       \* the slug of this instance
          Slugs,    \* every slug found at a destination
          Instants, \* the seconds a name can carry
          RunNames, \* the suffixes a name can end with
          Day, Week, Month  \* the period an instant belongs to, in the schedule's zone

ASSUME RetentionAssumption ==
  /\ Us \in Slugs /\ Instants \subseteq Nat /\ RunNames \subseteq Nat
  /\ Day \in [Instants -> Nat] /\ Week \in [Instants -> Nat] /\ Month \in [Instants -> Nat]

Archives == [slug : Slugs, at : Instants, run : RunNames]
Policies == [last : Nat \ {0}, daily : Nat, weekly : Nat, monthly : Nat]

\* Negative, so that no count is mistaken for it.
UnknownSeen == -1

\* parseArchive and the filter on the uploaded name's slug.
Ours(listing) == {a \in listing : a.slug = Us}

\* The order of the sort, newest first.
Newer(a, b) == a.at > b.at \/ (a.at = b.at /\ a.run > b.run)
NewerIn(S, a) == {b \in S : Newer(b, a)}

KeptByCount(S, n) == {a \in S : Cardinality(NewerIn(S, a)) < n}

\* The closure periodic: the newest of each of the newest n periods.
KeptByPeriod(S, n, period) ==
  {a \in S : /\ \A b \in NewerIn(S, a) : period[b.at] # period[a.at]
             /\ Cardinality({period[b.at] : b \in NewerIn(S, a)}) < n}

Kept(S, p) == {a \in S : NewerIn(S, a) = {}}
                \cup KeptByCount(S, p.last)
                \cup KeptByPeriod(S, p.daily, Day)
                \cup KeptByPeriod(S, p.weekly, Week)
                \cup KeptByPeriod(S, p.monthly, Month)

\* A plausible bug: the two counts are not compared.
BelievedWhenItHoldsTheUpload(S, uploaded, before) == uploaded \in S

\* Past its three aborts a listing is taken for the whole picture.
Believed(S, uploaded, before) ==
  /\ uploaded \in S
  /\ before < 4 \/ Cardinality(S) >= before \div 2

Remove(listing, p, uploaded, before) ==
  IF Believed(Ours(listing), uploaded, before) THEN Ours(listing) \ Kept(Ours(listing), p) ELSE {}

Seen(listing, uploaded, before) ==
  IF Believed(Ours(listing), uploaded, before) THEN Cardinality(Ours(listing)) ELSE UnknownSeen
=============================================================================
