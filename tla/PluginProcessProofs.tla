------------------------- MODULE PluginProcessProofs -------------------------
(***************************************************************************)
(* For any number of calls and a pipe of any size: an answer reaches the   *)
(* call it answers, a write recorded as done was done, and no call waits   *)
(* for an answer that nobody would deliver.                                *)
(***************************************************************************)
EXTENDS PluginProcess, FiniteSetTheorems, SequenceTheorems, TLAPS

Numbered == {c \in Calls : id[c] # 0}
Claiming == {"queued", "writing", "waiting", "leaving"}

(* Ids count the calls that have one, so that there are enough of them, and *)
(* no two calls share one.                                                  *)
IDInv ==
  /\ assigned = Cardinality(Numbered)
  /\ \A c \in Calls : id[c] <= assigned
  /\ \A c, d \in Calls : id[c] = id[d] /\ id[c] # 0 => c = d
  /\ \A c \in Calls : /\ pc[c] \in {"idle", "entered"} => id[c] = 0
                      /\ pc[c] \in Claiming => id[c] # 0

(* An answer carries the id of its call wherever it is, and reports a write *)
(* that was made if it reports success.                                     *)
Sound(r) ==
  /\ r.id = id[r.for] /\ id[r.for] # 0
  /\ r.code = "ok" /\ r.for \in Applies => r.for \in applied

AnswerInv ==
  /\ \A c \in taken : id[c] # 0
  /\ \A k \in 1 .. Len(frames) : id[frames[k]] # 0
  /\ \A k \in 1 .. Len(replies) : Sound(replies[k])
  /\ \A c \in Calls :
       inbox[c].code = "ok" /\ c \in Applies => c \in applied

(* A call whose answer may still come is one the read loop knows, from the  *)
(* moment it has its claim.                                                 *)
ClaimInv ==
  /\ \A c \in Calls : pc[c] \in {"queued", "writing", "waiting"} /\ inbox[c] = Nothing =>
       \/ reader = "reading" /\ pending[id[c]] = c
       \/ reader = "stopped" /\ c \in waiters
  /\ reader # "reading" => pending = Unclaimed

IInv == TypeOK /\ IDInv /\ AnswerInv /\ AnswersComeHome /\ ClaimInv /\ NobodyWaitsInVain

(* The initial state. *)
LEMMA InitInv == Init => IInv
<1> SUFFICES ASSUME Init PROVE IInv OBVIOUS
<1>1. Numbered = {} BY DEF Init, Numbered
<1>2. Cardinality(Numbered) = 0 BY <1>1, FS_EmptySet
<1>3. TypeOK
  <2>1. CallsOK BY PluginAssumption DEF Init, CallsOK, Nothing
  <2>2. HostOK BY PluginAssumption DEF Init, HostOK, Unclaimed
  <2>3. frames \in Seq(Calls) /\ replies \in Seq([id : IDs, for : Calls, code : Codes])
        BY DEF Init
  <2>4. PluginOK BY <2>3 DEF Init, PluginOK
  <2>. QED BY <2>1, <2>2, <2>4 DEF TypeOK
<1>4. IDInv BY <1>2 DEF Init, IDInv, Claiming
<1>5. AnswerInv BY DEF Init, AnswerInv, Nothing
<1>6. AnswersComeHome BY PluginAssumption DEF Init, AnswersComeHome, Nothing
<1>7. ClaimInv BY DEF Init, ClaimInv
<1>8. NobodyWaitsInVain BY DEF Init, NobodyWaitsInVain, Unclaimed
<1>. QED BY <1>3, <1>4, <1>5, <1>6, <1>7, <1>8 DEF IInv

(* register always has an id to give: fewer calls have one than there are.  *)
LEMMA FreshIsAnID ==
  ASSUME TypeOK, IDInv, NEW c \in Calls, pc[c] = "entered"
  PROVE  FreshID \in IDs /\ Cardinality(Numbered \cup {c}) = FreshID
<1>1. IsFiniteSet(Calls) BY PluginAssumption
<1>2. Numbered \subseteq Calls /\ c \notin Numbered BY DEF IDInv, Numbered
<1>3. IsFiniteSet(Numbered) BY <1>1, <1>2, FS_Subset
<1>4. Cardinality(Numbered \cup {c}) = assigned + 1
      BY <1>2, <1>3, FS_AddElement DEF IDInv
<1>5. Cardinality(Numbered \cup {c}) <= Cardinality(Calls)
  <2>1. Numbered \cup {c} \in SUBSET Calls BY <1>2
  <2>. QED BY <2>1, <1>1, FS_Subset
<1>6. Cardinality(Calls) \in Nat BY <1>1, FS_CardinalityType
<1>. QED BY <1>4, <1>5, <1>6 DEF FreshID, IDs, TypeOK, HostOK

(* The kinds of step, each with its call: an induction over Next is a case  *)
(* for each.                                                                *)
LEMMA Steps ==
  ASSUME [Next]_vars
  PROVE  \/ \E c \in Calls : \/ Enter(c) \/ Register(c) \/ TakeSlot(c) \/ LeaveQueue(c)
                             \/ Write(c) \/ WriteFails(c) \/ Answered(c) \/ Unanswered(c)
                             \/ Return(c)
         \/ Deliver \/ StopReading \/ Wake \/ Reap \/ HandshakeEnds
         \/ BeginStop \/ CloseInput \/ KillAfterGrace \/ StopReturns
         \/ PluginTakes \/ PluginCloses \/ PluginDies
         \/ \E c \in Calls : PluginApplies(c) \/ \E code \in Codes : PluginAnswers(c, code)
         \/ UNCHANGED vars
BY DEF Next, CallStep, HasThePipe, Writes, Waits, ReaderStep, StopStep, PluginStep


(* Types of a call's own state are kept by every step. *)
LEMMA CallsNext == ASSUME IInv, [Next]_vars PROVE CallsOK'
<1>. TypeOK /\ IDInv /\ CallsOK /\ HostOK /\ PluginOK BY DEF IInv, TypeOK
<1>. USE PluginAssumption DEF CallsOK
<1>1. ASSUME NEW c \in Calls, Enter(c) PROVE CallsOK'
      BY <1>1 DEF Enter, Records
<1>2. ASSUME NEW c \in Calls, Register(c) PROVE CallsOK'
  <2>1. FreshID \in IDs BY <1>2, FreshIsAnID DEF Register
  <2>. QED BY <1>2, <2>1 DEF Register, Records
<1>3. ASSUME NEW c \in Calls, TakeSlot(c) \/ LeaveQueue(c) PROVE CallsOK'
      BY <1>3 DEF TakeSlot, LeaveQueue, Leaves, Records
<1>4. ASSUME NEW c \in Calls, Write(c) \/ WriteFails(c) PROVE CallsOK'
      BY <1>4 DEF Write, WriteFails, Leaves, Records
<1>5. ASSUME NEW c \in Calls, Answered(c) \/ Unanswered(c) PROVE CallsOK'
  <2>1. \E v \in {"succeeded", "failed", "indeterminate"} : Leaves(c, v)
        BY <1>5 DEF Answered, Unanswered, Meaning
  <2>2. UNCHANGED <<id, inbox>> BY <1>5 DEF Answered, Unanswered
  <2>. QED BY <2>1, <2>2 DEF Leaves, Records
<1>6. ASSUME NEW c \in Calls, Return(c) PROVE CallsOK'
      BY <1>6 DEF Return, Nothing
<1>7. CASE Deliver
  <2>1. Head(replies) \in [id : IDs, for : Calls, code : Codes]
        BY <1>7, HeadTailProperties DEF Deliver, PluginOK
  <2>2. pending[Head(replies).id] \in Calls \cup {Nobody} BY <2>1 DEF HostOK
  <2>3. UNCHANGED <<pc, id, verdict>> BY <1>7 DEF Deliver
  <2>4. \/ UNCHANGED inbox
        \/ inbox' = [inbox EXCEPT ![pending[Head(replies).id]] =
             [for |-> Head(replies).for, code |-> Head(replies).code]]
        BY <1>7 DEF Deliver
  <2>. QED BY <2>1, <2>2, <2>3, <2>4
<1>8. CASE Wake BY <1>8 DEF Wake, Closed
<1>9. CASE \/ StopReading \/ Reap \/ HandshakeEnds \/ BeginStop \/ CloseInput \/ KillAfterGrace
           \/ StopReturns \/ PluginTakes \/ PluginCloses \/ PluginDies
           \/ UNCHANGED vars
           \/ \E c \in Calls : PluginApplies(c) \/ \E code \in Codes : PluginAnswers(c, code)
  <2>1. UNCHANGED callVars
        BY <1>9 DEF StopReading, Reap, HandshakeEnds, BeginStop, CloseInput, KillAfterGrace,
           StopReturns, PluginTakes, PluginCloses, PluginDies, PluginApplies, PluginAnswers,
           vars, callVars
  <2>. QED BY <2>1 DEF callVars
<1>. QED BY Steps, <1>1, <1>2, <1>3, <1>4, <1>5, <1>6, <1>7, <1>8, <1>9

(* Types of what the calls share are kept by every step. *)
LEMMA HostNext == ASSUME IInv, [Next]_vars PROVE HostOK'
<1>. HostOK BY DEF IInv, TypeOK
<1>. USE PluginAssumption DEF HostOK
<1>1. ASSUME NEW c \in Calls, Enter(c) \/ LeaveQueue(c) \/ Answered(c) \/ Unanswered(c)
      PROVE  HostOK'
      BY <1>1 DEF Enter, LeaveQueue, Answered, Unanswered, claimVars
<1>2. ASSUME NEW c \in Calls, TakeSlot(c) \/ Write(c) \/ WriteFails(c) PROVE HostOK'
      BY <1>2 DEF TakeSlot, Write, WriteFails, claimVars
<1>3. ASSUME NEW c \in Calls, Register(c) \/ Return(c) PROVE HostOK'
      BY <1>3 DEF Register, Return, FreshID
<1>4. CASE Deliver
  <2>1. UNCHANGED <<assigned, reader, waiters, slot, input, phase, stop>>
        BY <1>4 DEF Deliver
  <2>2. \/ UNCHANGED pending
        \/ pending' = [pending EXCEPT ![Head(replies).id] = Nobody]
        BY <1>4 DEF Deliver
  <2>. QED BY <2>1, <2>2
<1>5. CASE StopReading \/ Wake
      BY <1>5 DEF StopReading, Wake, Unclaimed
<1>6. CASE Reap \/ HandshakeEnds \/ BeginStop \/ CloseInput \/ KillAfterGrace \/ StopReturns
      BY <1>6 DEF Reap, HandshakeEnds, BeginStop, CloseInput, KillAfterGrace, StopReturns,
         claimVars
<1>7. CASE \/ PluginTakes \/ PluginCloses \/ PluginDies \/ UNCHANGED vars
           \/ \E c \in Calls : PluginApplies(c) \/ \E code \in Codes : PluginAnswers(c, code)
      BY <1>7 DEF PluginTakes, PluginCloses, PluginDies, PluginApplies, PluginAnswers, vars,
         claimVars
<1>. QED BY Steps, <1>1, <1>2, <1>3, <1>4, <1>5, <1>6, <1>7

(* A plugin that dies leaves well-typed state. *)
LEMMA DeathIsTyped ==
  ASSUME Dies
  PROVE  /\ process' \in {"running", "dead", "reaped"} /\ mute' \in BOOLEAN
         /\ frames' \in Seq(Calls) /\ taken' \subseteq Calls
<1>1. process' = "dead" /\ mute' = TRUE /\ taken' = {} /\ frames' = <<>> BY DEF Dies
<1>2. frames' \in Seq(Calls) BY <1>1
<1>3. mute' \in BOOLEAN BY <1>1
<1>. QED BY <1>1, <1>2, <1>3

(* Types of the plugin and its pipes are kept by every step. *)
LEMMA PluginNext == ASSUME IInv, [Next]_vars PROVE PluginOK'
<1>. PluginOK /\ CallsOK /\ AnswerInv BY DEF IInv, TypeOK
<1>. DEFINE Reply == [id : IDs, for : Calls, code : Codes]
<1>1. ASSUME NEW c \in Calls, \/ Enter(c) \/ Register(c) \/ TakeSlot(c) \/ LeaveQueue(c)
                              \/ WriteFails(c) \/ Answered(c) \/ Unanswered(c) \/ Return(c)
      PROVE  PluginOK'
      BY <1>1 DEF PluginOK, Enter, Register, TakeSlot, LeaveQueue, WriteFails, Answered,
         Unanswered, Return, pluginVars
<1>2. ASSUME NEW c \in Calls, Write(c) PROVE PluginOK'
      BY <1>2 DEF PluginOK, Write, pluginVars
<1>3. CASE Deliver
  <2>1. Tail(replies) \in Seq(Reply)
    <3>1. replies \in Seq(Reply) /\ replies # <<>> BY <1>3 DEF Deliver, PluginOK
    <3>. HIDE DEF Reply
    <3>. QED BY <3>1, HeadTailProperties
  <2>2. replies' = Tail(replies) \/ replies' = <<>> BY <1>3 DEF Deliver
  <2>3. \/ UNCHANGED <<process, frames, taken, mute>> \/ Dies
        BY <1>3 DEF Deliver, Kill
  <2>4. applied' = applied BY <1>3 DEF Deliver
  <2>5. replies' \in Seq(Reply)
    <3>1. <<>> \in Seq(Reply) OBVIOUS
    <3>. HIDE DEF Reply
    <3>. QED BY <3>1, <2>1, <2>2
  <2>6. CASE Dies BY <2>4, <2>5, <2>6, DeathIsTyped DEF PluginOK
  <2>7. CASE UNCHANGED <<process, frames, taken, mute>> BY <2>4, <2>5, <2>7 DEF PluginOK
  <2>. QED BY <2>3, <2>6, <2>7
<1>4. CASE Reap
  <2>1. PICK n \in 0 .. Len(replies) : replies' = SubSeq(replies, 1, n) BY <1>4 DEF Reap
  <2>2. \A i \in 1 .. n : replies[i] \in Reply
    <3>1. replies \in Seq(Reply) BY DEF PluginOK
    <3>. HIDE DEF Reply
    <3>. QED BY <3>1
  <2>3. SubSeq(replies, 1, n) \in Seq(Reply) BY <2>2, SubSeqProperties
  <2>4. UNCHANGED <<frames, mute, taken, applied>> /\ process' = "reaped"
        BY <1>4 DEF Reap
  <2>. QED BY <2>1, <2>3, <2>4 DEF PluginOK
<1>5. CASE \/ StopReading \/ Wake \/ BeginStop \/ CloseInput \/ StopReturns \/ UNCHANGED vars
      BY <1>5 DEF PluginOK, StopReading, Wake, BeginStop, CloseInput, StopReturns, vars,
         pluginVars
<1>6. CASE HandshakeEnds \/ KillAfterGrace \/ PluginDies
  <2>1. Dies \/ UNCHANGED <<process, frames, taken, mute>>
        BY <1>6 DEF HandshakeEnds, KillAfterGrace, PluginDies, Kill
  <2>2. UNCHANGED <<replies, applied>>
        BY <1>6 DEF HandshakeEnds, KillAfterGrace, PluginDies
  <2>. QED BY <2>1, <2>2, DeathIsTyped DEF PluginOK
<1>7. CASE PluginTakes \/ PluginCloses
  <2>1. frames # <<>> => Head(frames) \in Calls /\ Tail(frames) \in Seq(Calls)
        BY HeadTailProperties DEF PluginOK
  <2>. QED BY <1>7, <2>1 DEF PluginTakes, PluginCloses, PluginOK
<1>8. ASSUME NEW c \in Calls, PluginApplies(c) PROVE PluginOK'
      BY <1>8 DEF PluginApplies, PluginOK
<1>9. ASSUME NEW c \in Calls, NEW code \in Codes, PluginAnswers(c, code) PROVE PluginOK'
  <2>1. id[c] \in IDs BY <1>9 DEF AnswerInv, PluginAnswers, CallsOK
  <2>2. [id |-> id[c], for |-> c, code |-> code] \in Reply BY <2>1
  <2>. QED BY <1>9, <2>2 DEF PluginAnswers, PluginOK
<1>. QED BY Steps, <1>1, <1>2, <1>3, <1>4, <1>5, <1>6, <1>7, <1>8, <1>9

(* Ids stay a count of the calls that have one. *)
LEMMA IDNext == ASSUME IInv, [Next]_vars PROVE IDInv'
<1>. TypeOK /\ IDInv /\ CallsOK /\ HostOK BY DEF IInv, TypeOK
<1>1. ASSUME NEW c \in Calls, Register(c) PROVE IDInv'
  <2>1. FreshID = assigned + 1 /\ assigned \in Nat BY DEF FreshID, HostOK
  <2>2. Cardinality(Numbered \cup {c}) = FreshID BY <1>1, FreshIsAnID DEF Register
  <2>3. id' = [id EXCEPT ![c] = FreshID] /\ assigned' = FreshID
        BY <1>1, <2>1 DEF Register
  <2>4. Numbered' = Numbered \cup {c} BY <2>1, <2>3 DEF Numbered, CallsOK
  <2>5. \A d \in Calls : id[d] \in Nat BY DEF CallsOK, IDs
  <2>6. \A d \in Calls : id'[d] = IF d = c THEN FreshID ELSE id[d]
        BY <2>3 DEF CallsOK
  <2>7. \A d \in Calls : d # c => pc'[d] = pc[d] BY <1>1 DEF Register, CallsOK
  <2>8. pc'[c] \in {"queued", "done"} BY <1>1 DEF Register, CallsOK
  <2>9. \A d \in Calls : id'[d] <= assigned'
        BY <2>1, <2>3, <2>5, <2>6 DEF IDInv
  <2>10. \A d, e \in Calls : id'[d] = id'[e] /\ id'[d] # 0 => d = e
        BY <2>1, <2>5, <2>6 DEF IDInv
  <2>11. \A d \in Calls : /\ pc'[d] \in {"idle", "entered"} => id'[d] = 0
                          /\ pc'[d] \in Claiming => id'[d] # 0
        BY <2>1, <2>6, <2>7, <2>8 DEF IDInv
  <2>. QED BY <2>2, <2>3, <2>4, <2>9, <2>10, <2>11 DEF IDInv, Claiming
<1>2. ASSUME NEW c \in Calls, \/ Enter(c) \/ TakeSlot(c) \/ LeaveQueue(c) \/ Write(c)
                              \/ WriteFails(c) \/ Answered(c) \/ Unanswered(c) \/ Return(c)
      PROVE  IDInv'
  <2>1. UNCHANGED <<id, assigned>>
        BY <1>2 DEF Enter, TakeSlot, LeaveQueue, Write, WriteFails, Answered, Unanswered,
           Return, claimVars
  <2>2. Numbered' = Numbered BY <2>1 DEF Numbered
  <2>3. \/ pc[c] = "idle" /\ pc' \in {[pc EXCEPT ![c] = "done"], [pc EXCEPT ![c] = "entered"]}
        \/ pc[c] \in Claiming /\ \E p \in Claiming \cup {"done"} : pc' = [pc EXCEPT ![c] = p]
        BY <1>2 DEF Enter, TakeSlot, LeaveQueue, Write, WriteFails, Answered, Unanswered,
           Return, Leaves, Claiming
  <2>4. \A d \in Calls : /\ pc'[d] \in {"idle", "entered"} => pc[d] \in {"idle", "entered"}
                         /\ pc'[d] \in Claiming => pc[d] \in Claiming
        BY <2>3 DEF CallsOK, Claiming
  <2>. QED BY <2>1, <2>2, <2>4 DEF IDInv, Claiming
<1>3. CASE \/ Deliver \/ StopReading \/ Wake \/ Reap \/ HandshakeEnds \/ BeginStop
           \/ CloseInput \/ KillAfterGrace \/ StopReturns \/ PluginTakes \/ PluginCloses
           \/ PluginDies \/ UNCHANGED vars
           \/ \E c \in Calls : PluginApplies(c) \/ \E code \in Codes : PluginAnswers(c, code)
  <2>1. UNCHANGED <<pc, id, assigned>>
        BY <1>3 DEF Deliver, StopReading, Wake, Reap, HandshakeEnds, BeginStop, CloseInput,
           KillAfterGrace, StopReturns, PluginTakes, PluginCloses, PluginDies, PluginApplies,
           PluginAnswers, callVars, claimVars, vars
  <2>. QED BY <2>1 DEF IDInv, Numbered, Claiming
<1>. QED BY Steps, <1>1, <1>2, <1>3

(* An id once given stays, and a write once made is not unmade.             *)
LEMMA Stays ==
  ASSUME IInv, [Next]_vars
  PROVE  /\ \A c \in Calls : id[c] # 0 => id'[c] = id[c]
         /\ applied \subseteq applied'
<1>. IDInv /\ CallsOK BY DEF IInv, TypeOK
<1>1. ASSUME NEW c \in Calls, Register(c)
      PROVE  (\A d \in Calls : id[d] # 0 => id'[d] = id[d]) /\ applied' = applied
  <2>1. id[c] = 0 BY <1>1 DEF Register, IDInv
  <2>2. id' = [id EXCEPT ![c] = FreshID] /\ applied' = applied
        BY <1>1 DEF Register, pluginVars
  <2>. QED BY <2>1, <2>2 DEF CallsOK
<1>2. ASSUME NEW c \in Calls, \/ Enter(c) \/ TakeSlot(c) \/ LeaveQueue(c) \/ Write(c)
                              \/ WriteFails(c) \/ Answered(c) \/ Unanswered(c) \/ Return(c)
      PROVE  UNCHANGED <<id, applied>>
      BY <1>2 DEF Enter, TakeSlot, LeaveQueue, Write, WriteFails, Answered, Unanswered,
         Return, pluginVars
<1>3. ASSUME NEW c \in Calls, PluginApplies(c) PROVE id' = id /\ applied \subseteq applied'
      BY <1>3 DEF PluginApplies, callVars
<1>4. CASE \/ Deliver \/ StopReading \/ Wake \/ Reap \/ HandshakeEnds \/ BeginStop
           \/ CloseInput \/ KillAfterGrace \/ StopReturns \/ PluginTakes \/ PluginCloses
           \/ PluginDies \/ UNCHANGED vars
           \/ \E c \in Calls : \E code \in Codes : PluginAnswers(c, code)
  <2>. UNCHANGED <<id, applied>>
        BY <1>4 DEF Deliver, StopReading, Wake, Reap, HandshakeEnds, BeginStop, CloseInput,
           KillAfterGrace, StopReturns, PluginTakes, PluginCloses, PluginDies,
           PluginAnswers, callVars, pluginVars, vars
  <2>. QED OBVIOUS
<1>. QED BY Steps, <1>1, <1>2, <1>3, <1>4

(* The plugin works only on calls that were written to it.                  *)
LEMMA Inbound ==
  ASSUME IInv, [Next]_vars
  PROVE  /\ \A c \in taken' : c \in taken \/ \E j \in 1 .. Len(frames) : c = frames[j]
         /\ \A k \in 1 .. Len(frames') : \/ \E j \in 1 .. Len(frames) : frames'[k] = frames[j]
                                         \/ pc[frames'[k]] = "writing"
<1>. PluginOK BY DEF IInv, TypeOK
<1>. DEFINE Goal == /\ \A c \in taken' : c \in taken \/ \E j \in 1 .. Len(frames) : c = frames[j]
                    /\ \A k \in 1 .. Len(frames') :
                         \/ \E j \in 1 .. Len(frames) : frames'[k] = frames[j]
                         \/ pc[frames'[k]] = "writing"
<1>1. ASSUME UNCHANGED <<frames, taken>> PROVE Goal
      BY <1>1
<1>2. ASSUME Dies PROVE Goal
      BY <1>2 DEF Dies
<1>3. ASSUME NEW c \in Calls, Write(c) PROVE Goal
  <2>1. frames' = Append(frames, c) /\ pc[c] = "writing" /\ taken' = taken
        BY <1>3 DEF Write, pluginVars
  <2>2. frames \in Seq(Calls) BY DEF PluginOK
  <2>. QED BY <2>1, <2>2
<1>4. ASSUME PluginTakes PROVE Goal
  <2>1. /\ frames' = Tail(frames) /\ taken' = taken \cup {Head(frames)} /\ frames # <<>>
        BY <1>4 DEF PluginTakes
  <2>2. frames \in Seq(Calls) BY DEF PluginOK
  <2>3. Head(frames) = frames[1] /\ 1 \in 1 .. Len(frames) BY <2>1, <2>2
  <2>4. Len(Tail(frames)) = Len(frames) - 1
        /\ \A i \in 1 .. Len(Tail(frames)) : Tail(frames)[i] = frames[i + 1]
        BY <2>1, <2>2, HeadTailProperties
  <2>5. Len(frames) \in Nat BY <2>2
  <2>6. \A i \in 1 .. Len(Tail(frames)) : i + 1 \in 1 .. Len(frames) BY <2>4, <2>5
  <2>. QED BY <2>1, <2>3, <2>4, <2>6
<1>5. ASSUME NEW c \in Calls, NEW code \in Codes, PluginAnswers(c, code) PROVE Goal
      BY <1>5 DEF PluginAnswers
<1>6. ASSUME Deliver \/ HandshakeEnds \/ KillAfterGrace \/ PluginDies
      PROVE  Dies \/ UNCHANGED <<frames, taken>>
      BY <1>6 DEF Deliver, HandshakeEnds, KillAfterGrace, PluginDies, Kill
<1>7. ASSUME NEW c \in Calls, \/ Enter(c) \/ Register(c) \/ TakeSlot(c) \/ LeaveQueue(c)
                              \/ WriteFails(c) \/ Answered(c) \/ Unanswered(c) \/ Return(c)
                              \/ PluginApplies(c)
      PROVE  UNCHANGED <<frames, taken>>
      BY <1>7 DEF Enter, Register, TakeSlot, LeaveQueue, WriteFails, Answered, Unanswered,
         Return, PluginApplies, pluginVars
<1>8. ASSUME \/ StopReading \/ Wake \/ Reap \/ BeginStop \/ CloseInput \/ StopReturns
             \/ PluginCloses \/ UNCHANGED vars
      PROVE  UNCHANGED <<frames, taken>>
      BY <1>8 DEF StopReading, Wake, Reap, BeginStop, CloseInput, StopReturns, PluginCloses,
         pluginVars, vars
<1>9. Goal BY Steps, <1>1, <1>2, <1>3, <1>4, <1>5, <1>6, <1>7, <1>8
<1>. QED BY <1>9

(* What is in the plugin's output was there before or is a truthful answer  *)
(* to a call it was working on.                                             *)
LEMMA Outbound ==
  ASSUME IInv, [Next]_vars
  PROVE  \A k \in 1 .. Len(replies') :
           \/ \E j \in 1 .. Len(replies) : replies'[k] = replies[j]
           \/ \E c \in taken, code \in Codes :
                Truthful(c, code) /\ replies'[k] = [id |-> id[c], for |-> c, code |-> code]
<1>. DEFINE Reply == [id : IDs, for : Calls, code : Codes]
<1>. replies \in Seq(Reply) BY DEF IInv, TypeOK, PluginOK
<1>. HIDE DEF Reply
<1>. DEFINE Old == \A k \in 1 .. Len(replies') :
                     \E j \in 1 .. Len(replies) : replies'[k] = replies[j]
            New == \A k \in 1 .. Len(replies') :
                     \/ \E j \in 1 .. Len(replies) : replies'[k] = replies[j]
                     \/ \E c \in taken, code \in Codes :
                          /\ Truthful(c, code)
                          /\ replies'[k] = [id |-> id[c], for |-> c, code |-> code]
<1>1. ASSUME UNCHANGED replies PROVE Old
      BY <1>1
<1>2. ASSUME Deliver PROVE Old
  <2>1. replies # <<>> /\ (replies' = Tail(replies) \/ replies' = <<>>) BY <1>2 DEF Deliver
  <2>2. Len(Tail(replies)) = Len(replies) - 1
        /\ \A i \in 1 .. Len(Tail(replies)) : Tail(replies)[i] = replies[i + 1]
        BY <2>1, HeadTailProperties
  <2>3. \A i \in 1 .. Len(Tail(replies)) : i + 1 \in 1 .. Len(replies) BY <2>2
  <2>4. CASE replies' = Tail(replies) BY <2>2, <2>3, <2>4
  <2>5. CASE replies' = <<>> BY <2>5
  <2>. QED BY <2>1, <2>4, <2>5
<1>3. ASSUME Reap PROVE Old
  <2>1. PICK n \in 0 .. Len(replies) : replies' = SubSeq(replies, 1, n) BY <1>3 DEF Reap
  <2>2. \A i \in 1 .. n : replies[i] \in Reply /\ i \in 1 .. Len(replies) OBVIOUS
  <2>3. /\ Len(SubSeq(replies, 1, n)) = IF 1 <= n THEN n - 1 + 1 ELSE 0
        /\ \A i \in 1 .. n - 1 + 1 : SubSeq(replies, 1, n)[i] = replies[1 + i - 1]
        BY <2>2, SubSeqProperties
  <2>4. Len(replies') = n /\ \A i \in 1 .. n : replies'[i] = replies[i] BY <2>1, <2>3
  <2>. QED BY <2>2, <2>4
<1>4. ASSUME NEW c \in Calls, NEW code \in Codes, PluginAnswers(c, code) PROVE New
  <2>. DEFINE r == [id |-> id[c], for |-> c, code |-> code]
  <2>1. replies' = Append(replies, r) /\ c \in taken /\ Truthful(c, code)
        BY <1>4 DEF PluginAnswers
  <2>2. \A k \in 1 .. Len(replies') : k \in 1 .. Len(replies) \/ replies'[k] = r
    <3>. HIDE DEF r
    <3>. QED BY <2>1
  <2>3. \A k \in 1 .. Len(replies) : replies'[k] = replies[k]
    <3>. HIDE DEF r
    <3>. QED BY <2>1
  <2>. QED BY <2>1, <2>2, <2>3
<1>5. ASSUME NEW c \in Calls, \/ Enter(c) \/ Register(c) \/ TakeSlot(c) \/ LeaveQueue(c)
                              \/ Write(c) \/ WriteFails(c) \/ Answered(c) \/ Unanswered(c)
                              \/ Return(c) \/ PluginApplies(c)
      PROVE  UNCHANGED replies
      BY <1>5 DEF Enter, Register, TakeSlot, LeaveQueue, Write, WriteFails, Answered,
         Unanswered, Return, PluginApplies, pluginVars
<1>6. ASSUME \/ StopReading \/ Wake \/ HandshakeEnds \/ BeginStop \/ CloseInput
             \/ KillAfterGrace \/ StopReturns \/ PluginTakes \/ PluginCloses \/ PluginDies
             \/ UNCHANGED vars
      PROVE  UNCHANGED replies
      BY <1>6 DEF StopReading, Wake, HandshakeEnds, BeginStop, CloseInput, KillAfterGrace,
         StopReturns, PluginTakes, PluginCloses, PluginDies, pluginVars, vars
<1>7. Old => New OBVIOUS
<1>8. New
  <2>. HIDE DEF Old, New
  <2>. QED BY Steps, <1>1, <1>2, <1>3, <1>4, <1>5, <1>6, <1>7
<1>. QED BY <1>8

(* A channel is as it was, empty, closed, or holds the answer the read loop *)
(* has just matched with its claim.                                         *)
LEMMA Inboxes ==
  ASSUME IInv, [Next]_vars, NEW c \in Calls
  PROVE  \/ inbox'[c] = inbox[c]
         \/ inbox'[c].code \in {"nothing", "closed"}
         \/ \E k \in 1 .. Len(replies) :
              /\ pending[replies[k].id] = c
              /\ inbox'[c] = [for |-> replies[k].for, code |-> replies[k].code]
<1>. CallsOK /\ HostOK BY DEF IInv, TypeOK
<1>. DEFINE Reply == [id : IDs, for : Calls, code : Codes]
            Goal == \/ inbox'[c] = inbox[c]
                    \/ inbox'[c].code \in {"nothing", "closed"}
                    \/ \E k \in 1 .. Len(replies) :
                         /\ pending[replies[k].id] = c
                         /\ inbox'[c] = [for |-> replies[k].for, code |-> replies[k].code]
<1>1. ASSUME UNCHANGED inbox PROVE Goal BY <1>1
<1>2. ASSUME NEW d \in Calls, Return(d) PROVE Goal
      BY <1>2 DEF Return, Nothing, CallsOK
<1>3. ASSUME Wake PROVE Goal
      BY <1>3 DEF Wake, Closed
<1>4. ASSUME Deliver PROVE Goal
  <2>1. replies \in Seq(Reply) /\ replies # <<>>
        BY <1>4 DEF Deliver, IInv, TypeOK, PluginOK
  <2>2. Head(replies) = replies[1] /\ 1 \in 1 .. Len(replies)
    <3>. HIDE DEF Reply
    <3>. QED BY <2>1
  <2>3. \/ UNCHANGED inbox
        \/ inbox' = [inbox EXCEPT ![pending[Head(replies).id]] =
             [for |-> Head(replies).for, code |-> Head(replies).code]]
        BY <1>4 DEF Deliver
  <2>4. \/ inbox'[c] = inbox[c]
        \/ /\ pending[Head(replies).id] = c
           /\ inbox'[c] = [for |-> Head(replies).for, code |-> Head(replies).code]
        BY <2>3 DEF CallsOK
  <2>. QED BY <2>2, <2>4
<1>5. ASSUME NEW d \in Calls, \/ Enter(d) \/ Register(d) \/ TakeSlot(d) \/ LeaveQueue(d)
                              \/ Write(d) \/ WriteFails(d) \/ Answered(d) \/ Unanswered(d)
                              \/ PluginApplies(d)
                              \/ \E code \in Codes : PluginAnswers(d, code)
      PROVE  UNCHANGED inbox
      BY <1>5 DEF Enter, Register, TakeSlot, LeaveQueue, Write, WriteFails, Answered,
         Unanswered, PluginApplies, PluginAnswers, callVars
<1>6. ASSUME \/ StopReading \/ Reap \/ HandshakeEnds \/ BeginStop \/ CloseInput
             \/ KillAfterGrace \/ StopReturns \/ PluginTakes \/ PluginCloses \/ PluginDies
             \/ UNCHANGED vars
      PROVE  UNCHANGED inbox
      BY <1>6 DEF StopReading, Reap, HandshakeEnds, BeginStop, CloseInput, KillAfterGrace,
         StopReturns, PluginTakes, PluginCloses, PluginDies, callVars, vars
<1>7. Goal
  <2>. HIDE DEF Goal
  <2>. QED BY Steps, <1>1, <1>2, <1>3, <1>4, <1>5, <1>6
<1>. QED BY <1>7

(* What a call came to is what it was, a failure, or the meaning of the     *)
(* answer in its channel.                                                   *)
LEMMA Verdicts ==
  ASSUME IInv, [Next]_vars, NEW c \in Calls, verdict'[c] = "succeeded"
  PROVE  verdict[c] = "succeeded" \/ inbox[c].code = "ok"
<1>. CallsOK BY DEF IInv, TypeOK
<1>1. ASSUME NEW d \in Calls, \/ Enter(d) \/ Register(d) \/ LeaveQueue(d) \/ WriteFails(d)
                              \/ Unanswered(d)
      PROVE  UNCHANGED verdict \/ verdict' = [verdict EXCEPT ![d] = "failed"]
      BY <1>1 DEF Enter, Register, LeaveQueue, WriteFails, Unanswered, Leaves, Records
<1>2. ASSUME NEW d \in Calls, Answered(d)
      PROVE  UNCHANGED verdict \/ verdict' = [verdict EXCEPT ![d] = Meaning(d, inbox[d].code)]
      BY <1>2 DEF Answered, Leaves, Records
<1>3. \A d \in Calls : Meaning(d, inbox[d].code) = "succeeded" => inbox[d].code = "ok"
      BY DEF Meaning
<1>4. ASSUME NEW d \in Calls, \/ TakeSlot(d) \/ Write(d) \/ Return(d) \/ PluginApplies(d)
                              \/ \E code \in Codes : PluginAnswers(d, code)
      PROVE  UNCHANGED verdict
      BY <1>4 DEF TakeSlot, Write, Return, PluginApplies, PluginAnswers, callVars
<1>5. ASSUME \/ Deliver \/ StopReading \/ Wake \/ Reap \/ HandshakeEnds \/ BeginStop
             \/ CloseInput \/ KillAfterGrace \/ StopReturns \/ PluginTakes \/ PluginCloses
             \/ PluginDies \/ UNCHANGED vars
      PROVE  UNCHANGED verdict
      BY <1>5 DEF Deliver, StopReading, Wake, Reap, HandshakeEnds, BeginStop, CloseInput,
         KillAfterGrace, StopReturns, PluginTakes, PluginCloses, PluginDies, callVars, vars
<1>6. \/ UNCHANGED verdict
      \/ \E d \in Calls : verdict' = [verdict EXCEPT ![d] = "failed"]
      \/ \E d \in Calls : verdict' = [verdict EXCEPT ![d] = Meaning(d, inbox[d].code)]
      BY Steps, <1>1, <1>2, <1>4, <1>5
<1>. QED BY <1>3, <1>6 DEF CallsOK

(* Answers stay with the ids of their calls, wherever they are.             *)
LEMMA AnswerNext == ASSUME IInv, [Next]_vars PROVE AnswerInv' /\ AnswersComeHome'
<1>. /\ AnswerInv /\ AnswersComeHome /\ IDInv /\ ClaimInv /\ NobodyWaitsInVain
     /\ CallsOK /\ HostOK /\ PluginOK
     BY DEF IInv, TypeOK
<1>. DEFINE Reply == [id : IDs, for : Calls, code : Codes]
<1>1. replies \in Seq(Reply) /\ frames \in Seq(Calls) BY DEF PluginOK
<1>2. \A k \in 1 .. Len(replies) : replies[k] \in Reply
  <2>. HIDE DEF Reply
  <2>. QED BY <1>1
<1>3. \A k \in 1 .. Len(frames) : frames[k] \in Calls BY <1>1
<1>4. \A c \in Calls : id[c] # 0 => id'[c] = id[c] BY Stays
<1>5. applied \subseteq applied' BY Stays
<1>6. \A c \in taken : c \in Calls /\ id'[c] # 0
      BY <1>4 DEF AnswerInv, PluginOK
<1>7. \A k \in 1 .. Len(frames) : id'[frames[k]] # 0 BY <1>3, <1>4 DEF AnswerInv
<1>8. \A c \in taken' : id'[c] # 0 BY Inbound, <1>6, <1>7
<1>9. \A k \in 1 .. Len(frames') : id'[frames'[k]] # 0
  <2>1. \A k \in 1 .. Len(frames') : frames'[k] \in Calls
    <3>1. frames' \in Seq(Calls) BY PluginNext DEF PluginOK
    <3>. QED BY <3>1
  <2>2. \A c \in Calls : pc[c] = "writing" => id'[c] # 0 BY <1>4 DEF IDInv, Claiming
  <2>. QED BY Inbound, <1>7, <2>1, <2>2
<1>10. ASSUME NEW k \in 1 .. Len(replies)
       PROVE  LET r == replies[k] IN
              /\ r.id = id'[r.for] /\ id'[r.for] # 0
              /\ r.code = "ok" /\ r.for \in Applies => r.for \in applied'
       BY <1>2, <1>4, <1>5 DEF AnswerInv, Sound
<1>11. \A k \in 1 .. Len(replies') : Sound(replies[k])'
  <2>. TAKE k \in 1 .. Len(replies')
  <2>1. CASE \E j \in 1 .. Len(replies) : replies'[k] = replies[j]
        BY <2>1, <1>10 DEF Sound
  <2>2. ASSUME NEW c \in taken, NEW code \in Codes, Truthful(c, code),
               replies'[k] = [id |-> id[c], for |-> c, code |-> code]
        PROVE  Sound(replies[k])'
    <3>1. id'[c] = id[c] /\ id[c] # 0 /\ c \in Calls BY <1>4 DEF AnswerInv, PluginOK
    <3>2. code = "ok" /\ c \in Applies => c \in applied' BY <2>2, <1>5 DEF Truthful
    <3>. QED BY <2>2, <3>1, <3>2 DEF Sound
  <2>. QED BY <2>1, <2>2, Outbound
<1>12. ASSUME NEW c \in Calls
       PROVE  /\ inbox'[c].code = "ok" /\ c \in Applies => c \in applied'
              /\ inbox'[c].code \in Codes => inbox'[c].for = c
  <2>1. CASE inbox'[c] = inbox[c] BY <2>1, <1>5 DEF AnswerInv, AnswersComeHome
  <2>2. CASE inbox'[c].code \in {"nothing", "closed"} BY <2>2, PluginAssumption
  <2>3. ASSUME NEW k \in 1 .. Len(replies), pending[replies[k].id] = c,
               inbox'[c] = [for |-> replies[k].for, code |-> replies[k].code]
        PROVE  inbox'[c].for = c /\ (inbox'[c].code = "ok" /\ c \in Applies => c \in applied')
    <3>1. replies[k].id \in IDs /\ replies[k].for \in Calls BY <1>2
    <3>2. id[c] = replies[k].id BY <2>3, <3>1, PluginAssumption DEF NobodyWaitsInVain
    <3>3. replies[k].id = id[replies[k].for] /\ id[replies[k].for] # 0
          BY DEF AnswerInv, Sound
    <3>4. c = replies[k].for BY <3>1, <3>2, <3>3 DEF IDInv
    <3>. QED BY <2>3, <3>4, <1>10
  <2>. QED BY <2>1, <2>2, <2>3, Inboxes
<1>13. AnswerInv' BY <1>8, <1>9, <1>11, <1>12 DEF AnswerInv
<1>14. \A c \in Calls : c \in Applies /\ verdict'[c] = "succeeded" => c \in applied'
       BY Verdicts, <1>5 DEF AnswerInv, AnswersComeHome
<1>. QED BY <1>12, <1>13, <1>14 DEF AnswersComeHome

(* What the read loop knows of the calls, in three parts.                   *)
Known(c) ==
  pc[c] \in {"queued", "writing", "waiting"} /\ inbox[c] = Nothing =>
    \/ reader = "reading" /\ pending[id[c]] = c
    \/ reader = "stopped" /\ c \in waiters

Claimed(i) ==
  pending[i] # Nobody => id[pending[i]] = i /\ pc[pending[i]] \in Claiming

Emptied == reader # "reading" => pending = Unclaimed

(* A call that moves on while it keeps its claim leaves them true.          *)
LEMMA MovesOn ==
  ASSUME CallsOK, HostOK, NEW c \in Calls, NEW q \in Claiming \ {"queued"},
         pc[c] \in {"queued", "writing", "waiting"}, pc' = [pc EXCEPT ![c] = q],
         UNCHANGED <<id, inbox, claimVars>>,
         \A d \in Calls : Known(d), \A i \in IDs : Claimed(i), Emptied
  PROVE  (\A d \in Calls : Known(d)') /\ (\A i \in IDs : Claimed(i)') /\ Emptied'
<1>1. \A d \in Calls : pc'[d] = IF d = c THEN q ELSE pc[d] BY DEF CallsOK
<1>2. UNCHANGED <<id, inbox, pending, reader, waiters>> BY DEF claimVars
<1>3. \A d \in Calls : Known(d)' BY <1>1, <1>2 DEF Known, Claiming
<1>4. \A i \in IDs : Claimed(i)' BY <1>1, <1>2 DEF Claimed, Claiming, HostOK
<1>5. Emptied' BY <1>2 DEF Emptied, Unclaimed
<1>. QED BY <1>3, <1>4, <1>5

(* What the read loop knows stays true to where the calls are.              *)
LEMMA KnownNext ==
  ASSUME IInv, [Next]_vars
  PROVE  (\A d \in Calls : Known(d)') /\ (\A i \in IDs : Claimed(i)') /\ Emptied'
<1>. DEFINE Goal == (\A d \in Calls : Known(d)') /\ (\A i \in IDs : Claimed(i)') /\ Emptied'
<1>. IDInv /\ CallsOK /\ HostOK /\ PluginOK BY DEF IInv, TypeOK
<1>. /\ \A d \in Calls : Known(d)
     /\ \A i \in IDs : Claimed(i)
     /\ Emptied
     BY DEF IInv, ClaimInv, NobodyWaitsInVain, Known, Claimed, Emptied, Claiming
<1>1. ASSUME NEW c \in Calls, Enter(c) PROVE Goal
  <2>1. UNCHANGED <<id, inbox, pending, reader, waiters>> BY <1>1 DEF Enter, claimVars
  <2>2. /\ pc[c] = "idle" /\ pc'[c] \in {"done", "entered"}
        /\ \A d \in Calls : d # c => pc'[d] = pc[d]
        BY <1>1 DEF Enter, CallsOK
  <2>3. \A d \in Calls : Known(d)' BY <2>1, <2>2 DEF Known
  <2>4. \A i \in IDs : Claimed(i)' BY <2>1, <2>2 DEF Claimed, Claiming, HostOK
  <2>. QED BY <2>1, <2>3, <2>4 DEF Emptied, Unclaimed
<1>2. ASSUME NEW c \in Calls, Register(c) PROVE Goal
  <2>1. FreshID \in IDs BY <1>2, FreshIsAnID DEF Register, IInv
  <2>2. /\ UNCHANGED <<inbox, reader, waiters>> /\ pc[c] = "entered"
        /\ \A d \in Calls : id'[d] = IF d = c THEN FreshID ELSE id[d]
        BY <1>2 DEF Register, CallsOK
  <2>3. \A d \in Calls : id[d] # FreshID
    <3>1. \A d \in Calls : id[d] <= assigned /\ id[d] \in Nat BY DEF IDInv, CallsOK, IDs
    <3>. QED BY <3>1 DEF FreshID, HostOK
  <2>4. CASE Refuses
    <3>1. /\ UNCHANGED pending
          /\ \A d \in Calls : pc'[d] = IF d = c THEN "done" ELSE pc[d]
          BY <1>2, <2>4 DEF Register, CallsOK
    <3>2. pending = Unclaimed BY <2>4 DEF Refuses, Emptied
    <3>3. \A d \in Calls : Known(d)' BY <2>2, <3>1 DEF Known
    <3>4. \A i \in IDs : Claimed(i)' BY <3>1, <3>2 DEF Claimed, Unclaimed
    <3>. QED BY <2>2, <3>1, <3>3, <3>4 DEF Emptied, Unclaimed
  <2>5. CASE ~Refuses
    <3>1. /\ \A d \in Calls : pc'[d] = IF d = c THEN "queued" ELSE pc[d]
          /\ \A i \in IDs : pending'[i] = IF i = FreshID THEN c ELSE pending[i]
          BY <1>2, <2>5 DEF Register, CallsOK, HostOK
    <3>2. reader = "reading" /\ reader' = "reading" BY <2>2, <2>5 DEF Refuses
    <3>3. \A d \in Calls : id[d] \in IDs \cup {0} BY DEF CallsOK
    <3>4. Known(c)' BY <2>1, <2>2, <3>1, <3>2 DEF Known
    <3>5. ASSUME NEW d \in Calls, d # c PROVE Known(d)'
      <4>1. pc[d] \in {"queued", "writing", "waiting"} => id[d] \in IDs
            BY <3>3 DEF IDInv, Claiming
      <4>2. pc'[d] = pc[d] /\ id'[d] = id[d] /\ inbox'[d] = inbox[d]
            BY <2>2, <3>1, <3>5
      <4>3. id[d] \in IDs => pending'[id[d]] = pending[id[d]] BY <2>3, <3>1
      <4>. QED BY <3>2, <4>1, <4>2, <4>3 DEF Known, Nothing
    <3>6. ASSUME NEW i \in IDs PROVE Claimed(i)'
      <4>1. CASE i = FreshID BY <2>1, <2>2, <3>1, <4>1 DEF Claimed, Claiming
      <4>2. CASE i # FreshID
        <5>1. pending'[i] = pending[i] /\ pending[i] \in Calls \cup {Nobody}
              BY <3>1, <4>2 DEF HostOK
        <5>2. pending[i] # Nobody => pending[i] # c
              BY <2>2 DEF Claimed, Claiming
        <5>. QED BY <2>2, <3>1, <5>1, <5>2 DEF Claimed, Claiming
      <4>. QED BY <4>1, <4>2
    <3>. QED BY <3>2, <3>4, <3>5, <3>6 DEF Emptied
  <2>. QED BY <2>4, <2>5
<1>3. ASSUME NEW c \in Calls, TakeSlot(c) \/ LeaveQueue(c) \/ Write(c) \/ WriteFails(c)
                              \/ Answered(c) \/ Unanswered(c)
      PROVE  Goal
  <2>1. UNCHANGED <<id, inbox, claimVars>>
        BY <1>3 DEF TakeSlot, LeaveQueue, Write, WriteFails, Answered, Unanswered
  <2>2. /\ pc[c] \in {"queued", "writing", "waiting"}
        /\ \E q \in Claiming \ {"queued"} : pc' = [pc EXCEPT ![c] = q]
        BY <1>3 DEF TakeSlot, LeaveQueue, Write, WriteFails, Answered, Unanswered, Leaves,
           Claiming
  <2>. QED BY <2>1, <2>2, MovesOn
<1>4. ASSUME NEW c \in Calls, Return(c) PROVE Goal
  <2>1. /\ UNCHANGED <<id, reader, waiters>> /\ pc[c] = "leaving"
        /\ \A d \in Calls : pc'[d] = IF d = c THEN "done" ELSE pc[d]
        /\ \A d \in Calls : d # c => inbox'[d] = inbox[d]
        /\ \A i \in IDs : pending'[i] = IF i = id[c] THEN Nobody ELSE pending[i]
        /\ pending' = [pending EXCEPT ![id[c]] = Nobody]
        BY <1>4 DEF Return, CallsOK, HostOK
  <2>2. \A d \in Calls : pc[d] \in Claiming => id[d] \in IDs
        BY DEF IDInv, CallsOK
  <2>3. \A d \in Calls : d # c /\ pc[d] \in Claiming => id[d] # id[c]
        BY <2>2 DEF IDInv
  <2>4. ASSUME NEW d \in Calls PROVE Known(d)'
    <3>1. CASE d = c BY <2>1, <3>1 DEF Known
    <3>2. CASE d # c
      <4>1. pc'[d] = pc[d] /\ id'[d] = id[d] /\ inbox'[d] = inbox[d] BY <2>1, <3>2
      <4>2. pc[d] \in Claiming => pending'[id[d]] = pending[id[d]]
            BY <2>1, <2>2, <2>3, <3>2
      <4>. QED BY <2>1, <4>1, <4>2 DEF Known, Nothing, Claiming
    <3>. QED BY <3>1, <3>2
  <2>5. ASSUME NEW i \in IDs PROVE Claimed(i)'
    <3>1. pending'[i] # Nobody => pending'[i] = pending[i] /\ i # id[c] BY <2>1
    <3>2. pending[i] \in Calls \cup {Nobody} BY DEF HostOK
    <3>3. pending'[i] # Nobody => pending[i] # c BY <3>1 DEF Claimed
    <3>. QED BY <2>1, <3>1, <3>2, <3>3 DEF Claimed
  <2>6. Emptied'
    <3>1. pending = Unclaimed => pending' = Unclaimed BY <2>1 DEF Unclaimed
    <3>. QED BY <2>1, <3>1 DEF Emptied, Unclaimed
  <2>. QED BY <2>4, <2>5, <2>6
<1>5. ASSUME Deliver PROVE Goal
  <2>. DEFINE r == Head(replies)
              c == pending[r.id]
  <2>1. r \in [id : IDs, for : Calls, code : Codes]
        BY <1>5, HeadTailProperties DEF Deliver, PluginOK
  <2>2. /\ UNCHANGED <<pc, id, reader, waiters>> /\ reader = "reading"
        /\ \/ UNCHANGED <<inbox, pending>>
           \/ /\ c # Nobody
              /\ inbox' = [inbox EXCEPT ![c] = [for |-> r.for, code |-> r.code]]
              /\ pending' = [pending EXCEPT ![r.id] = Nobody]
        BY <1>5 DEF Deliver
  <2>3. CASE UNCHANGED <<inbox, pending>>
        BY <2>2, <2>3 DEF Known, Claimed, Emptied, Unclaimed, Nothing
  <2>4. CASE /\ c # Nobody
             /\ inbox' = [inbox EXCEPT ![c] = [for |-> r.for, code |-> r.code]]
             /\ pending' = [pending EXCEPT ![r.id] = Nobody]
    <3>1. c \in Calls /\ r.id \in IDs /\ r.code \in Codes BY <2>1, <2>4 DEF HostOK
    <3>2. [for |-> r.for, code |-> r.code] # Nothing
          BY <3>1, PluginAssumption DEF Nothing
    <3>3. \A d \in Calls : inbox'[d] = Nothing => d # c /\ inbox[d] = Nothing
          BY <2>4, <3>1, <3>2 DEF CallsOK
    <3>4. \A i \in IDs : pending'[i] = IF i = r.id THEN Nobody ELSE pending[i]
          BY <2>4, <3>1 DEF HostOK
    <3>5. ASSUME NEW d \in Calls PROVE Known(d)'
      <4>1. pc[d] \in {"queued", "writing", "waiting"} => id[d] \in IDs
            BY DEF IDInv, CallsOK, Claiming
      <4>2. d # c /\ pending[id[d]] = d => id[d] # r.id OBVIOUS
      <4>. QED BY <2>2, <3>3, <3>4, <4>1, <4>2 DEF Known, Nothing
    <3>6. \A i \in IDs : Claimed(i)' BY <2>2, <3>4 DEF Claimed
    <3>. QED BY <2>2, <3>5, <3>6 DEF Emptied
  <2>. QED BY <2>2, <2>3, <2>4
<1>6. ASSUME StopReading PROVE Goal
  <2>1. /\ UNCHANGED <<pc, id, inbox>> /\ reader = "reading" /\ reader' = "stopped"
        /\ waiters' = {pending[i] : i \in IDs} \ {Nobody} /\ pending' = Unclaimed
        BY <1>6 DEF StopReading, callVars
  <2>2. ASSUME NEW d \in Calls PROVE Known(d)'
    <3>1. pc[d] \in {"queued", "writing", "waiting"} => id[d] \in IDs
          BY DEF IDInv, CallsOK, Claiming
    <3>2. id[d] \in IDs /\ pending[id[d]] = d => d \in waiters' BY <2>1, PluginAssumption
    <3>. QED BY <2>1, <3>1, <3>2 DEF Known, Nothing
  <2>3. \A i \in IDs : Claimed(i)' BY <2>1 DEF Claimed, Unclaimed
  <2>. QED BY <2>1, <2>2, <2>3 DEF Emptied, Unclaimed
<1>7. ASSUME Wake PROVE Goal
  <2>1. /\ UNCHANGED <<pc, id, pending>> /\ reader = "stopped" /\ reader' = "done"
        /\ \A d \in Calls : inbox'[d] = IF d \in waiters THEN Closed ELSE inbox[d]
        BY <1>7 DEF Wake
  <2>2. Closed # Nothing BY DEF Closed, Nothing
  <2>3. \A d \in Calls : Known(d)' BY <2>1, <2>2 DEF Known, Nothing
  <2>4. \A i \in IDs : Claimed(i)' BY <2>1 DEF Claimed
  <2>. QED BY <2>1, <2>3, <2>4 DEF Emptied, Unclaimed
<1>8. ASSUME \/ Reap \/ HandshakeEnds \/ BeginStop \/ CloseInput \/ KillAfterGrace
             \/ StopReturns \/ PluginTakes \/ PluginCloses \/ PluginDies \/ UNCHANGED vars
             \/ \E c \in Calls : PluginApplies(c) \/ \E code \in Codes : PluginAnswers(c, code)
      PROVE  Goal
  <2>1. UNCHANGED <<pc, id, inbox, pending, reader, waiters>>
        BY <1>8 DEF Reap, HandshakeEnds, BeginStop, CloseInput, KillAfterGrace, StopReturns,
           PluginTakes, PluginCloses, PluginDies, PluginApplies, PluginAnswers, vars,
           callVars, claimVars
  <2>. QED BY <2>1 DEF Known, Claimed, Emptied, Unclaimed, Nothing
<1>9. Goal
  <2>. HIDE DEF Goal
  <2>. QED BY Steps, <1>1, <1>2, <1>3, <1>4, <1>5, <1>6, <1>7, <1>8
<1>. QED BY <1>9

(* The pipe is held by a call that writes.                                  *)
LEMMA SlotNext == ASSUME IInv, [Next]_vars PROVE slot' # Nobody => pc'[slot'] = "writing"
<1>. CallsOK /\ HostOK /\ (slot # Nobody => pc[slot] = "writing")
     BY DEF IInv, TypeOK, NobodyWaitsInVain
<1>1. ASSUME NEW c \in Calls, \/ Enter(c) \/ Register(c) \/ LeaveQueue(c) \/ Answered(c)
                              \/ Unanswered(c) \/ Return(c)
      PROVE  /\ slot' = slot /\ pc[c] # "writing"
             /\ \A d \in Calls : d # c => pc'[d] = pc[d]
      BY <1>1 DEF Enter, Register, LeaveQueue, Answered, Unanswered, Return, Leaves, CallsOK
<1>2. ASSUME NEW c \in Calls, TakeSlot(c)
      PROVE  slot' = c /\ pc' = [pc EXCEPT ![c] = "writing"]
      BY <1>2 DEF TakeSlot
<1>3. ASSUME NEW c \in Calls, Write(c) \/ WriteFails(c) PROVE slot' = Nobody
      BY <1>3 DEF Write, WriteFails
<1>4. ASSUME \/ Deliver \/ StopReading \/ Wake \/ Reap \/ HandshakeEnds \/ BeginStop
             \/ CloseInput \/ KillAfterGrace \/ StopReturns \/ PluginTakes \/ PluginCloses
             \/ PluginDies \/ UNCHANGED vars
             \/ \E c \in Calls : PluginApplies(c) \/ \E code \in Codes : PluginAnswers(c, code)
      PROVE  UNCHANGED <<slot, pc>>
      BY <1>4 DEF Deliver, StopReading, Wake, Reap, HandshakeEnds, BeginStop, CloseInput,
         KillAfterGrace, StopReturns, PluginTakes, PluginCloses, PluginDies, PluginApplies,
         PluginAnswers, vars, callVars
<1>. QED BY Steps, <1>1, <1>2, <1>3, <1>4 DEF CallsOK, HostOK

(* The strengthening is inductive.                                          *)
LEMMA NextInv == ASSUME IInv, [Next]_vars PROVE IInv'
<1>1. TypeOK' BY CallsNext, HostNext, PluginNext DEF TypeOK
<1>2. ClaimInv' /\ NobodyWaitsInVain'
      BY KnownNext, SlotNext
      DEF ClaimInv, NobodyWaitsInVain, Known, Claimed, Emptied, Claiming, Unclaimed, Nothing
<1>. QED BY <1>1, <1>2, IDNext, AnswerNext DEF IInv

(* It holds throughout every behaviour.                                     *)
LEMMA Invariance == Spec => []IInv
<1>1. IInv /\ [Next]_vars => IInv' BY NextInv
<1>. QED BY InitInv, <1>1, PTL DEF Spec

(* Every reachable state of a plugin process and its calls is well typed,   *)
(* and there is always an id left for a call that asks for one.             *)
THEOREM TypeCorrect == Spec => []TypeOK
<1>1. IInv => TypeOK BY DEF IInv
<1>. QED BY <1>1, Invariance, PTL

(* A call finds only its own answer, and a write that is recorded as done   *)
(* was made, whatever timed out, was lost or came late.                     *)
THEOREM NoAnswerStrays == Spec => []AnswersComeHome
<1>1. IInv => AnswersComeHome BY DEF IInv
<1>. QED BY <1>1, Invariance, PTL

(* A call without its answer is one the read loop knows of or is about to   *)
(* wake, whenever the loop stops.                                           *)
THEOREM EveryWaiterIsKnown == Spec => []NobodyWaitsInVain
<1>1. IInv => NobodyWaitsInVain BY DEF IInv
<1>. QED BY <1>1, Invariance, PTL
=============================================================================
