---------------------------- MODULE Idempotency ----------------------------
(***************************************************************************)
(* How proposals of one intent collapse.  Two mechanisms decide it: the    *)
(* idempotency record, which has a deadline and a request hash, and the    *)
(* partial unique index over operations that have not reached a terminal   *)
(* state.  Propose reads the record outside its transaction, so any number *)
(* of calls can be between that read and the insert.                       *)
(*                                                                         *)
(* A call and the operation it may create share an identifier.  One plugin *)
(* is modelled: the record's scope and the index both start with it.       *)
(***************************************************************************)
EXTENDS Integers

CONSTANTS
  Calls,       \* calls of Propose, and the operation ids they draw
  Payloads,    \* request bodies, which are also their hashes
  ActionOf,    \* the action each body names; the hash covers it
  Keys,        \* idempotency keys chosen by clients
  Nil,
  TTL,         \* IdempotencyTTL, twice the proposal lifetime
  LastHour      \* bound: the clock stops here

ASSUME NameAssumption == Nil \notin Calls /\ Nil \notin Payloads /\ Nil \notin Keys
ASSUME ConflictAssumption == "conflict" \notin Calls
ASSUME TimeAssumption == TTL \in Nat \ {0} /\ LastHour \in Nat

(* With no key from the client the payload hash is the key. *)
Key == Keys \cup Payloads

VARIABLES
  status, createdAt,      \* the operations table
  record,                 \* idempotency_records
  stage, key, payload,    \* a call: where it is and what it asks for
  seen,                   \* the record the call read
  stamp,                  \* the time it will use in its transaction
  result,                 \* what it returned: an operation, or a conflict
  hour

table == <<status, createdAt, record>>
proposeVars == <<table, stage, key, payload, seen, stamp, result, hour>>

Record == [op : Calls, hash : Payloads, expiresAt : Nat]

ASSUME NilAssumption == Nil \notin Record

(* The states the index counts; the rest are "absent" and "terminal". *)
Live == {"pending", "indeterminate"}

ProposeTypeOK ==
  /\ status \in [Calls -> Live \cup {"absent", "terminal"}]
  /\ createdAt \in [Calls -> Nat]
  /\ record \in [Key -> Record \cup {Nil}]
  /\ stage \in [Calls -> {"idle", "looked", "inserting", "done"}]
  /\ key \in [Calls -> Key \cup {Nil}]
  /\ payload \in [Calls -> Payloads \cup {Nil}]
  /\ seen \in [Calls -> Record \cup {Nil}]
  /\ stamp \in [Calls -> Nat]
  /\ result \in [Calls -> Calls \cup {Nil, "conflict"}]
  /\ hour \in Nat
  /\ \A c \in Calls : stage[c] \in {"looked", "inserting"} \/ status[c] # "absent"
                        => key[c] \in Key /\ payload[c] \in Payloads

ProposeInit ==
  /\ status = [c \in Calls |-> "absent"]
  /\ createdAt = [c \in Calls |-> 0]
  /\ record = [k \in Key |-> Nil]
  /\ stage = [c \in Calls |-> "idle"]
  /\ key = [c \in Calls |-> Nil]
  /\ payload = [c \in Calls |-> Nil]
  /\ seen = [c \in Calls |-> Nil]
  /\ stamp = [c \in Calls |-> 0]
  /\ result = [c \in Calls |-> Nil]
  /\ hour = 0

(* byIdempotencyKey, the query: read the record of the key. *)
Look(c, k, p) ==
  /\ stage[c] = "idle"
  /\ k \in Keys \cup {p}
  /\ key' = [key EXCEPT ![c] = k]
  /\ payload' = [payload EXCEPT ![c] = p]
  /\ seen' = [seen EXCEPT ![c] = record[k]]
  /\ stage' = [stage EXCEPT ![c] = "looked"]
  /\ UNCHANGED <<table, stamp, result, hour>>

Return(c, r) == /\ stage' = [stage EXCEPT ![c] = "done"]
                /\ result' = [result EXCEPT ![c] = r]
                /\ seen' = [seen EXCEPT ![c] = Nil]
                /\ stamp' = [stamp EXCEPT ![c] = 0]

(* byIdempotencyKey, the judgement: a record within its time either answers *)
(* for the same body or refuses another one.                                *)
Replay(c) == seen[c] # Nil /\ hour <= seen[c].expiresAt

(* Mutant of SameBody: a record answers whatever body is asked for.        *)
MutantSameBody(c) == TRUE

SameBody(c) == seen[c].hash = payload[c]

Answer(c) ==
  /\ stage[c] = "looked"
  /\ Replay(c)
  /\ Return(c, IF SameBody(c) THEN seen[c].op ELSE "conflict")
  /\ UNCHANGED <<table, key, payload, hour>>

(* Nothing to replay: the clock is read and the transaction is queued for   *)
(* the single writer.                                                       *)
Stamp(c) ==
  /\ stage[c] = "looked"
  /\ ~Replay(c)
  /\ stamp' = [stamp EXCEPT ![c] = hour]
  /\ stage' = [stage EXCEPT ![c] = "inserting"]
  /\ UNCHANGED <<table, key, payload, seen, result, hour>>

(* ux_operations_idem: no other live row of the same action and key. *)
SameIntent(c, d) == key[c] = key[d] /\ ActionOf[payload[c]] = ActionOf[payload[d]]

(* Mutant of IndexAdmits: an indeterminate row is not counted as live.      *)
MutantIndexAdmits(c) == \A d \in Calls \ {c} : status[d] = "pending" => ~SameIntent(c, d)

IndexAdmits(c) == \A d \in Calls \ {c} : status[d] \in Live => ~SameIntent(c, d)

(* The upsert overwrites a record only once it has expired. *)
RecordYields(c) == record[key[c]] # Nil => record[key[c]].expiresAt <= stamp[c]

Insert(c) ==
  /\ stage[c] = "inserting"
  /\ IndexAdmits(c)
  /\ RecordYields(c)
  /\ status' = [status EXCEPT ![c] = "pending"]
  /\ createdAt' = [createdAt EXCEPT ![c] = hour]
  /\ record' = [record EXCEPT ![key[c]] =
                  [op |-> c, hash |-> payload[c], expiresAt |-> hour + TTL]]
  /\ Return(c, c)
  /\ UNCHANGED <<key, payload, hour>>

Conflict(c) ==
  /\ stage[c] = "inserting"
  /\ ~(IndexAdmits(c) /\ RecordYields(c))
  /\ Return(c, "conflict")
  /\ UNCHANGED <<table, key, payload, hour>>

(* The process stops or the client gives up: the call ends without an       *)
(* answer, before its transaction or after it.                              *)
Abandon(c) ==
  /\ stage[c] \in {"looked", "inserting"} \/ (stage[c] = "done" /\ result[c] # Nil)
  /\ Return(c, Nil)
  /\ UNCHANGED <<table, key, payload, hour>>

(* The rest of an operation's life, as the index sees it.  A late settlement*)
(* may also put a terminal operation back to indeterminate, if the index    *)
(* lets the UPDATE through.                                                 *)
Moves == {<<"pending", "terminal">>, <<"pending", "indeterminate">>,
          <<"indeterminate", "terminal">>, <<"terminal", "indeterminate">>}

Move(o, to) ==
  /\ <<status[o], to>> \in Moves
  /\ to \in Live => IndexAdmits(o)
  /\ status' = [status EXCEPT ![o] = to]
  /\ UNCHANGED <<createdAt, record, stage, key, payload, seen, stamp, result, hour>>

ProposeTick ==
  /\ hour < LastHour
  /\ hour' = hour + 1
  /\ UNCHANGED <<table, stage, key, payload, seen, stamp, result>>

ProposeNext ==
  \/ \E c \in Calls :
       \/ \E k \in Key, p \in Payloads : Look(c, k, p)
       \/ Answer(c)
       \/ Stamp(c)
       \/ Insert(c)
       \/ Conflict(c)
       \/ Abandon(c)
       \/ \E to \in {"terminal", "indeterminate"} : Move(c, to)
  \/ ProposeTick

ProposeSpec == ProposeInit /\ [][ProposeNext]_proposeVars

-----------------------------------------------------------------------------
Rows == {c \in Calls : status[c] # "absent"}

(* Two operations under one key were created at least one window apart: a   *)
(* retry of a proposal, raced, abandoned after its commit or stamped before *)
(* a long wait for the writer, never makes a second operation inside it.    *)
OnePerWindow ==
  \A a, b \in Rows : a # b /\ key[a] = key[b]
    => createdAt[a] + TTL <= createdAt[b] \/ createdAt[b] + TTL <= createdAt[a]

(* One intent has at most one operation that may still change something or  *)
(* may already have: an indeterminate one blocks a second attempt for good. *)
OneLivePerIntent ==
  \A a, b \in Rows : a # b /\ SameIntent(a, b) => ~(status[a] \in Live /\ status[b] \in Live)

(* Repeated proposals collapse: within its window a key makes one           *)
(* operation, and an intent never has two live ones, whatever the calls     *)
(* read before they committed.                                              *)
RepeatsCollapse == OnePerWindow /\ OneLivePerIntent

(* A caller answered with an operation gets the one that carries its body,  *)
(* even when a body was stored under the same key by somebody else.         *)
AnswerIsWhatWasAsked ==
  \A c \in Calls : result[c] \in Calls
    => /\ result[c] \in Rows
       /\ payload[result[c]] = payload[c]
       /\ key[result[c]] = key[c]

(* The record of a key names the newest operation of that key, whatever     *)
(* order the calls looked and committed in.                                 *)
RecordNamesNewest ==
  \A a \in Rows : /\ record[key[a]] # Nil
                  /\ record[key[a]].op \in Rows
                  /\ createdAt[record[key[a]].op] >= createdAt[a]
                  /\ key[record[key[a]].op] = key[a]
                  /\ record[key[a]].hash = payload[record[key[a]].op]

(* Whoever asks again is answered with the change they asked for, and the   *)
(* next to ask under a key will be judged by its newest operation.          *)
AnswersAreTheirOwn == AnswerIsWhatWasAsked /\ RecordNamesNewest
=============================================================================
