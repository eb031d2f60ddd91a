------------------------------- MODULE Resume -------------------------------
(***************************************************************************)
(* lifecore/store/resume.py: checkpointed(store, key, action), called by   *)
(* the processes of a pipeline that crashes and is resumed, possibly while *)
(* another process is still running it.                                    *)
(*                                                                         *)
(* The action of a step is either a paid call, whose answer differs from   *)
(* call to call, or an append to the store under an idempotency key of its *)
(* own (the two uses the module and its tests name).                       *)
(*                                                                         *)
(* Store.execute is a statement and then commit(), and nothing rolls back  *)
(* (module Store models the locks by which either comes to fail).  Here a  *)
(* failed INSERT may leave the connection with the write lock, and a       *)
(* failed commit also with its row, which that connection sees and nobody  *)
(* else; the next commit of the connection publishes it, and the end of    *)
(* the connection loses it.  A caller that closes its store on every error *)
(* is one whose process ends right after it.                               *)
(***************************************************************************)
EXTENDS Naturals, FiniteSets

CONSTANTS
  Workers,      \* processes, each with a connection
  PaidKeys,     \* keys whose action is a paid call
  AppendKeys,   \* keys whose action appends a row under an idempotency key
  Values,       \* what actions return
  Json,         \* Json[v]: v after a round trip through canonical JSON
  None,         \* nothing recorded, nothing in hand, nobody
  MaxFaults     \* bound: crashes and raised errors

Keys == PaidKeys \cup AppendKeys

ASSUME ResumeAssumption ==
  /\ PaidKeys \cap AppendKeys = {}
  /\ None \notin Values \cup Keys \cup Workers
  /\ Json \in [Values -> Values]
  /\ \A v \in Values : Json[Json[v]] = Json[v]
  /\ IsFiniteSet(Workers)
  /\ MaxFaults \in Nat

VARIABLES
  checkpoint,   \* the checkpoint table: the decoded result_json of each key
  row,          \* the row an append action has written, by key
  holder,       \* the worker whose connection has the write transaction
  draft,        \* both tables, with what that transaction has not committed
  pc,           \* where each worker is in checkpointed()
  key,          \* the key it was called with
  result,       \* the result it holds
  effects,      \* history: how often each action has run
  wasted,       \* history: results lost between the action and the checkpoint
  returned,     \* history: what calls returned, [key, value]
  faults        \* history: crashes and errors so far

tables == <<checkpoint, row, holder, draft>>
call == <<pc, key, result>>
history == <<effects, wasted, returned, faults>>
vars == <<tables, call, history>>

\* What a connection can find in the two tables.
Contents ==
  [checkpoint : [Keys -> Values \cup {None}], row : [AppendKeys -> Values \cup {None}]]

Committed == [checkpoint |-> checkpoint, row |-> row]

Init ==
  /\ checkpoint = [k \in Keys |-> None]
  /\ row = [k \in AppendKeys |-> None]
  /\ holder = None
  /\ draft = Committed
  /\ pc = [w \in Workers |-> "idle"]
  /\ key = [w \in Workers |-> None]
  /\ result = [w \in Workers |-> None]
  /\ effects = [k \in Keys |-> 0]
  /\ wasted = [k \in Keys |-> 0]
  /\ returned = {}
  /\ faults = 0

Goto(w, label) == pc' = [pc EXCEPT ![w] = label]

---------------------------------------------------------------------------
(* The connection of a worker.                                             *)

Sees(w) == IF holder = w THEN draft ELSE Committed

CanWrite(w) == holder \in {None, w}

Recorded(w) == Sees(w).checkpoint[key[w]]

\* The tables with one row more.
Inserted(w) == [Sees(w) EXCEPT !.checkpoint[key[w]] = Json[result[w]]]
Appended(w, v) == [Sees(w) EXCEPT !.row[key[w]] = Json[v]]

\* commit(): all that the transaction holds, not only the last row.
Publish(contents) ==
  /\ checkpoint' = contents.checkpoint
  /\ row' = contents.row
  /\ draft' = contents
  /\ holder' = None

\* The transaction stays open, with the write lock and these contents.
Leave(w, contents) ==
  /\ holder' = w
  /\ draft' = contents
  /\ UNCHANGED <<checkpoint, row>>

\* Mutant of CommitAfterSelect: a lookup like that of Store._append, without commit.
SelectAlone(w) == UNCHANGED tables

\* execute(SELECT ...) commits too, and so publishes what an earlier call left behind.
CommitAfterSelect(w) ==
  \/ /\ holder = w
     /\ Publish(draft)
  \/ /\ holder # w
     /\ UNCHANGED tables

\* The connection ends: SQLite rolls its transaction back.
Rollback(w) ==
  \/ /\ holder = w
     /\ Publish(Committed)
  \/ /\ holder # w
     /\ UNCHANGED tables

---------------------------------------------------------------------------
(* checkpointed.                                                           *)

\* A process reaches the step: it is called for the first time or resumed.
Call(w, k) ==
  /\ pc[w] = "idle"
  /\ key' = [key EXCEPT ![w] = k]
  /\ Goto(w, "load")
  /\ UNCHANGED <<tables, result, history>>

\* found: the decoded result goes back to the caller, the action does not run.
LoadHit(w) ==
  /\ pc[w] = "load"
  /\ Recorded(w) # None
  /\ result' = [result EXCEPT ![w] = Recorded(w)]
  /\ CommitAfterSelect(w)
  /\ Goto(w, "return")
  /\ UNCHANGED <<key, history>>

\* Mutant of LoadMiss: a step that was started once is not started again.
LoadMissUnlessStarted(w) ==
  /\ pc[w] = "load"
  /\ Recorded(w) = None
  /\ CommitAfterSelect(w)
  /\ LET again == effects[key[w]] # 0 IN
       /\ Goto(w, IF again THEN "idle" ELSE "act")
       /\ key' = [key EXCEPT ![w] = IF again THEN None ELSE @]
  /\ UNCHANGED <<result, history>>

LoadMiss(w) ==
  /\ pc[w] = "load"
  /\ Recorded(w) = None
  /\ CommitAfterSelect(w)
  /\ Goto(w, "act")
  /\ UNCHANGED <<key, result, history>>

\* The effect happens whether or not anything remembers it.
Paid(w) ==
  /\ key[w] \in PaidKeys
  /\ \E v \in Values : result' = [result EXCEPT ![w] = v]
  /\ UNCHANGED tables

\* Store._append under a key: the row that is there is returned, and nothing committed.
AppendFinds(w) ==
  /\ key[w] \in AppendKeys
  /\ Sees(w).row[key[w]] # None
  /\ result' = [result EXCEPT ![w] = Sees(w).row[key[w]]]
  /\ UNCHANGED tables

\* Mutant of AppendInserts: the append carries no idempotency key.
AppendUnkeyed(w) ==
  /\ key[w] \in AppendKeys
  /\ CanWrite(w)
  /\ \E v \in Values :
       /\ Publish(Appended(w, v))
       /\ result' = [result EXCEPT ![w] = Json[v]]

AppendInserts(w) ==
  /\ key[w] \in AppendKeys
  /\ CanWrite(w)
  /\ Sees(w).row[key[w]] = None
  /\ \E v \in Values :
       /\ Publish(Appended(w, v))
       /\ result' = [result EXCEPT ![w] = Json[v]]

\* Mutant of Act: the checkpoint is written before the side effect.
ActAfterCheckpoint(w) ==
  /\ pc[w] = "act"
  /\ CanWrite(w)
  /\ Recorded(w) = None
  /\ \E v \in Values :
       /\ Publish([Sees(w) EXCEPT !.checkpoint[key[w]] = Json[v]])
       /\ result' = [result EXCEPT ![w] = v]
  /\ Goto(w, "record")
  /\ UNCHANGED <<key, history>>

\* result = action()
Act(w) ==
  /\ pc[w] = "act"
  /\ Paid(w) \/ AppendFinds(w) \/ AppendInserts(w)
  /\ effects' = [effects EXCEPT ![key[w]] = @ + 1]
  /\ Goto(w, "record")
  /\ UNCHANGED <<key, wasted, returned, faults>>

\* Mutant of Record: INSERT OR REPLACE, the later result wins.
RecordOverwrites(w) ==
  /\ pc[w] = "record"
  /\ CanWrite(w)
  /\ Publish(Inserted(w))
  /\ Goto(w, "return")
  /\ UNCHANGED <<key, result, history>>

\* INSERT INTO checkpoint, and commit.
Record(w) ==
  /\ pc[w] = "record"
  /\ CanWrite(w)
  /\ Recorded(w) = None
  /\ Publish(Inserted(w))
  /\ Goto(w, "return")
  /\ UNCHANGED <<key, result, history>>

Return(w) ==
  /\ pc[w] = "return"
  /\ returned' = returned \cup {[key |-> key[w], value |-> result[w]]}
  /\ Goto(w, "idle")
  /\ key' = [key EXCEPT ![w] = None]
  /\ result' = [result EXCEPT ![w] = None]
  /\ UNCHANGED <<tables, effects, wasted, faults>>

---------------------------------------------------------------------------
(* What interrupts it.                                                     *)

\* Keys whose result w has in hand, or in a row it has not committed.
Held(w) == IF pc[w] = "record" THEN {key[w]} ELSE {}
Uncommitted(w) == {k \in Keys : Sees(w).checkpoint[k] # checkpoint[k]}

Waste(lost) == wasted' = [k \in Keys |-> IF k \in lost THEN wasted[k] + 1 ELSE wasted[k]]

\* The call is over without an answer: what it held is forgotten.
Abandon(w) ==
  /\ Goto(w, "idle")
  /\ key' = [key EXCEPT ![w] = None]
  /\ result' = [result EXCEPT ![w] = None]
  /\ UNCHANGED <<effects, returned>>

\* Another process recorded the key first: IntegrityError.  The statement is undone,
\* its transaction stays open.
RecordRefused(w) ==
  /\ pc[w] = "record"
  /\ CanWrite(w)
  /\ Recorded(w) # None
  /\ Leave(w, Sees(w))
  /\ Waste(Held(w))
  /\ Abandon(w)
  /\ UNCHANGED faults

AFault == faults < MaxFaults /\ faults' = faults + 1

\* The action raises, or a statement that then has changed nothing.
Raises(w) ==
  /\ pc[w] \in {"load", "act", "record"}
  /\ AFault
  /\ Waste(Held(w))
  /\ Abandon(w)
  /\ UNCHANGED tables

\* An append meets the row of a rival between its lookup and its insert.
AppendRefused(w) ==
  /\ pc[w] = "act"
  /\ key[w] \in AppendKeys
  /\ CanWrite(w)
  /\ Sees(w).row[key[w]] # None
  /\ AFault
  /\ Leave(w, Sees(w))
  /\ Abandon(w)
  /\ UNCHANGED wasted

\* The INSERT of an append, or of the checkpoint, is done, and its commit raises.
CommitFails(w) ==
  /\ CanWrite(w)
  /\ \/ /\ pc[w] = "act"
        /\ key[w] \in AppendKeys
        /\ Sees(w).row[key[w]] = None
        /\ \E v \in Values : Leave(w, Appended(w, v))
     \/ /\ pc[w] = "record"
        /\ Recorded(w) = None
        /\ Leave(w, Inserted(w))
  /\ AFault
  /\ Abandon(w)
  /\ UNCHANGED wasted

\* The process dies, at any point of a call.
Dies(w) ==
  /\ pc[w] # "idle"
  /\ AFault
  /\ Waste(Held(w) \cup Uncommitted(w))
  /\ Rollback(w)
  /\ Abandon(w)

\* Between calls it ends, or closes its store, with a transaction open.
Ends(w) ==
  /\ pc[w] = "idle"
  /\ holder = w
  /\ Waste(Uncommitted(w))
  /\ Rollback(w)
  /\ UNCHANGED <<call, effects, returned, faults>>

Step(w) ==
  \/ LoadHit(w)
  \/ LoadMiss(w)
  \/ Act(w)
  \/ Record(w)
  \/ RecordRefused(w)
  \/ Return(w)

Fault(w) == Raises(w) \/ AppendRefused(w) \/ CommitFails(w) \/ Dies(w)

Next ==
  \E w \in Workers :
    \/ \E k \in Keys : Call(w, k)
    \/ Step(w)
    \/ Fault(w)
    \/ Ends(w)

Spec == Init /\ [][Next]_vars

\* A call runs on until it ends, a process that makes no further call ends, and the
\* pipeline is resumed until every step has its checkpoint.  Once the bound on faults
\* is reached, a statement waits for the lock instead of raising.
FairSpec ==
  /\ Spec
  /\ \A w \in Workers : WF_vars(Step(w)) /\ WF_vars(Ends(w))
  /\ \A k \in Keys : SF_vars(checkpoint[k] = None /\ \E w \in Workers : Call(w, k))

---------------------------------------------------------------------------
(* Properties.                                                             *)

\* Every variable holds a value of its type; a call past the load has its key,
\* a call past the action its result.
TypeOK ==
  /\ {Committed, draft} \subseteq Contents
  /\ holder \in Workers \cup {None}
  /\ pc \in [Workers -> {"idle", "load", "act", "record", "return"}]
  /\ key \in [Workers -> Keys \cup {None}]
  /\ result \in [Workers -> Values \cup {None}]
  /\ \A w \in Workers : pc[w] # "idle" => key[w] # None
  /\ \A w \in Workers : pc[w] \in {"record", "return"} <=> result[w] # None
  /\ effects \in [Keys -> Nat]
  /\ wasted \in [Keys -> Nat]
  /\ returned \subseteq [key : Keys, value : Values]
  /\ faults \in Nat

\* Calls for one key never disagree, up to what JSON keeps: two processes that
\* both ran the action cannot both return their own result, nor can one answer from a
\* row of its own that is lost before it is committed.
ReplayAgrees ==
  \A a, b \in returned : a.key = b.key => Json[a.value] = Json[b.value]

InHand(k) == {w \in Workers : pc[w] = "record" /\ key[w] = k}

\* Checkpoint after side effect: a run of the action is recorded, if only in a row
\* whose commit failed, still in hand, or was lost in the window before its
\* checkpoint - and nothing is recorded that no action produced.
EffectsAccounted ==
  \A k \in Keys :
    effects[k] = Cardinality(InHand(k)) + wasted[k]
                 + (IF draft.checkpoint[k] = None THEN 0 ELSE 1)

\* A retried append does not write twice: whatever is recorded, held or returned
\* for its key is the one row it wrote.
OneRowPerKey ==
  \A k \in AppendKeys :
    /\ checkpoint[k] \in {None, row[k]}
    /\ \A w \in InHand(k) : result[w] = row[k]
    /\ \A a \in returned : a.key = k => a.value = row[k]

\* Every step is eventually recorded, whatever crashed on the way.
Completes == \A k \in Keys : <>(checkpoint[k] # None)

\* What calls have answered, up to what JSON keeps.
Answers(calls) == {[key |-> a.key, value |-> Json[a.value]] : a \in calls}

Outcome == INSTANCE StepOutcome WITH
  Undecided <- None,
  outcome <- checkpoint,
  answered <- Answers(returned)

\* checkpointed() implements a write-once outcome per step.
ImplementsOutcome == Outcome!Spec

---------------------------------------------------------------------------
\* "Run action at most once per idempotency_key (crash-safe)".
AtMostOnce == \A k \in Keys : effects[k] <= 1
=============================================================================
