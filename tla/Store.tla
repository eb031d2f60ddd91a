------------------------------- MODULE Store -------------------------------
(***************************************************************************)
(* lifecore/store/db.py and schema.sql: the append-only provenance store,  *)
(* used through several connections (processes) that crash and reopen it.  *)
(*                                                                         *)
(* One action per SQL statement a Store method issues.  Python's sqlite3   *)
(* opens a transaction before an INSERT, UPDATE or DELETE and leaves it    *)
(* open until commit() or close(); no method of Store rolls back.  What    *)
(* SQLite does with its locks (rollback journal, the default) is external: *)
(*   - one connection at a time holds the write lock, from its first       *)
(*     change to the end of its transaction;                               *)
(*   - a SELECT inside a transaction keeps a read lock to its end;         *)
(*   - a commit fails while another connection keeps a read lock; the      *)
(*     transaction then stays open and keeps new readers out.              *)
(* A statement that cannot get its lock raises OperationalError (after the *)
(* busy timeout, which is not modelled).                                   *)
(*                                                                         *)
(* Tables are sequences: the AUTOINCREMENT id of a row is its position.    *)
(* execute() takes any SQL.  Here its statement is a SELECT, an INSERT, an *)
(* UPDATE, a DELETE or an INSERT OR REPLACE that names the id of a row:    *)
(* what leaves the schema, the ids and the pragmas as they are.            *)
(***************************************************************************)
EXTENDS Naturals, Sequences, FiniteSets

CONSTANTS
  Conns,          \* connections to one database file
  Tables,         \* the tables in use, closed under ParentOf
  Keys,           \* idempotency keys
  NoKey,          \* idempotency_key = None
  NoTable,        \* no parent table
  NoOp,           \* no append in progress
  Habits,         \* which connections may be used as "with Store(...)"
  HearAll,        \* does the history keep what the other connections are told too?
  ParentIds,      \* bound: the parent ids that callers ask for
  MaxRows,        \* bound: rows per table
  MaxReplaced,    \* bound: rows that an INSERT OR REPLACE names
  MaxCrashes      \* bound: crashes and closes

\* schema.sql: the REFERENCES clause of each table.
ParentOf(t) ==
  CASE t = "run" -> "campaign"
    [] t = "candidate" -> "run"
    [] t \in {"verification", "novelty", "acceptance"} -> "candidate"
    [] OTHER -> NoTable

\* A row keeps the id of its parent row (0 in a table without parent).
Rows == [parent : Nat, key : Keys \cup {NoKey}]
Logs == [Tables -> Seq(Rows)]
Requests == [table : Tables, row : Rows]

ASSUME StoreAssumption ==
  /\ NoKey \notin Keys
  /\ NoTable \notin Tables
  /\ NoOp \notin Requests
  /\ Habits \subseteq SUBSET Conns
  /\ HearAll \in BOOLEAN
  /\ ParentIds \subseteq Nat
  /\ MaxRows \in Nat
  /\ MaxReplaced \in Nat
  /\ MaxCrashes \in Nat
  /\ \A t \in Tables : ParentOf(t) \in Tables \cup {NoTable}

VARIABLES
  log,       \* committed rows
  draft,     \* the file as the write transaction has it; log, if none is open
  tx,        \* each connection's transaction
  pc,        \* the statement each connection executes next
  op,        \* the append each connection is executing
  closing,   \* the connections used in a "with" block: an exception closes them
  acked,     \* history: what inserts under a key returned, and to whom
  replaced,  \* history: the rows that an INSERT OR REPLACE named
  crashes    \* history: crashes so far

vars == <<log, draft, tx, pc, op, closing, acked, replaced, crashes>>

EmptyLog == [t \in Tables |-> << >>]

\* CREATE TABLE IF NOT EXISTS on a new file, every connection open and idle.
Init ==
  /\ log = EmptyLog
  /\ draft = EmptyLog
  /\ tx = [c \in Conns |-> "none"]
  /\ pc = [c \in Conns |-> "idle"]
  /\ op = [c \in Conns |-> NoOp]
  /\ closing \in Habits
  /\ acked = {}
  /\ replaced = {}
  /\ crashes = 0

---------------------------------------------------------------------------
(* SQLite, as the Store sees it.                                           *)

\* "none": autocommit.  "begun": BEGIN was issued, no lock is held.
\* "read": a read lock is held.  "write": the write lock is held.
\* "stuck": a commit failed; the write lock is held and new readers are kept out.
Holds(c) == tx[c] \in {"write", "stuck"}

Others(c) == Conns \ {c}

CanRead(c) ==
  tx[c] \in {"none", "begun"} => \A d \in Others(c) : tx[d] # "stuck"

CanWrite(c) ==
  /\ CanRead(c)
  /\ \A d \in Others(c) : ~Holds(d)
  /\ tx[c] = "stuck" => \A d \in Others(c) : tx[d] # "read"

CanCommit(c) == Holds(c) => \A d \in Others(c) : tx[d] # "read"

\* What a statement of c sees: its own uncommitted changes too.
Visible(c, t) == IF Holds(c) THEN draft[t] ELSE log[t]

AfterRead(c) == IF tx[c] = "begun" THEN "read" ELSE tx[c]
AfterWrite(c) == IF tx[c] = "stuck" THEN "stuck" ELSE "write"
AfterRefusedWrite(c) == IF tx[c] = "none" THEN "begun" ELSE tx[c]

\* close(), or the process dies: the transaction is rolled back.
Closed(c) ==
  /\ draft' = IF Holds(c) THEN log ELSE draft
  /\ tx' = [tx EXCEPT ![c] = "none"]
  /\ pc' = [pc EXCEPT ![c] = "down"]
  /\ op' = [op EXCEPT ![c] = NoOp]

\* Mutant of Raise: no "with" block closes the store after the exception.
RaiseKeepsOpen(c, left) ==
  /\ tx' = [tx EXCEPT ![c] = left]
  /\ pc' = [pc EXCEPT ![c] = "idle"]
  /\ op' = [op EXCEPT ![c] = NoOp]
  /\ UNCHANGED <<log, draft, acked, replaced, crashes>>

\* The statement raises and leaves the connection in transaction state left.
Raise(c, left) ==
  /\ \/ /\ c \in closing
        /\ Closed(c)
     \/ /\ c \notin closing
        /\ tx' = [tx EXCEPT ![c] = left]
        /\ pc' = [pc EXCEPT ![c] = "idle"]
        /\ op' = [op EXCEPT ![c] = NoOp]
        /\ UNCHANGED draft
  /\ UNCHANGED <<log, acked, replaced, crashes>>

---------------------------------------------------------------------------
(* _append, statement by statement.                                        *)

\* The rows a caller may ask a table to hold, with a parent id it believes in.
Asked(t) ==
  {row \in [parent : {0} \cup ParentIds, key : Keys \cup {NoKey}] :
     row.parent = 0 <=> ParentOf(t) = NoTable}

\* append_campaign, append_run, ...: a caller asks for a row, under a key or not.
\* execute(INSERT ...) is the same without the lookup.
CallAppend(c) ==
  /\ pc[c] = "idle"
  /\ \E t \in Tables : \E row \in Asked(t) :
       /\ op' = [op EXCEPT ![c] = [table |-> t, row |-> row]]
       /\ \/ pc' = [pc EXCEPT ![c] = "insert"]
          \/ row.key # NoKey /\ pc' = [pc EXCEPT ![c] = "lookup"]
  /\ UNCHANGED <<log, draft, tx, acked, replaced, crashes>>

\* The positions at which a key occurs in a sequence of rows.
At(key, rows) == {i \in DOMAIN rows : rows[i].key = key}

\* What the history keeps when a row id is returned to c for a key.
Told(c, t, key, id) ==
  IF key # NoKey /\ (c \in closing \/ HearAll)
  THEN {[by |-> c, table |-> t, key |-> key, id |-> id]}
  ELSE {}

\* The key is there already: its row id is returned, and nothing is committed.
LookupHit(c) ==
  /\ pc[c] = "lookup"
  /\ CanRead(c)
  /\ \E i \in At(op[c].row.key, Visible(c, op[c].table)) :
       acked' = acked \cup Told(c, op[c].table, op[c].row.key, i)
  /\ tx' = [tx EXCEPT ![c] = AfterRead(c)]
  /\ pc' = [pc EXCEPT ![c] = "idle"]
  /\ op' = [op EXCEPT ![c] = NoOp]
  /\ UNCHANGED <<log, draft, replaced, crashes>>

LookupMiss(c) ==
  /\ pc[c] = "lookup"
  /\ CanRead(c)
  /\ At(op[c].row.key, Visible(c, op[c].table)) = {}
  /\ tx' = [tx EXCEPT ![c] = AfterRead(c)]
  /\ pc' = [pc EXCEPT ![c] = "insert"]
  /\ UNCHANGED <<log, draft, op, acked, replaced, crashes>>

LookupLocked(c) ==
  /\ pc[c] = "lookup"
  /\ ~CanRead(c)
  /\ Raise(c, tx[c])

\* Mutant of KeyFree: a schema without UNIQUE, the lookup is trusted.
NoUniqueConstraint(c, t, row) == TRUE

\* The UNIQUE constraint: NULL keys never collide.
KeyFree(c, t, row) == row.key # NoKey => At(row.key, Visible(c, t)) = {}

\* Mutant of ParentThere: the foreign_keys pragma is off.
NoForeignKeys(c, t, row) == TRUE

\* The REFERENCES constraint, under PRAGMA foreign_keys = ON.
ParentThere(c, t, row) ==
  ParentOf(t) # NoTable => row.parent \in DOMAIN Visible(c, ParentOf(t))

\* Mutant of InsertRow: the row id is returned and the commit is left out.
InsertAndReturn(c) ==
  /\ pc[c] = "insert"
  /\ CanWrite(c)
  /\ LET t == op[c].table IN
       /\ KeyFree(c, t, op[c].row)
       /\ ParentThere(c, t, op[c].row)
       /\ Len(Visible(c, t)) < MaxRows
       /\ draft' = [draft EXCEPT ![t] = Append(@, op[c].row)]
       /\ acked' = acked \cup Told(c, t, op[c].row.key, Len(Visible(c, t)) + 1)
  /\ tx' = [tx EXCEPT ![c] = AfterWrite(c)]
  /\ pc' = [pc EXCEPT ![c] = "idle"]
  /\ op' = [op EXCEPT ![c] = NoOp]
  /\ UNCHANGED <<log, replaced, crashes>>

InsertRow(c) ==
  /\ pc[c] = "insert"
  /\ CanWrite(c)
  /\ LET t == op[c].table IN
       /\ KeyFree(c, t, op[c].row)
       /\ ParentThere(c, t, op[c].row)
       /\ Len(Visible(c, t)) < MaxRows
       /\ draft' = [draft EXCEPT ![t] = Append(@, op[c].row)]
  /\ tx' = [tx EXCEPT ![c] = AfterWrite(c)]
  /\ pc' = [pc EXCEPT ![c] = "commit"]
  /\ UNCHANGED <<log, op, acked, replaced, crashes>>

\* IntegrityError: the statement is undone, its transaction stays open.
InsertRefused(c) ==
  /\ pc[c] = "insert"
  /\ CanWrite(c)
  /\ KeyFree(c, op[c].table, op[c].row) => ~ParentThere(c, op[c].table, op[c].row)
  /\ Raise(c, AfterWrite(c))

InsertLocked(c) ==
  /\ pc[c] = "insert"
  /\ ~CanWrite(c)
  /\ Raise(c, AfterRefusedWrite(c))

\* What an insert under a key returns: the last row id of its table.
Returned(c) ==
  IF op[c] = NoOp THEN {}
  ELSE Told(c, op[c].table, op[c].row.key, Len(Visible(c, op[c].table)))

\* commit() publishes everything the transaction holds, not only the last row.
CommitDone(c) ==
  /\ pc[c] = "commit"
  /\ CanCommit(c)
  /\ log' = IF Holds(c) THEN draft ELSE log
  /\ acked' = acked \cup Returned(c)
  /\ tx' = [tx EXCEPT ![c] = "none"]
  /\ pc' = [pc EXCEPT ![c] = "idle"]
  /\ op' = [op EXCEPT ![c] = NoOp]
  /\ UNCHANGED <<draft, replaced, crashes>>

CommitLocked(c) ==
  /\ pc[c] = "commit"
  /\ ~CanCommit(c)
  /\ Raise(c, "stuck")

---------------------------------------------------------------------------
(* The other methods.                                                      *)

\* execute(SELECT ...): the statement, then commit().
ExecuteSelect(c) ==
  /\ pc[c] = "idle"
  /\ \/ /\ CanRead(c)
        /\ tx' = [tx EXCEPT ![c] = AfterRead(c)]
        /\ pc' = [pc EXCEPT ![c] = "commit"]
        /\ UNCHANGED <<log, draft, op, acked, replaced, crashes>>
     \/ /\ ~CanRead(c)
        /\ Raise(c, tx[c])

\* get_*, list_candidates: a SELECT and no commit.
Get(c) ==
  /\ pc[c] = "idle"
  /\ \/ /\ CanRead(c)
        /\ tx' = [tx EXCEPT ![c] = AfterRead(c)]
        /\ UNCHANGED <<log, draft, pc, op, acked, replaced, crashes>>
     \/ /\ ~CanRead(c)
        /\ Raise(c, tx[c])

\* Mutant of ExecuteMutation: a table without the DELETE trigger.
DeleteLast(c, t) ==
  /\ pc[c] = "idle"
  /\ CanWrite(c)
  /\ tx[c] = "none"
  /\ log[t] # << >>
  /\ log' = [log EXCEPT ![t] = SubSeq(@, 1, Len(@) - 1)]
  /\ draft' = log'
  /\ UNCHANGED <<tx, pc, op, acked, replaced, crashes>>

\* execute(UPDATE ...) or execute(DELETE ...) on a table: the trigger aborts the
\* statement on the first row; on an empty table there is none.
ExecuteMutation(c, t) ==
  /\ pc[c] = "idle"
  /\ \/ /\ ~CanWrite(c)
        /\ Raise(c, AfterRefusedWrite(c))
     \/ /\ CanWrite(c)
        /\ Visible(c, t) # << >>
        /\ Raise(c, AfterWrite(c))
     \/ /\ CanWrite(c)
        /\ Visible(c, t) = << >>
        /\ tx' = [tx EXCEPT ![c] = AfterWrite(c)]
        /\ pc' = [pc EXCEPT ![c] = "commit"]
        /\ UNCHANGED <<log, draft, op, acked, replaced, crashes>>

\* execute(INSERT OR REPLACE ...) with the id of a row that is there: SQLite removes
\* that row to make room, and fires no DELETE trigger for it (recursive_triggers is
\* off).  A key of another row would remove that row too: such a row is not asked for.
ExecuteReplace(c, t) ==
  /\ pc[c] = "idle"
  /\ \/ /\ ~CanWrite(c)
        /\ Raise(c, AfterRefusedWrite(c))
     \/ /\ CanWrite(c)
        /\ \E row \in Asked(t) : ~ParentThere(c, t, row)
        /\ Raise(c, AfterWrite(c))
     \/ /\ CanWrite(c)
        /\ \E i \in DOMAIN Visible(c, t), row \in Asked(t) :
             /\ row.key # NoKey => At(row.key, Visible(c, t)) \subseteq {i}
             /\ ParentThere(c, t, row)
             /\ Cardinality(replaced \cup {<<t, i>>}) <= MaxReplaced
             /\ draft' = [draft EXCEPT ![t][i] = row]
             /\ replaced' = replaced \cup {<<t, i>>}
        /\ tx' = [tx EXCEPT ![c] = AfterWrite(c)]
        /\ pc' = [pc EXCEPT ![c] = "commit"]
        /\ UNCHANGED <<log, op, acked, crashes>>

\* The process dies at any point of a call, or closes the store between calls.
Crash(c) ==
  /\ pc[c] # "down"
  /\ crashes < MaxCrashes
  /\ crashes' = crashes + 1
  /\ Closed(c)
  /\ UNCHANGED <<log, acked, replaced>>

\* Store(path): the schema script finds its tables; it fails where a reader would.
Open(c) ==
  /\ pc[c] = "down"
  /\ CanRead(c)
  /\ pc' = [pc EXCEPT ![c] = "idle"]
  /\ UNCHANGED <<log, draft, tx, op, acked, replaced, crashes>>

\* The next statement of the call c is in.
Step(c) ==
  \/ LookupHit(c) \/ LookupMiss(c) \/ LookupLocked(c)
  \/ InsertRow(c) \/ InsertRefused(c) \/ InsertLocked(c)
  \/ CommitDone(c) \/ CommitLocked(c)

\* A caller starts a call.
Call(c) ==
  \/ CallAppend(c)
  \/ ExecuteSelect(c)
  \/ Get(c)
  \/ \E t \in Tables : ExecuteMutation(c, t) \/ ExecuteReplace(c, t)

\* A caller keeps its habit.
Next ==
  /\ \E c \in Conns : Call(c) \/ Step(c) \/ Crash(c) \/ Open(c)
  /\ UNCHANGED closing

Spec == Init /\ [][Next]_vars

---------------------------------------------------------------------------
(* Properties.                                                             *)

\* Every variable holds a value of its type.
TypeOK ==
  /\ log \in Logs
  /\ draft \in Logs
  /\ tx \in [Conns -> {"none", "begun", "read", "write", "stuck"}]
  /\ pc \in [Conns -> {"idle", "lookup", "insert", "commit", "down"}]
  /\ op \in [Conns -> Requests \cup {NoOp}]
  /\ \A c \in Conns :
       /\ pc[c] \in {"lookup", "insert"} => op[c] # NoOp
       /\ pc[c] = "lookup" => op[c].row.key # NoKey
  /\ closing \subseteq Conns
  /\ acked \subseteq [by : Conns, table : Tables, key : Keys, id : Nat]
  /\ replaced \subseteq Tables \X Nat
  /\ crashes \in Nat

\* In a file, no two rows of a table share an idempotency key ...
UniqueKeys(file) ==
  \A t \in Tables : \A i, j \in DOMAIN file[t] :
    file[t][i].key = file[t][j].key /\ file[t][i].key # NoKey => i = j

\* ... and the parent of every row is there.
NoOrphans(file) ==
  \A t \in Tables :
    ParentOf(t) # NoTable =>
      \A i \in DOMAIN file[t] : file[t][i].parent \in DOMAIN file[ParentOf(t)]

\* No two committed rows of a table share an idempotency key, although the lookup
\* and the insert of an append are separate statements of racing connections.
KeysUnique == UniqueKeys(log)

\* The provenance chain has no dangling link: the parent of every committed row
\* is committed, although parents can be seen before they are.
ParentsPresent == NoOrphans(log)

\* What a commit publishes was added behind the committed rows, and changes none of
\* them but those an INSERT OR REPLACE named: not when several calls end up in one
\* transaction, when an UPDATE or DELETE was refused in it, or after a rollback.
AppendOnly ==
  [][\A t \in Tables :
       /\ Len(log[t]) <= Len(log'[t])
       /\ \A i \in DOMAIN log[t] : <<t, i>> \in replaced \/ log'[t][i] = log[t][i]]_vars

\* The row an insert returned is committed, under the key it was asked with, unless
\* an INSERT OR REPLACE named it.
Durable(a) ==
  \/ <<a.table, a.id>> \in replaced
  \/ a.id \in DOMAIN log[a.table] /\ log[a.table][a.id].key = a.key

\* What a connection that closes on every error was told stays true, whatever
\* crashed since and however careless the other connections are: an id that was
\* returned for a key names the committed row with that key.
AckedDurable == \A a \in acked : a.by \in closing => Durable(a)

\* Such a connection blocks nobody between its calls: it has no transaction open.
NoDanglingTransaction ==
  \A c \in closing : pc[c] \in {"idle", "down"} => tx[c] = "none"

---------------------------------------------------------------------------
(* What the documentation says of every Store, and the code does not do.   *)

\* "replaying an append with a key already present returns the EXISTING row id":
\* also to a caller that keeps its connection after an error.
ReplayFindsExisting == \A a \in acked : Durable(a)

\* "the only legal mutation is INSERT": an INSERT OR REPLACE is one, and gives a
\* committed row new columns under its old id.
RowsImmutable ==
  [][\A t \in Tables : \A i \in DOMAIN log[t] : log'[t][i] = log[t][i]]_vars
=============================================================================
