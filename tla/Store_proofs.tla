---------------------------- MODULE Store_proofs ----------------------------
(***************************************************************************)
(* Theorems about Store, for any number of connections, any tables, any    *)
(* keys, and any number of rows and crashes.                               *)
(***************************************************************************)
EXTENDS Store, SequenceTheorems, TLAPS

\* The row that is appended is the last one.
LEMMA LastRow ==
  ASSUME NEW S, NEW a \in Seq(S), NEW e \in S
  PROVE  \E n \in Nat : /\ DOMAIN a = 1 .. n - 1
                        /\ DOMAIN Append(a, e) = 1 .. n
                        /\ Append(a, e)[n] = e
                        /\ \A i \in DOMAIN a : Append(a, e)[i] = a[i]
<1> WITNESS Len(a) + 1 \in Nat
<1> QED  OBVIOUS

\* Replacing a row of a sequence of rows gives one, of the same length.
LEMMA ExceptRow ==
  ASSUME NEW S, NEW a \in Seq(S), NEW i \in Nat, NEW e \in S
  PROVE  [a EXCEPT ![i] = e] \in Seq(S)
<1>1. CASE i \in 1 .. Len(a)
  BY <1>1, ExceptSeq
<1>2. CASE i \notin 1 .. Len(a)
  <2>1. a = [j \in 1 .. Len(a) |-> a[j]]
    OBVIOUS
  <2>2. [a EXCEPT ![i] = e] = a
    BY <1>2, <2>1
  <2>3. QED  BY <2>2
<1>3. QED  BY <1>1, <1>2

\* A row that is asked for has the type of a row.
LEMMA AskedType ==
  ASSUME NEW t \in Tables, NEW row \in Asked(t)
  PROVE  row \in Rows
<1>1. {0} \cup ParentIds \subseteq Nat
  BY StoreAssumption
<1>2. row \in [parent : {0} \cup ParentIds, key : Keys \cup {NoKey}]
  BY DEF Asked
<1>3. QED  BY <1>1, <1>2 DEF Rows

\* What a statement sees is a sequence of rows.
LEMMA VisibleType ==
  ASSUME TypeOK, NEW c \in Conns, NEW t \in Tables
  PROVE  Visible(c, t) \in Seq(Rows)
BY DEF TypeOK, Visible, Logs

\* Closing a connection keeps the types; it ends the call that was running.
LEMMA ClosedType ==
  ASSUME TypeOK, NEW c \in Conns, Closed(c)
  PROVE  /\ draft' \in Logs
         /\ tx' \in [Conns -> {"none", "begun", "read", "write", "stuck"}]
         /\ pc' \in [Conns -> {"idle", "lookup", "insert", "commit", "down"}]
         /\ op' \in [Conns -> Requests \cup {NoOp}]
         /\ \A d \in Conns : pc'[d] \in {"lookup", "insert"} =>
              /\ pc[d] = pc'[d]
              /\ op[d] = op'[d]
BY DEF TypeOK, Closed

\* A statement that raises keeps the types.
LEMMA RaiseType ==
  ASSUME TypeOK, NEW c \in Conns,
         NEW left \in {"none", "begun", "read", "write", "stuck"}, Raise(c, left),
         UNCHANGED closing
  PROVE  TypeOK'
<1>1. CASE c \in closing /\ Closed(c)
  BY <1>1, ClosedType DEF Raise, TypeOK
<1>2. CASE ~(c \in closing /\ Closed(c))
  BY <1>2 DEF Raise, TypeOK
<1>3. QED  BY <1>1, <1>2

\* Every variable keeps its type in every reachable state.
THEOREM Typing == Spec => []TypeOK
<1> USE StoreAssumption
<1>1. Init => TypeOK
  BY DEF Init, TypeOK, EmptyLog, Logs
<1>2. TypeOK /\ [Next]_vars => TypeOK'
  <2> SUFFICES ASSUME TypeOK, [Next]_vars PROVE TypeOK'
    OBVIOUS
  <2> DEFINE Labels == {"none", "begun", "read", "write", "stuck"}
  <2>0. UNCHANGED closing
    BY DEF Next, vars
  <2> USE <2>0
  <2>1. ASSUME NEW c \in Conns, CallAppend(c) PROVE TypeOK'
    <3>0. PICK t \in Tables : \E row \in Asked(t) :
            /\ op' = [op EXCEPT ![c] = [table |-> t, row |-> row]]
            /\ \/ pc' = [pc EXCEPT ![c] = "insert"]
               \/ row.key # NoKey /\ pc' = [pc EXCEPT ![c] = "lookup"]
      BY <2>1 DEF CallAppend
    <3>1. PICK row \in Asked(t) :
            /\ op' = [op EXCEPT ![c] = [table |-> t, row |-> row]]
            /\ \/ pc' = [pc EXCEPT ![c] = "insert"]
               \/ row.key # NoKey /\ pc' = [pc EXCEPT ![c] = "lookup"]
      BY <3>0
    <3>2. [table |-> t, row |-> row] \in Requests
      BY AskedType DEF Requests
    <3>3. QED  BY <2>1, <3>1, <3>2 DEF CallAppend, TypeOK
  <2>2. ASSUME NEW c \in Conns, LookupHit(c) PROVE TypeOK'
    <3>1. op[c] \in Requests
      BY <2>2 DEF LookupHit, TypeOK
    <3>2. op[c].table \in Tables
      BY <3>1 DEF Requests
    <3>3. PICK i \in At(op[c].row.key, Visible(c, op[c].table)) :
            acked' = acked \cup Told(c, op[c].table, op[c].row.key, i)
      BY <2>2 DEF LookupHit
    <3>4. i \in Nat
      BY <3>2, <3>3, VisibleType DEF At
    <3>5. op[c].row.key \in Keys
      BY <2>2, <3>1 DEF LookupHit, TypeOK, Requests, Rows
    <3>6. acked' \subseteq [by : Conns, table : Tables, key : Keys, id : Nat]
      BY <3>2, <3>3, <3>4, <3>5 DEF TypeOK, Told
    <3>7. QED  BY <2>2, <3>6 DEF LookupHit, AfterRead, TypeOK
  <2>3. ASSUME NEW c \in Conns, LookupMiss(c) PROVE TypeOK'
    BY <2>3 DEF LookupMiss, AfterRead, TypeOK
  <2>4. ASSUME NEW c \in Conns, NEW left \in Labels, Raise(c, left) PROVE TypeOK'
    BY <2>4, RaiseType
  <2>5. ASSUME NEW c \in Conns, InsertRow(c) PROVE TypeOK'
    <3>1. op[c] \in Requests
      BY <2>5 DEF InsertRow, TypeOK
    <3>2. op[c].table \in Tables /\ op[c].row \in Rows
      BY <3>1 DEF Requests
    <3>3. draft' \in Logs
      BY <2>5, <3>2 DEF InsertRow, TypeOK, Logs
    <3>4. QED  BY <2>5, <3>3 DEF InsertRow, AfterWrite, TypeOK
  <2>6. ASSUME NEW c \in Conns, CommitDone(c) PROVE TypeOK'
    <3>1. log' \in Logs /\ draft' \in Logs
      BY <2>6 DEF CommitDone, TypeOK
    <3>2. Returned(c) \subseteq [by : Conns, table : Tables, key : Keys, id : Nat]
      <4>1. SUFFICES ASSUME op[c] # NoOp, op[c].row.key # NoKey
                     PROVE  [by |-> c, table |-> op[c].table, key |-> op[c].row.key,
                             id |-> Len(Visible(c, op[c].table))]
                              \in [by : Conns, table : Tables, key : Keys, id : Nat]
        BY DEF Returned, Told
      <4>2. op[c].table \in Tables /\ op[c].row.key \in Keys
        BY <4>1 DEF TypeOK, Requests, Rows
      <4>3. Len(Visible(c, op[c].table)) \in Nat
        BY <4>2, VisibleType
      <4>4. QED  BY <4>2, <4>3
    <3>3. QED  BY <2>6, <3>1, <3>2 DEF CommitDone, TypeOK
  <2>7. ASSUME NEW c \in Conns, ExecuteSelect(c) PROVE TypeOK'
    BY <2>7, RaiseType DEF ExecuteSelect, AfterRead, TypeOK
  <2>8. ASSUME NEW c \in Conns, Get(c) PROVE TypeOK'
    BY <2>8, RaiseType DEF Get, AfterRead, TypeOK
  <2>9. ASSUME NEW c \in Conns, NEW t \in Tables, ExecuteMutation(c, t) PROVE TypeOK'
    BY <2>9, RaiseType DEF ExecuteMutation, AfterWrite, AfterRefusedWrite, TypeOK
  <2>10. ASSUME NEW c \in Conns, Crash(c) PROVE TypeOK'
    BY <2>10, ClosedType DEF Crash, TypeOK
  <2>11. ASSUME NEW c \in Conns, Open(c) PROVE TypeOK'
    BY <2>11 DEF Open, TypeOK
  <2>12. ASSUME NEW c \in Conns,
                LookupLocked(c) \/ InsertRefused(c) \/ InsertLocked(c) \/ CommitLocked(c)
         PROVE  TypeOK'
    BY <2>12, <2>4 DEF LookupLocked, InsertRefused, InsertLocked, CommitLocked,
       AfterWrite, AfterRefusedWrite, TypeOK
  <2>13. CASE UNCHANGED vars
    BY <2>13 DEF vars, TypeOK
  <2>14. ASSUME NEW c \in Conns, NEW t \in Tables, ExecuteReplace(c, t) PROVE TypeOK'
    <3>1. CASE ~CanWrite(c) /\ Raise(c, AfterRefusedWrite(c))
      BY <3>1, <2>4 DEF AfterRefusedWrite, TypeOK
    <3>2. CASE CanWrite(c) /\ Raise(c, AfterWrite(c))
      BY <3>2, <2>4 DEF AfterWrite
    <3>3. ASSUME NEW i \in DOMAIN Visible(c, t), NEW row \in Asked(t), CanWrite(c),
                 draft' = [draft EXCEPT ![t][i] = row],
                 replaced' = replaced \cup {<<t, i>>},
                 tx' = [tx EXCEPT ![c] = AfterWrite(c)],
                 pc' = [pc EXCEPT ![c] = "commit"],
                 UNCHANGED <<log, op, acked, crashes>>
          PROVE  TypeOK'
      <4>1. row \in Rows /\ i \in Nat
        BY AskedType, VisibleType
      <4>2. [draft[t] EXCEPT ![i] = row] \in Seq(Rows)
        <5>1. draft[t] \in Seq(Rows)
          BY DEF TypeOK, Logs
        <5>2. QED  BY <4>1, <5>1, ExceptRow
      <4>3. draft' \in Logs
        BY <3>3, <4>2 DEF TypeOK, Logs
      <4>4. QED  BY <3>3, <4>1, <4>3 DEF AfterWrite, TypeOK
    <3>4. QED  BY <2>14, <3>1, <3>2, <3>3 DEF ExecuteReplace
  <2>15. QED
    BY <2>14, <2>1, <2>2, <2>3, <2>5, <2>6, <2>7, <2>8, <2>9, <2>10, <2>11, <2>12, <2>13
       DEF Next, Call, Step
<1>3. QED  BY <1>1, <1>2, PTL DEF Spec

---------------------------------------------------------------------------
(* Uniqueness of keys and presence of parents.                             *)

\* Only one connection has uncommitted changes.
OneWriter ==
  /\ \A c, d \in Conns : Holds(c) /\ Holds(d) => c = d
  /\ (\A c \in Conns : ~Holds(c)) => draft = log

\* The uncommitted file keeps the committed rows, except those a REPLACE named.
Keeps(old, new) ==
  \A t \in Tables :
    /\ Len(old[t]) <= Len(new[t])
    /\ \A i \in DOMAIN old[t] : <<t, i>> \in replaced \/ new[t][i] = old[t][i]

\* The inductive invariant.  The uncommitted file obeys the constraints, so that a
\* commit cannot break them; so does the committed one, to which a rollback returns.
StoreInv ==
  /\ TypeOK
  /\ OneWriter
  /\ UniqueKeys(draft) /\ NoOrphans(draft)
  /\ UniqueKeys(log) /\ NoOrphans(log)
  /\ Keeps(log, draft)

\* A row whose key is free and whose parent is there can be added to a file.
LEMMA AddedRow ==
  ASSUME NEW file \in Logs, UniqueKeys(file), NoOrphans(file),
         NEW u \in Tables, NEW r \in Rows,
         r.key # NoKey => At(r.key, file[u]) = {},
         ParentOf(u) # NoTable => r.parent \in DOMAIN file[ParentOf(u)]
  PROVE  /\ UniqueKeys([file EXCEPT ![u] = Append(@, r)])
         /\ NoOrphans([file EXCEPT ![u] = Append(@, r)])
<1> USE StoreAssumption
<1> DEFINE g == [file EXCEPT ![u] = Append(@, r)]
<1>1. file[u] \in Seq(Rows) /\ g[u] = Append(file[u], r)
  BY DEF Logs
<1>2. \A t \in Tables \ {u} : g[t] = file[t]
  BY DEF Logs
<1>3. PICK n \in Nat :
        /\ DOMAIN file[u] = 1 .. n - 1
        /\ DOMAIN g[u] = 1 .. n
        /\ g[u][n] = r
        /\ \A i \in DOMAIN file[u] : g[u][i] = file[u][i]
  <2>1. ASSUME NEW a \in Seq(Rows)
        PROVE  \E n \in Nat : /\ DOMAIN a = 1 .. n - 1
                              /\ DOMAIN Append(a, r) = 1 .. n
                              /\ Append(a, r)[n] = r
                              /\ \A i \in DOMAIN a : Append(a, r)[i] = a[i]
    BY LastRow
  <2> HIDE DEF g
  <2>2. QED  BY <1>1, <2>1
<1> HIDE DEF g
<1>4. UniqueKeys(g)
  <2> SUFFICES ASSUME NEW t \in Tables, NEW i \in DOMAIN g[t], NEW j \in DOMAIN g[t],
                      g[t][i].key = g[t][j].key, g[t][i].key # NoKey
               PROVE  i = j
    BY DEF UniqueKeys
  <2>1. CASE t # u
    BY <1>2, <2>1 DEF UniqueKeys
  <2>2. CASE t = u
    <3>1. \A m \in DOMAIN file[u] : file[u][m].key = r.key => r.key = NoKey
      BY DEF At
    <3>2. CASE i \in DOMAIN file[u] /\ j \in DOMAIN file[u]
      BY <2>2, <3>2, <1>3 DEF UniqueKeys
    <3>3. CASE i \in DOMAIN file[u] /\ j = n /\ i # n
      BY <2>2, <3>1, <3>3, <1>3
    <3>4. CASE j \in DOMAIN file[u] /\ i = n /\ j # n
      BY <2>2, <3>1, <3>4, <1>3
    <3>5. n \in Nat /\ (i \in DOMAIN file[u] \/ i = n) /\ (j \in DOMAIN file[u] \/ j = n)
      BY <2>2, <1>3
    <3>6. QED  BY <3>2, <3>3, <3>4, <3>5
  <2>3. QED  BY <2>1, <2>2
<1>5. NoOrphans(g)
  <2>1. \A t \in Tables : DOMAIN file[t] \subseteq DOMAIN g[t]
    BY <1>2, <1>3
  <2> SUFFICES ASSUME NEW t \in Tables, ParentOf(t) # NoTable, NEW i \in DOMAIN g[t]
               PROVE  g[t][i].parent \in DOMAIN g[ParentOf(t)]
    BY DEF NoOrphans
  <2>2. ParentOf(t) \in Tables
    OBVIOUS
  <2>3. CASE i \in DOMAIN file[t] /\ g[t][i] = file[t][i]
    BY <2>1, <2>2, <2>3 DEF NoOrphans
  <2>4. CASE t = u /\ i = n
    BY <2>1, <2>2, <2>4, <1>3
  <2>5. QED  BY <2>3, <2>4, <1>2, <1>3
<1>6. QED  BY <1>4, <1>5 DEF g

\* A row can be replaced by one whose key no other row has and whose parent is there.
LEMMA ReplacedRow ==
  ASSUME NEW file \in Logs, UniqueKeys(file), NoOrphans(file),
         NEW u \in Tables, NEW r \in Rows, NEW k \in DOMAIN file[u],
         r.key # NoKey => At(r.key, file[u]) \subseteq {k},
         ParentOf(u) # NoTable => r.parent \in DOMAIN file[ParentOf(u)]
  PROVE  /\ UniqueKeys([file EXCEPT ![u][k] = r])
         /\ NoOrphans([file EXCEPT ![u][k] = r])
<1> USE StoreAssumption
<1> DEFINE g == [file EXCEPT ![u][k] = r]
<1>1. \A t \in Tables : DOMAIN g[t] = DOMAIN file[t]
  BY DEF Logs
<1>2. g[u][k] = r /\ \A i \in DOMAIN file[u] \ {k} : g[u][i] = file[u][i]
  BY DEF Logs
<1>3. \A t \in Tables \ {u} : g[t] = file[t]
  BY DEF Logs
<1> HIDE DEF g
<1>4. UniqueKeys(g)
  <2> SUFFICES ASSUME NEW t \in Tables, NEW i \in DOMAIN g[t], NEW j \in DOMAIN g[t],
                      g[t][i].key = g[t][j].key, g[t][i].key # NoKey
               PROVE  i = j
    BY DEF UniqueKeys
  <2>0. i \in DOMAIN file[t] /\ j \in DOMAIN file[t]
    BY <1>1
  <2>1. CASE t # u
    BY <1>3, <2>0, <2>1 DEF UniqueKeys
  <2>2. CASE t = u
    <3>1. \A m \in DOMAIN file[u] \ {k} : file[u][m].key = r.key => r.key = NoKey
      BY DEF At
    <3>2. CASE i # k /\ j # k
      BY <2>0, <2>2, <3>2, <1>2 DEF UniqueKeys
    <3>3. CASE i # k /\ j = k
      BY <2>0, <2>2, <3>1, <3>3, <1>2
    <3>4. CASE i = k /\ j # k
      BY <2>0, <2>2, <3>1, <3>4, <1>2
    <3>5. QED  BY <3>2, <3>3, <3>4
  <2>3. QED  BY <2>1, <2>2
<1>5. NoOrphans(g)
  <2> SUFFICES ASSUME NEW t \in Tables, ParentOf(t) # NoTable, NEW i \in DOMAIN g[t]
               PROVE  g[t][i].parent \in DOMAIN g[ParentOf(t)]
    BY DEF NoOrphans
  <2>1. ParentOf(t) \in Tables /\ i \in DOMAIN file[t]
    BY <1>1
  <2>2. CASE g[t][i] = file[t][i]
    BY <1>1, <2>1, <2>2 DEF NoOrphans
  <2>3. CASE t = u /\ i = k
    BY <1>1, <1>2, <2>1, <2>3
  <2>4. QED  BY <1>2, <1>3, <2>1, <2>2, <2>3
<1>6. QED  BY <1>4, <1>5 DEF g

\* A connection that may write, or that holds the lock, sees the uncommitted file.
LEMMA WriterSeesAll ==
  ASSUME TypeOK, OneWriter, NEW c \in Conns, NEW t \in Tables, CanWrite(c) \/ Holds(c)
  PROVE  Visible(c, t) = draft[t]
<1>1. CASE Holds(c)
  BY <1>1 DEF Visible
<1>2. CASE ~Holds(c)
  <2>1. \A d \in Conns : ~Holds(d)
    BY <1>2 DEF CanWrite, Others
  <2>2. QED  BY <1>2, <2>1 DEF OneWriter, Visible
<1>3. QED  BY <1>1, <1>2

\* The rows of a file that is not changed are kept.
LEMMA KeepsItself ==
  ASSUME TypeOK
  PROVE  Keeps(log, log)
BY DEF TypeOK, Logs, Keeps

\* What a step that changes no row does to the inductive invariant: nothing, if the
\* lock stays where it is or is taken by a connection that may write.
LEMMA SameRows ==
  ASSUME StoreInv, TypeOK', UNCHANGED <<log, draft, replaced>>, NEW c \in Conns,
         \A d \in Conns \ {c} : tx'[d] = tx[d],
         Holds(c)' => CanWrite(c) \/ Holds(c),
         Holds(c) => Holds(c)'
  PROVE  StoreInv'
<1>1. OneWriter'
  BY DEF StoreInv, OneWriter, Holds, CanWrite, Others
<1>2. Keeps(log, draft)'
  BY DEF StoreInv, Keeps
<1>3. QED  BY <1>1, <1>2 DEF StoreInv

\* Rolling back the uncommitted changes keeps the inductive invariant.
LEMMA RolledBack ==
  ASSUME StoreInv, TypeOK', UNCHANGED <<log, replaced>>, NEW c \in Conns, Closed(c)
  PROVE  StoreInv'
<1>1. OneWriter'
  BY DEF StoreInv, TypeOK, OneWriter, Holds, Closed
<1>2. CASE ~Holds(c)
  <2>1. UNCHANGED draft
    BY <1>2 DEF Closed
  <2>2. QED
    BY <1>2, <2>1, SameRows DEF StoreInv, TypeOK, Closed, Holds
<1>3. CASE Holds(c)
  <2>1. draft' = log /\ log' = log
    BY <1>3 DEF Closed
  <2>2. Keeps(log, draft)'
    BY <2>1, KeepsItself DEF StoreInv, Keeps
  <2>3. QED  BY <1>1, <2>1, <2>2 DEF StoreInv
<1>4. QED  BY <1>2, <1>3

\* A statement that raises keeps the inductive invariant, if the lock it leaves taken
\* was its own or free.
LEMMA Raised ==
  ASSUME StoreInv, TypeOK', NEW c \in Conns,
         NEW left \in {"none", "begun", "read", "write", "stuck"}, Raise(c, left),
         left \in {"write", "stuck"} => CanWrite(c) \/ Holds(c),
         Holds(c) => left \in {"write", "stuck"}
  PROVE  StoreInv'
<1>1. CASE c \in closing /\ Closed(c)
  BY <1>1, RolledBack DEF Raise
<1>2. CASE ~(c \in closing /\ Closed(c))
  <2>1. tx' = [tx EXCEPT ![c] = left] /\ UNCHANGED <<log, draft, replaced>>
    BY <1>2 DEF Raise
  <2>2. QED  BY <2>1, SameRows DEF StoreInv, TypeOK, Holds
<1>3. QED  BY <1>1, <1>2

\* InsertRow keeps the inductive invariant: the constraints are checked against every
\* row there is, because the connection that inserts is the only one with a draft.
LEMMA Inserted ==
  ASSUME StoreInv, TypeOK', NEW c \in Conns, InsertRow(c)
  PROVE  StoreInv'
<1> USE StoreAssumption
<1>1. PICK u \in Tables, r \in Rows : op[c] = [table |-> u, row |-> r]
  <2>1. op[c] \in Requests
    BY DEF StoreInv, TypeOK, InsertRow
  <2>2. QED  BY <2>1 DEF Requests
<1>2. \A t \in Tables : Visible(c, t) = draft[t]
  BY WriterSeesAll DEF StoreInv, InsertRow
<1>3. /\ KeyFree(c, u, r) /\ ParentThere(c, u, r)
      /\ UNCHANGED <<log, replaced>>
      /\ draft' = [draft EXCEPT ![u] = Append(@, r)]
  BY <1>1 DEF InsertRow
<1>4. UniqueKeys(draft') /\ NoOrphans(draft')
  <2>1. r.key # NoKey => At(r.key, draft[u]) = {}
    BY <1>2, <1>3 DEF KeyFree
  <2>2. ParentOf(u) # NoTable => r.parent \in DOMAIN draft[ParentOf(u)]
    BY <1>2, <1>3 DEF ParentThere
  <2>3. draft \in Logs /\ UniqueKeys(draft) /\ NoOrphans(draft)
    BY DEF StoreInv, TypeOK
  <2>4. /\ UniqueKeys([draft EXCEPT ![u] = Append(@, r)])
        /\ NoOrphans([draft EXCEPT ![u] = Append(@, r)])
    BY <2>1, <2>2, <2>3, AddedRow
  <2>5. QED  BY <1>3, <2>4
<1>5. OneWriter'
  BY DEF InsertRow, StoreInv, TypeOK, OneWriter, Holds, CanWrite, Others, AfterWrite
<1>6. Keeps(log, draft)'
  <2>1. log \in Logs /\ draft \in Logs /\ Keeps(log, draft)
    BY DEF StoreInv, TypeOK
  <2> SUFFICES ASSUME NEW t \in Tables
               PROVE  /\ Len(log[t]) <= Len(draft'[t])
                      /\ \A i \in DOMAIN log[t] :
                           <<t, i>> \in replaced \/ draft'[t][i] = log[t][i]
    BY <1>3 DEF Keeps
  <2>2. log[t] \in Seq(Rows) /\ draft[t] \in Seq(Rows)
    BY <2>1 DEF Logs
  <2>3. /\ Len(log[t]) <= Len(draft[t])
        /\ \A i \in DOMAIN log[t] : <<t, i>> \in replaced \/ draft[t][i] = log[t][i]
    BY <2>1 DEF Keeps
  <2>4. draft'[t] = draft[t] \/ draft'[t] = Append(draft[t], r)
    BY <1>3, <2>1 DEF Logs
  <2>5. CASE draft'[t] = draft[t]
    BY <2>3, <2>5
  <2>6. CASE draft'[t] = Append(draft[t], r)
    <3>1. \A w \in Seq(Rows) : /\ Len(Append(w, r)) = Len(w) + 1
                               /\ \A i \in DOMAIN w : Append(w, r)[i] = w[i]
      BY <1>1
    <3>2. /\ Len(draft'[t]) = Len(draft[t]) + 1
          /\ \A i \in DOMAIN draft[t] : draft'[t][i] = draft[t][i]
      BY <2>2, <2>6, <3>1
    <3>3. DOMAIN log[t] \subseteq DOMAIN draft[t] /\ Len(log[t]) <= Len(draft'[t])
      BY <2>2, <2>3, <3>2
    <3>4. QED  BY <2>3, <3>2, <3>3
  <2>7. QED  BY <2>4, <2>5, <2>6
<1>7. QED  BY <1>3, <1>4, <1>5, <1>6 DEF StoreInv

\* ExecuteReplace keeps it: SQLite checks the same constraints, and the row is named.
LEMMA Overwritten ==
  ASSUME StoreInv, TypeOK', NEW c \in Conns, NEW u \in Tables, CanWrite(c),
         NEW k \in DOMAIN Visible(c, u), NEW r \in Asked(u),
         r.key # NoKey => At(r.key, Visible(c, u)) \subseteq {k},
         ParentThere(c, u, r),
         draft' = [draft EXCEPT ![u][k] = r],
         replaced' = replaced \cup {<<u, k>>},
         tx' = [tx EXCEPT ![c] = AfterWrite(c)],
         UNCHANGED log
  PROVE  StoreInv'
<1> USE StoreAssumption
<1>1. \A t \in Tables : Visible(c, t) = draft[t]
  BY WriterSeesAll DEF StoreInv
<1>2. draft \in Logs /\ log \in Logs /\ k \in DOMAIN draft[u] /\ r \in Rows
  BY <1>1, AskedType DEF StoreInv, TypeOK
<1>3. UniqueKeys(draft') /\ NoOrphans(draft')
  <2>1. r.key # NoKey => At(r.key, draft[u]) \subseteq {k}
    BY <1>1
  <2>2. ParentOf(u) # NoTable => r.parent \in DOMAIN draft[ParentOf(u)]
    BY <1>1 DEF ParentThere
  <2>3. UniqueKeys(draft) /\ NoOrphans(draft)
    BY DEF StoreInv
  <2>4. QED  BY <1>2, <2>1, <2>2, <2>3, ReplacedRow
<1>4. OneWriter'
  BY DEF StoreInv, TypeOK, OneWriter, Holds, CanWrite, Others, AfterWrite
<1>5. Keeps(log, draft)'
  <2> SUFFICES ASSUME NEW t \in Tables
               PROVE  /\ Len(log[t]) <= Len(draft'[t])
                      /\ \A i \in DOMAIN log[t] :
                           <<t, i>> \in replaced' \/ draft'[t][i] = log[t][i]
    BY DEF Keeps
  <2>1. /\ Len(log[t]) <= Len(draft[t])
        /\ \A i \in DOMAIN log[t] : <<t, i>> \in replaced \/ draft[t][i] = log[t][i]
    BY DEF StoreInv, Keeps
  <2>2. draft[t] \in Seq(Rows) /\ draft'[t] \in Seq(Rows)
    BY <1>2 DEF TypeOK, Logs
  <2>3. DOMAIN draft'[t] = DOMAIN draft[t]
    BY <1>2 DEF Logs
  <2>4. Len(draft'[t]) = Len(draft[t])
    BY <2>2, <2>3
  <2>5. \A i \in DOMAIN log[t] : <<t, i>> = <<u, k>> \/ draft'[t][i] = draft[t][i]
    BY <1>2 DEF Logs
  <2>6. QED  BY <2>1, <2>4, <2>5
<1>6. QED  BY <1>3, <1>4, <1>5 DEF StoreInv

\* A commit makes the draft of its connection the committed file.
LEMMA Committed ==
  ASSUME StoreInv, TypeOK', NEW c \in Conns, CommitDone(c)
  PROVE  StoreInv'
<1>1. log' \in {draft, log} /\ draft' = draft /\ replaced' = replaced
  BY DEF CommitDone
<1>2. OneWriter'
  BY DEF StoreInv, TypeOK, OneWriter, Holds, CommitDone
<1>3. Keeps(log, draft)'
  <2>1. Keeps(draft, draft)
    BY DEF StoreInv, TypeOK, Logs, Keeps
  <2>2. Keeps(log', draft)
    BY <1>1, <2>1 DEF StoreInv
  <2>3. QED  BY <1>1, <2>2 DEF Keeps
<1>4. QED  BY <1>1, <1>2, <1>3 DEF StoreInv

\* Every step keeps the inductive invariant.
LEMMA StoreStep ==
  ASSUME StoreInv, TypeOK', [Next]_vars
  PROVE  StoreInv'
<1>1. ASSUME NEW c \in Conns, CallAppend(c) PROVE StoreInv'
  BY <1>1, SameRows DEF CallAppend, Holds
<1>2. ASSUME NEW c \in Conns, LookupHit(c) PROVE StoreInv'
  BY <1>2, SameRows DEF LookupHit, AfterRead, Holds, StoreInv, TypeOK
<1>3. ASSUME NEW c \in Conns, LookupMiss(c) PROVE StoreInv'
  BY <1>3, SameRows DEF LookupMiss, AfterRead, Holds, StoreInv, TypeOK
<1>4. ASSUME NEW c \in Conns, LookupLocked(c) PROVE StoreInv'
  BY <1>4, Raised DEF LookupLocked, Holds, StoreInv, TypeOK
<1>5. ASSUME NEW c \in Conns, InsertRow(c) PROVE StoreInv'
  BY <1>5, Inserted
<1>6. ASSUME NEW c \in Conns, InsertRefused(c) PROVE StoreInv'
  BY <1>6, Raised DEF InsertRefused, AfterWrite, Holds
<1>7. ASSUME NEW c \in Conns, InsertLocked(c) PROVE StoreInv'
  BY <1>7, Raised DEF InsertLocked, AfterRefusedWrite, Holds, StoreInv, TypeOK
<1>8. ASSUME NEW c \in Conns, CommitDone(c) PROVE StoreInv'
  BY <1>8, Committed
<1>9. ASSUME NEW c \in Conns, CommitLocked(c) PROVE StoreInv'
  BY <1>9, Raised DEF CommitLocked, CanCommit, Holds
<1>10. ASSUME NEW c \in Conns, ExecuteSelect(c) PROVE StoreInv'
  <2>1. CASE CanRead(c) /\ tx' = [tx EXCEPT ![c] = AfterRead(c)] /\ UNCHANGED <<log, draft, replaced>>
    BY <2>1, SameRows DEF AfterRead, Holds, StoreInv, TypeOK
  <2>2. CASE Raise(c, tx[c])
    BY <2>2, Raised DEF Holds, StoreInv, TypeOK
  <2>3. QED  BY <1>10, <2>1, <2>2 DEF ExecuteSelect
<1>11. ASSUME NEW c \in Conns, Get(c) PROVE StoreInv'
  <2>1. CASE CanRead(c) /\ tx' = [tx EXCEPT ![c] = AfterRead(c)] /\ UNCHANGED <<log, draft, replaced>>
    BY <2>1, SameRows DEF AfterRead, Holds, StoreInv, TypeOK
  <2>2. CASE Raise(c, tx[c])
    BY <2>2, Raised DEF Holds, StoreInv, TypeOK
  <2>3. QED  BY <1>11, <2>1, <2>2 DEF Get
<1>12. ASSUME NEW c \in Conns, NEW t \in Tables, ExecuteMutation(c, t) PROVE StoreInv'
  <2>1. CASE ~CanWrite(c) /\ Raise(c, AfterRefusedWrite(c))
    BY <2>1, Raised DEF AfterRefusedWrite, Holds, StoreInv, TypeOK
  <2>2. CASE CanWrite(c) /\ Raise(c, AfterWrite(c))
    BY <2>2, Raised DEF AfterWrite, Holds
  <2>3. CASE CanWrite(c) /\ tx' = [tx EXCEPT ![c] = AfterWrite(c)] /\ UNCHANGED <<log, draft, replaced>>
    BY <2>3, SameRows DEF AfterWrite, Holds, StoreInv, TypeOK
  <2>4. QED  BY <1>12, <2>1, <2>2, <2>3 DEF ExecuteMutation
<1>13. ASSUME NEW c \in Conns, Crash(c) PROVE StoreInv'
  BY <1>13, RolledBack DEF Crash
<1>14. ASSUME NEW c \in Conns, Open(c) PROVE StoreInv'
  BY <1>14, SameRows DEF Open, Holds
<1>15. ASSUME NEW c \in Conns, NEW t \in Tables, ExecuteReplace(c, t) PROVE StoreInv'
  <2>1. CASE ~CanWrite(c) /\ Raise(c, AfterRefusedWrite(c))
    BY <2>1, Raised DEF AfterRefusedWrite, Holds, StoreInv, TypeOK
  <2>2. CASE CanWrite(c) /\ Raise(c, AfterWrite(c))
    BY <2>2, Raised DEF AfterWrite, Holds
  <2>3. ASSUME NEW i \in DOMAIN Visible(c, t), NEW row \in Asked(t), CanWrite(c),
               row.key # NoKey => At(row.key, Visible(c, t)) \subseteq {i},
               ParentThere(c, t, row),
               draft' = [draft EXCEPT ![t][i] = row],
               replaced' = replaced \cup {<<t, i>>},
               tx' = [tx EXCEPT ![c] = AfterWrite(c)],
               UNCHANGED log
        PROVE  StoreInv'
    BY <2>3, Overwritten
  <2>4. QED  BY <1>15, <2>1, <2>2, <2>3 DEF ExecuteReplace
<1>16. CASE UNCHANGED vars
  BY <1>16 DEF vars, StoreInv, OneWriter, Holds, Keeps
<1>17. QED
  BY <1>1, <1>2, <1>3, <1>4, <1>5, <1>6, <1>7, <1>8, <1>9, <1>10, <1>11, <1>12, <1>13,
     <1>14, <1>15, <1>16 DEF Next, Call, Step

\* The inductive invariant holds in every reachable state.
LEMMA StoreInvariant == Spec => []StoreInv
<1>1. Init => StoreInv
  <2> SUFFICES ASSUME Init PROVE StoreInv
    OBVIOUS
  <2>1. TypeOK
    BY StoreAssumption DEF Init, TypeOK, EmptyLog, Logs
  <2>2. draft = log /\ \A t \in Tables : log[t] = << >>
    BY DEF Init, EmptyLog
  <2>3. OneWriter
    BY DEF Init, OneWriter, Holds
  <2>4. UniqueKeys(log) /\ NoOrphans(log)
    BY <2>2 DEF UniqueKeys, NoOrphans
  <2>5. QED  BY <2>1, <2>2, <2>3, <2>4, KeepsItself DEF StoreInv
<1>2. StoreInv /\ TypeOK' /\ [Next]_vars => StoreInv'
  BY StoreStep
<1>3. QED  BY <1>1, <1>2, Typing, PTL DEF Spec

\* No two committed rows of a table share an idempotency key, whatever the statements of
\* the racing connections, their locks, failures and crashes.
THEOREM Uniqueness == Spec => []KeysUnique
<1>1. StoreInv => KeysUnique
  BY DEF StoreInv, KeysUnique
<1>2. QED  BY <1>1, StoreInvariant, PTL

\* The parent of every committed row is committed.
THEOREM ChainIntact == Spec => []ParentsPresent
<1>1. StoreInv => ParentsPresent
  BY DEF StoreInv, ParentsPresent
<1>2. QED  BY <1>1, StoreInvariant, PTL

\* Only a commit changes the committed file, and no step forgets a replaced row.
LEMMA LogKept ==
  ASSUME NEW c \in Conns
  PROVE  /\ \A t \in Tables : ExecuteMutation(c, t) \/ ExecuteReplace(c, t) => UNCHANGED log
         /\ Call(c) \/ Crash(c) \/ Open(c) => UNCHANGED log
         /\ Step(c) => CommitDone(c) \/ UNCHANGED log
         /\ Call(c) \/ Step(c) \/ Crash(c) \/ Open(c) => replaced \subseteq replaced'
<1>1. ASSUME NEW left, Raise(c, left) PROVE UNCHANGED <<log, replaced>>
  BY <1>1 DEF Raise
<1>2. ASSUME NEW t \in Tables, ExecuteMutation(c, t) \/ ExecuteReplace(c, t)
      PROVE  UNCHANGED log /\ replaced \subseteq replaced'
  BY <1>1, <1>2 DEF ExecuteMutation, ExecuteReplace
<1>3. ASSUME Call(c) \/ Crash(c) \/ Open(c)
      PROVE  UNCHANGED log /\ replaced \subseteq replaced'
  BY <1>1, <1>2, <1>3 DEF Call, CallAppend, ExecuteSelect, Get, Crash, Open
<1>4. ASSUME Step(c)
      PROVE  (CommitDone(c) \/ UNCHANGED log) /\ UNCHANGED replaced
  BY <1>1, <1>4 DEF Step, LookupHit, LookupMiss, LookupLocked, InsertRow, InsertRefused,
     InsertLocked, CommitDone, CommitLocked
<1>5. QED  BY <1>2, <1>3, <1>4

\* A step adds rows behind the committed ones and changes no other but the named.
LEMMA StepGrows ==
  ASSUME StoreInv, [Next]_vars
  PROVE  Keeps(log, log') /\ replaced \subseteq replaced'
<1>1. ASSUME UNCHANGED log
      PROVE  Keeps(log, log')
  BY <1>1 DEF StoreInv, Keeps, TypeOK, Logs
<1>2. ASSUME NEW c \in Conns, CommitDone(c)
      PROVE  Keeps(log, log')
  <2>1. log' = log \/ log' = draft
    BY <1>2 DEF CommitDone
  <2>2. QED  BY <2>1, <1>2, KeepsItself DEF StoreInv
<1>3. (\E c \in Conns : CommitDone(c)) \/ UNCHANGED log
  BY LogKept DEF Next, vars
<1>4. replaced \subseteq replaced'
  BY LogKept DEF Next, vars
<1>5. QED  BY <1>1, <1>2, <1>3, <1>4

\* A committed row stays where it is, with what it holds, for ever, unless the statement
\* INSERT OR REPLACE named its id; and no table ever becomes shorter.
THEOREM Monotone == Spec => AppendOnly
<1> DEFINE Kept == \A t \in Tables :
                     /\ Len(log[t]) <= Len(log'[t])
                     /\ \A i \in DOMAIN log[t] :
                          <<t, i>> \in replaced \/ log'[t][i] = log[t][i]
<1>1. StoreInv /\ [Next]_vars => [Kept]_vars
  BY StepGrows DEF Keeps
<1>2. QED  BY <1>1, StoreInvariant, PTL DEF Spec, AppendOnly

---------------------------------------------------------------------------
(* Callers that close the store when a method raises.                      *)

\* A connection that closes on every error has no transaction open outside a commit, and
\* its commit publishes exactly the row of the append it belongs to.
Quiet ==
  /\ \A c \in closing : pc[c] # "commit" => tx[c] = "none"
  /\ \A c \in closing : pc[c] \in {"idle", "down"} => op[c] = NoOp
  /\ \A c \in closing : pc[c] = "commit" /\ op[c] # NoOp =>
       Holds(c) /\ draft[op[c].table] = Append(log[op[c].table], op[c].row)

\* A step of one connection that leaves the uncommitted rows of the others alone.
LEMMA QuietElsewhere ==
  ASSUME StoreInv, Quiet, UNCHANGED closing, NEW c \in Conns,
         \A d \in Conns \ {c} : tx'[d] = tx[d] /\ pc'[d] = pc[d] /\ op'[d] = op[d],
         UNCHANGED <<log, draft>> \/ CanWrite(c) \/ Holds(c),
         c \in closing =>
           /\ pc'[c] # "commit" => tx'[c] = "none"
           /\ pc'[c] \in {"idle", "down"} => op'[c] = NoOp
           /\ pc'[c] = "commit" /\ op'[c] # NoOp =>
                Holds(c)' /\ draft'[op'[c].table] = Append(log'[op'[c].table], op'[c].row)
  PROVE  Quiet'
<1> USE DEF StoreInv, TypeOK
<1>1. ASSUME NEW d \in closing \ {c}, pc[d] = "commit", op[d] # NoOp
      PROVE  draft'[op[d].table] = Append(log'[op[d].table], op[d].row) /\ Holds(d)'
  <2>1. Holds(d) /\ draft[op[d].table] = Append(log[op[d].table], op[d].row)
    BY <1>1 DEF Quiet
  <2>2. ~CanWrite(c) /\ ~Holds(c)
    BY <2>1 DEF CanWrite, Others, StoreInv, OneWriter
  <2>3. QED  BY <2>1, <2>2 DEF Holds
<1>2. QED  BY <1>1 DEF Quiet

\* Whatever a connection that is not careful does is such a step.
LEMMA CarelessElsewhere ==
  ASSUME StoreInv, Quiet, UNCHANGED closing, NEW c \in Conns \ closing,
         Call(c) \/ Step(c) \/ Crash(c) \/ Open(c)
  PROVE  Quiet'
<1> USE DEF StoreInv, TypeOK
<1>1. \A d \in Conns \ {c} : tx'[d] = tx[d] /\ pc'[d] = pc[d] /\ op'[d] = op[d]
  BY DEF Call, Step, CallAppend, LookupHit, LookupMiss, LookupLocked, InsertRow,
     InsertRefused, InsertLocked, CommitDone, CommitLocked, ExecuteSelect, Get,
     ExecuteMutation, ExecuteReplace, Crash, Open, Raise, Closed
<1>2. UNCHANGED <<log, draft>> \/ CanWrite(c) \/ Holds(c)
  BY DEF Call, Step, CallAppend, LookupHit, LookupMiss, LookupLocked, InsertRow,
     InsertRefused, InsertLocked, CommitDone, CommitLocked, ExecuteSelect, Get,
     ExecuteMutation, ExecuteReplace, Crash, Open, Raise, Closed
<1>3. QED  BY <1>1, <1>2, QuietElsewhere

\* Every step keeps this.
LEMMA QuietStep ==
  ASSUME StoreInv, Quiet, [Next]_vars
  PROVE  Quiet'
<1> USE DEF StoreInv, TypeOK
<1>0. UNCHANGED closing /\ closing \subseteq Conns
  BY DEF Next, vars
<1> USE <1>0
<1>1. ASSUME NEW c \in closing, Closed(c), UNCHANGED log PROVE Quiet'
  BY <1>1, QuietElsewhere DEF Closed
<1>2. ASSUME NEW c \in closing, CallAppend(c) PROVE Quiet'
  BY <1>2, QuietElsewhere DEF CallAppend, Quiet
<1>3. ASSUME NEW c \in closing, LookupHit(c) \/ LookupMiss(c) PROVE Quiet'
  BY <1>3, QuietElsewhere DEF LookupHit, LookupMiss, AfterRead, Quiet
<1>4. ASSUME NEW c \in closing, InsertRow(c) PROVE Quiet'
  <2>1. tx[c] = "none" /\ CanWrite(c)
    BY <1>4 DEF InsertRow, Quiet
  <2>2. draft = log
    BY <2>1 DEF OneWriter, CanWrite, Others, Holds
  <2>3. op[c].table \in Tables
    BY <1>4 DEF InsertRow, Requests
  <2>4. draft'[op[c].table] = Append(log'[op[c].table], op[c].row)
    BY <1>4, <2>2, <2>3 DEF InsertRow, Logs
  <2>5. QED
    BY <1>4, <2>1, <2>4, QuietElsewhere DEF InsertRow, AfterWrite, Holds
<1>5. ASSUME NEW c \in closing, CommitDone(c) PROVE Quiet'
  BY <1>5, QuietElsewhere DEF CommitDone
<1>6. ASSUME NEW c \in closing, ExecuteSelect(c) PROVE Quiet'
  <2>1. CASE Raise(c, tx[c])
    BY <1>1, <2>1 DEF Raise
  <2>2. CASE ~Raise(c, tx[c])
    <3>1. pc[c] = "idle" /\ tx[c] = "none" /\ op[c] = NoOp
      BY <1>6 DEF ExecuteSelect, Quiet
    <3>2. /\ tx' = [tx EXCEPT ![c] = "none"]
          /\ pc' = [pc EXCEPT ![c] = "commit"]
          /\ UNCHANGED <<log, draft, op>>
      BY <1>6, <2>2, <3>1 DEF ExecuteSelect, AfterRead
    <3>3. QED  BY <3>1, <3>2, QuietElsewhere
  <2>3. QED  BY <2>1, <2>2
<1>7. ASSUME NEW c \in closing, Get(c) PROVE Quiet'
  BY <1>7, <1>1, QuietElsewhere DEF Get, Raise, AfterRead, Quiet
<1>8. ASSUME NEW c \in closing, NEW t \in Tables, ExecuteMutation(c, t) PROVE Quiet'
  <2>1. CASE Closed(c)
    BY <1>1, <1>8, <2>1, LogKept
  <2>2. CASE ~Closed(c)
    <3>1. pc[c] = "idle" /\ op[c] = NoOp
      BY <1>8 DEF ExecuteMutation, Quiet
    <3>2. /\ tx' = [tx EXCEPT ![c] = AfterWrite(c)]
          /\ pc' = [pc EXCEPT ![c] = "commit"]
          /\ UNCHANGED <<log, draft, op>>
      BY <1>8, <2>2 DEF ExecuteMutation, Raise
    <3>3. QED  BY <3>1, <3>2, QuietElsewhere
  <2>3. QED  BY <2>1, <2>2
<1>9. ASSUME NEW c \in closing, Open(c) PROVE Quiet'
  BY <1>9, QuietElsewhere DEF Open, Quiet
<1>10. ASSUME NEW c \in closing,
              \/ LookupLocked(c) \/ InsertRefused(c) \/ InsertLocked(c)
              \/ CommitLocked(c) \/ Crash(c)
       PROVE  Quiet'
  BY <1>10, <1>1 DEF LookupLocked, InsertRefused, InsertLocked, CommitLocked, Crash, Raise
<1>11. CASE UNCHANGED vars
  BY <1>11 DEF vars, Quiet, Holds
<1>12. ASSUME NEW c \in Conns \ closing, Call(c) \/ Step(c) \/ Crash(c) \/ Open(c)
       PROVE  Quiet'
  BY <1>12, CarelessElsewhere
<1>13. ASSUME NEW c \in closing, NEW t \in Tables, ExecuteReplace(c, t) PROVE Quiet'
  <2>1. CASE Closed(c)
    BY <1>1, <1>13, <2>1, LogKept
  <2>2. CASE ~Closed(c)
    <3>1. pc[c] = "idle" /\ op[c] = NoOp
      BY <1>13 DEF ExecuteReplace, Quiet
    <3>2. /\ CanWrite(c)
          /\ tx' = [tx EXCEPT ![c] = AfterWrite(c)]
          /\ pc' = [pc EXCEPT ![c] = "commit"]
          /\ UNCHANGED op
      BY <1>13, <2>2 DEF ExecuteReplace, Raise
    <3>3. QED  BY <3>1, <3>2, QuietElsewhere
  <2>3. QED  BY <2>1, <2>2
<1>14. QED
  BY <1>13, <1>2, <1>3, <1>4, <1>5, <1>6, <1>7, <1>8, <1>9, <1>10, <1>11, <1>12 DEF Next, Call, Step

\* An id that was returned stays good, and the ids a step returns are good.
LEMMA AckedStep ==
  ASSUME StoreInv, Quiet, AckedDurable, [Next]_vars
  PROVE  AckedDurable'
<1>0. UNCHANGED closing /\ closing \subseteq Conns
  BY DEF Next, vars, StoreInv, TypeOK
<1> USE <1>0
<1>1. ASSUME NEW a \in acked, a.by \in closing
      PROVE  Durable(a)'
  <2>1. a.table \in Tables /\ Durable(a)
    BY <1>1 DEF AckedDurable, StoreInv, TypeOK
  <2>2. Keeps(log, log') /\ replaced \subseteq replaced'
    BY StepGrows
  <2>3. log[a.table] \in Seq(Rows) /\ log'[a.table] \in Seq(Rows)
    <3>1. log' = log \/ log' = draft
      BY LogKept DEF Next, CommitDone, vars
    <3>2. QED  BY <2>1, <3>1 DEF StoreInv, TypeOK, Logs
  <2>4. CASE <<a.table, a.id>> \in replaced
    BY <2>2, <2>4 DEF Durable
  <2>5. CASE <<a.table, a.id>> \notin replaced
    <3>1. a.id \in DOMAIN log[a.table] /\ log[a.table][a.id].key = a.key
      BY <2>1, <2>5 DEF Durable
    <3>2. log'[a.table][a.id] = log[a.table][a.id] /\ Len(log[a.table]) <= Len(log'[a.table])
      BY <2>1, <2>2, <2>5, <3>1 DEF Keeps
    <3>3. a.id \in DOMAIN log'[a.table]
      BY <2>3, <3>1, <3>2
    <3>4. QED  BY <3>1, <3>2, <3>3 DEF Durable
  <2>6. QED  BY <2>4, <2>5
<1>2. ASSUME NEW c \in closing, LookupHit(c) PROVE AckedDurable'
  <2>1. Visible(c, op[c].table) = log[op[c].table]
    BY <1>2 DEF LookupHit, Quiet, Visible, Holds
  <2>2. log' = log
    BY <1>2 DEF LookupHit
  <2>3. PICK i \in At(op[c].row.key, log[op[c].table]) :
          acked' = acked \cup Told(c, op[c].table, op[c].row.key, i)
    BY <1>2, <2>1 DEF LookupHit
  <2>4. ASSUME NEW a \in Told(c, op[c].table, op[c].row.key, i)
        PROVE  Durable(a)'
    <3>1. a = [by |-> c, table |-> op[c].table, key |-> op[c].row.key, id |-> i]
      BY <2>4 DEF Told
    <3>2. QED  BY <2>2, <2>3, <3>1 DEF At, Durable
  <2>5. QED  BY <1>1, <2>3, <2>4 DEF AckedDurable
<1>3. ASSUME NEW c \in closing, CommitDone(c) PROVE AckedDurable'
  <2>1. acked' = acked \cup Returned(c)
    BY <1>3 DEF CommitDone
  <2>2. ASSUME NEW a \in Returned(c)
        PROVE  Durable(a)'
    <3>1. /\ op[c] # NoOp
          /\ a = [by |-> c, table |-> op[c].table, key |-> op[c].row.key,
                  id |-> Len(Visible(c, op[c].table))]
      BY <2>2 DEF Returned, Told
    <3>2. PICK u \in Tables, r \in Rows : op[c] = [table |-> u, row |-> r]
      BY <3>1 DEF StoreInv, TypeOK, Requests
    <3>3. Holds(c) /\ draft[u] = Append(log[u], r)
      <4>1. pc[c] = "commit"
        BY <1>3 DEF CommitDone
      <4>2. Holds(c) /\ draft[op[c].table] = Append(log[op[c].table], op[c].row)
        BY <3>1, <4>1 DEF Quiet
      <4>3. op[c].table = u /\ op[c].row = r
        BY <3>2
      <4>4. QED  BY <4>2, <4>3
    <3>4. log'[u] = Append(log[u], r) /\ Visible(c, u) = Append(log[u], r)
      BY <1>3, <3>3 DEF CommitDone, Visible
    <3>5. log[u] \in Seq(Rows)
      BY DEF StoreInv, TypeOK, Logs
    <3>6. \A s \in Seq(Rows) : LET w == Append(s, r) IN Len(w) \in DOMAIN w /\ w[Len(w)] = r
      OBVIOUS
    <3>7. QED  BY <3>1, <3>2, <3>4, <3>5, <3>6 DEF Durable
  <2>3. QED  BY <1>1, <2>1, <2>2 DEF AckedDurable
<1>4. ASSUME NEW c \in Conns \ closing, LookupHit(c) \/ CommitDone(c)
      PROVE  \A a \in acked' \ acked : a.by \notin closing
  BY <1>4 DEF LookupHit, CommitDone, Returned, Told
<1>5. (\E c \in Conns : LookupHit(c) \/ CommitDone(c)) \/ UNCHANGED acked
  BY DEF Next, Call, Step, CallAppend, LookupMiss, LookupLocked, InsertRow, InsertRefused,
     InsertLocked, CommitLocked, ExecuteSelect, Get, ExecuteMutation, ExecuteReplace, Crash,
     Open, Raise, vars
<1>6. QED  BY <1>1, <1>2, <1>3, <1>4, <1>5 DEF AckedDurable

\* The two, for ever.
LEMMA QuietInvariant == Spec => [](StoreInv /\ Quiet /\ AckedDurable)
<1>1. Init => Quiet /\ AckedDurable
  BY StoreAssumption DEF Init, Quiet, AckedDurable
<1>2. StoreInv /\ Quiet /\ AckedDurable /\ [Next]_vars => Quiet' /\ AckedDurable'
  BY QuietStep, AckedStep
<1>3. QED  BY <1>1, <1>2, StoreInvariant, PTL DEF Spec

\* A connection whose callers close the store when a method raises keeps no transaction,
\* and so no lock, between its calls, whatever the other connections do.
THEOREM NothingDangles == Spec => []NoDanglingTransaction
<1>1. Quiet => NoDanglingTransaction
  BY DEF Quiet, NoDanglingTransaction
<1>2. QED  BY <1>1, QuietInvariant, PTL

\* Every id that was returned to such a connection for a key names the committed row with
\* that key, after any number of crashes and next to any other connection.
THEOREM Durability == Spec => []AckedDurable
BY QuietInvariant, PTL
=============================================================================
