------------------------ MODULE TransactionGuardProofs ------------------------
(***************************************************************************)
(* The guards of TransactionGuard leave no transaction behind, and match   *)
(* the transactions that nothing else ends.                                *)
(***************************************************************************)
EXTENDS TransactionGuard, TLAPS

GuardInv == TypeOK /\ NoOrphan /\ GuardsMatch

\* Initially no guard is active and no connection is in a transaction.
LEMMA GuardInit == Init => GuardInv
BY GuardAssumption
DEF Init, GuardInv, TypeOK, IsOpen, NoOrphan, GuardsMatch, Guarded, InTransaction

\* A Database that is in a transaction is open, and no other one has its connection.
LEMMA OneDatabase ==
  ASSUME TypeOK, NEW d \in Database, InTransaction(d)
  PROVE  /\ IsOpen(d) /\ database[d] \in Connection
         /\ \A e \in Database : database[e] = database[d] => e = d
BY GuardAssumption DEF TypeOK, InTransaction, IsOpen

-----------------------------------------------------------------------------
(* Steps of the guards.                                                     *)

\* A rollback from a noexcept context only ends the transaction of the guard, and
\* only ends the program if the guard's database was disturbed.
LEMMA NoexceptRollbackType ==
  ASSUME GuardInv, ~terminated, NEW t \in Transaction, NoexceptRollback(t)
  PROVE  /\ terminated' \in BOOLEAN
         /\ terminated' => UNCHANGED <<inTxn, severed>> /\ disturbed # {}
         /\ ~terminated' =>
              \/ db[t] = Null /\ UNCHANGED <<inTxn, severed>>
              \/ db[t] \in Database /\ EndTransaction(database[db[t]])
<1>1. TypeOK /\ GuardsMatch
  BY DEF GuardInv
<1>2. CASE ~is_active(t) /\ UNCHANGED <<inTxn, severed, terminated>>
  BY <1>1, <1>2 DEF is_active, TypeOK
<1>3. CASE is_active(t) /\ EndTransaction(database[db[t]]) /\ UNCHANGED terminated
  BY <1>1, <1>3 DEF is_active, TypeOK
<1>4. CASE /\ is_active(t) /\ ~InTransaction(db[t]) /\ terminated' = TRUE
           /\ UNCHANGED <<inTxn, severed>>
  <2>1. db[t] \in Database /\ Guarded(db[t])
    BY <1>1, <1>4 DEF is_active, TypeOK, Guarded
  <2>2. db[t] \in disturbed
    BY <1>1, <1>4, <2>1 DEF GuardsMatch
  <2> QED
    BY <1>4, <2>2
<1> QED
  BY <1>2, <1>3, <1>4 DEF NoexceptRollback

\* The program ends with guards and transactions as they are.
LEMMA TerminateStep ==
  ASSUME GuardInv, terminated' = TRUE, disturbed' # {}, disturbed \subseteq disturbed',
         disturbed' \subseteq Database, UNCHANGED <<db, database, statements, inTxn, severed>>
  PROVE  GuardInv'
<1>1. \A d \in Database : (Guarded(d)' <=> Guarded(d)) /\ (InTransaction(d)' <=> InTransaction(d))
  BY DEF Guarded, InTransaction
<1>2. TypeOK' /\ NoOrphan'
  BY DEF GuardInv, TypeOK, IsOpen, HasDatabase, NoOrphan, is_active
<1>3. GuardsMatch'
  BY <1>1 DEF GuardInv, GuardsMatch
<1> QED
  BY <1>2, <1>3 DEF GuardInv

\* A new guard: only an open database outside a transaction accepts BEGIN.
LEMMA ConstructStep ==
  ASSUME GuardInv, ~terminated,
         NEW t \in Transaction, NEW d \in Database, Construct(t, d)
  PROVE  GuardInv'
<1>t. TypeOK /\ NoOrphan /\ GuardsMatch
  BY DEF GuardInv
<1>1. CASE IsOpen(d) /\ ~InTransaction(d)
  <2>1. /\ db' = [db EXCEPT ![t] = d] /\ inTxn' = inTxn \cup {database[d]}
        /\ UNCHANGED <<database, statements, severed, terminated, disturbed>>
        /\ db[t] = Null /\ database[d] \in Connection
    BY <1>1, <1>t DEF Construct, is_active, TypeOK, IsOpen
  <2>2. TypeOK'
    BY <1>t, <2>1 DEF TypeOK, IsOpen, HasDatabase
  <2>3. db'[t] = d /\ \A u \in Transaction \ {t} : db'[u] = db[u]
    BY <1>t, <2>1 DEF TypeOK
  <2>4. ASSUME NEW e \in Database \ {d}
        PROVE  (Guarded(e)' <=> Guarded(e)) /\ (InTransaction(e)' <=> InTransaction(e))
    <3>1. Guarded(e)' <=> Guarded(e)
      BY <2>1, <2>3, GuardAssumption DEF Guarded
    <3>2. database[e] # database[d]
      BY <1>1, <1>t DEF TypeOK
    <3> QED
      BY <2>1, <3>1, <3>2 DEF InTransaction
  <2>5. Guarded(d)' /\ InTransaction(d)'
    BY <2>1, <2>3 DEF Guarded, InTransaction
  <2>6. NoOrphan'
    <3> SUFFICES ASSUME NEW c \in inTxn' \ severed'
                 PROVE  \E u \in Transaction : db'[u] # Null /\ database[db'[u]] = c
      BY <2>1 DEF NoOrphan, is_active
    <3>1. CASE c = database[d]
      BY <2>3, <3>1, GuardAssumption
    <3>2. CASE c # database[d]
      <4>1. PICK u \in Transaction : db[u] # Null /\ database[db[u]] = c
        BY <1>t, <2>1, <3>2 DEF NoOrphan, is_active
      <4> QED
        BY <2>1, <2>3, <4>1
    <3> QED
      BY <3>1, <3>2
  <2>7. ASSUME NEW v \in Transaction, NEW w \in Transaction,
               db'[v] = db'[w], db'[v] \in Database \ disturbed'
        PROVE  v = w
    <3>1. ~Guarded(d) \/ d \in disturbed
      BY <1>1, <1>t DEF GuardsMatch
    <3> QED
      BY <1>t, <2>1, <2>3, <2>7, <3>1 DEF GuardsMatch, Guarded
  <2>8. GuardsMatch'
    BY <1>t, <2>1, <2>4, <2>5, <2>7 DEF GuardsMatch
  <2> QED
    BY <2>2, <2>6, <2>8 DEF GuardInv
<1>2. CASE ~(IsOpen(d) /\ ~InTransaction(d))
  BY <1>2, <1>t, TerminateStep DEF Construct, TypeOK
<1> QED
  BY <1>1, <1>2

\* A guard that lets go of its database as it ends its transaction.
LEMMA EndStep ==
  ASSUME GuardInv, ~terminated, NEW t \in Transaction, db[t] \in Database,
         EndTransaction(database[db[t]]), db' = [db EXCEPT ![t] = Null],
         UNCHANGED <<database, statements, terminated, disturbed>>
  PROVE  GuardInv'
<1>t. TypeOK /\ NoOrphan /\ GuardsMatch
  BY DEF GuardInv
<1>1. inTxn' = inTxn \ {database[db[t]]} /\ severed' = inTxn' \cap severed
  BY DEF EndTransaction, Sever
<1>2. db'[t] = Null /\ \A u \in Transaction \ {t} : db'[u] = db[u]
  BY <1>t DEF TypeOK
<1>3. TypeOK'
  BY <1>t, <1>1 DEF TypeOK, IsOpen, HasDatabase
<1>4. NoOrphan'
  <2> SUFFICES ASSUME NEW c \in inTxn' \ severed'
               PROVE  \E u \in Transaction : db'[u] # Null /\ database[db'[u]] = c
    BY DEF NoOrphan, is_active
  <2>1. PICK u \in Transaction : db[u] # Null /\ database[db[u]] = c
    BY <1>t, <1>1 DEF NoOrphan, is_active
  <2> QED
    BY <1>1, <1>2, <2>1
<1>5. ASSUME NEW d \in Database \ disturbed
      PROVE  InTransaction(d)' <=> Guarded(d)'
  <2>1. CASE d = db[t]
    <3>1. ~InTransaction(d)'
      BY <1>1, <2>1 DEF InTransaction
    <3>2. \A u \in Transaction \ {t} : db[u] # d
      BY <1>t, <1>5, <2>1 DEF GuardsMatch
    <3> QED
      BY <1>2, <3>1, <3>2, GuardAssumption DEF Guarded
  <2>2. CASE d # db[t]
    <3>1. InTransaction(d)' <=> InTransaction(d)
      BY <1>t, <1>1, <2>2, OneDatabase DEF InTransaction
    <3>2. Guarded(d)' <=> Guarded(d)
      BY <1>2, <2>2, GuardAssumption DEF Guarded
    <3> QED
      BY <1>t, <3>1, <3>2 DEF GuardsMatch
  <2> QED
    BY <2>1, <2>2
<1>6. ASSUME NEW v \in Transaction, NEW w \in Transaction,
             db'[v] = db'[w], db'[v] \in Database \ disturbed'
      PROVE  v = w
  BY <1>t, <1>2, <1>6, GuardAssumption DEF GuardsMatch
<1>7. GuardsMatch'
  BY <1>5, <1>6 DEF GuardsMatch
<1> QED
  BY <1>3, <1>4, <1>7 DEF GuardInv

\* Guards that exchange their databases without losing one.
LEMMA ExchangeStep ==
  ASSUME GuardInv, db' \in [Transaction -> Database \cup {Null}],
         \A d \in Database : Guarded(d)' <=> Guarded(d),
         \A v, w \in Transaction :
           db'[v] = db'[w] /\ db'[v] \in Database \ disturbed => v = w,
         UNCHANGED <<database, statements, inTxn, terminated, severed, disturbed>>
  PROVE  GuardInv'
<1>t. TypeOK /\ NoOrphan /\ GuardsMatch
  BY DEF GuardInv
<1>1. TypeOK'
  BY <1>t DEF TypeOK, IsOpen, HasDatabase
<1>2. NoOrphan'
  <2> SUFFICES ASSUME NEW c \in inTxn \ severed
               PROVE  \E u \in Transaction : db'[u] # Null /\ database[db'[u]] = c
    BY DEF NoOrphan, is_active
  <2>1. PICK u \in Transaction : db[u] # Null /\ database[db[u]] = c
    BY <1>t DEF NoOrphan, is_active
  <2>2. db[u] \in Database /\ Guarded(db[u])'
    BY <1>t, <2>1 DEF TypeOK, Guarded
  <2>3. PICK v \in Transaction : db'[v] = db[u]
    BY <2>2 DEF Guarded
  <2> QED
    BY <2>1, <2>3
<1>3. GuardsMatch'
  <2>1. \A d \in Database : InTransaction(d)' <=> InTransaction(d)
    BY DEF InTransaction
  <2> QED
    BY <1>t, <2>1 DEF GuardsMatch
<1> QED
  BY <1>1, <1>2, <1>3 DEF GuardInv

\* The move constructor hands the database of u to t.
LEMMA MoveConstructStep ==
  ASSUME GuardInv, NEW t \in Transaction, NEW u \in Transaction, MoveConstruct(t, u)
  PROVE  GuardInv'
<1>1. TypeOK /\ GuardsMatch /\ t # u /\ db[t] = Null /\ db' = [db EXCEPT ![t] = db[u], ![u] = Null]
  BY DEF GuardInv, MoveConstruct, is_active
<1>2. /\ db' \in [Transaction -> Database \cup {Null}]
      /\ db'[t] = db[u] /\ db'[u] = Null
      /\ \A v \in Transaction \ {t, u} : db'[v] = db[v]
  BY <1>1 DEF TypeOK
<1>3. ASSUME NEW d \in Database PROVE Guarded(d)' <=> Guarded(d)
  <2>1. ASSUME NEW v \in Transaction, db[v] = d PROVE Guarded(d)'
    BY <1>1, <1>2, <2>1, GuardAssumption DEF Guarded
  <2>2. ASSUME NEW v \in Transaction, db'[v] = d PROVE Guarded(d)
    BY <1>1, <1>2, <2>2, GuardAssumption DEF Guarded
  <2> QED
    BY <2>1, <2>2 DEF Guarded
<1>4. ASSUME NEW v \in Transaction, NEW w \in Transaction,
             db'[v] = db'[w], db'[v] \in Database \ disturbed
      PROVE  v = w
  BY <1>1, <1>2, <1>4, GuardAssumption DEF GuardsMatch
<1> QED
  BY <1>2, <1>3, <1>4, ExchangeStep DEF MoveConstruct

\* operator= is a rollback followed by the swap of two guards.
LEMMA MoveAssignStep ==
  ASSUME GuardInv, ~terminated,
         NEW t \in Transaction, NEW u \in Transaction, MoveAssign(t, u)
  PROVE  GuardInv'
<1>t. TypeOK /\ NoOrphan /\ GuardsMatch /\ NoexceptRollback(t)
  BY DEF GuardInv, MoveAssign
<1>1. CASE terminated'
  <2>1. /\ terminated' = TRUE /\ disturbed # {}
        /\ UNCHANGED <<db, database, statements, inTxn, severed, disturbed>>
    BY <1>1, <1>t, NoexceptRollbackType DEF MoveAssign
  <2> QED
    BY <1>t, <2>1, TerminateStep DEF TypeOK
<1>2. CASE ~terminated'
  <2>1. /\ UNCHANGED <<database, statements, terminated, disturbed>>
        /\ \/ db[t] = Null /\ UNCHANGED <<inTxn, severed>>
           \/ db[t] \in Database /\ EndTransaction(database[db[t]])
    BY <1>2, <1>t, NoexceptRollbackType DEF MoveAssign, TypeOK
  <2>2. /\ db' \in [Transaction -> Database \cup {Null}]
        /\ db'[u] = Null
        /\ t # u => db'[t] = db[u]
        /\ \A v \in Transaction \ {t, u} : db'[v] = db[v]
    BY <1>2, <1>t DEF MoveAssign, TypeOK
  <2>3. ASSUME NEW d \in Database, d # db[t] PROVE Guarded(d)' <=> Guarded(d)
    <3>1. ASSUME NEW v \in Transaction, db[v] = d PROVE Guarded(d)'
      <4>1. CASE v = u
        BY <2>2, <2>3, <3>1, <4>1 DEF Guarded
      <4>2. CASE v # u
        BY <2>2, <2>3, <3>1, <4>2 DEF Guarded
      <4> QED
        BY <4>1, <4>2
    <3>2. ASSUME NEW v \in Transaction, db'[v] = d PROVE Guarded(d)
      <4>1. v # u
        BY <2>2, <3>2, GuardAssumption
      <4> QED
        BY <2>2, <3>2, <4>1 DEF Guarded
    <3> QED
      BY <3>1, <3>2 DEF Guarded
  <2>4. \A v, w \in Transaction :
          db'[v] = db'[w] /\ db'[v] \in Database \ disturbed => v = w
    <3> SUFFICES ASSUME NEW v \in Transaction, NEW w \in Transaction,
                        db'[v] = db'[w], db'[v] \in Database \ disturbed
                 PROVE  v = w
      OBVIOUS
    <3> QED
      BY <1>t, <2>2, GuardAssumption DEF GuardsMatch
  <2>5. CASE db[t] = Null /\ UNCHANGED <<inTxn, severed>>
    <3>1. \A d \in Database : Guarded(d)' <=> Guarded(d)
      BY <2>3, <2>5, GuardAssumption
    <3> QED
      BY <2>1, <2>2, <2>4, <2>5, <3>1, ExchangeStep
  <2>6. CASE db[t] \in Database /\ EndTransaction(database[db[t]])
    <3>1. inTxn' = inTxn \ {database[db[t]]} /\ severed' = inTxn' \cap severed
      BY <2>6 DEF EndTransaction, Sever
    <3>2. TypeOK'
      BY <1>t, <2>1, <2>2, <3>1 DEF TypeOK, IsOpen, HasDatabase
    <3>3. NoOrphan'
      <4> SUFFICES ASSUME NEW c \in inTxn' \ severed'
                   PROVE  \E v \in Transaction : db'[v] # Null /\ database[db'[v]] = c
        BY <2>1 DEF NoOrphan, is_active
      <4>1. PICK v \in Transaction : db[v] # Null /\ database[db[v]] = c
        BY <1>t, <3>1 DEF NoOrphan, is_active
      <4>2. db[v] \in Database /\ db[v] # db[t] /\ Guarded(db[v])
        BY <1>t, <3>1, <4>1 DEF TypeOK, Guarded
      <4>3. PICK w \in Transaction : db'[w] = db[v]
        BY <2>3, <4>2 DEF Guarded
      <4> QED
        BY <4>1, <4>3
    <3>4. ASSUME NEW d \in Database \ disturbed
          PROVE  InTransaction(d)' <=> Guarded(d)'
      <4>1. CASE d = db[t]
        <5>1. ~InTransaction(d)'
          BY <2>1, <3>1, <4>1 DEF InTransaction
        <5>2. \A v \in Transaction \ {t} : db[v] # d
          BY <1>t, <3>4, <4>1 DEF GuardsMatch
        <5>3. \A v \in Transaction : db'[v] # d
          BY <2>2, <4>1, <5>2, GuardAssumption
        <5> QED
          BY <5>1, <5>3 DEF Guarded
      <4>2. CASE d # db[t]
        <5>1. InTransaction(d)' <=> InTransaction(d)
          BY <1>t, <2>1, <2>6, <3>1, <4>2, OneDatabase DEF InTransaction
        <5> QED
          BY <1>t, <2>3, <4>2, <5>1 DEF GuardsMatch
      <4> QED
        BY <4>1, <4>2
    <3>5. GuardsMatch'
      BY <1>2, <2>1, <2>4, <3>4 DEF GuardsMatch
    <3> QED
      BY <3>2, <3>3, <3>5 DEF GuardInv
  <2> QED
    BY <2>1, <2>5, <2>6
<1> QED
  BY <1>1, <1>2

-----------------------------------------------------------------------------
(* Steps no guard knows of.                                                 *)

\* What happens behind the back of a guard disturbs the databases it affects.
LEMMA DisturbStep ==
  ASSUME GuardInv, ~terminated, Disturb, UNCHANGED <<db, terminated>>
  PROVE  GuardsMatch' /\ disturbed' \subseteq Database
<1>1. disturbed' \subseteq Database
  BY DEF GuardInv, TypeOK, Disturb
<1>2. ASSUME NEW d \in Database \ disturbed'
      PROVE  (Guarded(d)' <=> Guarded(d)) /\ (InTransaction(d)' <=> InTransaction(d))
  BY <1>2 DEF Disturb, Guarded
<1> QED
  BY <1>1, <1>2 DEF GuardInv, GuardsMatch, Disturb

\* A transaction that ends behind the back of its guards.
LEMMA EndBehindStep ==
  ASSUME GuardInv, ~terminated, NEW c, EndTransaction(c), Disturb,
         UNCHANGED <<db, database, statements, terminated>>
  PROVE  GuardInv'
<1>1. inTxn' = inTxn \ {c} /\ severed' = inTxn' \cap severed
  BY DEF EndTransaction, Sever
<1>2. TypeOK'
  BY <1>1, DisturbStep DEF GuardInv, TypeOK, IsOpen, HasDatabase
<1>3. NoOrphan'
  BY <1>1 DEF GuardInv, NoOrphan, is_active
<1> QED
  BY <1>2, <1>3, DisturbStep DEF GuardInv

\* Closing, reopening or moving a Database leaves the connection in its transaction
\* only if it still exists, and then takes it away from the guard.
LEMMA CloseStep ==
  ASSUME GuardInv, ~terminated, NEW d \in Database, sqlite3_close_v2(database[d]),
         database' \in [Database -> Connection \cup {Null}],
         \A x, y \in Database : IsOpen(x)' /\ database'[x] = database'[y] => x = y,
         \A c \in inTxn : c # database[d] /\ HasDatabase(c) => HasDatabase(c)',
         NEW taken, Sever(taken),
         \A x \in Database :
           database'[x] # database[x] =>
             database[x] \in taken \/ database[x] \notin inTxn',
         Disturb, UNCHANGED <<db, statements, terminated>>
  PROVE  GuardInv'
<1>t. TypeOK /\ NoOrphan
  BY DEF GuardInv
<1>1. inTxn' = inTxn \ ({database[d]} \ statements) /\ severed' = inTxn' \cap (severed \cup taken)
  BY DEF sqlite3_close_v2, Sever
<1>2. \A c \in inTxn' : HasDatabase(c)' \/ c \in statements
  BY <1>t, <1>1 DEF TypeOK
<1>3. TypeOK'
  BY <1>t, <1>1, <1>2, DisturbStep DEF TypeOK
<1>4. NoOrphan'
  <2> SUFFICES ASSUME NEW c \in inTxn' \ severed'
               PROVE  \E t \in Transaction : db[t] # Null /\ database'[db[t]] = c
    BY DEF NoOrphan, is_active
  <2>1. c \in inTxn \ severed /\ c \notin taken
    BY <1>1
  <2>2. PICK t \in Transaction : db[t] # Null /\ database[db[t]] = c
    BY <1>t, <2>1 DEF NoOrphan, is_active
  <2>3. db[t] \in Database
    BY <1>t, <2>2 DEF TypeOK
  <2> QED
    BY <2>1, <2>2, <2>3
<1> QED
  BY <1>3, <1>4, DisturbStep DEF GuardInv

-----------------------------------------------------------------------------
(* All steps.                                                               *)

\* No step of a guard, of a database or of SQLite breaks the correspondence.
LEMMA GuardStep == GuardInv /\ [Next]_vars => GuardInv'
<1> SUFFICES ASSUME GuardInv, [Next]_vars PROVE GuardInv'
  OBVIOUS
<1>0. CASE UNCHANGED vars
  BY <1>0 DEF vars, GuardInv, TypeOK, IsOpen, HasDatabase, NoOrphan, is_active,
     GuardsMatch, Guarded, InTransaction
<1> SUFFICES ASSUME Next PROVE GuardInv'
  BY <1>0
<1>n. ~terminated
  BY DEF Next
<1>t. TypeOK /\ NoOrphan /\ GuardsMatch
  BY DEF GuardInv
<1>1. ASSUME NEW t \in Transaction, Commit(t) PROVE GuardInv'
  <2>1. db[t] \in Database /\ UNCHANGED <<database, statements, terminated>>
    BY <1>1, <1>t DEF Commit, is_active, TypeOK
  <2>2. CASE /\ EndTransaction(database[db[t]]) /\ db' = [db EXCEPT ![t] = Null]
             /\ UNCHANGED disturbed
    BY <1>n, <2>1, <2>2, EndStep
  <2>3. CASE CommitFails(db[t]) /\ UNCHANGED db
    <3>1. CASE UNCHANGED <<inTxn, severed, disturbed>>
      BY <2>1, <2>3, <3>1 DEF GuardInv, TypeOK, IsOpen, HasDatabase, NoOrphan,
         is_active,
         GuardsMatch, Guarded, InTransaction
    <3>2. CASE EndTransaction(database[db[t]]) /\ Disturb
      BY <1>n, <2>1, <2>3, <3>2, EndBehindStep
    <3> QED
      BY <2>3, <3>1, <3>2 DEF CommitFails
  <2> QED
    BY <1>1, <2>2, <2>3 DEF Commit
<1>2. ASSUME NEW t \in Transaction, Rollback(t) PROVE GuardInv'
  BY <1>2, <1>n, <1>t, EndStep DEF Rollback, is_active, TypeOK
<1>3. ASSUME NEW t \in Transaction, Destroy(t) PROVE GuardInv'
  <2>1. db[t] \in Database /\ NoexceptRollback(t)
    BY <1>3, <1>t DEF Destroy, is_active, TypeOK
  <2>2. CASE terminated'
    <3>1. /\ terminated' = TRUE /\ disturbed # {}
          /\ UNCHANGED <<database, statements, inTxn, severed, disturbed>>
      BY <1>3, <1>n, <2>1, <2>2, NoexceptRollbackType DEF Destroy
    <3>2. UNCHANGED db
      BY <1>3, <1>t, <2>2 DEF Destroy, TypeOK
    <3> QED
      BY <1>t, <3>1, <3>2, TerminateStep DEF TypeOK
  <2>3. CASE ~terminated'
    <3>1. /\ EndTransaction(database[db[t]]) /\ db' = [db EXCEPT ![t] = Null]
          /\ UNCHANGED <<database, statements, terminated, disturbed>>
      BY <1>3, <1>n, <1>t, <2>1, <2>3, NoexceptRollbackType,
         GuardAssumption DEF Destroy, TypeOK
    <3> QED
      BY <1>n, <2>1, <3>1, EndStep
  <2> QED
    BY <2>2, <2>3
<1>4. CASE StatementFails
  BY <1>4, <1>n, EndBehindStep DEF StatementFails
<1>5. ASSUME NEW d \in Database, PrepareStatement(d) PROVE GuardInv'
  <2>1. /\ statements' = statements \cup {database[d]} /\ database[d] \in Connection
        /\ UNCHANGED <<db, database, inTxn, terminated, severed, disturbed>>
    BY <1>5, <1>t DEF PrepareStatement, IsOpen, TypeOK
  <2>2. TypeOK'
    BY <1>t, <2>1 DEF TypeOK, IsOpen, HasDatabase
  <2> QED
    BY <1>t, <2>1, <2>2 DEF GuardInv, NoOrphan, is_active, GuardsMatch, Guarded,
       InTransaction
<1>6. ASSUME NEW c \in Connection, FinalizeStatement(c) PROVE GuardInv'
  <2>1. /\ inTxn' \subseteq inTxn /\ severed' = inTxn' \cap severed
        /\ inTxn \ inTxn' \subseteq {c} /\ (HasDatabase(c) \/ c \notin inTxn')
        /\ inTxn' # inTxn => ~HasDatabase(c)
        /\ statements' = statements \ {c}
        /\ UNCHANGED <<db, database, terminated, disturbed>>
    BY <1>6, <1>t DEF FinalizeStatement, EndTransaction, Sever, TypeOK
  <2>2. TypeOK'
    BY <1>t, <2>1 DEF TypeOK, IsOpen, HasDatabase
  <2>3. \A d \in Database : InTransaction(d)' <=> InTransaction(d)
    BY <2>1 DEF InTransaction, HasDatabase
  <2>4. NoOrphan' /\ GuardsMatch'
    BY <1>t, <2>1, <2>3 DEF NoOrphan, is_active, GuardsMatch, Guarded
  <2> QED
    BY <2>2, <2>4 DEF GuardInv
<1>7. ASSUME NEW d \in Database, CloseDatabase(d) PROVE GuardInv'
  <2>1. database' = [database EXCEPT ![d] = Null]
    BY <1>7 DEF CloseDatabase
  <2>2. database'[d] = Null /\ \A x \in Database \ {d} : database'[x] = database[x]
    BY <1>t, <2>1 DEF TypeOK
  <2>3. \A c \in inTxn : c # database[d] /\ HasDatabase(c) => HasDatabase(c)'
    BY <2>2 DEF HasDatabase
  <2> QED
    BY <1>7, <1>n, <1>t, <2>1, <2>2, <2>3, CloseStep DEF CloseDatabase, TypeOK, IsOpen
<1>8. ASSUME NEW d \in Database, NEW c \in Connection, OpenDatabase(d, c) PROVE GuardInv'
  <2>1. /\ database' = [database EXCEPT ![d] = c] /\ ~HasDatabase(c)
        /\ database[d] \notin statements
    BY <1>8 DEF OpenDatabase
  <2>2. database'[d] = c /\ \A x \in Database \ {d} : database'[x] = database[x]
    BY <1>t, <2>1 DEF TypeOK
  <2>3. \A x \in inTxn : x # database[d] /\ HasDatabase(x) => HasDatabase(x)'
    BY <2>2 DEF HasDatabase
  <2>4. \A x, y \in Database : IsOpen(x)' /\ database'[x] = database'[y] => x = y
    BY <1>t, <2>1, <2>2 DEF TypeOK, IsOpen, HasDatabase
  <2>5. database[d] \notin inTxn'
    BY <1>8, <2>1 DEF OpenDatabase, sqlite3_close_v2
  <2>6. database' \in [Database -> Connection \cup {Null}]
    BY <1>t, <2>1 DEF TypeOK
  <2>7. /\ sqlite3_close_v2(database[d]) /\ Sever({}) /\ Disturb
        /\ UNCHANGED <<db, statements, terminated>>
    BY <1>8 DEF OpenDatabase
  <2>8. \A x \in Database : database'[x] # database[x] =>
          database[x] \in {} \/ database[x] \notin inTxn'
    BY <2>2, <2>5
  <2> QED
    BY <1>n, <2>3, <2>4, <2>6, <2>7, <2>8, CloseStep
<1>9. ASSUME NEW d \in Database, NEW e \in Database, MoveDatabase(d, e) PROVE GuardInv'
  <2>1. /\ database' \in [Database -> Connection \cup {Null}]
        /\ database'[e] = Null
        /\ d # e => database'[d] = database[e]
        /\ \A x \in Database \ {d, e} : database'[x] = database[x]
    BY <1>9, <1>t DEF MoveDatabase, TypeOK
  <2>2. /\ sqlite3_close_v2(database[d]) /\ Sever({database[d], database[e]}) /\ Disturb
        /\ UNCHANGED <<db, statements, terminated>>
    BY <1>9 DEF MoveDatabase
  <2>3. ASSUME NEW c \in inTxn, c # database[d], HasDatabase(c) PROVE HasDatabase(c)'
    <3>1. PICK x \in Database : database[x] = c
      BY <2>3 DEF HasDatabase
    <3>2. CASE x = e
      BY <2>1, <2>3, <3>1, <3>2 DEF HasDatabase
    <3>3. CASE x # e
      BY <2>1, <2>3, <3>1, <3>3 DEF HasDatabase
    <3> QED
      BY <3>2, <3>3
  <2>4. ASSUME NEW x \in Database, NEW y \in Database,
               IsOpen(x)', database'[x] = database'[y]
        PROVE  x = y
    BY <1>t, <2>1, <2>4 DEF TypeOK, IsOpen
  <2>5. \A x \in Database : database'[x] # database[x] =>
          database[x] \in {database[d], database[e]} \/ database[x] \notin inTxn'
    BY <2>1
  <2> QED
    BY <1>n, <2>1, <2>2, <2>3, <2>4, <2>5, CloseStep
<1> QED
  BY <1>n, <1>1, <1>2, <1>3, <1>4, <1>5, <1>6, <1>7, <1>8, <1>9,
     ConstructStep, MoveConstructStep, MoveAssignStep DEF Next

\* A connection is in a transaction only while it exists: as the connection of an
\* open Database, or as a zombie that a statement keeps.
THEOREM GuardTypeCorrect == Spec => []TypeOK
BY GuardInit, GuardStep, PTL DEF Spec, GuardInv

\* Whatever fails, nests or is moved, every open transaction has an active guard
\* that will end it, unless the application moved its Database away or closed it by
\* force under a statement.
THEOREM NoOrphanAlways == Spec => []NoOrphan
BY GuardInit, GuardStep, PTL DEF Spec, GuardInv

\* As long as nothing ends its transactions behind the guards' backs, a database
\* is in a transaction exactly while one single guard is active on it.
THEOREM GuardsMatchAlways == Spec => []GuardsMatch
BY GuardInit, GuardStep, PTL DEF Spec, GuardInv
=============================================================================
