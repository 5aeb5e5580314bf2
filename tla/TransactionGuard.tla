--------------------------- MODULE TransactionGuard ---------------------------
(***************************************************************************)
(* Transaction (transaction.cpp): scope guards over the transactions of    *)
(* shared Database objects.  A guard is active while it holds a Database,  *)
(* a connection is in a transaction while its autocommit is off, and only  *)
(* BEGIN, COMMIT and ROLLBACK, each of which may fail, keep the two in     *)
(* step.  Constructor, destructor and operator= are noexcept: a failure in *)
(* them ends the program.                                                  *)
(*                                                                         *)
(* A connection outlives its Database object: closed by force while a      *)
(* statement is not finalized it becomes a zombie, and its transaction     *)
(* stays open until the last statement is gone.                            *)
(***************************************************************************)
CONSTANTS
  Database, Transaction,  \* objects of the two classes
  Connection,             \* SQLite's connections
  Null,                   \* nullptr
  Careless                \* the application nests guards, and closes, reopens and moves
                          \* databases that are guarded

ASSUME GuardAssumption ==
  /\ Null \notin Database \cup Connection
  /\ Careless \in BOOLEAN

VARIABLES
  db,         \* Transaction::_db
  database,   \* Database::_database
  statements, \* connections with statements that are not finalized
  inTxn,      \* connections that are in a transaction
  terminated, \* std::terminate was called
  severed,    \* history: connections in a transaction whose Database the application
              \* closed or moved away
  disturbed   \* history: Databases whose transaction began or ended, or whose guards
              \* were nested, behind the back of a guard

vars == <<db, database, statements, inTxn, terminated, severed, disturbed>>

IsOpen(d) == database[d] # Null
HasDatabase(c) == \E d \in Database : database[d] = c

\* Only a connection that exists is in a transaction: it belongs to one Database,
\* or a statement keeps it alive.
TypeOK ==
  /\ db \in [Transaction -> Database \cup {Null}]
  /\ database \in [Database -> Connection \cup {Null}]
  /\ \A d, e \in Database : IsOpen(d) /\ database[d] = database[e] => d = e
  /\ statements \subseteq Connection
  /\ inTxn \subseteq Connection
  /\ \A c \in inTxn : HasDatabase(c) \/ c \in statements
  /\ terminated \in BOOLEAN
  /\ severed \subseteq inTxn
  /\ disturbed \subseteq Database

Init ==
  /\ db = [t \in Transaction |-> Null]
  /\ database = [d \in Database |-> Null]
  /\ statements = {}
  /\ inTxn = {}
  /\ terminated = FALSE
  /\ severed = {}
  /\ disturbed = {}

-----------------------------------------------------------------------------
is_active(t) == db[t] # Null
Guarded(d) == \E t \in Transaction : db[t] = d
InTransaction(d) == database[d] \in inTxn

Sever(taken) == severed' = inTxn' \cap (severed \cup taken)

\* COMMIT, ROLLBACK, an automatic rollback or the end of the connection.
EndTransaction(c) ==
  /\ inTxn' = inTxn \ {c}
  /\ Sever({})

\* For a step no guard knows of, after it has determined database' and inTxn'.
Disturb ==
  disturbed' = disturbed \cup {d \in Database : InTransaction(d)' # InTransaction(d)}

\* COMMIT is refused because a reader is active, or fails and rolls back.
CommitFails(d) ==
  \/ UNCHANGED <<inTxn, severed, disturbed>>
  \/ InTransaction(d) /\ EndTransaction(database[d]) /\ Disturb

\* The constructor: BEGIN fails on a closed Database and inside a transaction.
Construct(t, d) ==
  /\ ~is_active(t)
  /\ Careless \/ (IsOpen(d) /\ ~Guarded(d))
  /\ IF IsOpen(d) /\ ~InTransaction(d)
     THEN /\ db' = [db EXCEPT ![t] = d]
          /\ inTxn' = inTxn \cup {database[d]}
          /\ UNCHANGED <<terminated, disturbed>>
     ELSE /\ terminated' = TRUE
          /\ disturbed' = disturbed \cup {d}
          /\ UNCHANGED <<db, inTxn>>
  /\ UNCHANGED <<database, statements, severed>>

\* Mutant: the guard lets go of the database before it knows that COMMIT worked.
Commit_ReleasesFirst(t) ==
  /\ is_active(t)
  /\ UNCHANGED <<database, statements, terminated>>
  /\ \/ InTransaction(db[t]) /\ EndTransaction(database[db[t]]) /\ UNCHANGED disturbed
     \/ CommitFails(db[t])
  /\ db' = [db EXCEPT ![t] = Null]

\* commit(): when it throws, _db stays set.
Commit(t) ==
  /\ is_active(t)
  /\ UNCHANGED <<database, statements, terminated>>
  /\ \/ /\ InTransaction(db[t]) /\ EndTransaction(database[db[t]])
        /\ db' = [db EXCEPT ![t] = Null]
        /\ UNCHANGED disturbed
     \/ CommitFails(db[t]) /\ UNCHANGED db

\* rollback() called by the application; without a transaction it throws and
\* changes nothing.
Rollback(t) ==
  /\ is_active(t)
  /\ InTransaction(db[t]) /\ EndTransaction(database[db[t]])
  /\ db' = [db EXCEPT ![t] = Null]
  /\ UNCHANGED <<database, statements, terminated, disturbed>>

\* rollback() inside a noexcept function.
NoexceptRollback(t) ==
  \/ /\ ~is_active(t)
     /\ UNCHANGED <<inTxn, severed, terminated>>
  \/ /\ is_active(t) /\ InTransaction(db[t])
     /\ EndTransaction(database[db[t]])
     /\ UNCHANGED terminated
  \/ /\ is_active(t) /\ ~InTransaction(db[t])
     /\ terminated' = TRUE
     /\ UNCHANGED <<inTxn, severed>>

Destroy(t) ==
  /\ is_active(t)
  /\ NoexceptRollback(t)
  /\ db' = [db EXCEPT ![t] = IF terminated' THEN @ ELSE Null]
  /\ UNCHANGED <<database, statements, disturbed>>

\* Mutant: the moved guard keeps its database.
MoveConstruct_Copies(t, u) ==
  /\ ~is_active(t)
  /\ db' = [db EXCEPT ![t] = db[u]]
  /\ UNCHANGED <<database, statements, inTxn, terminated, severed, disturbed>>

\* The move constructor makes t, a new guard, take over the database of u.
MoveConstruct(t, u) ==
  /\ ~is_active(t) /\ t # u
  /\ db' = [db EXCEPT ![t] = db[u], ![u] = Null]
  /\ UNCHANGED <<database, statements, inTxn, terminated, severed, disturbed>>

\* operator=: roll back, then swap; also when t and u are one object.
MoveAssign(t, u) ==
  /\ NoexceptRollback(t)
  /\ LET ended == [db EXCEPT ![t] = Null]
     IN  db' = IF terminated' THEN db ELSE [ended EXCEPT ![t] = ended[u], ![u] = ended[t]]
  /\ UNCHANGED <<database, statements, disturbed>>

-----------------------------------------------------------------------------
\* A statement of the application fails, and SQLite ends the transaction.
StatementFails ==
  /\ \E c \in inTxn : EndTransaction(c)
  /\ UNCHANGED <<db, database, statements, terminated>>
  /\ Disturb

\* The first statement of a connection is prepared ...
PrepareStatement(d) ==
  /\ IsOpen(d)
  /\ statements' = statements \cup {database[d]}
  /\ UNCHANGED <<db, database, inTxn, terminated, severed, disturbed>>

\* ... and its last one finalized, which is the end of a zombie.
FinalizeStatement(c) ==
  /\ c \in statements
  /\ statements' = statements \ {c}
  /\ IF HasDatabase(c) THEN UNCHANGED <<inTxn, severed>> ELSE EndTransaction(c)
  /\ UNCHANGED <<db, database, terminated, disturbed>>

\* Only with the connection does its transaction end.
sqlite3_close_v2(c) == inTxn' = inTxn \ ({c} \ statements)

\* close(true).  close(false) throws while there are statements, and does the same
\* otherwise.
CloseDatabase(d) ==
  /\ IsOpen(d)
  /\ Careless \/ ~Guarded(d)
  /\ database' = [database EXCEPT ![d] = Null]
  /\ sqlite3_close_v2(database[d])
  /\ Sever({database[d]})
  /\ UNCHANGED <<db, statements, terminated>>
  /\ Disturb

\* Mutant: open() does not close the former connection.
OpenDatabase_NoClose(d, c) ==
  /\ Careless \/ ~Guarded(d)
  /\ c \notin statements /\ ~HasDatabase(c)
  /\ database' = [database EXCEPT ![d] = c]
  /\ UNCHANGED <<db, statements, inTxn, terminated, severed>>
  /\ Disturb

\* open() on a new connection.  It closes the former one first, with close(false);
\* if it fails then, nothing but that has happened.
OpenDatabase(d, c) ==
  /\ database[d] \notin statements
  /\ Careless \/ ~Guarded(d)
  /\ c \notin statements /\ ~HasDatabase(c)
  /\ database' = [database EXCEPT ![d] = c]
  /\ sqlite3_close_v2(database[d])
  /\ Sever({})
  /\ UNCHANGED <<db, statements, terminated>>
  /\ Disturb

\* operator=(Database&&): close(true), then swap; the move constructor is the case
\* of a closed d.
MoveDatabase(d, e) ==
  /\ Careless \/ ~(Guarded(d) \/ Guarded(e))
  /\ LET closed == [database EXCEPT ![d] = Null]
     IN  database' = [closed EXCEPT ![d] = closed[e], ![e] = closed[d]]
  /\ sqlite3_close_v2(database[d])
  /\ Sever({database[d], database[e]})
  /\ UNCHANGED <<db, statements, terminated>>
  /\ Disturb

Next ==
  /\ ~terminated
  /\ \/ \E t \in Transaction, d \in Database : Construct(t, d)
     \/ \E t \in Transaction : Commit(t) \/ Rollback(t) \/ Destroy(t)
     \/ \E t, u \in Transaction : MoveConstruct(t, u) \/ MoveAssign(t, u)
     \/ StatementFails
     \/ \E d \in Database : PrepareStatement(d) \/ CloseDatabase(d)
     \/ \E c \in Connection : FinalizeStatement(c)
     \/ \E d \in Database, c \in Connection : OpenDatabase(d, c)
     \/ \E d, e \in Database : MoveDatabase(d, e)

Spec == Init /\ [][Next]_vars

-----------------------------------------------------------------------------
\* No transaction is left open without a guard whose destructor will end it,
\* whatever COMMIT, ROLLBACK, moves, nested guards and automatic rollbacks do: a
\* guard only lets go of its database once COMMIT or ROLLBACK has succeeded.  It is
\* the application that can take the connection away from the guard: moved to
\* another Database, or closed by force while a statement keeps it, it stays in its
\* transaction, and no guard is able to end that any more.
NoOrphan == \A c \in inTxn \ severed :
              \E t \in Transaction : is_active(t) /\ database[db[t]] = c

\* A database whose transactions only its guards end has exactly one active guard
\* while it is in a transaction and none otherwise, however guards are moved,
\* swapped, committed and destroyed and whatever happens to other databases; and
\* no noexcept function throws unless some database was disturbed.
GuardsMatch ==
  /\ \A d \in Database \ disturbed : InTransaction(d) <=> Guarded(d)
  /\ \A t, u \in Transaction :
       db[t] = db[u] /\ db[t] \in Database \ disturbed => t = u
  /\ terminated => disturbed # {}

\* The destructor "rolls the transaction back if it was not committed": the
\* program survives every way a guarded scope can end.
ScopeEndsQuietly == ~terminated
=============================================================================
