------------------------------- MODULE Handles -------------------------------
(***************************************************************************)
(* The handles the wrapper classes own: Database (database.cpp) owns a     *)
(* sqlite3*, Statement (statement.cpp) a sqlite3_stmt* next to a plain     *)
(* copy of the sqlite3* it was prepared on, Results (results.cpp) copies   *)
(* of both. SQLite refuses sqlite3_close while statements live and turns a *)
(* connection into a zombie on sqlite3_close_v2 until the last statement   *)
(* is finalized.  Handles are never reused, so a freed one stays           *)
(* recognizable.                                                           *)
(***************************************************************************)
EXTENDS Naturals, FiniteSets

CONSTANTS
  Conn, Stmt,           \* sqlite3* and sqlite3_stmt* handles
  Database, Statement,  \* objects of the two classes
  Null                  \* nullptr

ASSUME HandleAssumption == Null \notin Conn \cup Stmt /\ Conn \cap Stmt = {}

VARIABLES
  conn,       \* the connections, by handle
  stmt,       \* the prepared statements, by handle
  database,   \* Database::_database
  statement,  \* Statement::_statement and ::_database
  raw         \* handles the application took over with release

vars == <<conn, stmt, database, statement, raw>>

Closed == [_statement |-> Null, _database |-> Null]
Pair == [_statement : Stmt \cup {Null}, _database : Conn \cup {Null}]

TypeOK ==
  /\ conn \in [Conn -> {"none", "open", "leaked", "zombie", "freed"}]
  /\ stmt \in [Stmt -> [state : {"none", "ready", "row", "finalized"}, db : Conn \cup {Null}]]
  /\ database \in [Database -> Conn \cup {Null}]
  /\ statement \in [Statement -> Pair]
  /\ raw \subseteq Conn \cup Stmt

Init ==
  /\ conn = [c \in Conn |-> "none"]
  /\ stmt = [s \in Stmt |-> [state |-> "none", db |-> Null]]
  /\ database = [d \in Database |-> Null]
  /\ statement = [o \in Statement |-> Closed]
  /\ raw = {}

-----------------------------------------------------------------------------
(* SQLite's handles.  Which handle a new connection or statement gets does   *)
(* not matter, so they are taken in a fixed order.                           *)

Alive(s) == stmt[s].state \in {"ready", "row"}
Pick(unused) == IF unused = {} THEN {} ELSE {CHOOSE h \in unused : TRUE}
NewConn == Pick({c \in Conn : conn[c] = "none"})
NewStmt == Pick({s \in Stmt : stmt[s].state = "none"})
Live(c) == {s \in Stmt : Alive(s) /\ stmt[s].db = c}

\* sqlite3_close_v2 of connection c, if it is one.
sqlite3_close_v2(c) ==
  conn' = [x \in Conn |-> IF x # c THEN conn[x]
                          ELSE IF Live(c) = {} THEN "freed" ELSE "zombie"]

\* sqlite3_finalize of statement s, if it is one; it ends a zombie with its last
\* statement.
sqlite3_finalize(s) ==
  /\ stmt' = [x \in Stmt |-> IF x = s THEN [stmt[x] EXCEPT !.state = "finalized"]
                             ELSE stmt[x]]
  /\ conn' = [c \in Conn |-> IF conn[c] = "zombie" /\ Live(c) = {s} THEN "freed"
                             ELSE conn[c]]

-----------------------------------------------------------------------------
(* Database.                                                                *)

\* close(true), and so the destructor.
Close(d) ==
  /\ sqlite3_close_v2(database[d])
  /\ database' = [database EXCEPT ![d] = Null]
  /\ UNCHANGED <<stmt, statement, raw>>

\* close(false) throws and keeps the handle while statements live.
CloseGently(d) == Live(database[d]) = {} /\ Close(d)

\* sqlite3_open_v2 allocates a connection also when it fails; open() then resets
\* _database, so that nobody owns the handle SQLite expects to be closed.
OpenConnection(d, closed) ==
  \E c \in NewConn, ok \in BOOLEAN :
    /\ conn' = [x \in Conn |-> IF x = c THEN IF ok THEN "open" ELSE "leaked"
                               ELSE IF x = closed THEN "freed" ELSE conn[x]]
    /\ database' = [database EXCEPT ![d] = IF ok THEN c ELSE Null]

\* Mutant: open() does not stop when the old connection is busy.
Open_IgnoresBusy(d) ==
  /\ OpenConnection(d, database[d])
  /\ UNCHANGED <<stmt, statement, raw>>

\* open() closes gently first, and stops when that throws.
Open(d) ==
  /\ Live(database[d]) = {}
  /\ OpenConnection(d, database[d])
  /\ UNCHANGED <<stmt, statement, raw>>

\* Mutant: the handle is copied, not swapped.
MoveDatabase_Copies(d, e) ==
  /\ sqlite3_close_v2(database[d])
  /\ database' = [database EXCEPT ![d] = database[e]]
  /\ UNCHANGED <<stmt, statement, raw>>

\* operator=(Database&&); the move constructor is the case of a closed d.  After
\* close(true) the two pointers are swapped, also when d and e are one object.
MoveDatabase(d, e) ==
  /\ sqlite3_close_v2(database[d])
  /\ LET closed == [database EXCEPT ![d] = Null]
     IN  database' = [closed EXCEPT ![d] = closed[e], ![e] = closed[d]]
  /\ UNCHANGED <<stmt, statement, raw>>

ReleaseHandle(d) ==
  /\ database[d] # Null
  /\ raw' = raw \cup {database[d]}
  /\ database' = [database EXCEPT ![d] = Null]
  /\ UNCHANGED <<conn, stmt, statement>>

\* prepare_statement constructs a Statement that knows both handles.  SQL without
\* a statement makes the constructor throw and is no step here.
PrepareStatement(d, o) ==
  /\ database[d] # Null
  /\ statement[o] = Closed
  /\ \E s \in NewStmt :
       /\ stmt' = [stmt EXCEPT ![s] = [state |-> "ready", db |-> database[d]]]
       /\ statement' = [statement EXCEPT ![o] = [_statement |-> s, _database |-> database[d]]]
  /\ UNCHANGED <<conn, database, raw>>

-----------------------------------------------------------------------------
(* Statement.                                                               *)

is_open(o) == statement[o]._statement # Null
SetState(o, state) == stmt' = [stmt EXCEPT ![statement[o]._statement].state = state]

\* step() got SQLITE_ROW: Results is constructed from both handles and throws
\* bad_arguments if one of them is missing; the statement stays on its row.
StepRow(o) ==
  /\ is_open(o)
  /\ SetState(o, "row")
  /\ UNCHANGED <<conn, database, statement, raw>>

\* step() got SQLITE_DONE or an error, which it reports with
\* sqlite3_errmsg(_database); finish() and reset(), whatever they throw: all leave
\* the statement reset.
Reset(o) ==
  /\ is_open(o)
  /\ SetState(o, "ready")
  /\ UNCHANGED <<conn, database, statement, raw>>

\* Statement::close() finalizes; _database stays.
CloseStatement(o) ==
  /\ statement[o] # Closed
  /\ sqlite3_finalize(statement[o]._statement)
  /\ statement' = [statement EXCEPT ![o]._statement = Null]
  /\ UNCHANGED <<database, raw>>

\* Mutant: the handle of a statement on a row is dropped, not finalized.
DestroyStatement_DropsRow(o) ==
  /\ statement[o] # Closed
  /\ IF is_open(o) /\ stmt[statement[o]._statement].state = "row"
     THEN UNCHANGED <<conn, stmt>>
     ELSE sqlite3_finalize(statement[o]._statement)
  /\ statement' = [statement EXCEPT ![o] = Closed]
  /\ UNCHANGED <<database, raw>>

\* The destructor; the object's storage may hold a new Statement later.
DestroyStatement(o) ==
  /\ statement[o] # Closed
  /\ sqlite3_finalize(statement[o]._statement)
  /\ statement' = [statement EXCEPT ![o] = Closed]
  /\ UNCHANGED <<database, raw>>

\* Mutant: release() of a closed Statement hands out its nullptr as a handle.
ReleaseStatement_Unchecked(o) ==
  /\ raw' = raw \cup {statement[o]._statement}
  /\ statement' = [statement EXCEPT ![o]._statement = Null]
  /\ UNCHANGED <<conn, stmt, database>>

ReleaseStatement(o) ==
  /\ is_open(o)
  /\ raw' = raw \cup {statement[o]._statement}
  /\ statement' = [statement EXCEPT ![o]._statement = Null]
  /\ UNCHANGED <<conn, stmt, database>>

\* Move constructor (into a fresh object) and operator=: both swap _statement and
\* nothing else, so that an open Statement may know another connection or none.
MoveStatement(o, p) ==
  /\ is_open(p)
  /\ statement' = [statement EXCEPT ![o]._statement = statement[p]._statement,
                                    ![p]._statement = statement[o]._statement]
  /\ UNCHANGED <<conn, stmt, database, raw>>

\* The application finalizes or closes what it released.
EndRaw(h) ==
  /\ h \in raw
  /\ raw' = raw \ {h}
  /\ \/ h \in Conn /\ sqlite3_close_v2(h) /\ UNCHANGED stmt
     \/ h \in Stmt /\ sqlite3_finalize(h)
  /\ UNCHANGED <<database, statement>>

DatabaseStep(d) ==
  \/ Open(d) \/ Close(d) \/ CloseGently(d) \/ ReleaseHandle(d)
  \/ \E e \in Database : MoveDatabase(d, e)
  \/ \E o \in Statement : PrepareStatement(d, o)

StatementStep(o) ==
  \/ StepRow(o) \/ Reset(o)
  \/ CloseStatement(o) \/ DestroyStatement(o) \/ ReleaseStatement(o)

Next ==
  \/ \E d \in Database : DatabaseStep(d)
  \/ \E o \in Statement : StatementStep(o)
  \/ \E o, p \in Statement : MoveStatement(o, p)
  \/ \E h \in Conn \cup Stmt : EndRaw(h)

Spec == Init /\ [][Next]_vars

-----------------------------------------------------------------------------
Owners(h) ==
  Cardinality({d \in Database : database[d] = h})
  + Cardinality({o \in Statement : statement[o]._statement = h})
  + Cardinality(raw \cap {h})

\* Close, move and release hand each handle from one owner to the next: a usable
\* connection and a live statement have exactly one owner, a freed or finalized
\* handle has none (it would be used or closed again), and a zombie is only kept
\* by its statements.  Only what a failed open leaves behind is owned by nobody.
Ownership ==
  /\ \A c \in Conn :
       /\ Owners(c) = IF conn[c] = "open" THEN 1 ELSE 0
       /\ conn[c] = "zombie" => Live(c) # {}
  /\ \A s \in Stmt : Owners(s) = IF Alive(s) THEN 1 ELSE 0

\* A statement never outlives its connection: sqlite3_close_v2 defers to the
\* statements that are alive, however connections and statements are closed,
\* moved and released in between.
StatementsHaveConnection ==
  \A s \in Stmt : Alive(s) => conn[stmt[s].db] \in {"open", "zombie"}

\* Unless statements are moved around forever, a connection closed by force goes
\* away once its Statement objects have, unless the application has taken one of
\* its statements over.
ZombiesEnd ==
  <>[][~\E o, p \in Statement : MoveStatement(o, p)]_vars =>
    \A c \in Conn : conn[c] = "zombie" ~> (conn[c] = "freed" \/ Live(c) \cap raw # {})
=============================================================================
