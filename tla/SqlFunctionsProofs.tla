-------------------------- MODULE SqlFunctionsProofs --------------------------
(***************************************************************************)
(* Proofs about the handles of Handles and the function objects of         *)
(* SqlFunctions, for every number of connections, statements, wrapper      *)
(* objects and functions.                                                  *)
(***************************************************************************)
EXTENDS SqlFunctions, FiniteSetTheorems, TLAPS

\* No handle has two owners.
Exclusive ==
  /\ \A d, e \in Database : database[d] # Null /\ database[d] = database[e] => d = e
  /\ \A o, p \in Statement :
       is_open(o) /\ statement[o]._statement = statement[p]._statement => o = p
  /\ \A d \in Database : database[d] \notin raw
  /\ \A o \in Statement : statement[o]._statement \notin raw

\* What is usable has an owner, and what is owned is usable.
Usable ==
  /\ \A c \in Conn : conn[c] = "open" <=> c \in raw \/ \E d \in Database : database[d] = c
  /\ \A s \in Stmt :
       Alive(s) <=> s \in raw \/ \E o \in Statement : statement[o]._statement = s

\* Connections wait for their statements.
Waiting ==
  /\ \A c \in Conn : conn[c] = "zombie" => Live(c) # {}
  /\ \A s \in Stmt : Alive(s) => stmt[s].db \in Conn
  /\ StatementsHaveConnection

HandleInv == TypeOK /\ Exclusive /\ Usable /\ Waiting

\* SQLite has each registered object once, in a connection that is not freed.
Registered ==
  /\ \A c, d \in Conn, m, n \in Name :
       table[c][m] \in Func /\ table[c][m] = table[d][n] => c = d /\ m = n
  /\ \A c \in Conn, n \in Name :
       table[c][n] \in Func => func[table[c][n]] = "registered" /\ conn[c] # "freed"
  /\ \A f \in Func :
       func[f] = "registered" => \E c \in Conn, n \in Name : table[c][n] = f

\* A statement inside of a function is on a row, and its connection has the function.
Calling ==
  \A o \in Statement : running[o] # Null =>
    /\ is_open(o)
    /\ stmt[statement[o]._statement].state = "row"
    /\ \E n \in Name : table[stmt[statement[o]._statement].db][n] = running[o]

FuncInv == FuncTypeOK /\ HandleInv /\ Registered /\ Calling

-----------------------------------------------------------------------------
(* Handles.                                                                 *)

\* A handle that is picked is one of the unused.
LEMMA PickUnused == ASSUME NEW S, NEW h \in Pick(S) PROVE h \in S
BY DEF Pick

\* open() closes gently first: the connection it frees has no statements.
LEMMA OpenStep ==
  ASSUME HandleInv, NEW d \in Database, Open(d)
  PROVE  HandleInv'
<1> USE HandleAssumption DEF HandleInv, is_open, Alive, Pair, Closed
<1>1. TypeOK'
  BY PickUnused DEF TypeOK, Open, OpenConnection, NewConn
<1>2. Exclusive'
  BY PickUnused DEF TypeOK, Exclusive, Usable, Open, OpenConnection, NewConn
<1>3. Usable'
  BY PickUnused DEF TypeOK, Exclusive, Usable, Open, OpenConnection, NewConn
<1>4. Waiting'
  BY PickUnused DEF TypeOK, Waiting, Usable, Exclusive, StatementsHaveConnection,
     Live, Open, OpenConnection, NewConn
<1> QED
  BY <1>1, <1>2, <1>3, <1>4

\* close(true) leaves a zombie while statements live, and the object lets go of it.
LEMMA CloseStep ==
  ASSUME HandleInv, NEW d \in Database, Close(d)
  PROVE  HandleInv'
<1> USE HandleAssumption DEF HandleInv, is_open, Alive, Pair, Closed
<1>1. TypeOK'
  BY DEF TypeOK, Close, sqlite3_close_v2
<1>2. Exclusive'
  BY DEF TypeOK, Exclusive, Usable, Close, sqlite3_close_v2
<1>3. Usable'
  BY DEF TypeOK, Exclusive, Usable, Close, sqlite3_close_v2
<1>4. Waiting'
  BY DEF TypeOK, Waiting, Usable, Exclusive, StatementsHaveConnection, Live, Close,
     sqlite3_close_v2
<1> QED
  BY <1>1, <1>2, <1>3, <1>4

\* operator=(Database&&) closes one connection and hands the other over.
LEMMA MoveDatabaseStep ==
  ASSUME HandleInv, NEW d \in Database, NEW e \in Database, MoveDatabase(d, e)
  PROVE  HandleInv'
<1> USE HandleAssumption DEF HandleInv, is_open, Alive, Pair, Closed
<1>1. TypeOK'
  BY DEF TypeOK, MoveDatabase, sqlite3_close_v2
<1>2. Exclusive'
  BY DEF TypeOK, Exclusive, Usable, MoveDatabase, sqlite3_close_v2
<1>3. Usable'
  BY DEF TypeOK, Exclusive, Usable, MoveDatabase, sqlite3_close_v2
<1>4. Waiting'
  BY DEF TypeOK, Waiting, Usable, Exclusive, StatementsHaveConnection, Live,
     MoveDatabase, sqlite3_close_v2
<1> QED
  BY <1>1, <1>2, <1>3, <1>4

\* release hands the connection to the application.
LEMMA ReleaseHandleStep ==
  ASSUME HandleInv, NEW d \in Database, ReleaseHandle(d)
  PROVE  HandleInv'
<1> USE HandleAssumption DEF HandleInv, is_open, Alive, Pair, Closed
<1>1. TypeOK'
  BY DEF TypeOK, ReleaseHandle
<1>2. Exclusive'
  BY DEF TypeOK, Exclusive, Usable, ReleaseHandle
<1>3. Usable'
  BY DEF TypeOK, Exclusive, Usable, ReleaseHandle
<1>4. Waiting'
  BY DEF TypeOK, Waiting, Usable, Exclusive, StatementsHaveConnection, Live,
     ReleaseHandle
<1> QED
  BY <1>1, <1>2, <1>3, <1>4

\* A new statement is alive, has one owner and an open connection.
LEMMA PrepareStatementStep ==
  ASSUME HandleInv, NEW d \in Database, NEW o \in Statement, PrepareStatement(d, o)
  PROVE  HandleInv'
<1> USE HandleAssumption DEF HandleInv, is_open, Alive, Pair, Closed
<1>1. TypeOK'
  BY PickUnused DEF TypeOK, PrepareStatement, NewStmt
<1>2. Exclusive'
  BY PickUnused DEF TypeOK, Exclusive, Usable, PrepareStatement, NewStmt
<1>3. Usable'
  BY PickUnused DEF TypeOK, Exclusive, Usable, PrepareStatement, NewStmt
<1>4. Waiting'
  BY PickUnused DEF TypeOK, Waiting, Usable, Exclusive, StatementsHaveConnection,
     Live, PrepareStatement, NewStmt
<1> QED
  BY <1>1, <1>2, <1>3, <1>4

\* Steps and resets change neither owners nor who is alive.
LEMMA SetStateStep ==
  ASSUME HandleInv, NEW o \in Statement, StepRow(o) \/ Reset(o)
  PROVE  HandleInv'
<1> USE HandleAssumption DEF HandleInv, is_open, Alive, Pair, Closed
<1> DEFINE s == statement[o]._statement
<1>s. s \in Stmt /\ Alive(s)
  BY DEF TypeOK, Usable, StepRow, Reset
<1>e. /\ \A x \in Stmt : (Alive(x)' <=> Alive(x)) /\ stmt'[x].db = stmt[x].db
      /\ UNCHANGED <<conn, database, statement, raw>>
  BY <1>s DEF TypeOK, StepRow, Reset, SetState
<1>l. \A c \in Conn : Live(c)' = Live(c)
  BY <1>e DEF Live
<1>1. TypeOK'
  BY <1>s DEF TypeOK, StepRow, Reset, SetState
<1> HIDE DEF Alive
<1>2. Exclusive'
  BY <1>e DEF Exclusive
<1>3. Usable'
  BY <1>e DEF Usable
<1>4. Waiting'
  BY <1>e, <1>l DEF Waiting, StatementsHaveConnection
<1> QED
  BY <1>1, <1>2, <1>3, <1>4

\* Finalizing ends the statement with its only owner, and a zombie with its last
\* statement.
LEMMA FinalizeStep ==
  ASSUME HandleInv, NEW o \in Statement, CloseStatement(o) \/ DestroyStatement(o)
  PROVE  HandleInv'
<1> USE HandleAssumption DEF HandleInv, is_open, Alive, Pair, Closed
<1> DEFINE s == statement[o]._statement
<1>s. /\ s \in Stmt \cup {Null} /\ (s \in Stmt => Alive(s)) /\ sqlite3_finalize(s)
      /\ UNCHANGED <<database, raw>>
  BY DEF TypeOK, Usable, CloseStatement, DestroyStatement
<1>e. /\ statement' \in [Statement -> Pair]
      /\ statement'[o]._statement = Null
      /\ \A p \in Statement \ {o} : statement'[p] = statement[p]
  <2>1. CASE CloseStatement(o)
    BY <2>1 DEF TypeOK, CloseStatement
  <2>2. CASE DestroyStatement(o)
    BY <2>2 DEF TypeOK, DestroyStatement
  <2> QED
    BY <2>1, <2>2
<1>f. \A x \in Stmt : (Alive(x)' <=> Alive(x) /\ x # s) /\ stmt'[x].db = stmt[x].db
  BY <1>s DEF TypeOK, sqlite3_finalize
<1>c. \A c \in Conn : conn'[c] = IF conn[c] = "zombie" /\ Live(c) = {s} THEN "freed" ELSE conn[c]
  BY <1>s DEF sqlite3_finalize
<1>l. \A c \in Conn : Live(c)' = Live(c) \ {s}
  BY <1>f DEF Live
<1>1. TypeOK'
  BY DEF TypeOK, CloseStatement, DestroyStatement, sqlite3_finalize
<1> HIDE DEF s, Alive
<1>2. Exclusive'
  BY <1>s, <1>e DEF Exclusive, TypeOK
<1>3. Usable'
  <2>1. \A c \in Conn : conn'[c] = "open" <=> conn[c] = "open"
    BY <1>c
  <2>2. ASSUME NEW x \in Stmt
        PROVE  (\E p \in Statement : statement'[p]._statement = x)
               <=> x # s /\ \E p \in Statement : statement[p]._statement = x
    <3>1. ASSUME NEW p \in Statement, statement'[p]._statement = x
          PROVE  x # s /\ statement[p]._statement = x
      BY <1>e, <3>1 DEF Exclusive, s
    <3>2. ASSUME x # s, NEW p \in Statement, statement[p]._statement = x
          PROVE  statement'[p]._statement = x
      BY <1>e, <3>2 DEF s
    <3> QED
      BY <3>1, <3>2
  <2>3. s \notin raw
    BY DEF Exclusive, s
  <2> QED
    BY <1>s, <1>f, <2>1, <2>2, <2>3 DEF Usable
<1>4. Waiting'
  <2>1. \A c \in Conn : conn'[c] = "zombie" => Live(c)' # {}
    BY <1>c, <1>l DEF Waiting
  <2>2. ASSUME NEW x \in Stmt, Alive(x)'
        PROVE  stmt'[x].db \in Conn /\ conn'[stmt'[x].db] \in {"open", "zombie"}
    <3>1. Alive(x) /\ x # s /\ stmt'[x].db = stmt[x].db
      BY <1>f, <2>2
    <3>2. stmt[x].db \in Conn /\ conn[stmt[x].db] \in {"open", "zombie"} /\ x \in Live(stmt[x].db)
      BY <3>1 DEF Waiting, StatementsHaveConnection, Live
    <3> QED
      BY <1>c, <3>1, <3>2
  <2> QED
    BY <2>1, <2>2 DEF Waiting, StatementsHaveConnection
<1> QED
  BY <1>1, <1>2, <1>3, <1>4

\* release hands the statement to the application.
LEMMA ReleaseStatementStep ==
  ASSUME HandleInv, NEW o \in Statement, ReleaseStatement(o)
  PROVE  HandleInv'
<1> USE HandleAssumption DEF HandleInv, is_open, Alive, Pair, Closed
<1>1. TypeOK'
  BY DEF TypeOK, ReleaseStatement
<1>2. Exclusive'
  BY DEF TypeOK, Exclusive, Usable, ReleaseStatement
<1>3. Usable'
  BY DEF TypeOK, Exclusive, Usable, ReleaseStatement
<1>4. Waiting'
  BY DEF TypeOK, Waiting, Usable, Exclusive, StatementsHaveConnection, Live,
     ReleaseStatement
<1> QED
  BY <1>1, <1>2, <1>3, <1>4

\* A move swaps the statements of two objects, or of one with itself.
LEMMA MoveStatementStep ==
  ASSUME HandleInv, NEW o \in Statement, NEW p \in Statement, MoveStatement(o, p)
  PROVE  HandleInv'
<1> USE HandleAssumption DEF HandleInv, is_open, Alive, Pair, Closed
<1> DEFINE taken == [statement EXCEPT ![o]._statement = statement[p]._statement]
<1>a. /\ taken \in [Statement -> Pair]
      /\ \A q \in Statement : taken[q]._statement = statement[IF q = o THEN p ELSE q]._statement
  BY DEF TypeOK
<1>b. statement' = [taken EXCEPT ![p]._statement = statement[o]._statement]
  BY DEF MoveStatement
<1> HIDE DEF taken
<1>e. /\ statement' \in [Statement -> Pair]
      /\ \A q \in Statement :
           statement'[q]._statement = IF q = p THEN statement[o]._statement
                                      ELSE taken[q]._statement
  BY <1>a, <1>b DEF TypeOK
<1>f. UNCHANGED <<conn, stmt, database, raw>>
  BY DEF MoveStatement
<1>1. TypeOK'
  BY <1>e, <1>f DEF TypeOK
<1>2. Exclusive'
  BY <1>a, <1>e, <1>f DEF Exclusive
<1>3. Usable'
  <2>1. ASSUME NEW x \in Stmt
        PROVE  (\E q \in Statement : statement'[q]._statement = x)
               <=> \E q \in Statement : statement[q]._statement = x
    BY <1>a, <1>e
  <2> QED
    BY <1>f, <2>1 DEF Usable
<1>4. Waiting'
  BY <1>f DEF Waiting, StatementsHaveConnection, Live
<1> QED
  BY <1>1, <1>2, <1>3, <1>4

\* The application ends what it took over.
LEMMA EndRawStep ==
  ASSUME HandleInv, NEW h \in Conn \cup Stmt, EndRaw(h)
  PROVE  HandleInv'
<1> USE HandleAssumption DEF HandleInv, is_open, Alive, Pair, Closed
<1>1. TypeOK'
  BY DEF TypeOK, EndRaw, sqlite3_close_v2, sqlite3_finalize
<1>2. Exclusive'
  BY DEF TypeOK, Exclusive, Usable, EndRaw, sqlite3_close_v2, sqlite3_finalize
<1>3. Usable'
  BY DEF TypeOK, Exclusive, Usable, EndRaw, sqlite3_close_v2, sqlite3_finalize
<1>4. Waiting'
  BY DEF TypeOK, Waiting, Usable, Exclusive, StatementsHaveConnection, Live, EndRaw,
     sqlite3_close_v2, sqlite3_finalize
<1> QED
  BY <1>1, <1>2, <1>3, <1>4

\* Calls that touch no handle keep it.
LEMMA HandlesUnchanged ==
  ASSUME HandleInv, UNCHANGED vars
  PROVE  HandleInv'
<1> USE DEF vars, HandleInv
<1>1. TypeOK'
  BY DEF TypeOK
<1>2. Exclusive'
  BY DEF Exclusive, is_open
<1>3. Usable'
  BY DEF Usable, Alive
<1>4. Waiting'
  BY DEF Waiting, StatementsHaveConnection, Live, Alive
<1> QED
  BY <1>1, <1>2, <1>3, <1>4

\* Every step of the wrapper classes keeps the invariant of the handles.
LEMMA HandlesStep ==
  ASSUME HandleInv, Next
  PROVE  HandleInv'
<1>1. ASSUME NEW d \in Database, DatabaseStep(d) PROVE HandleInv'
  BY <1>1, OpenStep, CloseStep, MoveDatabaseStep, ReleaseHandleStep,
     PrepareStatementStep
  DEF DatabaseStep, CloseGently
<1>2. ASSUME NEW o \in Statement, StatementStep(o) PROVE HandleInv'
  BY <1>2, SetStateStep, FinalizeStep, ReleaseStatementStep DEF StatementStep
<1> QED
  BY <1>1, <1>2, MoveStatementStep, EndRawStep DEF Next

\* What is written of a statement object that no step touches: others neither change
\* it nor the state of its statement.
LEMMA OthersLeave ==
  ASSUME HandleInv, NEW o \in Statement, is_open(o),
         \/ \E d \in Database : DatabaseStep(d)
         \/ \E p \in Statement \ {o} : StatementStep(p)
         \/ \E p, q \in Statement \ {o} : MoveStatement(p, q)
         \/ \E h \in Conn \cup Stmt : EndRaw(h)
  PROVE  /\ statement'[o] = statement[o]
         /\ stmt'[statement[o]._statement] = stmt[statement[o]._statement]
<1> DEFINE s == statement[o]._statement
<1> USE HandleAssumption DEF HandleInv, is_open, Alive
<1>s. s \in Stmt /\ Alive(s) /\ statement \in [Statement -> Pair] /\ stmt[s].state # "none" /\ s \notin raw
  BY DEF TypeOK, Pair, Usable, Exclusive
<1>p. \A p \in Statement \ {o} : statement[p]._statement # s
  BY DEF Exclusive
<1> HIDE DEF Alive
<1>1. CASE \E d \in Database : DatabaseStep(d)
  <2>1. ASSUME NEW d \in Database, NEW p \in Statement, PrepareStatement(d, p)
        PROVE  statement'[o] = statement[o] /\ stmt'[s] = stmt[s]
    BY <1>s, <2>1, PickUnused DEF PrepareStatement, NewStmt, Closed
  <2> QED
    BY <1>1, <2>1 DEF DatabaseStep, Open, Close, CloseGently, MoveDatabase,
       ReleaseHandle
<1>2. CASE \E p \in Statement \ {o} : StatementStep(p)
  <2>1. PICK p \in Statement \ {o} : StatementStep(p)
    BY <1>2
  <2>2. statement'[o] = statement[o]
    BY <1>s, <2>1
    DEF StatementStep, StepRow, Reset, CloseStatement, DestroyStatement, ReleaseStatement
  <2>3. stmt'[s] = stmt[s]
    BY <1>s, <1>p, <2>1
    DEF StatementStep, StepRow, Reset, SetState, CloseStatement, DestroyStatement,
        ReleaseStatement, sqlite3_finalize, TypeOK
  <2> QED
    BY <2>2, <2>3
<1>3. CASE \E p, q \in Statement \ {o} : MoveStatement(p, q)
  BY <1>3, <1>s DEF MoveStatement
<1>4. CASE \E h \in Conn \cup Stmt : EndRaw(h)
  BY <1>4, <1>s DEF EndRaw, sqlite3_finalize
<1> QED
  BY <1>1, <1>2, <1>3, <1>4

-----------------------------------------------------------------------------
(* Function objects.                                                        *)

\* Freeing connections destroys exactly the functions they had.
LEMMA FreeFunctionsStep ==
  ASSUME FuncTypeOK, TypeOK', Registered, FreeFunctions
  PROVE  /\ Registered'
         /\ table' \in [Conn -> [Name -> Func \cup {Plain, Null}]]
         /\ func' \in [Func -> {"new", "registered", "deleted", "deleted twice"}]
         /\ \A c \in Conn : conn'[c] # "freed" => table'[c] = table[c]
<1>1. /\ table' \in [Conn -> [Name -> Func \cup {Plain, Null}]]
      /\ \A c \in Conn : conn'[c] # "freed" => table'[c] = table[c]
      /\ \A c \in Conn, n \in Name : conn'[c] = "freed" => table'[c][n] = Null
  BY DEF FuncTypeOK, FreeFunctions, NoFunctions
<1>2. /\ func' \in [Func -> {"new", "registered", "deleted", "deleted twice"}]
      /\ \A f \in Func :
           func'[f] = IF \E c \in Conn, n \in Name : conn'[c] = "freed" /\ table[c][n] = f
                      THEN "deleted" ELSE func[f]
  BY DEF FuncTypeOK, FreeFunctions
<1>3. \A c \in Conn, n \in Name :
        table'[c][n] \in Func => table'[c][n] = table[c][n] /\ conn'[c] # "freed"
  BY <1>1, FunctionAssumption
<1>4. Registered'
  <2>1. \A c, d \in Conn, m, n \in Name :
          table'[c][m] \in Func /\ table'[c][m] = table'[d][n] => c = d /\ m = n
    BY <1>3 DEF Registered
  <2>2. ASSUME NEW c \in Conn, NEW n \in Name, table'[c][n] \in Func
        PROVE  func'[table'[c][n]] = "registered" /\ conn'[c] # "freed"
    <3>1. table'[c][n] = table[c][n] /\ conn'[c] # "freed" /\ func[table[c][n]] = "registered"
      BY <1>3, <2>2 DEF Registered
    <3>2. \A d \in Conn, m \in Name : table[d][m] = table[c][n] => d = c
      BY <2>2, <3>1 DEF Registered
    <3>3. ~\E d \in Conn, m \in Name : conn'[d] = "freed" /\ table[d][m] = table[c][n]
      BY <3>1, <3>2
    <3> QED
      BY <1>2, <2>2, <3>1, <3>3
  <2>3. ASSUME NEW f \in Func, func'[f] = "registered"
        PROVE  \E c \in Conn, n \in Name : table'[c][n] = f
    <3>1. /\ func[f] = "registered"
          /\ ~\E c \in Conn, n \in Name : conn'[c] = "freed" /\ table[c][n] = f
      BY <1>2, <2>3
    <3>2. PICK c \in Conn, n \in Name : table[c][n] = f
      BY <3>1 DEF Registered
    <3> QED
      BY <1>1, <3>1, <3>2
  <2> QED
    BY <2>1, <2>2, <2>3 DEF Registered
<1> QED
  BY <1>1, <1>2, <1>4

\* A registration replaces what the connection had under that name: nothing, or a
\* function that no step is inside of.
LEMMA RegisterStep ==
  ASSUME FuncInv, NEW d \in Database, NEW n \in Name, NEW f \in Func \cup {Plain},
         database[d] # Null, sqlite3CreateFunc(database[d], n, f),
         f \in Func =>
           func[f] = "new" /\ func' = [functionDestroy(database[d], n) EXCEPT ![f] = "registered"],
         f = Plain => func' = functionDestroy(database[d], n),
         UNCHANGED <<vars, running>>
  PROVE  FuncInv'
<1> DEFINE c == database[d]
<1>1. c \in Conn /\ conn[c] = "open" /\ HandleInv /\ FuncTypeOK /\ TypeOK /\ Registered /\ Calling
  BY HandleAssumption DEF FuncInv, HandleInv, TypeOK, Usable
<1>2. /\ table' \in [Conn -> [Name -> Func \cup {Plain, Null}]]
      /\ table'[c][n] = f
      /\ \A x \in Conn, m \in Name : x # c \/ m # n => table'[x][m] = table[x][m]
  BY <1>1 DEF FuncTypeOK, sqlite3CreateFunc
<1>3. /\ func' \in [Func -> {"new", "registered", "deleted", "deleted twice"}]
      /\ \A g \in Func : func'[g] = IF g = f THEN "registered"
                                    ELSE IF g = table[c][n] THEN "deleted" ELSE func[g]
  BY <1>1, FunctionAssumption DEF FuncTypeOK, functionDestroy
<1>4. UNCHANGED <<conn, stmt, database, statement, raw, running>>
  BY DEF vars
<1>5. HandleInv' /\ TypeOK'
  BY <1>1, HandlesUnchanged DEF HandleInv
<1>6. FuncTypeOK'
  BY <1>1, <1>2, <1>3, <1>4, <1>5 DEF FuncTypeOK
<1> HIDE DEF c
<1>7. Registered'
  <2>1. ASSUME NEW x \in Conn, NEW y \in Conn, NEW k \in Name, NEW m \in Name,
               table'[x][k] \in Func, table'[x][k] = table'[y][m]
        PROVE  x = y /\ k = m
    BY <1>1, <1>2, <2>1 DEF Registered
  <2>2. ASSUME NEW x \in Conn, NEW m \in Name, table'[x][m] \in Func
        PROVE  func'[table'[x][m]] = "registered" /\ conn'[x] # "freed"
    <3>1. CASE x = c /\ m = n
      BY <1>1, <1>2, <1>3, <1>4, <2>2, <3>1
    <3>2. CASE ~(x = c /\ m = n)
      <4>1. table'[x][m] = table[x][m] /\ func[table[x][m]] = "registered" /\ conn[x] # "freed"
        BY <1>1, <1>2, <2>2, <3>2 DEF Registered
      <4>2. table[x][m] # table[c][n]
        BY <1>1, <2>2, <3>2, <4>1 DEF Registered
      <4> QED
        BY <1>3, <1>4, <2>2, <4>1, <4>2
    <3> QED
      BY <3>1, <3>2
  <2>3. ASSUME NEW g \in Func, func'[g] = "registered"
        PROVE  \E x \in Conn, m \in Name : table'[x][m] = g
    <3>1. CASE g = f
      BY <1>1, <1>2, <3>1
    <3>2. CASE g # f
      <4>1. func[g] = "registered" /\ g # table[c][n]
        BY <1>3, <2>3, <3>2
      <4>2. PICK x \in Conn, m \in Name : table[x][m] = g
        BY <1>1, <4>1 DEF Registered
      <4> QED
        BY <1>2, <4>1, <4>2
    <3> QED
      BY <3>1, <3>2
  <2> QED
    BY <2>1, <2>2, <2>3 DEF Registered
<1>8. Calling'
  <2> SUFFICES ASSUME NEW o \in Statement, running[o] # Null
               PROVE  \E m \in Name : table'[stmt[statement[o]._statement].db][m] = running[o]
    BY <1>1, <1>4 DEF Calling, is_open
  <2> DEFINE s == statement[o]._statement
  <2>1. s \in Stmt /\ stmt[s].state = "row" /\ stmt[s].db \in Conn
    BY <1>1 DEF Calling, is_open, HandleInv, Waiting, Alive, TypeOK, Pair
  <2>2. PICK m \in Name : table[stmt[s].db][m] = running[o]
    BY <1>1 DEF Calling
  <2>3. ~(stmt[s].db = c /\ m = n)
    BY <2>1, <2>2 DEF sqlite3CreateFunc, Active, c
  <2> QED
    BY <1>2, <2>1, <2>2, <2>3
<1> QED
  BY <1>5, <1>6, <1>7, <1>8 DEF FuncInv

\* Every step of connections, statements and functions keeps the invariant.
LEMMA FuncStep == FuncInv /\ [FuncNext]_allVars => FuncInv'
<1> SUFFICES ASSUME FuncInv, [FuncNext]_allVars PROVE FuncInv'
  OBVIOUS
<1>i. FuncTypeOK /\ TypeOK /\ HandleInv /\ Registered /\ Calling
  BY DEF FuncInv, FuncTypeOK
<1>0. CASE UNCHANGED allVars
  <2>1. UNCHANGED vars /\ UNCHANGED <<conn, stmt, statement, table, func, running>>
    BY <1>0 DEF allVars, vars, funcVars
  <2>2. HandleInv' /\ TypeOK'
    BY <1>i, <2>1, HandlesUnchanged DEF HandleInv
  <2>3. FuncTypeOK'
    BY <1>i, <2>1, <2>2 DEF FuncTypeOK
  <2>4. Registered'
    BY <1>i, <2>1 DEF Registered
  <2>5. Calling'
    BY <1>i, <2>1 DEF Calling, is_open
  <2> QED
    BY <2>2, <2>3, <2>4, <2>5 DEF FuncInv
<1>1. CASE HandleStep
  <2>1. HandleInv'
    BY <1>i, <1>1, HandlesStep DEF HandleStep, Next
  <2>2. TypeOK' /\ FreeFunctions /\ running' = running
    BY <1>1, <2>1 DEF HandleStep, HandleInv
  <2>3. /\ Registered' /\ FuncTypeOK'
        /\ \A c \in Conn : conn'[c] # "freed" => table'[c] = table[c]
    BY <1>i, <2>2, FreeFunctionsStep DEF FuncTypeOK
  <2>4. Calling'
    <3> SUFFICES ASSUME NEW o \in Statement, running[o] # Null
                 PROVE  /\ is_open(o)'
                        /\ stmt'[statement'[o]._statement].state = "row"
                        /\ \E n \in Name : table'[stmt'[statement'[o]._statement].db][n] = running[o]
      BY <2>2 DEF Calling
    <3> DEFINE s == statement[o]._statement
    <3>1. /\ is_open(o) /\ s \in Stmt /\ stmt[s].state = "row"
          /\ \E n \in Name : table[stmt[s].db][n] = running[o]
      BY <1>i DEF Calling, is_open, TypeOK, Pair
    <3>2. statement'[o] = statement[o] /\ stmt'[s] = stmt[s]
      BY <1>i, <1>1, <3>1, OthersLeave DEF HandleStep
    <3>3. stmt'[s].db \in Conn /\ conn'[stmt'[s].db] # "freed"
      BY <2>1, <3>1, <3>2 DEF HandleInv, Waiting, StatementsHaveConnection, Alive
    <3> QED
      BY <2>3, <3>1, <3>2, <3>3 DEF is_open
  <2> QED
    BY <2>1, <2>3, <2>4 DEF FuncInv
<1>2. ASSUME NEW d \in Database, NEW n \in Name, NEW f \in NewFunc, RegisterFunction(d, n, f)
      PROVE  FuncInv'
  <2>1. f \in Func /\ func[f] = "new"
    BY PickUnused DEF NewFunc
  <2> QED
    BY <1>2, <2>1, RegisterStep, FunctionAssumption DEF RegisterFunction
<1>3. ASSUME NEW d \in Database, NEW f \in NewFunc,
             RegisterFunctionFails(d, f) \/ RegisterFunctionClosed(d, f)
      PROVE  FuncInv'
  <2>1. f \in Func /\ func[f] = "new"
    BY PickUnused DEF NewFunc
  <2>2. UNCHANGED <<conn, stmt, database, statement, raw, table, running>>
    BY <1>3 DEF RegisterFunctionFails, RegisterFunctionClosed, vars
  <2>3. /\ func'[f] \in {"deleted", "deleted twice"}
        /\ \A g \in Func \ {f} : func'[g] = func[g]
        /\ func' \in [Func -> {"new", "registered", "deleted", "deleted twice"}]
    BY <1>i, <1>3, <2>1 DEF RegisterFunctionFails, RegisterFunctionClosed, FuncTypeOK
  <2>4. HandleInv' /\ TypeOK'
    BY <1>i, <2>2, HandlesUnchanged DEF vars, HandleInv
  <2>c. FuncTypeOK' /\ Calling'
    BY <1>i, <2>2, <2>3, <2>4 DEF FuncTypeOK, is_open, Calling
  <2>5. Registered'
    <3>1. ASSUME NEW c \in Conn, NEW n \in Name, table[c][n] \in Func
          PROVE  func'[table[c][n]] = "registered" /\ conn[c] # "freed"
      <4>1. func[table[c][n]] = "registered" /\ conn[c] # "freed"
        BY <1>i, <3>1 DEF Registered
      <4>2. table[c][n] # f
        BY <2>1, <4>1
      <4> QED
        BY <2>3, <3>1, <4>1, <4>2
    <3>2. ASSUME NEW g \in Func, func'[g] = "registered"
          PROVE  \E c \in Conn, n \in Name : table[c][n] = g
      BY <1>i, <2>3, <3>2 DEF Registered
    <3> QED
      BY <1>i, <2>2, <3>1, <3>2 DEF Registered
  <2> QED
    BY <2>4, <2>c, <2>5 DEF FuncInv
<1>4. ASSUME NEW d \in Database, NEW n \in Name, RegisterPlain(d, n)
      PROVE  FuncInv'
  BY <1>4, RegisterStep, FunctionAssumption DEF RegisterPlain
<1>5. ASSUME NEW o \in Statement, CallFunction(o)
      PROVE  FuncInv'
  <2> DEFINE s == statement[o]._statement
  <2>1. HandleInv' /\ TypeOK'
    BY <1>i, <1>5, SetStateStep DEF CallFunction, StepRow, HandleInv
  <2>2. s \in Stmt /\ is_open(o) /\ running[o] = Null /\ SetState(o, "row")
    BY <1>i, <1>5 DEF CallFunction, is_open, TypeOK, Pair
  <2>3. UNCHANGED <<conn, database, statement, raw, table, func>>
    BY <1>5 DEF CallFunction
  <2>4. PICK n \in Name : /\ table[stmt[s].db][n] \in Func
                          /\ running' = [running EXCEPT ![o] = table[stmt[s].db][n]]
    BY <1>5 DEF CallFunction
  <2>5. FuncTypeOK'
    BY <1>i, <2>1, <2>3, <2>4 DEF FuncTypeOK
  <2>6. Registered'
    BY <1>i, <2>3 DEF Registered
  <2>7. /\ stmt'[s].state = "row" /\ stmt'[s].db = stmt[s].db
        /\ \A x \in Stmt : x # s => stmt'[x] = stmt[x]
    BY <1>i, <2>2 DEF SetState, TypeOK
  <2>8. Calling'
    <3> SUFFICES ASSUME NEW p \in Statement, running'[p] # Null
                 PROVE  /\ is_open(p)
                        /\ stmt'[statement[p]._statement].state = "row"
                        /\ \E m \in Name : table[stmt'[statement[p]._statement].db][m] = running'[p]
      BY <2>3 DEF Calling, is_open
    <3>1. CASE p = o
      BY <1>i, <2>2, <2>4, <2>7, <3>1 DEF FuncTypeOK
    <3>2. CASE p # o
      <4>1. running'[p] = running[p] /\ is_open(p) /\ statement[p]._statement \in Stmt
        BY <1>i, <2>4, <3>2 DEF FuncTypeOK, Calling, is_open, TypeOK, Pair
      <4>2. statement[p]._statement # s
        BY <1>i, <3>2, <4>1 DEF HandleInv, Exclusive
      <4> QED
        BY <1>i, <2>7, <4>1, <4>2 DEF Calling
    <3> QED
      BY <3>1, <3>2
  <2> QED
    BY <2>1, <2>5, <2>6, <2>8 DEF FuncInv
<1>6. ASSUME NEW o \in Statement, FunctionReturns(o)
      PROVE  FuncInv'
  <2> DEFINE s == statement[o]._statement
  <2>1. HandleInv' /\ TypeOK'
    BY <1>i, <1>6, SetStateStep DEF FunctionReturns, HandleInv
  <2>2. UNCHANGED <<conn, database, statement, raw, table, func>>
    BY <1>6 DEF FunctionReturns, StepRow, Reset
  <2>3. running' = [running EXCEPT ![o] = Null]
    BY <1>6 DEF FunctionReturns
  <2>4. s \in Stmt /\ \A x \in Stmt : x # s => stmt'[x] = stmt[x]
    BY <1>i, <1>6 DEF FunctionReturns, StepRow, Reset, SetState, is_open, TypeOK, Pair
  <2>5. FuncTypeOK'
    BY <1>i, <2>1, <2>2, <2>3 DEF FuncTypeOK
  <2>6. Registered'
    BY <1>i, <2>2 DEF Registered
  <2>7. Calling'
    <3> SUFFICES ASSUME NEW p \in Statement, running'[p] # Null
                 PROVE  /\ is_open(p)
                        /\ stmt'[statement[p]._statement].state = "row"
                        /\ \E m \in Name : table[stmt'[statement[p]._statement].db][m] = running'[p]
      BY <2>2 DEF Calling, is_open
    <3>1. p # o /\ running'[p] = running[p]
      BY <1>i, <2>3 DEF FuncTypeOK
    <3>2. is_open(p) /\ statement[p]._statement \in Stmt /\ statement[p]._statement # s
      BY <1>i, <3>1 DEF Calling, is_open, TypeOK, Pair, HandleInv, Exclusive
    <3> QED
      BY <1>i, <2>4, <3>1, <3>2 DEF Calling
  <2> QED
    BY <2>1, <2>5, <2>6, <2>7 DEF FuncInv
<1> QED
  BY <1>0, <1>1, <1>2, <1>3, <1>4, <1>5, <1>6 DEF FuncNext

\* Initially there are no handles, no owners and no functions.
LEMMA InitFunc == FuncInit => FuncInv
<1> SUFFICES ASSUME FuncInit PROVE FuncInv
  OBVIOUS
<1> USE HandleAssumption, FunctionAssumption DEF FuncInit, Init, Closed
<1>1. TypeOK /\ FuncTypeOK
  BY DEF TypeOK, FuncTypeOK, Pair, NoFunctions
<1>2. Exclusive
  BY DEF Exclusive, is_open
<1>3. Usable
  BY DEF Usable, Alive
<1>4. Waiting
  BY DEF Waiting, StatementsHaveConnection, Alive
<1>5. Registered /\ Calling
  BY DEF Registered, Calling, NoFunctions
<1> QED
  BY <1>1, <1>2, <1>3, <1>4, <1>5 DEF FuncInv, HandleInv

\* The invariant holds in every reachable state.
LEMMA FuncInvariant == FuncSpec => []FuncInv
BY InitFunc, FuncStep, PTL DEF FuncSpec

-----------------------------------------------------------------------------
(* What follows for owners and functions, counted.                          *)

\* A set with one element, and one without.
LEMMA Counted ==
  ASSUME NEW S
  PROVE  /\ S = {} => Cardinality(S) = 0
         /\ \A x : S = {x} => Cardinality(S) = 1
BY FS_EmptySet, FS_Singleton

\* A usable connection and a live statement have one owner, others none.
LEMMA OwnersCounted == HandleInv => Ownership
<1> SUFFICES ASSUME HandleInv PROVE Ownership
  OBVIOUS
<1> DEFINE D(h) == {d \in Database : database[d] = h}
           O(h) == {o \in Statement : statement[o]._statement = h}
           R(h) == raw \cap {h}
<1>s. ASSUME NEW h, NEW i \in Nat, NEW j \in Nat, NEW k \in Nat,
             Cardinality(D(h)) = i, Cardinality(O(h)) = j, Cardinality(R(h)) = k
      PROVE  Owners(h) = i + j + k
  BY <1>s DEF Owners
<1> USE HandleAssumption DEF HandleInv
<1>1. ASSUME NEW c \in Conn
      PROVE  Owners(c) = IF conn[c] = "open" THEN 1 ELSE 0
  <2>1. O(c) = {}
    BY DEF TypeOK, Pair
  <2>2. Cardinality(O(c)) = 0
    BY <2>1, Counted
  <2>3. CASE conn[c] # "open"
    <3>1. D(c) = {} /\ R(c) = {}
      BY <2>3 DEF Usable
    <3>2. Cardinality(D(c)) = 0 /\ Cardinality(R(c)) = 0
      BY <3>1, Counted
    <3>3. Owners(c) = 0
      BY <1>s, <2>2, <3>2
    <3> QED
      BY <2>3, <3>3
  <2>4. CASE conn[c] = "open" /\ c \in raw
    <3>1. D(c) = {} /\ R(c) = {c}
      BY <2>4 DEF Exclusive
    <3>2. Cardinality(D(c)) = 0 /\ Cardinality(R(c)) = 1
      BY <3>1, Counted
    <3>3. Owners(c) = 1
      BY <1>s, <2>2, <3>2
    <3> QED
      BY <2>4, <3>3
  <2>5. CASE conn[c] = "open" /\ c \notin raw
    <3>1. PICK d \in Database : database[d] = c
      BY <2>5 DEF Usable
    <3>2. D(c) = {d} /\ R(c) = {}
      BY <2>5, <3>1 DEF Exclusive
    <3>3. Cardinality(D(c)) = 1 /\ Cardinality(R(c)) = 0
      BY <3>2, Counted
    <3>4. Owners(c) = 1
      BY <1>s, <2>2, <3>3
    <3> QED
      BY <2>5, <3>4
  <2> QED
    BY <2>3, <2>4, <2>5
<1>2. ASSUME NEW s \in Stmt
      PROVE  Owners(s) = IF Alive(s) THEN 1 ELSE 0
  <2>1. D(s) = {}
    BY DEF TypeOK
  <2>2. Cardinality(D(s)) = 0
    BY <2>1, Counted
  <2>3. CASE ~Alive(s)
    <3>1. O(s) = {} /\ R(s) = {}
      BY <2>3 DEF Usable
    <3>2. Cardinality(O(s)) = 0 /\ Cardinality(R(s)) = 0
      BY <3>1, Counted
    <3>3. Owners(s) = 0
      BY <1>s, <2>2, <3>2
    <3> QED
      BY <2>3, <3>3
  <2>4. CASE Alive(s) /\ s \in raw
    <3>1. O(s) = {} /\ R(s) = {s}
      BY <2>4 DEF Exclusive
    <3>2. Cardinality(O(s)) = 0 /\ Cardinality(R(s)) = 1
      BY <3>1, Counted
    <3>3. Owners(s) = 1
      BY <1>s, <2>2, <3>2
    <3> QED
      BY <2>4, <3>3
  <2>5. CASE Alive(s) /\ s \notin raw
    <3>1. PICK o \in Statement : statement[o]._statement = s
      BY <2>5 DEF Usable
    <3>2. O(s) = {o} /\ R(s) = {}
      BY <2>5, <3>1 DEF Exclusive, is_open
    <3>3. Cardinality(O(s)) = 1 /\ Cardinality(R(s)) = 0
      BY <3>2, Counted
    <3>4. Owners(s) = 1
      BY <1>s, <2>2, <3>3
    <3> QED
      BY <2>5, <3>4
  <2> QED
    BY <2>3, <2>4, <2>5
<1> QED
  BY <1>1, <1>2 DEF Ownership, Waiting

\* A registered object has one place in the tables of the connections.
LEMMA FunctionsCounted == FuncInv => FunctionsAccountedFor
<1> SUFFICES ASSUME FuncInv, NEW f \in Func
             PROVE  Cardinality({x \in Conn \X Name :
                                   table[x[1]][x[2]] = f /\ conn[x[1]] # "freed"})
                      = IF func[f] = "registered" THEN 1 ELSE 0
  BY DEF FunctionsAccountedFor
<1> DEFINE P == {x \in Conn \X Name : table[x[1]][x[2]] = f /\ conn[x[1]] # "freed"}
<1>r. Registered
  BY DEF FuncInv
<1>1. CASE func[f] # "registered"
  <2>1. P = {}
    BY <1>r, <1>1 DEF Registered
  <2> QED
    BY <1>1, <2>1, Counted
<1>2. CASE func[f] = "registered"
  <2>1. PICK c \in Conn, n \in Name : table[c][n] = f
    BY <1>r, <1>2 DEF Registered
  <2>2. <<c, n>> \in P
    BY <1>r, <2>1 DEF Registered
  <2>3. ASSUME NEW x \in P PROVE x = <<c, n>>
    BY <1>r, <2>1, <2>3 DEF Registered
  <2>4. P = {<<c, n>>}
    BY <2>2, <2>3
  <2> QED
    BY <1>2, <2>4, Counted
<1> QED
  BY <1>1, <1>2

\* Handles, wrapper objects and functions are well typed.
THEOREM FuncTypeCorrect == FuncSpec => []FuncTypeOK
BY FuncInvariant, PTL DEF FuncInv

\* However databases and statements are opened, moved, released and closed, each
\* usable handle has exactly one owner and a dead one has none.
THEOREM OwnershipAlways == FuncSpec => []Ownership
<1>1. FuncInv => Ownership
  BY OwnersCounted DEF FuncInv
<1> QED
  BY <1>1, FuncInvariant, PTL

\* No statement outlives its connection.
THEOREM StatementsAlwaysConnected == FuncSpec => []StatementsHaveConnection
<1>1. FuncInv => StatementsHaveConnection
  BY DEF FuncInv, HandleInv, Waiting
<1> QED
  BY <1>1, FuncInvariant, PTL

\* No function object is deleted while a step is inside of it.
THEOREM RunningFunctionAlwaysLives == FuncSpec => []RunningFunctionLives
<1>1. FuncInv => RunningFunctionLives
  <2> SUFFICES ASSUME FuncInv, NEW o \in Statement, running[o] \in Func
               PROVE  func[running[o]] = "registered"
    BY DEF RunningFunctionLives
  <2>1. running[o] # Null
    BY FunctionAssumption
  <2>2. stmt[statement[o]._statement].db \in Conn
    BY <2>1 DEF FuncInv, Calling, HandleInv, Waiting, Alive, TypeOK, Pair, is_open
  <2> QED
    BY <2>1, <2>2 DEF FuncInv, Calling, Registered
<1> QED
  BY <1>1, FuncInvariant, PTL

\* No registered function object is leaked, and none is destroyed twice by the
\* connections that have it.
THEOREM FunctionsAlwaysAccountedFor == FuncSpec => []FunctionsAccountedFor
BY FunctionsCounted, FuncInvariant, PTL
=============================================================================
