------------------------------ MODULE SqlFunctions -----------------------------
(***************************************************************************)
(* Function objects (function/function.hpp) that                           *)
(* Database::register_function hands over to a connection of Handles.  A   *)
(* unique_ptr owns the object until sqlite3_create_function_v2 succeeds;   *)
(* then SQLite destroys it when the function is replaced or its connection *)
(* is freed.  A statement calls the object through Function::xfunc from    *)
(* inside Statement::step(), and the function may use the same connection  *)
(* meanwhile.                                                              *)
(***************************************************************************)
EXTENDS Handles

CONSTANTS
  Func,   \* Function objects, each created once
  Name,   \* what SQLite tells functions apart by: name, arity and encoding
  Plain   \* a function pointer without an object (the other register_function)

ASSUME FunctionAssumption ==
  Null \notin Func /\ Plain \notin Func /\ Plain # Null

VARIABLES
  table,    \* the functions of each connection
  func,     \* who has the object: the caller, SQLite, or nobody any more
  running   \* the object whose run() the step() of a Statement is in

funcVars == <<table, func, running>>
allVars == <<vars, funcVars>>

NoFunctions == [n \in Name |-> Null]

FuncTypeOK ==
  /\ TypeOK
  /\ table \in [Conn -> [Name -> Func \cup {Plain, Null}]]
  /\ func \in [Func -> {"new", "registered", "deleted", "deleted twice"}]
  /\ running \in [Statement -> Func \cup {Null}]

FuncInit ==
  /\ Init
  /\ table = [c \in Conn |-> NoFunctions]
  /\ func = [f \in Func |-> "new"]
  /\ running = [o \in Statement |-> Null]

-----------------------------------------------------------------------------
\* The next object the application creates.
NewFunc == Pick({f \in Func : func[f] = "new"})

\* db->nVdbeActive: a statement of c is on a row or inside a step.
Active(c) == \E s \in Stmt : stmt[s].db = c /\ stmt[s].state = "row"

\* functionDestroy of what connection c has under name n.
functionDestroy(c, n) == [f \in Func |-> IF f = table[c][n] THEN "deleted" ELSE func[f]]

\* Mutant: a function is replaced while statements run.
sqlite3CreateFunc_IgnoresActive(c, n, f) == table' = [table EXCEPT ![c][n] = f]

\* sqlite3CreateFunc refuses to replace a function while a statement is active.
sqlite3CreateFunc(c, n, f) ==
  /\ table[c][n] # Null => ~Active(c)
  /\ table' = [table EXCEPT ![c][n] = f]

RegisterFunction(d, n, f) ==
  /\ database[d] # Null
  /\ sqlite3CreateFunc(database[d], n, f)
  /\ func' = [functionDestroy(database[d], n) EXCEPT ![f] = "registered"]
  /\ UNCHANGED <<vars, running>>

\* Busy, misuse or out of memory: createFunctionApi destroys the object it could
\* not register, and register_function throws before it releases the unique_ptr,
\* which deletes the object once more.
RegisterFunctionFails(d, f) ==
  /\ database[d] # Null
  /\ func' = [func EXCEPT ![f] = "deleted twice"]
  /\ UNCHANGED <<vars, table, running>>

\* A closed Database throws, and the unique_ptr deletes the object.
RegisterFunctionClosed(d, f) ==
  /\ database[d] = Null
  /\ func' = [func EXCEPT ![f] = "deleted"]
  /\ UNCHANGED <<vars, table, running>>

\* register_function with a function pointer; a failure changes nothing.
RegisterPlain(d, n) ==
  /\ database[d] # Null
  /\ sqlite3CreateFunc(database[d], n, Plain)
  /\ func' = functionDestroy(database[d], n)
  /\ UNCHANGED <<vars, running>>

-----------------------------------------------------------------------------
\* A step calls the object that its connection has under a name at that moment
\* (a statement compiled before a replacement is expired and prepared again).
CallFunction(o) ==
  /\ is_open(o) /\ running[o] = Null
  /\ \E n \in Name :
       /\ table[stmt[statement[o]._statement].db][n] \in Func
       /\ running' = [running EXCEPT ![o] = table[stmt[statement[o]._statement].db][n]]
  /\ SetState(o, "row")
  /\ UNCHANGED <<conn, database, statement, raw, table, func>>

\* run() returns or throws into xfunc, and the step ends with a row, done or an
\* error.
FunctionReturns(o) ==
  /\ running[o] # Null
  /\ running' = [running EXCEPT ![o] = Null]
  /\ StepRow(o) \/ Reset(o)
  /\ UNCHANGED <<table, func>>

\* Mutant: a freed connection forgets to destroy its functions.
FreeFunctions_Leaks ==
  /\ table' = [c \in Conn |-> IF conn'[c] = "freed" THEN NoFunctions ELSE table[c]]
  /\ UNCHANGED func

\* sqlite3LeaveMutexAndCloseZombie destroys the functions of what it frees.
FreeFunctions ==
  LET gone == {c \in Conn : conn'[c] = "freed"} IN
  /\ table' = [c \in Conn |-> IF c \in gone THEN NoFunctions ELSE table[c]]
  /\ func' = [f \in Func |->
                IF \E c \in gone, n \in Name : table[c][n] = f THEN "deleted" ELSE func[f]]

\* A function may do with its connection what it likes, but leaves alone the
\* Statement that is calling it.
HandleStep ==
  /\ \/ \E d \in Database : DatabaseStep(d)
     \/ \E o \in Statement : running[o] = Null /\ StatementStep(o)
     \/ \E o, p \in Statement : running[o] = Null /\ running[p] = Null /\ MoveStatement(o, p)
     \/ \E h \in Conn \cup Stmt : EndRaw(h)
  /\ FreeFunctions
  /\ UNCHANGED running

DestroyIdle(o) ==
  running[o] = Null /\ DestroyStatement(o) /\ FreeFunctions /\ UNCHANGED running

FuncNext ==
  \/ HandleStep
  \/ \E d \in Database, n \in Name, f \in NewFunc : RegisterFunction(d, n, f)
  \/ \E d \in Database, f \in NewFunc : RegisterFunctionFails(d, f) \/ RegisterFunctionClosed(d, f)
  \/ \E d \in Database, n \in Name : RegisterPlain(d, n)
  \/ \E o \in Statement : CallFunction(o) \/ FunctionReturns(o)

FuncSpec == FuncInit /\ [][FuncNext]_allVars

\* Functions return, and a Statement object that is stepped again and again is
\* destroyed when its scope ends.
FairFuncSpec ==
  /\ FuncSpec
  /\ \A o \in Statement : WF_allVars(FunctionReturns(o)) /\ SF_allVars(DestroyIdle(o))

-----------------------------------------------------------------------------
\* A function object is never deleted while a step is inside its run(), although
\* the function may meanwhile close its Database, open another one, or register
\* a function under its own name.
RunningFunctionLives ==
  \A o \in Statement : running[o] \in Func => func[running[o]] = "registered"

\* SQLite has each registered object exactly once, in a connection that is not
\* freed: no object is leaked with its connection, left in the table after it was
\* deleted, or shared by two connections and so deleted by both.
FunctionsAccountedFor ==
  \A f \in Func :
    Cardinality({x \in Conn \X Name : table[x[1]][x[2]] = f /\ conn[x[1]] # "freed"})
      = IF func[f] = "registered" THEN 1 ELSE 0

\* Whoever owns it, an object is deleted once: "The destructor is also invoked if
\* the call to sqlite3_create_function_v2() fails."
FunctionsDeletedOnce == \A f \in Func : func[f] # "deleted twice"
=============================================================================
