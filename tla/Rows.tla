--------------------------------- MODULE Rows ---------------------------------
(***************************************************************************)
(* Binding and column access of one prepared statement (statement.cpp,     *)
(* results.cpp).  SQLite reports a failed column conversion only through   *)
(* the connection's error code, which every call on the connection         *)
(* overwrites, and through the code of the statement, which the next step, *)
(* reset or finalize returns.  Results::text, blob and size_of therefore   *)
(* compare the error code before and after the call.  Parameters and       *)
(* columns count from 0 in the wrapper and parameters from 1 in SQLite.    *)
(***************************************************************************)
EXTENDS Integers

CONSTANTS
  Parameters,   \* number of parameters of the statement
  Columns,      \* number of columns of its rows
  Value         \* values that may be bound

ASSUME RowsAssumption == Parameters \in Nat /\ Columns \in Nat /\ "null" \notin Value

VARIABLES
  status,    \* "ready", "row", "closed", "destroyed"
  holds,     \* the Results in use: of a "row", "empty" or "none"
  errcode,   \* the error code of the connection
  rc,        \* the error code of the statement
  bound,     \* the values of the parameters, by SQLite's index
  cells,     \* the columns of the row: "null" (or empty), or a "value"
  asked,     \* what the application knows to be bound, by the wrapper's index
  call,      \* the last call: did it fail, did it throw
  hurt,      \* a conversion of the present or last run failed
  told       \* a call has thrown because of the latest such failure

vars == <<status, holds, errcode, rc, bound, cells, asked, call, hurt, told>>

Index == -1..Columns + Parameters
Codes == {"OK", "ROW", "NOMEM", "MISUSE", "RANGE", "ERROR"}
Cell == {"null", "value"}

Returned == [failed |-> FALSE, threw |-> FALSE]
Thrown == [failed |-> TRUE, threw |-> TRUE]

TypeOK ==
  /\ status \in {"ready", "row", "closed", "destroyed"}
  /\ holds \in {"none", "empty", "row"}
  /\ errcode \in Codes
  /\ rc \in {"OK", "NOMEM"}
  /\ bound \in [1..Parameters -> Value \cup {"null"}]
  /\ cells \in [0..Columns - 1 -> Cell]
  /\ asked \in [0..Parameters - 1 -> Value \cup {"null"}]
  /\ call \in [failed : BOOLEAN, threw : BOOLEAN]
  /\ hurt \in BOOLEAN
  /\ told \in BOOLEAN

Init ==
  /\ status = "ready"
  /\ holds = "none"
  /\ errcode = "OK"
  /\ rc = "OK"
  /\ bound = [i \in 1..Parameters |-> "null"]
  /\ cells = [c \in 0..Columns - 1 |-> "null"]
  /\ asked = [i \in 0..Parameters - 1 |-> "null"]
  /\ call = Returned
  /\ hurt = FALSE
  /\ told = FALSE

is_open == status \in {"ready", "row"}

-------------------------------------------------------------------------------
(* Binding.                                                                 *)

OutOfRange == -2

\* Mutant: the index is not converted to SQLite's count from 1.
_to_parameter_index_Unconverted(i) == IF i \in 0..Parameters - 1 THEN i ELSE OutOfRange

\* OutOfRange stands for the exception.
_to_parameter_index(i) == IF i \in 0..Parameters - 1 THEN i + 1 ELSE OutOfRange

\* vdbeUnbind and bindText: the values of the parameters and the error code
\* after binding v to SQLite's parameter i; copied tells whether a copy of v,
\* if one is made, could be allocated.
sqlite3_bind(i, v, copied) ==
  IF status = "row" THEN [bound |-> bound, errcode |-> "MISUSE"]
  ELSE IF i \notin 1..Parameters THEN [bound |-> bound, errcode |-> "RANGE"]
  ELSE IF copied THEN [bound |-> [bound EXCEPT ![i] = v], errcode |-> "OK"]
  ELSE [bound |-> [bound EXCEPT ![i] = "null"], errcode |-> "NOMEM"]

_bind(index, v, copied) ==
  LET i == _to_parameter_index(index)
      r == sqlite3_bind(i, v, copied)
  IN  IF ~is_open \/ i = OutOfRange
      THEN /\ call' = Thrown
           /\ UNCHANGED <<bound, errcode, asked>>
      ELSE /\ bound' = r.bound
           /\ errcode' = r.errcode
           /\ call' = IF r.errcode = "OK" THEN Returned ELSE Thrown
           /\ asked' = [asked EXCEPT ![index] = CASE r.errcode = "OK" -> v
                                                  [] r.errcode = "NOMEM" -> "null"
                                                  [] OTHER -> @]

\* The bind functions; only a value, never NULL, may need a copy.
Bind(index, v, copied) ==
  /\ status # "destroyed"
  /\ v = "null" => copied
  /\ _bind(index, v, copied)
  /\ UNCHANGED <<status, holds, rc, cells, hurt, told>>

\* Statement::clear_bindings, in the middle of a run too.
ClearBindings ==
  /\ status # "destroyed"
  /\ IF is_open
     THEN /\ bound' = [i \in 1..Parameters |-> "null"]
          /\ asked' = [i \in 0..Parameters - 1 |-> "null"]
     ELSE UNCHANGED <<bound, asked>>
  /\ call' = Returned
  /\ UNCHANGED <<status, holds, errcode, rc, cells, hurt, told>>

-------------------------------------------------------------------------------
(* Stepping.                                                                *)

\* Statement::step with a row.  A run starts with its first step.
StepRow ==
  /\ is_open
  /\ rc = "OK"
  /\ status' = "row"
  /\ holds' = "row"
  /\ errcode' = "ROW"
  /\ cells' \in [0..Columns - 1 -> Cell]
  /\ call' = Returned
  /\ IF status = "ready" THEN hurt' = FALSE /\ told' = FALSE ELSE UNCHANGED <<hurt, told>>
  /\ UNCHANGED <<rc, bound, asked>>

\* SQLite resets the statement: if it has run, its code becomes the
\* connection's, unless code is reported instead.
sqlite3_reset(code) ==
  /\ errcode' = IF status = "row" \/ code # "OK" THEN code ELSE errcode
  /\ status' = "ready"
  /\ rc' = "OK"

\* Statement::step and Statement::finish at the end of a run.  finish has
\* stepped over the rows between; step hands out an empty Results.
RunEnds ==
  /\ is_open
  /\ rc = "OK"
  /\ errcode' = "OK"
  /\ status' = "ready"
  /\ holds' \in {"empty", "none"}
  /\ call' = Returned
  /\ IF status = "ready" THEN hurt' = FALSE /\ told' = FALSE ELSE UNCHANGED <<hurt, told>>
  /\ UNCHANGED <<rc, bound, cells, asked>>

\* Statement::step and Statement::finish with an error, one that a failed
\* conversion has left in the statement or any other: reset, then throw.
RunFails ==
  /\ is_open
  /\ sqlite3_reset(IF rc = "OK" THEN "ERROR" ELSE rc)
  /\ holds' = "none"
  /\ call' = Thrown
  /\ hurt' = (status = "row" /\ hurt)
  /\ told' = TRUE
  /\ UNCHANGED <<bound, cells, asked>>

\* Mutant: the code of the reset is ignored.
Reset_Quiet ==
  /\ is_open
  /\ sqlite3_reset(rc)
  /\ holds' = "none"
  /\ call' = Returned
  /\ UNCHANGED <<bound, cells, asked, hurt, told>>

\* Statement::reset.
Reset ==
  /\ is_open
  /\ sqlite3_reset(rc)
  /\ holds' = "none"
  /\ call' = IF rc = "OK" THEN Returned ELSE Thrown
  /\ told' = (told \/ rc # "OK")
  /\ UNCHANGED <<bound, cells, asked, hurt>>

\* Statement::close.
Close ==
  /\ is_open
  /\ status' = "closed"
  /\ holds' = "none"
  /\ errcode' = IF status = "row" THEN rc ELSE errcode
  /\ rc' = "OK"
  /\ call' = IF rc = "OK" THEN Returned ELSE Thrown
  /\ told' = (told \/ rc # "OK")
  /\ UNCHANGED <<bound, cells, asked, hurt>>

\* Statement::~Statement, which reports nothing.
Destroy ==
  /\ status # "destroyed"
  /\ status' = "destroyed"
  /\ holds' = "none"
  /\ errcode' = IF status = "row" THEN rc ELSE errcode
  /\ rc' = "OK"
  /\ call' = Returned
  /\ UNCHANGED <<bound, cells, asked, hurt, told>>

\* A closed Statement: step and finish throw, reset and close do nothing.
UseClosed ==
  /\ status = "closed"
  /\ call' \in {Thrown, Returned}
  /\ UNCHANGED <<status, holds, errcode, rc, bound, cells, asked, hurt, told>>

-------------------------------------------------------------------------------
(* Reading the row.                                                         *)

\* Mutant: the error code from before the call is not compared.
Unreported_NoOld(old, ec) == ec # "OK"

\* The comparison of text, blob and size_of after a call that yields nothing.
Unreported(old, ec) == ec # "OK" /\ ec # old

\* _to_column_index: a column of the row, or OutOfRange for the exception.
_to_column_index(i) == IF i \in 0..Columns - 1 THEN i ELSE OutOfRange

\* What each access to a Results checks first.
Readable(index) == holds = "row" /\ _to_column_index(index) # OutOfRange

\* Results::text, blob and size_of of a column; converted tells whether
\* SQLite could allocate what the conversion of a value needs.
ReadConverted(index, converted) ==
  LET fails == cells[_to_column_index(index)] = "value" /\ ~converted
      nothing == fails \/ cells[_to_column_index(index)] = "null"
      ec == IF fails THEN "NOMEM" ELSE errcode
      throws == nothing /\ Unreported(errcode, ec)
  IN  /\ Readable(index)
      /\ errcode' = ec
      /\ rc' = IF fails THEN "NOMEM" ELSE rc
      /\ call' = [failed |-> fails, threw |-> throws]
      /\ hurt' = (hurt \/ fails)
      /\ told' = IF fails THEN throws ELSE told
      /\ UNCHANGED <<status, holds, bound, cells, asked>>

\* Results::is_null, integer and real of a column, which need no conversion.
ReadPlain(index) ==
  /\ Readable(index)
  /\ call' = Returned
  /\ UNCHANGED <<status, holds, errcode, rc, bound, cells, asked, hurt, told>>

\* Any access to an empty Results or to a column that does not exist.
ReadRefused(index) ==
  /\ holds # "none"
  /\ ~Readable(index)
  /\ call' = Thrown
  /\ UNCHANGED <<status, holds, errcode, rc, bound, cells, asked, hurt, told>>

\* Any other use of the connection leaves a code behind.
OtherUse ==
  /\ status # "destroyed"
  /\ errcode' \in Codes
  /\ UNCHANGED <<status, holds, rc, bound, cells, asked, call, hurt, told>>

\* What neither starts nor ends a step.
Other ==
  \/ \E i \in Index, v \in Value \cup {"null"}, copied \in BOOLEAN : Bind(i, v, copied)
  \/ ClearBindings
  \/ UseClosed
  \/ \E c \in Index, converted \in BOOLEAN : ReadConverted(c, converted)
  \/ \E c \in Index : ReadPlain(c) \/ ReadRefused(c)
  \/ OtherUse

Next == StepRow \/ RunEnds \/ RunFails \/ Reset \/ Close \/ Destroy \/ Other

Spec == Init /\ [][Next]_vars

-------------------------------------------------------------------------------
(* Properties.                                                              *)

\* A call throws only if it failed: in particular, reading NULL is no error
\* although the connection's error code is not SQLITE_OK on a row, and may be
\* anything after another use of the connection (text, blob and size_of,
\* results.cpp:35-79).
NoFalseAlarm == call.threw => call.failed

\* A failed conversion never goes unnoticed: where the comparison of error
\* codes misses it, because the code was there before, the call that ends the
\* run throws (results.cpp:60 with step, finish, reset and close of
\* statement.cpp).  Only a destructor drops the error.
NoSilentRun == status \in {"ready", "closed"} /\ hurt => told

\* A parameter has the value of the last bind of its index that returned,
\* whatever binds have thrown, runs have ended or failed and resets have
\* happened since; one that failed for lack of memory leaves NULL
\* (_to_parameter_index and _bind; Statement::reset keeps bindings).
BindingsAsAsked == is_open => \A i \in 0..Parameters - 1 : bound[i + 1] = asked[i]

===============================================================================
