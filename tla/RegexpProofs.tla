----------------------------- MODULE RegexpProofs -----------------------------
(***************************************************************************)
(* Proofs about Rows and Regexp for every number of parameters and columns *)
(* and every set of values: bindings arrive where they were asked for, no  *)
(* error is invented, none of a run is lost, and REGEXP never matches with *)
(* the pattern of another run.                                             *)
(***************************************************************************)
EXTENDS Regexp, TLAPS

\* A Results is on a row only while its statement is, the code of a failed
\* conversion stays in the statement until its run ends, and a failure that was
\* not reported yet is in that code.
Pending ==
  /\ holds = "row" => status = "row"
  /\ status # "row" => rc = "OK"
  /\ status # "destroyed" /\ hurt => told \/ rc = "NOMEM"

\* SQLite keeps a compiled pattern only during a run, and it is that of the run's
\* argument.
AuxData == auxdata = IF status = "row" THEN argument ELSE NoPattern

RegexpInv ==
  /\ RegexpTypeOK
  /\ NoFalseAlarm /\ BindingsAsAsked /\ MatchedAsBound
  /\ Pending /\ AuxData

-------------------------------------------------------------------------------
\* Calls that return or throw say truly whether they failed.
LEMMA CallType ==
  ASSUME NEW c \in {Returned, Thrown}
  PROVE  c \in [failed : BOOLEAN, threw : BOOLEAN] /\ (c.threw => c.failed)
<1>1. CASE c = [failed |-> FALSE, threw |-> FALSE]
  BY <1>1
<1>2. CASE c = [failed |-> TRUE, threw |-> TRUE]
  BY <1>2
<1> QED
  BY <1>1, <1>2 DEF Returned, Thrown

\* A new statement has NULL in all parameters and no pattern.
LEMMA InitInv == RegexpInit => RegexpInv
<1> SUFFICES ASSUME RegexpInit PROVE RegexpInv
  OBVIOUS
<1> USE RowsAssumption DEF RegexpInit, Init
<1>1. TypeOK
  BY CallType DEF TypeOK, Codes, Cell
<1>2. RegexpTypeOK
  BY <1>1 DEF RegexpTypeOK
<1>3. NoFalseAlarm /\ MatchedAsBound /\ Pending /\ AuxData
  BY CallType DEF NoFalseAlarm, MatchedAsBound, Pending, AuxData
<1>4. BindingsAsAsked
  BY DEF BindingsAsAsked
<1> QED
  BY <1>2, <1>3, <1>4 DEF RegexpInv

\* What binding does: it changes the parameter that was asked for, or reports
\* why it did not.
LEMMA BindStep ==
  ASSUME TypeOK, BindingsAsAsked,
         NEW i \in Index, NEW v \in Value \cup {"null"}, NEW copied \in BOOLEAN,
         Bind(i, v, copied)
  PROVE  /\ errcode' \in Codes
         /\ bound' \in [1..Parameters -> Value \cup {"null"}]
         /\ asked' \in [0..Parameters - 1 -> Value \cup {"null"}]
         /\ call' \in {Returned, Thrown}
         /\ BindingsAsAsked'
<1> DEFINE n == _to_parameter_index(i)
           r == sqlite3_bind(n, v, copied)
<1>1. _bind(i, v, copied) /\ status' = status
  BY DEF Bind
<1>2. CASE ~is_open \/ n = OutOfRange
  BY <1>1, <1>2 DEF _bind, TypeOK, BindingsAsAsked, is_open
<1>3. CASE is_open /\ n # OutOfRange
  <2>1. i \in 0..Parameters - 1 /\ n = i + 1 /\ n \in 1..Parameters
    BY <1>3, RowsAssumption DEF _to_parameter_index, OutOfRange, Index
  <2>2. /\ bound' = r.bound /\ errcode' = r.errcode
        /\ call' = IF r.errcode = "OK" THEN Returned ELSE Thrown
        /\ asked' = [asked EXCEPT ![i] = CASE r.errcode = "OK" -> v
                                           [] r.errcode = "NOMEM" -> "null"
                                           [] OTHER -> @]
    BY <1>1, <1>3 DEF _bind
  <2>b. /\ bound \in [1..Parameters -> Value \cup {"null"}]
        /\ asked \in [0..Parameters - 1 -> Value \cup {"null"}]
        /\ \A j \in 0..Parameters - 1 : bound[j + 1] = asked[j]
    BY <1>3 DEF TypeOK, BindingsAsAsked
  <2>3. CASE status = "row"
    <3>1. r = [bound |-> bound, errcode |-> "MISUSE"]
      BY <2>3 DEF sqlite3_bind
    <3>2. bound' = bound /\ errcode' = "MISUSE" /\ call' = Thrown /\ asked' = asked
      BY <2>2, <2>b, <3>1
    <3> QED
      BY <1>1, <3>2, <2>b DEF BindingsAsAsked, is_open, Codes
  <2>4. CASE status # "row" /\ copied
    <3>1. r.bound = [bound EXCEPT ![i + 1] = v] /\ r.errcode = "OK"
      BY <2>1, <2>4 DEF sqlite3_bind
    <3> HIDE DEF n, r
    <3>2. /\ bound' = [bound EXCEPT ![i + 1] = v] /\ errcode' = "OK" /\ call' = Returned
          /\ asked' = [asked EXCEPT ![i] = v]
      BY <2>2, <3>1
    <3> QED
      BY <1>1, <2>1, <2>b, <3>2, RowsAssumption DEF BindingsAsAsked, is_open, Codes
  <2>5. CASE status # "row" /\ ~copied
    <3>1. r.bound = [bound EXCEPT ![i + 1] = "null"] /\ r.errcode = "NOMEM"
      BY <2>1, <2>5 DEF sqlite3_bind
    <3> HIDE DEF n, r
    <3>2. /\ bound' = [bound EXCEPT ![i + 1] = "null"] /\ errcode' = "NOMEM" /\ call' = Thrown
          /\ asked' = [asked EXCEPT ![i] = "null"]
      BY <2>2, <3>1
    <3> QED
      BY <1>1, <2>1, <2>b, <3>2, RowsAssumption DEF BindingsAsAsked, is_open, Codes
  <2> QED
    BY <1>3, <2>3, <2>4, <2>5
<1> QED
  BY <1>2, <1>3

\* Every step of the application on the statement and of REGEXP keeps the invariant.
LEMMA InvStep == RegexpInv /\ [RegexpNext]_<<vars, regexpVars>> => RegexpInv'
<1> SUFFICES ASSUME RegexpInv, [RegexpNext]_<<vars, regexpVars>> PROVE RegexpInv'
  OBVIOUS
<1> USE DEF RegexpInv, RegexpTypeOK, TypeOK, NoFalseAlarm, BindingsAsAsked,
        MatchedAsBound,
            Pending, AuxData, is_open, regexpVars
<1>0. CASE UNCHANGED <<vars, regexpVars>>
  BY <1>0 DEF vars
<1>1. CASE StepMatches
  <2>1. Argument \in Value \cup {"null"}
    BY RowsAssumption, RegexpAssumption DEF Argument
  <2>2. argument' = Argument /\ matched' = Argument /\ auxdata' = Argument /\ Compiles(Argument)
    BY <1>1, RegexpAssumption DEF StepMatches, StepRow, MatchKept, MatchCompiled,
       Argument
  <2> QED
    BY <1>1, <2>1, <2>2 DEF StepMatches, StepRow, Codes, Returned, Compiles
<1>2. CASE StepThrows
  BY <1>2 DEF StepThrows, RunFails, sqlite3_reset, Halt, Thrown, Codes
<1>3. CASE StepOutOfMemory
  BY <1>3 DEF StepOutOfMemory, RunFails, sqlite3_reset, Thrown, Codes
<1>4. CASE RunEnds /\ Halt
  BY <1>4 DEF RunEnds, Halt, Returned, Codes
<1>5. CASE RunFails /\ Halt
  BY <1>5 DEF RunFails, sqlite3_reset, Halt, Thrown, Codes
<1>6. CASE Reset /\ Halt
  BY <1>6 DEF Reset, sqlite3_reset, Halt, Thrown, Returned, Codes
<1>7. CASE Close /\ Halt
  BY <1>7 DEF Close, Halt, Thrown, Returned, Codes
<1>8. CASE Destroy /\ Halt
  BY <1>8 DEF Destroy, Halt, Returned, Codes
<1>9. ASSUME NEW i \in Index, NEW v \in Value \cup {"null"}, NEW copied \in BOOLEAN,
             Bind(i, v, copied), UNCHANGED regexpVars
      PROVE  RegexpInv'
  <2>1. /\ errcode' \in Codes
        /\ bound' \in [1..Parameters -> Value \cup {"null"}]
        /\ asked' \in [0..Parameters - 1 -> Value \cup {"null"}]
        /\ call' \in {Returned, Thrown}
        /\ BindingsAsAsked'
    BY <1>9, BindStep
  <2> QED
    BY <1>9, <2>1, CallType DEF Bind
<1>10. CASE ClearBindings /\ UNCHANGED regexpVars
  BY <1>10, RowsAssumption DEF ClearBindings, Returned
<1>11. CASE UseClosed /\ UNCHANGED regexpVars
  BY <1>11, CallType DEF UseClosed
<1>12. ASSUME NEW i \in Index, NEW converted \in BOOLEAN,
              ReadConverted(i, converted), UNCHANGED regexpVars
       PROVE  RegexpInv'
  <2> DEFINE fails == cells[_to_column_index(i)] = "value" /\ ~converted
             ec == IF fails THEN "NOMEM" ELSE errcode
             throws == (fails \/ cells[_to_column_index(i)] = "null") /\ Unreported(errcode, ec)
  <2>1. throws \in BOOLEAN /\ (throws => fails)
    BY DEF Unreported
  <2>2. /\ Readable(i) /\ errcode' = ec /\ rc' = IF fails THEN "NOMEM" ELSE rc
        /\ call' = [failed |-> fails, threw |-> throws]
        /\ hurt' = (hurt \/ fails) /\ told' = IF fails THEN throws ELSE told
        /\ UNCHANGED <<status, holds, bound, cells, asked>>
    BY <1>12 DEF ReadConverted
  <2>3. fails \in BOOLEAN
    OBVIOUS
  <2> HIDE DEF fails, throws
  <2> QED
    BY <1>12, <2>1, <2>2, <2>3 DEF Readable, Codes
<1>13. ASSUME NEW i \in Index, ReadPlain(i) \/ ReadRefused(i), UNCHANGED regexpVars
       PROVE  RegexpInv'
  <2>1. /\ call' \in {Returned, Thrown}
        /\ UNCHANGED <<status, holds, errcode, rc, bound, cells, asked, hurt, told>>
    BY <1>13 DEF ReadPlain, ReadRefused
  <2> QED
    BY <1>13, <2>1, CallType
<1>14. CASE OtherUse /\ UNCHANGED regexpVars
  BY <1>14 DEF OtherUse
<1> QED
  BY <1>0, <1>1, <1>2, <1>3, <1>4, <1>5, <1>6, <1>7, <1>8, <1>9, <1>10, <1>11, <1>12,
     <1>13, <1>14 DEF RegexpNext, Other

\* The invariant holds in every reachable state.
LEMMA RegexpInvariant == RegexpSpec => []RegexpInv
BY InitInv, InvStep, PTL DEF RegexpSpec

-------------------------------------------------------------------------------
\* The state of statement, row, bindings and auxiliary data is well typed.
THEOREM RegexpTypeCorrect == RegexpSpec => []RegexpTypeOK
BY RegexpInvariant, PTL DEF RegexpInv

\* No call throws unless it failed, whatever error code another use of the
\* connection has left behind.
THEOREM NeverFalseAlarm == RegexpSpec => []NoFalseAlarm
BY RegexpInvariant, PTL DEF RegexpInv

\* A run with a failed conversion never ends without an exception, although the
\* comparison of error codes may miss the failure itself: the code of the statement
\* keeps it until the run ends.
THEOREM NeverSilentRun == RegexpSpec => []NoSilentRun
<1>1. RegexpInv => NoSilentRun
  BY DEF RegexpInv, Pending, NoSilentRun
<1> QED
  BY <1>1, RegexpInvariant, PTL

\* Every parameter has what the last bind of its index that returned gave it.
THEOREM AlwaysBoundAsAsked == RegexpSpec => []BindingsAsAsked
BY RegexpInvariant, PTL DEF RegexpInv

\* Every row is matched with the pattern that was bound when its run began.
THEOREM AlwaysMatchedAsBound == RegexpSpec => []MatchedAsBound
BY RegexpInvariant, PTL DEF RegexpInv
===============================================================================
