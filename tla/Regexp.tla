-------------------------------- MODULE Regexp --------------------------------
(***************************************************************************)
(* The SQL function REGEXP (function/regexp.cpp) called through            *)
(* Function::xfunc in every step of the statement of Rows, with the        *)
(* statement's first parameter as pattern.  Regexp::run keeps the compiled *)
(* pattern as SQLite's auxiliary data of that argument.  The argument is a *)
(* constant of the run, so SQLite computes it once, in the first step, and *)
(* keeps the auxiliary data until the statement halts.                     *)
(***************************************************************************)
EXTENDS Rows

CONSTANTS
  Malformed,   \* values that are no regular expression
  NoPattern,   \* no compiled pattern
  Freed        \* a pattern that SQLite has already destroyed

ASSUME RegexpAssumption ==
  /\ Parameters >= 1
  /\ Malformed \subseteq Value
  /\ {NoPattern, Freed} \cap (Value \cup {"null"}) = {}

VARIABLES
  argument,  \* the first argument, as the present run has computed it
  auxdata,   \* what the compiled pattern SQLite keeps was compiled from
  matched    \* what the pattern of the latest match was compiled from

regexpVars == <<argument, auxdata, matched>>

RegexpTypeOK ==
  /\ TypeOK
  /\ argument \in Value \cup {"null"}
  /\ auxdata \in Value \cup {NoPattern}
  /\ matched \in Value \cup {NoPattern, Freed}

RegexpInit ==
  /\ Init
  /\ argument = "null"
  /\ auxdata = NoPattern
  /\ matched = NoPattern

-------------------------------------------------------------------------------
\* The value of the first argument in the next step.
Argument == IF status = "ready" THEN bound[1] ELSE argument

\* Mutant: NULL and malformed patterns are not refused.
Compiles_Unchecked(v) == TRUE

\* sqlite3_value_text is not NULL, and `new std::regex' succeeds.
Compiles(v) == v \in Value \ Malformed

\* run() with a pattern at hand: the kept one, or one compiled and kept.
MatchKept == auxdata # NoPattern /\ matched' = auxdata /\ UNCHANGED auxdata
MatchCompiled ==
  /\ auxdata = NoPattern /\ Compiles(Argument)
  /\ matched' = Argument
  /\ auxdata' = Argument

StepMatches ==
  /\ StepRow
  /\ argument' = Argument
  /\ MatchKept \/ MatchCompiled

\* Mutant: the auxiliary data survive the run.
Halt_KeepsAuxData == matched' = NoPattern /\ UNCHANGED <<auxdata, argument>>

\* closeAllCursors, when a run ends, fails, is reset or finalized.
Halt == auxdata' = NoPattern /\ matched' = NoPattern /\ UNCHANGED argument

\* run() throws for NULL or a malformed pattern, and xfunc makes an error of it.
StepThrows ==
  /\ RunFails /\ rc = "OK"
  /\ auxdata = NoPattern /\ ~Compiles(Argument)
  /\ Halt

\* sqlite3_set_auxdata finds no memory and destroys the pattern, which run()
\* goes on to match with; the step fails all the same.
StepOutOfMemory ==
  /\ RunFails /\ rc = "OK"
  /\ auxdata = NoPattern /\ Compiles(Argument)
  /\ matched' = Freed
  /\ UNCHANGED <<auxdata, argument>>

RegexpNext ==
  \/ StepMatches
  \/ StepThrows
  \/ StepOutOfMemory
  \/ (RunEnds \/ RunFails \/ Reset \/ Close \/ Destroy) /\ Halt
  \/ Other /\ UNCHANGED regexpVars

RegexpSpec == RegexpInit /\ [][RegexpNext]_<<vars, regexpVars>>

-------------------------------------------------------------------------------
\* Every row was matched against the pattern bound when its run began, although
\* the compiled pattern outlives the step: not against the pattern of an earlier
\* run, not against one that was destroyed, and never if there is none to compile.
MatchedAsBound == status = "row" => matched = argument /\ Compiles(argument)
===============================================================================
