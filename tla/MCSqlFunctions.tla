---------------------------- MODULE MCSqlFunctions ----------------------------
(***************************************************************************)
(* SqlFunctions and Handles with two connections, two statements, two      *)
(* objects of each wrapper class, and a function object and a plain        *)
(* function that compete for one name.                                     *)
(***************************************************************************)
EXTENDS SqlFunctions

CONSTANTS c1, c2, s1, s2, d1, d2, o1, o2, f1, n1

MCConn == {c1, c2}
MCStmt == {s1, s2}
MCDatabase == {d1, d2}
MCStatement == {o1, o2}
MCFunc == {f1}
MCName == {n1}
=============================================================================
