----------------------------- MODULE MCVfsFiles ------------------------------
(***************************************************************************)
(* VfsFiles and VfsRegistry with three wrapper objects, enough to stack    *)
(* them in every order, and a connection.  Connections share nothing but   *)
(* the registry.                                                           *)
(***************************************************************************)
EXTENDS VfsFiles

CONSTANTS v1, v2, v3, n1

MCVfs == {v1, v2, v3}
MCConnection == {n1}
=============================================================================
