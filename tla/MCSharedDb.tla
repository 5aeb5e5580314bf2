----------------------------- MODULE MCSharedDb -----------------------------
(***************************************************************************)
(* SharedDb with two connections, two keys and three pages.                *)
(***************************************************************************)
EXTENDS SharedDb

CONSTANTS c1, c2, k1, k2

MCConn == {c1, c2}
MCKey == {k1, k2}
MCPage == 1..3
=============================================================================
