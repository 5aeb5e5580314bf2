-------------------------- MODULE MCTransactionGuard --------------------------
(***************************************************************************)
(* TransactionGuard with a few guards over a few databases.                *)
(***************************************************************************)
EXTENDS TransactionGuard

CONSTANTS d1, d2, t1, t2, t3, c1, c2, c3

MCDatabase == {d1, d2}
MCTransaction == {t1, t2, t3}
MCConnection == {c1, c2, c3}
=============================================================================
