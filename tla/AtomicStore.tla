----------------------------- MODULE AtomicStore -----------------------------
(***************************************************************************)
(* What an application expects of a database kept in an encrypted file: a  *)
(* set of pages that changes only by atomic transactions.  `store' is the  *)
(* content that survives a crash, `view' the content as the open           *)
(* transaction has changed it.                                             *)
(***************************************************************************)
CONSTANTS Page, Value
VARIABLES store, view

storeVars == <<store, view>>

StoreInit ==
  /\ store \in [Page -> Value]
  /\ view = store

\* The open transaction replaces the content of one page.
Put(p, v) ==
  /\ view' = [view EXCEPT ![p] = v]
  /\ UNCHANGED store

\* All changes of the transaction become durable in one step.
Commit ==
  /\ store' = view
  /\ UNCHANGED view

\* The transaction is rolled back, fails or dies with the process.
Abort ==
  /\ view' = store
  /\ UNCHANGED store

StoreNext ==
  \/ \E p \in Page, v \in Value : Put(p, v)
  \/ Commit
  \/ Abort

StoreSpec == StoreInit /\ [][StoreNext]_storeVars
=============================================================================
