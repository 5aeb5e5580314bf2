--------------------------- MODULE SharedDbProofs ---------------------------
(***************************************************************************)
(* Proofs about SharedDb, for any set of connections, pages and keys: the  *)
(* file never holds pages under two keys, no connection works with a stale *)
(* page, and together the connections implement an atomic store.           *)
(*                                                                         *)
(* None of the three is inductive.  The invariant below adds which locks   *)
(* exclude each other, what the journal and the dirty pages are at each    *)
(* activity, which keys the pages not yet written or restored have, and    *)
(* how the cached pages of an idle connection relate to the change counter *)
(* it last read.                                                           *)
(***************************************************************************)
EXTENDS SharedDb, TLAPS

Exclusive == {"commit", "playback"}
Working == {"read", "write", "pending"}

\* One connection has RESERVED at most, and who has EXCLUSIVE is alone.
Locks ==
  \A c, d \in Conn : c # d =>
    /\ pc[c] \in Reserved => pc[d] \notin Reserved
    /\ pc[c] \in Exclusive => pc[d] \notin Shared

\* The pages that connection c has cached, dirtied and journaled.
BookkeepingOf(c) ==
  /\ pc[c] \in Working => Journaled = {}
  /\ pc[c] \in Exclusive => todo \subseteq Journaled /\ 1 \in Journaled
  /\ pc[c] \in {"closed", "open", "read", "failed"} => dirty[c] = {}
  /\ \A p \in dirty[c] : cache[c][p] # None
  /\ \A p \in Page : cache[c][p] # None => cache[c][1] # None
  /\ pc[c] \in {"write", "pending"} => cache[c][1] # None
  /\ pc[c] \in {"write", "pending"} /\ dirty[c] # {} => cache[c][1] < MaxVersion
  /\ pc[c] = "pending" => dirty[c] # {}
  /\ pc[c] = "commit" => dirty[c] = Journaled

\* The journal exists only under EXCLUSIVE or after a crash, always with page 1,
\* and holds the pages a commit has dirtied and everything a playback restores.
Bookkeeping ==
  /\ (\A c \in Conn : pc[c] \notin Exclusive) => todo = {}
  /\ Journaled # {} => 1 \in Journaled
  /\ \A c \in Conn : BookkeepingOf(c)

\* How the cached pages relate to the stored ones.  An idle connection's cache is
\* the committed content if its version is the committed change counter, and its
\* version is never ahead of that counter.
CachesOf(c) ==
  /\ pc[c] \in Working =>
       \A p \in Page \ dirty[c] : cache[c][p] # None => disk[p].val = cache[c][p]
  /\ pc[c] \in {"write", "pending"} => disk[1].val = cache[c][1]
  /\ pc[c] \in Exclusive =>
       \A p \in Page \ todo : cache[c][p] # None => disk[p].val = cache[c][p]
  /\ pc[c] = "commit" => cache[c][1] = journal[1] + 1
  /\ pc[c] = "playback" => \A p \in Journaled \ todo : disk[p].val = journal[p]
  /\ pc[c] \in Exclusive /\ 1 \notin todo /\ cache[c][1] # None => version[c] = cache[c][1]
  /\ pc[c] \in {"open"} \cup Working /\ cache[c][1] # None => version[c] = cache[c][1]
  /\ pc[c] = "closed" => cache[c][1] = None
  /\ pc[c] = "open" /\ cache[c][1] # None =>
       /\ cache[c][1] <= Durable[1]
       /\ cache[c][1] = Durable[1] =>
            \A p \in Page : cache[c][p] # None => cache[c][p] = Durable[p]

Caches == \A c \in Conn : CachesOf(c)

\* The keys of connection c, and those of the pages it relies on.
KeysOf(c) ==
  /\ pc[c] \in {"closed", "open", "read", "write"} => writeKey[c] = key[c]
  /\ pc[c] = "pending" /\ writeKey[c] # key[c] => dirty[c] = Page
  /\ pc[c] \in Exclusive /\ writeKey[c] # key[c] => Journaled = Page
  /\ pc[c] \in Working /\ cache[c][1] # None =>
       known = {key[c]} /\ \A p \in Page : disk[p].key = key[c]
  /\ pc[c] \in Exclusive =>
       /\ writeKey[c] \in known
       /\ cache[c][1] # None /\ writeKey[c] = key[c] => known = {key[c]}
       /\ \A p \in Page \ todo : disk[p].key = writeKey[c]

\* Which key the stored pages have.  While two keys are in doubt a journal holds
\* every page or none, so that whoever restores it leaves a single key.
Keys ==
  /\ OneKey
  /\ (\E k \in Key : known = {k}) \/ Journaled = {} \/ Journaled = Page
  /\ \A c \in Conn : KeysOf(c)

\* What holds whatever keys the connections use ...
ContentInv == SharedTypeOK /\ Locks /\ Bookkeeping /\ Caches

\* ... and what holds if they are reopened while the key is in doubt.
SharedInv == ContentInv /\ Keys

-----------------------------------------------------------------------------
(* The invariant is inductive.                                              *)

\* With EXCLUSIVE the journal holds the dirty pages and page 1.
LEMMA JournalStarts ==
  ASSUME SharedTypeOK, NEW c \in Conn, ExclusiveLock(c)
  PROVE  /\ Journaled' = dirty[c] \cup {1}
         /\ dirty'[c] = dirty[c] \cup {1}
         /\ todo' = dirty[c] \cup {1}
<1> USE SharedAssumption DEF ExclusiveLock, SharedTypeOK, Version
<1>1. dirty'[c] = dirty[c] \cup {1}
  OBVIOUS
<1>2. \A p \in Page : journal'[p] # None <=> p \in dirty'[c]
  OBVIOUS
<1>3. dirty'[c] \subseteq Page
  BY <1>1
<1>4. Journaled' = dirty'[c]
  <2> HIDE DEF ExclusiveLock, SharedTypeOK
  <2> QED  BY <1>2, <1>3 DEF Journaled
<1> QED
  BY <1>1, <1>4

\* The initial states satisfy the invariant.
LEMMA InitInv == Init => SharedInv
<1> SUFFICES ASSUME Init PROVE SharedInv
  OBVIOUS
<1> USE SharedAssumption DEF Init, Nothing
<1>1. SharedTypeOK
  BY DEF SharedTypeOK, Version, PC
<1>2. Journaled = {}
  BY DEF Journaled
<1>3. Locks /\ Bookkeeping /\ Caches
  BY <1>2 DEF Locks, Bookkeeping, BookkeepingOf, Caches, CachesOf, Reserved,
     Exclusive, Working
<1>4. Keys
  BY <1>1, <1>2 DEF Keys, KeysOf, OneKey, Exclusive, Working, SharedTypeOK
<1> QED
  BY <1>1, <1>3, <1>4 DEF SharedInv, ContentInv

\* Every step keeps the types; that of ExclusiveLock because a transaction only
\* begins below MaxVersion.
LEMMA TypeStep ==
  ASSUME ContentInv, [Next]_vars
  PROVE  SharedTypeOK'
<1> USE SharedAssumption DEF ContentInv, SharedTypeOK, Version, PC, Journaled,
        Bookkeeping, BookkeepingOf
<1>1. ASSUME NEW c \in Conn, NEW k \in Key, Open(c, k) PROVE SharedTypeOK'
  BY <1>1 DEF Open
<1>2. ASSUME NEW c \in Conn, NEW k \in Key, Reencrypt(c, k) PROVE SharedTypeOK'
  BY <1>2 DEF Reencrypt
<1>3. ASSUME NEW c \in Conn, SharedLock(c) PROVE SharedTypeOK'
  BY <1>3 DEF SharedLock, MayAccess, MayShare, Hot, Others, FreshCache, Nothing
<1>4. ASSUME NEW c \in Conn, StartPlayback(c) PROVE SharedTypeOK'
  BY <1>4 DEF StartPlayback, MayAccess, MayShare, MayExclude, Hot, Others, Nothing
<1>5. ASSUME NEW c \in Conn, Unlock(c) PROVE SharedTypeOK'
  BY <1>5 DEF Unlock
<1>6. ASSUME NEW c \in Conn, Begin(c) PROVE SharedTypeOK'
  BY <1>6 DEF Begin, MayReserve, Others
<1>7. ASSUME NEW c \in Conn, NEW p \in Page, ReadPage(c, p) PROVE SharedTypeOK'
  BY <1>7 DEF ReadPage
<1>8. ASSUME NEW c \in Conn, NEW p \in Page, ReadFails(c, p) PROVE SharedTypeOK'
  BY <1>8 DEF ReadFails, RolledBack
<1>9. ASSUME NEW c \in Conn, NEW p \in Page, WritePage(c, p) PROVE SharedTypeOK'
  BY <1>9 DEF WritePage
<1>10. ASSUME NEW c \in Conn, StartCommit(c) PROVE SharedTypeOK'
  BY <1>10 DEF StartCommit
<1>11. ASSUME NEW c \in Conn, Rollback(c) PROVE SharedTypeOK'
  BY <1>11 DEF Rollback, RolledBack, Ended
<1>12. ASSUME NEW c \in Conn, ExclusiveLock(c) PROVE SharedTypeOK'
  BY <1>12 DEF ExclusiveLock, MayExclude, Others
<1>13. ASSUME NEW c \in Conn, CommitPage(c) PROVE SharedTypeOK'
  BY <1>13 DEF CommitPage
<1>14. ASSUME NEW c \in Conn, CommitDone(c) PROVE SharedTypeOK'
  BY <1>14 DEF CommitDone, Nothing
<1>15. ASSUME NEW c \in Conn, CommitFails(c) PROVE SharedTypeOK'
  BY <1>15 DEF CommitFails
<1>16. ASSUME NEW c \in Conn, RestorePage(c) PROVE SharedTypeOK'
  BY <1>16 DEF RestorePage
<1>17. ASSUME NEW c \in Conn, RestoreDone(c) PROVE SharedTypeOK'
  BY <1>17 DEF RestoreDone, Ended, Nothing
<1>18. ASSUME NEW c \in Conn, Crash(c) PROVE SharedTypeOK'
  BY <1>18 DEF Crash, Nothing
<1>19. CASE UNCHANGED vars
  BY <1>19 DEF vars
<1> QED
  BY <1>1, <1>2, <1>3, <1>4, <1>5, <1>6, <1>7, <1>8, <1>9, <1>10, <1>11, <1>12, <1>13,
     <1>14, <1>15, <1>16, <1>17, <1>18, <1>19 DEF Next, Proceed

\* The lock of each activity is granted and kept as SQLite's locking protocol says.
LEMMA LocksStep ==
  ASSUME ContentInv, [Next]_vars
  PROVE  Locks'
<1> USE SharedAssumption DEF ContentInv, SharedTypeOK, Locks, Shared, Reserved,
        Pending, Exclusive
<1>1. ASSUME NEW c \in Conn, NEW k \in Key, Open(c, k) PROVE Locks'
  BY <1>1 DEF Open
<1>2. ASSUME NEW c \in Conn, NEW k \in Key, Reencrypt(c, k) PROVE Locks'
  BY <1>2 DEF Reencrypt
<1>3. ASSUME NEW c \in Conn, SharedLock(c) PROVE Locks'
  BY <1>3 DEF SharedLock, MayAccess, MayShare, Hot, Others, FreshCache, Nothing
<1>4. ASSUME NEW c \in Conn, StartPlayback(c) PROVE Locks'
  BY <1>4 DEF StartPlayback, MayAccess, MayShare, MayExclude, Hot, Others, Nothing
<1>5. ASSUME NEW c \in Conn, Unlock(c) PROVE Locks'
  BY <1>5 DEF Unlock
<1>6. ASSUME NEW c \in Conn, Begin(c) PROVE Locks'
  BY <1>6 DEF Begin, MayReserve, Others
<1>7. ASSUME NEW c \in Conn, NEW p \in Page, ReadPage(c, p) PROVE Locks'
  BY <1>7 DEF ReadPage
<1>8. ASSUME NEW c \in Conn, NEW p \in Page, ReadFails(c, p) PROVE Locks'
  BY <1>8 DEF ReadFails, RolledBack
<1>9. ASSUME NEW c \in Conn, NEW p \in Page, WritePage(c, p) PROVE Locks'
  BY <1>9 DEF WritePage
<1>10. ASSUME NEW c \in Conn, StartCommit(c) PROVE Locks'
  BY <1>10 DEF StartCommit
<1>11. ASSUME NEW c \in Conn, Rollback(c) PROVE Locks'
  BY <1>11 DEF Rollback, RolledBack, Ended
<1>12. ASSUME NEW c \in Conn, ExclusiveLock(c) PROVE Locks'
  BY <1>12 DEF ExclusiveLock, MayExclude, Others
<1>13. ASSUME NEW c \in Conn, CommitPage(c) PROVE Locks'
  BY <1>13 DEF CommitPage
<1>14. ASSUME NEW c \in Conn, CommitDone(c) PROVE Locks'
  BY <1>14 DEF CommitDone, Nothing
<1>15. ASSUME NEW c \in Conn, CommitFails(c) PROVE Locks'
  BY <1>15 DEF CommitFails
<1>16. ASSUME NEW c \in Conn, RestorePage(c) PROVE Locks'
  BY <1>16 DEF RestorePage
<1>17. ASSUME NEW c \in Conn, RestoreDone(c) PROVE Locks'
  BY <1>17 DEF RestoreDone, Ended, Nothing
<1>18. ASSUME NEW c \in Conn, Crash(c) PROVE Locks'
  BY <1>18 DEF Crash, Nothing
<1>19. CASE UNCHANGED vars
  BY <1>19 DEF vars
<1> QED
  BY <1>1, <1>2, <1>3, <1>4, <1>5, <1>6, <1>7, <1>8, <1>9, <1>10, <1>11, <1>12, <1>13,
     <1>14, <1>15, <1>16, <1>17, <1>18, <1>19 DEF Next, Proceed

\* Only the holder of EXCLUSIVE, of whom there is one, changes journal and todo.
LEMMA BookkeepingStep ==
  ASSUME ContentInv, [Next]_vars
  PROVE  Bookkeeping'
<1> USE SharedAssumption DEF ContentInv, SharedTypeOK, Version, Locks, Shared,
        Reserved, Pending, Exclusive, Working,
        Bookkeeping, BookkeepingOf, Journaled
<1>1. ASSUME NEW c \in Conn, NEW k \in Key, Open(c, k) PROVE Bookkeeping'
  BY <1>1 DEF Open
<1>2. ASSUME NEW c \in Conn, NEW k \in Key, Reencrypt(c, k) PROVE Bookkeeping'
  BY <1>2 DEF Reencrypt
<1>3. ASSUME NEW c \in Conn, SharedLock(c) PROVE Bookkeeping'
  BY <1>3 DEF SharedLock, MayAccess, MayShare, Hot, Others, FreshCache, Nothing
<1>4. ASSUME NEW c \in Conn, StartPlayback(c) PROVE Bookkeeping'
  BY <1>4 DEF StartPlayback, MayAccess, MayShare, MayExclude, Hot, Others, Nothing
<1>5. ASSUME NEW c \in Conn, Unlock(c) PROVE Bookkeeping'
  BY <1>5 DEF Unlock
<1>6. ASSUME NEW c \in Conn, Begin(c) PROVE Bookkeeping'
  BY <1>6 DEF Begin, MayReserve, Others
<1>7. ASSUME NEW c \in Conn, NEW p \in Page, ReadPage(c, p) PROVE Bookkeeping'
  BY <1>7 DEF ReadPage
<1>8. ASSUME NEW c \in Conn, NEW p \in Page, ReadFails(c, p) PROVE Bookkeeping'
  BY <1>8 DEF ReadFails, RolledBack
<1>9. ASSUME NEW c \in Conn, NEW p \in Page, WritePage(c, p) PROVE Bookkeeping'
  BY <1>9 DEF WritePage
<1>10. ASSUME NEW c \in Conn, StartCommit(c) PROVE Bookkeeping'
  BY <1>10 DEF StartCommit
<1>11. ASSUME NEW c \in Conn, Rollback(c) PROVE Bookkeeping'
  BY <1>11 DEF Rollback, RolledBack, Ended
<1>12. ASSUME NEW c \in Conn, ExclusiveLock(c) PROVE Bookkeeping'
  <2> USE <1>12 DEF ExclusiveLock, MayExclude, Others
  <2>1. Journaled' = dirty[c] \cup {1}
    BY JournalStarts
  <2>2. cache'[c] = [cache[c] EXCEPT ![1] = cache[c][1] + 1] /\ cache'[c][1] \in Version
    OBVIOUS
  <2>3. \A d \in Conn \ {c} : /\ pc'[d] = pc[d] /\ pc[d] \notin Shared
                             /\ cache'[d] = cache[d] /\ dirty'[d] = dirty[d]
    OBVIOUS
  <2>4. pc'[c] = "commit" /\ dirty'[c] = dirty[c] \cup {1} /\ todo' = dirty[c] \cup {1}
    BY JournalStarts
  <2>5. (\A d \in Conn : pc'[d] \notin Exclusive) => todo' = {}
    BY <2>4
  <2>6. \A d \in Conn \ {c} : BookkeepingOf(d)'
    BY <2>3
  <2>7. BookkeepingOf(c)'
    <3>1. cache'[c][1] # None /\ \A p \in dirty'[c] : cache'[c][p] # None
      BY <2>2, <2>4
    <3> QED  BY <2>1, <2>4, <3>1
  <2> HIDE DEF BookkeepingOf
  <2> QED
    BY <2>1, <2>5, <2>6, <2>7
<1>13. ASSUME NEW c \in Conn, CommitPage(c) PROVE Bookkeeping'
  BY <1>13 DEF CommitPage
<1>14. ASSUME NEW c \in Conn, CommitDone(c) PROVE Bookkeeping'
  BY <1>14 DEF CommitDone, Nothing
<1>15. ASSUME NEW c \in Conn, CommitFails(c) PROVE Bookkeeping'
  BY <1>15 DEF CommitFails
<1>16. ASSUME NEW c \in Conn, RestorePage(c) PROVE Bookkeeping'
  BY <1>16 DEF RestorePage
<1>17. ASSUME NEW c \in Conn, RestoreDone(c) PROVE Bookkeeping'
  BY <1>17 DEF RestoreDone, Ended, Nothing
<1>18. ASSUME NEW c \in Conn, Crash(c) PROVE Bookkeeping'
  BY <1>18 DEF Crash, Nothing
<1>19. CASE UNCHANGED vars
  BY <1>19 DEF vars
<1> QED
  BY <1>1, <1>2, <1>3, <1>4, <1>5, <1>6, <1>7, <1>8, <1>9, <1>10, <1>11, <1>12, <1>13,
     <1>14, <1>15, <1>16, <1>17, <1>18, <1>19 DEF Next, Proceed

\* What is committed is read from the journal as soon as, and as long as, the
\* stored pages differ from it.
LEMMA DurableKept ==
  ASSUME ContentInv, NEW c \in Conn,
         ExclusiveLock(c) \/ CommitPage(c) \/ RestorePage(c) \/ RestoreDone(c)
  PROVE  Durable' = Durable
<1> USE SharedAssumption DEF ContentInv, SharedTypeOK, Version, Durable, Journaled
<1>1. CASE ExclusiveLock(c)
  <2>1. Journaled = {}
    BY <1>1 DEF ExclusiveLock, Bookkeeping, BookkeepingOf, Working
  <2>2. \A p \in Page : journal'[p] # None => journal'[p] = disk[p].val
    BY <1>1 DEF ExclusiveLock
  <2> QED
    BY <1>1, <2>1, <2>2 DEF ExclusiveLock
<1>2. CASE CommitPage(c)
  BY <1>2 DEF CommitPage, Bookkeeping, BookkeepingOf, Exclusive
<1>3. CASE RestorePage(c)
  BY <1>3 DEF RestorePage, Bookkeeping, BookkeepingOf, Exclusive
<1>4. CASE RestoreDone(c)
  BY <1>4 DEF RestoreDone, Nothing, Caches, CachesOf, Exclusive
<1> QED
  BY <1>1, <1>2, <1>3, <1>4

\* The committed content changes only with CommitDone, which raises its change
\* counter above the version of every other connection.
LEMMA CachesStep ==
  ASSUME ContentInv, [Next]_vars
  PROVE  Caches'
<1> USE SharedAssumption DEF ContentInv, SharedTypeOK, Version, Locks, Shared,
        Reserved, Pending, Exclusive, Working,
        Bookkeeping, BookkeepingOf, Journaled, Caches, CachesOf, Durable
<1>1. ASSUME NEW c \in Conn, NEW k \in Key, Open(c, k) PROVE Caches'
  BY <1>1 DEF Open
<1>2. ASSUME NEW c \in Conn, NEW k \in Key, Reencrypt(c, k) PROVE Caches'
  BY <1>2 DEF Reencrypt
<1>3. ASSUME NEW c \in Conn, SharedLock(c) PROVE Caches'
  BY <1>3 DEF SharedLock, MayAccess, MayShare, Hot, Others, FreshCache, Nothing
<1>4. ASSUME NEW c \in Conn, StartPlayback(c) PROVE Caches'
  BY <1>4 DEF StartPlayback, MayAccess, MayShare, MayExclude, Hot, Others, Nothing
<1>5. ASSUME NEW c \in Conn, Unlock(c) PROVE Caches'
  BY <1>5 DEF Unlock
<1>6. ASSUME NEW c \in Conn, Begin(c) PROVE Caches'
  BY <1>6 DEF Begin, MayReserve, Others
<1>7. ASSUME NEW c \in Conn, NEW p \in Page, ReadPage(c, p) PROVE Caches'
  BY <1>7 DEF ReadPage
<1>8. ASSUME NEW c \in Conn, NEW p \in Page, ReadFails(c, p) PROVE Caches'
  BY <1>8 DEF ReadFails, RolledBack
<1>9. ASSUME NEW c \in Conn, NEW p \in Page, WritePage(c, p) PROVE Caches'
  BY <1>9 DEF WritePage
<1>10. ASSUME NEW c \in Conn, StartCommit(c) PROVE Caches'
  BY <1>10 DEF StartCommit
<1>11. ASSUME NEW c \in Conn, Rollback(c) PROVE Caches'
  BY <1>11 DEF Rollback, RolledBack, Ended
<1>12. ASSUME NEW c \in Conn, ExclusiveLock(c) PROVE Caches'
  <2> USE <1>12 DEF ExclusiveLock, MayExclude, Others
  <2>1. Journaled' = dirty[c] \cup {1}
    BY JournalStarts
  <2>2. disk' = disk /\ version' = version /\ todo' = dirty[c] \cup {1} /\ pc'[c] = "commit"
    OBVIOUS
  <2>3. cache'[c] = [cache[c] EXCEPT ![1] = cache[c][1] + 1] /\ journal'[1] = disk[1].val
    OBVIOUS
  <2>4. Durable' = Durable
    BY DurableKept
  <2>5. \A d \in Conn \ {c} : /\ pc'[d] = pc[d] /\ pc[d] \notin Shared
                             /\ cache'[d] = cache[d] /\ version'[d] = version[d]
    OBVIOUS
  <2> HIDE <1>12 DEF Durable
  <2> QED
    BY <1>12, <2>1, <2>2, <2>3, <2>4, <2>5
<1>13. ASSUME NEW c \in Conn, CommitPage(c) PROVE Caches'
  BY <1>13 DEF CommitPage
<1>14. ASSUME NEW c \in Conn, CommitDone(c) PROVE Caches'
  BY <1>14 DEF CommitDone, Nothing
<1>15. ASSUME NEW c \in Conn, CommitFails(c) PROVE Caches'
  BY <1>15 DEF CommitFails
<1>16. ASSUME NEW c \in Conn, RestorePage(c) PROVE Caches'
  BY <1>16 DEF RestorePage
<1>17. ASSUME NEW c \in Conn, RestoreDone(c) PROVE Caches'
  BY <1>17 DEF RestoreDone, Ended, Nothing
<1>18. ASSUME NEW c \in Conn, Crash(c) PROVE Caches'
  BY <1>18 DEF Crash, Nothing
<1>19. CASE UNCHANGED vars
  BY <1>19 DEF vars
<1> QED
  BY <1>1, <1>2, <1>3, <1>4, <1>5, <1>6, <1>7, <1>8, <1>9, <1>10, <1>11, <1>12, <1>13,
     <1>14, <1>15, <1>16, <1>17, <1>18, <1>19 DEF Next, Proceed

\* A commit or a playback leaves its own key behind; with two keys in doubt that
\* is the key of all pages, because all of them are in the journal.
LEMMA KeysStep ==
  ASSUME SharedInv, Reopen, [Next]_vars
  PROVE  Keys'
<1> USE SharedAssumption DEF ContentInv, SharedTypeOK, Version, Locks, Shared,
        Reserved, Pending, Exclusive, Working,
        Bookkeeping, BookkeepingOf, Journaled, SharedInv, Keys, KeysOf, OneKey
<1>1. ASSUME NEW c \in Conn, NEW k \in Key, Open(c, k) PROVE Keys'
  BY <1>1 DEF Open
<1>2. ASSUME NEW c \in Conn, NEW k \in Key, Reencrypt(c, k) PROVE Keys'
  BY <1>2 DEF Reencrypt
<1>3. ASSUME NEW c \in Conn, SharedLock(c) PROVE Keys'
  BY <1>3 DEF SharedLock, MayAccess, MayShare, Hot, Others, FreshCache, Nothing
<1>4. ASSUME NEW c \in Conn, StartPlayback(c) PROVE Keys'
  BY <1>4 DEF StartPlayback, MayAccess, MayShare, MayExclude, Hot, Others, Nothing
<1>5. ASSUME NEW c \in Conn, Unlock(c) PROVE Keys'
  BY <1>5 DEF Unlock
<1>6. ASSUME NEW c \in Conn, Begin(c) PROVE Keys'
  BY <1>6 DEF Begin, MayReserve, Others
<1>7. ASSUME NEW c \in Conn, NEW p \in Page, ReadPage(c, p) PROVE Keys'
  BY <1>7 DEF ReadPage
<1>8. ASSUME NEW c \in Conn, NEW p \in Page, ReadFails(c, p) PROVE Keys'
  BY <1>8 DEF ReadFails, RolledBack
<1>9. ASSUME NEW c \in Conn, NEW p \in Page, WritePage(c, p) PROVE Keys'
  BY <1>9 DEF WritePage
<1>10. ASSUME NEW c \in Conn, StartCommit(c) PROVE Keys'
  BY <1>10 DEF StartCommit
<1>11. ASSUME NEW c \in Conn, Rollback(c) PROVE Keys'
  BY <1>11 DEF Rollback, RolledBack, Ended
<1>12. ASSUME NEW c \in Conn, ExclusiveLock(c) PROVE Keys'
  <2> USE <1>12 DEF ExclusiveLock, MayExclude, Others
  <2>1. Journaled' = dirty[c] \cup {1}
    BY JournalStarts
  <2>2. known = {key[c]}
    OBVIOUS
  <2>3. disk' = disk /\ known' = known \cup {writeKey[c]} /\ todo' = Journaled'
    BY JournalStarts
  <2>4. \A d \in Conn \ {c} : pc'[d] = pc[d] /\ pc[d] \notin Shared
    OBVIOUS
  <2>5. pc'[c] = "commit" /\ writeKey' = writeKey /\ key' = key
    OBVIOUS
  <2>6. writeKey[c] # key[c] => Journaled' = Page
    BY <2>1
  <2>7. (\E k \in Key : known' = {k}) \/ Journaled' = Page
    <3>1. CASE writeKey[c] = key[c]
      BY <3>1, <2>2, <2>3
    <3>2. CASE writeKey[c] # key[c]
      BY <3>2, <2>6
    <3> QED  BY <3>1, <3>2
  <2>8. OneKey'
    BY <2>3
  <2>9. \A d \in Conn \ {c} : KeysOf(d)'
    BY <2>4
  <2>10. KeysOf(c)'
    <3>1. cache[c][1] # None
      OBVIOUS
    <3>2. \A p \in Page : disk[p].key = key[c]
      BY <3>1
    <3>3. \A p \in Page \ Journaled' : disk'[p].key = writeKey'[c]
      BY <2>3, <2>5, <2>6, <3>2
    <3>4. writeKey'[c] = key'[c] => known' = {key'[c]}
      BY <2>2, <2>3, <2>5
    <3> QED  BY <2>3, <2>5, <2>6, <3>3, <3>4
  <2> HIDE DEF KeysOf, OneKey, Journaled
  <2> QED
    BY <2>7, <2>8, <2>9, <2>10
<1>13. ASSUME NEW c \in Conn, CommitPage(c) PROVE Keys'
  <2> USE <1>13 DEF CommitPage
  <2>1. PICK p \in todo :
          /\ disk' = [disk EXCEPT ![p] = [key |-> writeKey[c], val |-> cache[c][p]]]
          /\ todo' = todo \ {p}
    OBVIOUS
  <2>2. \A q \in Page : q # p => disk'[q] = disk[q]
    BY <2>1
  <2>3. disk'[p].key = writeKey[c]
    BY <2>1
  <2>4. p \in Journaled /\ UNCHANGED Journaled
    BY <2>1
  <2>5. OneKey'
    BY <2>1, <2>2, <2>4
  <2>6. \A d \in Conn \ {c} : pc[d] \notin Shared
    OBVIOUS
  <2> QED
    BY <2>1, <2>2, <2>3, <2>4, <2>5, <2>6
<1>14. ASSUME NEW c \in Conn, CommitDone(c) PROVE Keys'
  BY <1>14 DEF CommitDone, Nothing
<1>15. ASSUME NEW c \in Conn, CommitFails(c) PROVE Keys'
  BY <1>15 DEF CommitFails
<1>16. ASSUME NEW c \in Conn, RestorePage(c) PROVE Keys'
  <2> USE <1>16 DEF RestorePage
  <2>1. PICK p \in todo :
          /\ disk' = [disk EXCEPT ![p] = [key |-> writeKey[c], val |-> journal[p]]]
          /\ todo' = todo \ {p}
    OBVIOUS
  <2>2. \A q \in Page : q # p => disk'[q] = disk[q]
    BY <2>1
  <2>3. disk'[p].key = writeKey[c]
    BY <2>1
  <2>4. p \in Journaled /\ UNCHANGED Journaled
    BY <2>1
  <2>5. OneKey'
    BY <2>1, <2>2, <2>4
  <2>6. \A d \in Conn \ {c} : pc[d] \notin Shared
    OBVIOUS
  <2> QED
    BY <2>1, <2>2, <2>3, <2>4, <2>5, <2>6
<1>17. ASSUME NEW c \in Conn, RestoreDone(c) PROVE Keys'
  BY <1>17 DEF RestoreDone, Ended, Nothing
<1>18. ASSUME NEW c \in Conn, Crash(c) PROVE Keys'
  BY <1>18 DEF Crash, Nothing
<1>19. CASE UNCHANGED vars
  BY <1>19 DEF vars
<1> QED
  BY <1>1, <1>2, <1>3, <1>4, <1>5, <1>6, <1>7, <1>8, <1>9, <1>10, <1>11, <1>12, <1>13,
     <1>14, <1>15, <1>16, <1>17, <1>18, <1>19 DEF Next, Proceed

-----------------------------------------------------------------------------
\* In every behaviour of SharedDb.
LEMMA ContentInvariant == Spec => []ContentInv
<1>1. ContentInv /\ [Next]_vars => ContentInv'
  BY TypeStep, LocksStep, BookkeepingStep, CachesStep DEF ContentInv
<1> QED
  BY <1>1, InitInv, PTL DEF Spec, SharedInv

LEMMA SharedInvariant == ASSUME Reopen PROVE Spec => []SharedInv
<1>1. SharedInv /\ [Next]_vars => SharedInv'
  BY TypeStep, LocksStep, BookkeepingStep, CachesStep, KeysStep DEF SharedInv,
     ContentInv
<1> QED
  BY <1>1, InitInv, PTL DEF Spec

\* Types: in particular the change counter stays in its range, although
\* pager_incr_changecounter adds one without looking.
THEOREM SharedTypeCorrect == Spec => []SharedTypeOK
<1>1. ContentInv => SharedTypeOK
  BY DEF ContentInv
<1> QED
  BY <1>1, ContentInvariant, PTL

\* If users reopen their connections while the key is in doubt, no interleaving of
\* commits, re-encryptions, crashes and playbacks by any number of connections
\* leaves pages under two keys (encode_page with pager_playback).
THEOREM OneKeyAlways == ASSUME Reopen PROVE Spec => []OneKey
<1>1. SharedInv => OneKey
  BY DEF SharedInv, Keys
<1> QED
  BY <1>1, SharedInvariant, PTL

\* Under the same condition the change counter of page 1, which Crypt_file leaves in
\* the clear, is enough to drop every stale page from the cache.
THEOREM NeverStale == ASSUME Reopen PROVE Spec => []NoStaleCache
<1>1. SharedInv => NoStaleCache
  <2> SUFFICES ASSUME SharedInv, NEW c \in Conn, NEW p \in Page,
                      pc[c] \in Working, cache[c][p] # None, p \notin dirty[c]
               PROVE  disk[p] = [key |-> key[c], val |-> cache[c][p]]
    BY DEF NoStaleCache, Working
  <2>1. disk[p] \in [key : Key, val : Version]
    BY DEF SharedInv, ContentInv, SharedTypeOK
  <2>2. disk[p].val = cache[c][p]
    BY DEF SharedInv, ContentInv, Caches, CachesOf
  <2>3. disk[p].key = key[c]
    BY DEF SharedInv, ContentInv, Bookkeeping, BookkeepingOf, Keys, KeysOf
  <2> QED
    BY <2>1, <2>2, <2>3
<1> QED
  BY <1>1, SharedInvariant, PTL

-----------------------------------------------------------------------------
(* The connections implement AtomicStore, whichever keys they use.          *)

\* The content of the pages as connection c sees it.
ViewOf(c) == [p \in Page |-> IF cache[c][p] # None THEN cache[c][p] ELSE disk[p].val]

\* There is one writer to choose.
LEMMA OneWriter ==
  ASSUME NEW f, NEW c \in Conn, f[c] \in Reserved,
         \A d \in Conn \ {c} : f[d] \notin Reserved
  PROVE  /\ \E x \in Conn : f[x] \in {"write", "pending", "commit"}
         /\ (CHOOSE x \in Conn : f[x] \in {"write", "pending", "commit"}) = c
BY DEF Reserved

\* The view is that of the writer, and the committed content if there is none.
LEMMA ViewIs ==
  ASSUME Locks
  PROVE  /\ \A c \in Conn : pc[c] \in Reserved => View = ViewOf(c)
         /\ (\A c \in Conn : pc[c] \notin Reserved) => View = Durable
<1>1. ASSUME NEW c \in Conn, pc[c] \in Reserved PROVE View = ViewOf(c)
  <2>1. \A d \in Conn \ {c} : pc[d] \notin Reserved
    BY <1>1 DEF Locks
  <2> QED
    BY <1>1, <2>1, OneWriter DEF View, ViewOf
<1> QED
  BY <1>1 DEF View, Reserved

LEMMA ViewIsNext ==
  ASSUME Locks'
  PROVE  /\ \A c \in Conn : pc'[c] \in Reserved => View' = ViewOf(c)'
         /\ (\A c \in Conn : pc'[c] \notin Reserved) => View' = Durable'
<1>1. ASSUME NEW c \in Conn, pc'[c] \in Reserved PROVE View' = ViewOf(c)'
  <2>1. \A d \in Conn \ {c} : pc'[d] \notin Reserved
    BY <1>1 DEF Locks, Reserved
  <2> QED
    BY <1>1, <2>1, OneWriter DEF View, ViewOf
<1> QED
  BY <1>1 DEF View, Reserved

\* A step of a connection that is not the writer leaves the view alone.
LEMMA BystanderView ==
  ASSUME Locks, Locks', NEW c \in Conn,
         pc[c] \notin Reserved, pc'[c] \notin Reserved,
         \A d \in Conn \ {c} : pc'[d] = pc[d] /\ cache'[d] = cache[d],
         disk' = disk \/ pc[c] \in Exclusive,
         Durable' = Durable
  PROVE  View' = View
<1>1. CASE \E w \in Conn : pc[w] \in Reserved
  <2> PICK w \in Conn : pc[w] \in Reserved
    BY <1>1
  <2>1. disk' = disk /\ w # c
    BY DEF Locks, Reserved, Shared, Exclusive
  <2>2. View = ViewOf(w) /\ View' = ViewOf(w)'
    BY <2>1, ViewIs, ViewIsNext
  <2> QED
    BY <2>1, <2>2 DEF ViewOf
<1>2. CASE \A w \in Conn : pc[w] \notin Reserved
  BY <1>2, ViewIs, ViewIsNext
<1> QED
  BY <1>1, <1>2

\* When the writer stops being one, the view is the committed content.
LEMMA WriterLeaves ==
  ASSUME Locks, Locks', NEW c \in Conn,
         pc[c] \in Reserved, pc'[c] \notin Reserved,
         \A d \in Conn \ {c} : pc'[d] = pc[d]
  PROVE  View' = Durable'
BY ViewIsNext DEF Locks

\* Changing a cached page changes the view of that page.
LEMMA PutView ==
  ASSUME SharedTypeOK, NEW c \in Conn, NEW p \in Page, NEW v \in Version,
         cache'[c] = [cache[c] EXCEPT ![p] = v], disk' = disk
  PROVE  ViewOf(c)' = [ViewOf(c) EXCEPT ![p] = v]
<1>1. v # None /\ cache[c] \in [Page -> Version \cup {None}]
  BY SharedAssumption DEF SharedTypeOK, Version
<1>2. cache'[c][p] = v /\ \A q \in Page \ {p} : cache'[c][q] = cache[c][q]
  BY <1>1
<1> QED
  BY <1>1, <1>2 DEF ViewOf

\* Every step is a step of the atomic store or none: writing a page and raising the
\* change counter are puts, the deletion of the journal commits, and whatever else
\* ends a transaction aborts it.
LEMMA RefinementStep ==
  ASSUME ContentInv, ContentInv', [Next]_vars
  PROVE  [Store!StoreNext]_(Store!storeVars)
<1> USE SharedAssumption DEF Store!storeVars, Store!StoreNext
<1>a. Locks /\ Locks' /\ SharedTypeOK /\ SharedTypeOK' /\ Bookkeeping /\ Caches
  BY DEF ContentInv
<1>1. ASSUME NEW c \in Conn, NEW k \in Key, Open(c, k)
      PROVE  [Store!StoreNext]_(Store!storeVars)
  <2>1. Durable' = Durable
    BY <1>1 DEF Open, Durable, Journaled
  <2> QED
    BY <1>1, <1>a, <2>1, BystanderView DEF Open, SharedTypeOK, Reserved, Exclusive
<1>2. ASSUME NEW c \in Conn, NEW k \in Key, Reencrypt(c, k)
      PROVE  [Store!StoreNext]_(Store!storeVars)
  <2>1. View = ViewOf(c) /\ View' = ViewOf(c)'
    BY <1>2, <1>a, ViewIs, ViewIsNext DEF Reencrypt, SharedTypeOK, Reserved
  <2>2. Durable' = Durable
    BY <1>2 DEF Reencrypt, Durable, Journaled
  <2>3. ViewOf(c)' = ViewOf(c)
    BY <1>2, <1>a DEF Reencrypt, SharedTypeOK, ViewOf, Bookkeeping, BookkeepingOf
  <2> QED
    BY <2>1, <2>2, <2>3
<1>3. ASSUME NEW c \in Conn, SharedLock(c) PROVE [Store!StoreNext]_(Store!storeVars)
  <2>1. Durable' = Durable
    BY <1>3 DEF SharedLock, MayAccess, MayShare, Hot, Others, FreshCache, Nothing,
       Durable, Journaled
  <2> QED
    BY <1>3, <1>a, <2>1, BystanderView DEF SharedLock, MayAccess, MayShare, Hot,
       Others, FreshCache, Nothing, SharedTypeOK, Reserved, Exclusive
<1>4. ASSUME NEW c \in Conn, StartPlayback(c)
      PROVE  [Store!StoreNext]_(Store!storeVars)
  <2>1. Durable' = Durable
    BY <1>4 DEF StartPlayback, MayAccess, MayShare, MayExclude, Hot, Others, Nothing,
       Durable, Journaled
  <2> QED
    BY <1>4, <1>a, <2>1, BystanderView DEF StartPlayback, MayAccess, MayShare,
       MayExclude, Hot, Others, Nothing, SharedTypeOK, Reserved, Exclusive
<1>5. ASSUME NEW c \in Conn, Unlock(c) PROVE [Store!StoreNext]_(Store!storeVars)
  <2>1. Durable' = Durable
    BY <1>5 DEF Unlock, Durable, Journaled
  <2> QED
    BY <1>5, <1>a, <2>1, BystanderView DEF Unlock, SharedTypeOK, Reserved, Exclusive
<1>6. ASSUME NEW c \in Conn, Begin(c) PROVE [Store!StoreNext]_(Store!storeVars)
  <2>1. View = Durable
    BY <1>6, <1>a, ViewIs DEF Begin, MayReserve, Others, Reserved
  <2>2. View' = ViewOf(c)'
    BY <1>6, <1>a, ViewIsNext DEF SharedTypeOK, Begin, MayReserve, Others, Reserved
  <2>3. Durable' = Durable
    BY <1>6 DEF Begin, MayReserve, Others, Durable, Journaled
  <2>4. ViewOf(c)' = Durable
    BY <1>6, <1>a DEF Begin, MayReserve, Others, ViewOf, Durable, Journaled,
       Bookkeeping, BookkeepingOf, Caches, CachesOf, Working, SharedTypeOK
  <2> QED
    BY <2>1, <2>2, <2>3, <2>4
<1>7. ASSUME NEW c \in Conn, NEW p \in Page, ReadPage(c, p)
      PROVE  [Store!StoreNext]_(Store!storeVars)
  <2>1. Durable' = Durable
    BY <1>7 DEF ReadPage, Durable, Journaled
  <2>2. CASE pc[c] = "read"
    BY <1>7, <1>a, <2>1, <2>2, BystanderView DEF ReadPage, SharedTypeOK, Reserved
  <2>3. CASE pc[c] = "write"
    <3>1. View = ViewOf(c) /\ View' = ViewOf(c)'
      BY <1>7, <1>a, <2>3, ViewIs, ViewIsNext DEF ReadPage, SharedTypeOK, Reserved
    <3>2. ViewOf(c)' = ViewOf(c)
      BY <1>7, <1>a DEF ReadPage, SharedTypeOK, ViewOf
    <3> QED  BY <2>1, <3>1, <3>2
  <2> QED
    BY <1>7, <2>2, <2>3 DEF ReadPage
<1>8. ASSUME NEW c \in Conn, NEW p \in Page, ReadFails(c, p)
      PROVE  [Store!StoreNext]_(Store!storeVars)
  <2>1. Durable' = Durable
    BY <1>8 DEF ReadFails, RolledBack, Durable, Journaled
  <2>2. CASE pc[c] = "read"
    BY <1>8, <1>a, <2>1, <2>2, BystanderView DEF ReadFails, RolledBack, SharedTypeOK,
       Reserved
  <2>3. CASE pc[c] = "write"
    BY <1>8, <1>a, <2>1, <2>3, WriterLeaves DEF ReadFails, RolledBack, SharedTypeOK,
       Reserved, Store!Abort
  <2> QED
    BY <1>8, <2>2, <2>3 DEF ReadFails
<1>9. ASSUME NEW c \in Conn, NEW p \in Page, WritePage(c, p)
      PROVE  [Store!StoreNext]_(Store!storeVars)
  <2>1. View = ViewOf(c) /\ View' = ViewOf(c)'
    BY <1>9, <1>a, ViewIs, ViewIsNext DEF WritePage, SharedTypeOK, Reserved
  <2>2. Durable' = Durable
    BY <1>9 DEF WritePage, Durable, Journaled
  <2>3. cache[c][1] + 1 \in Version
    BY <1>9, <1>a DEF WritePage, SharedTypeOK, Version, Bookkeeping, BookkeepingOf
  <2>4. ViewOf(c)' = [ViewOf(c) EXCEPT ![p] = cache[c][1] + 1]
    <3>1. cache'[c] = [cache[c] EXCEPT ![p] = cache[c][1] + 1] /\ disk' = disk
      BY <1>9, <1>a DEF WritePage, SharedTypeOK
    <3> QED  BY <1>9, <1>a, <2>3, <3>1, PutView
  <2> QED
    BY <2>1, <2>2, <2>3, <2>4 DEF Store!Put
<1>10. ASSUME NEW c \in Conn, StartCommit(c) PROVE [Store!StoreNext]_(Store!storeVars)
  <2>1. View = ViewOf(c) /\ View' = ViewOf(c)'
    BY <1>10, <1>a, ViewIs, ViewIsNext DEF StartCommit, SharedTypeOK, Reserved
  <2>2. Durable' = Durable
    BY <1>10 DEF StartCommit, Durable, Journaled
  <2>3. ViewOf(c)' = ViewOf(c)
    BY <1>10, <1>a DEF StartCommit, SharedTypeOK, ViewOf, Bookkeeping, BookkeepingOf
  <2> QED
    BY <2>1, <2>2, <2>3
<1>11. ASSUME NEW c \in Conn, Rollback(c) PROVE [Store!StoreNext]_(Store!storeVars)
  <2>1. Durable' = Durable
    BY <1>11 DEF Rollback, RolledBack, Ended, Durable, Journaled
  <2> QED
    BY <1>11, <1>a, <2>1, WriterLeaves DEF Rollback, RolledBack, Ended, SharedTypeOK,
       Reserved, Store!Abort
<1>12. ASSUME NEW c \in Conn, ExclusiveLock(c)
      PROVE  [Store!StoreNext]_(Store!storeVars)
  <2>1. View = ViewOf(c) /\ View' = ViewOf(c)'
    BY <1>12, <1>a, ViewIs, ViewIsNext DEF ExclusiveLock, MayExclude, Others,
       SharedTypeOK, Reserved
  <2>2. Durable' = Durable
    BY <1>12, DurableKept
  <2>3. cache[c][1] + 1 \in Version /\ cache[c][1] # None
    BY <1>12, <1>a DEF ExclusiveLock, MayExclude, Others, SharedTypeOK, Version,
       Bookkeeping, BookkeepingOf
  <2>4. ViewOf(c)' = [ViewOf(c) EXCEPT ![1] = cache[c][1] + 1]
    <3>1. cache'[c] = [cache[c] EXCEPT ![1] = cache[c][1] + 1] /\ disk' = disk
      BY <1>12, <1>a DEF ExclusiveLock, MayExclude, Others, SharedTypeOK
    <3> QED  BY <1>12, <1>a, <2>3, <3>1, PutView
  <2> QED
    BY <2>1, <2>2, <2>3, <2>4 DEF Store!Put
<1>13. ASSUME NEW c \in Conn, CommitPage(c) PROVE [Store!StoreNext]_(Store!storeVars)
  <2>1. View = ViewOf(c) /\ View' = ViewOf(c)'
    BY <1>13, <1>a, ViewIs, ViewIsNext DEF CommitPage, SharedTypeOK, Reserved
  <2>2. Durable' = Durable
    BY <1>13, DurableKept
  <2>3. ViewOf(c)' = ViewOf(c)
    BY <1>13, <1>a DEF CommitPage, SharedTypeOK, ViewOf, Bookkeeping, BookkeepingOf
  <2> QED
    BY <2>1, <2>2, <2>3
<1>14. ASSUME NEW c \in Conn, CommitDone(c) PROVE [Store!StoreNext]_(Store!storeVars)
  <2>1. View = ViewOf(c)
    BY <1>14, <1>a, ViewIs DEF CommitDone, Nothing, Reserved
  <2>2. View' = Durable'
    BY <1>14, <1>a, WriterLeaves DEF CommitDone, Nothing, SharedTypeOK, Reserved
  <2>3. Journaled' = {} /\ disk' = disk
    BY <1>14 DEF CommitDone, Nothing, Journaled
  <2>4. Durable' = ViewOf(c)
    BY <1>14, <1>a, <2>3 DEF CommitDone, ViewOf, Durable, Caches, CachesOf, Exclusive
  <2> QED
    BY <2>1, <2>2, <2>4 DEF Store!Commit
<1>15. ASSUME NEW c \in Conn, CommitFails(c) PROVE [Store!StoreNext]_(Store!storeVars)
  <2>1. Durable' = Durable
    BY <1>15 DEF CommitFails, Durable, Journaled
  <2> QED
    BY <1>15, <1>a, <2>1, WriterLeaves DEF CommitFails, SharedTypeOK, Reserved,
       Store!Abort
<1>16. ASSUME NEW c \in Conn, RestorePage(c) PROVE [Store!StoreNext]_(Store!storeVars)
  <2>1. Durable' = Durable
    BY <1>16, DurableKept
  <2> QED
    BY <1>16, <1>a, <2>1, BystanderView DEF RestorePage, SharedTypeOK, Reserved,
       Exclusive
<1>17. ASSUME NEW c \in Conn, RestoreDone(c) PROVE [Store!StoreNext]_(Store!storeVars)
  <2>1. Durable' = Durable
    BY <1>17, DurableKept
  <2> QED
    BY <1>17, <1>a, <2>1, BystanderView DEF RestoreDone, Ended, Nothing, SharedTypeOK,
       Reserved, Exclusive
<1>18. ASSUME NEW c \in Conn, Crash(c) PROVE [Store!StoreNext]_(Store!storeVars)
  <2>1. Durable' = Durable
    BY <1>18 DEF Crash, Nothing, Durable, Journaled
  <2>2. CASE pc[c] \notin Reserved
    BY <1>18, <1>a, <2>1, <2>2, BystanderView DEF Crash, Nothing, SharedTypeOK,
       Reserved
  <2>3. CASE pc[c] \in Reserved
    BY <1>18, <1>a, <2>1, <2>3, WriterLeaves DEF Crash, Nothing, SharedTypeOK,
       Reserved, Store!Abort
  <2> QED
    BY <2>2, <2>3
<1>19. CASE UNCHANGED vars
  BY <1>19 DEF vars, Durable, View, Journaled
<1> QED
  BY <1>1, <1>2, <1>3, <1>4, <1>5, <1>6, <1>7, <1>8, <1>9, <1>10, <1>11, <1>12, <1>13,
     <1>14, <1>15, <1>16, <1>17, <1>18, <1>19 DEF Next, Proceed

\* Together the connections are one atomic store, however they interleave, crash
\* and roll each other back (pager_write_pagelist, pager_playback and the locks).
\* This does not depend on Reopen: wrong keys make reads fail, but never mix
\* transactions.
THEOREM SharedRefinesStore == Spec => SerialTransactions
<1>1. Init => Store!StoreInit
  <2> SUFFICES ASSUME Init PROVE Store!StoreInit
    OBVIOUS
  <2>1. ContentInv
    BY InitInv DEF SharedInv
  <2>2. View = Durable
    BY <2>1, ViewIs DEF Init, ContentInv, Reserved
  <2>3. Durable \in [Page -> Version]
    BY <2>1 DEF ContentInv, SharedTypeOK, Durable, Journaled
  <2> QED
    BY <2>2, <2>3 DEF Store!StoreInit
<1>2. ContentInv /\ ContentInv' /\ [Next]_vars => [Store!StoreNext]_(Store!storeVars)
  BY RefinementStep
<1> QED
  BY <1>1, <1>2, ContentInvariant, PTL DEF Spec, SerialTransactions, Store!StoreSpec
=============================================================================
