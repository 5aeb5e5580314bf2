------------------------------- MODULE SharedDb -------------------------------
(***************************************************************************)
(* Several connections, of one or several processes, to one encrypted      *)
(* database.  Each has its own Crypt_file with its own key and its own     *)
(* page cache; they share the file, its rollback journal and its locks,    *)
(* which the File objects hand through to the platform.  The header of     *)
(* page 1 with the change counter is not encoded, so that every connection *)
(* sees it, whatever key it has; the journal is not encoded either, so     *)
(* that any connection can roll it back and encodes the pages with its own *)
(* key when it does.                                                       *)
(*                                                                         *)
(* The content of a page is the number of the transaction that wrote it,   *)
(* so that of page 1 is the change counter.                                *)
(***************************************************************************)
EXTENDS Naturals

CONSTANTS
  Conn,        \* connections
  Page,        \* pages; page 1 holds the header
  Key,         \* keys the database may be encrypted with
  None,        \* page not cached, not journaled, or version unknown
  Reopen,      \* whether users reopen their connections while the key is in doubt
  MaxVersion   \* bound on the number of transactions

ASSUME SharedAssumption ==
  /\ Page \subseteq Nat \ {0} /\ 1 \in Page
  /\ MaxVersion \in Nat
  /\ Reopen \in BOOLEAN
  /\ None \notin Nat

VARIABLES
  disk,      \* the stored pages
  journal,   \* the synced records of the rollback journal
  pc,        \* what each connection is doing
  key,       \* Crypt_file::_current
  writeKey,  \* the key encode_page uses: _transformation while re-encrypting
  cache,     \* the page cache of each connection
  dirty,     \* cached pages not yet written
  version,   \* Pager.dbFileVers, None before page 1 was read
  todo,      \* pages the commit or the playback of the lock's holder has left
  known      \* keys the users of the database have agreed on

vars == <<disk, journal, pc, key, writeKey, cache, dirty, version, todo, known>>

Version == 0..MaxVersion
PC == {"closed", "open", "read", "write", "pending", "commit", "playback", "failed"}

SharedTypeOK ==
  /\ disk \in [Page -> [key : Key, val : Version]]
  /\ journal \in [Page -> Version \cup {None}]
  /\ pc \in [Conn -> PC]
  /\ key \in [Conn -> Key]
  /\ writeKey \in [Conn -> Key]
  /\ cache \in [Conn -> [Page -> Version \cup {None}]]
  /\ dirty \in [Conn -> SUBSET Page]
  /\ version \in [Conn -> Version \cup {None}]
  /\ todo \subseteq Page
  /\ known \subseteq Key

Nothing == [p \in Page |-> None]
Journaled == {p \in Page : journal[p] # None}

Init ==
  /\ \E k \in Key : known = {k} /\ disk = [p \in Page |-> [key |-> k, val |-> 0]]
  /\ journal = Nothing
  /\ pc = [c \in Conn |-> "closed"]
  /\ key \in [Conn -> known] /\ writeKey = key
  /\ cache = [c \in Conn |-> Nothing]
  /\ dirty = [c \in Conn |-> {}]
  /\ version = [c \in Conn |-> None]
  /\ todo = {}

-----------------------------------------------------------------------------
(* The locks that lock() passes on, and which activity holds which.          *)

Shared == {"read", "write", "pending", "commit", "playback"}
Reserved == {"write", "pending", "commit"}
Pending == {"pending", "commit", "playback"}
Others(c, activities) == \E d \in Conn \ {c} : pc[d] \in activities

\* Mutant: a waiting writer does not keep readers out.
MayShare_IgnoresPending(c) == ~Others(c, {"commit", "playback"})

\* SHARED is granted unless another connection waits for EXCLUSIVE or has it,
\* RESERVED to one connection at a time, EXCLUSIVE to the last one that is left.
MayShare(c) == ~Others(c, Pending)
MayReserve(c) == ~Others(c, Reserved)
MayExclude(c) == ~Others(c, Shared)

-----------------------------------------------------------------------------
(* Connections.                                                             *)

\* A connection is opened with, or changes to, a key its user knows.
Open(c, k) ==
  /\ pc[c] \in {"closed", "open"} /\ k \in known
  /\ pc' = [pc EXCEPT ![c] = "open"]
  /\ key' = [key EXCEPT ![c] = k]
  /\ writeKey' = [writeKey EXCEPT ![c] = k]
  /\ UNCHANGED <<disk, journal, cache, dirty, version, todo, known>>

\* Mutant: the change counter is not looked at.
FreshCache_Unchecked(c) == cache[c]

\* The cache is dropped if the change counter is not the one last read.
FreshCache(c) == IF version[c] = disk[1].val THEN cache[c] ELSE Nothing

\* Mutant: check_reserved_lock reports a lock that nobody has.
Hot_AlwaysReserved(c) == FALSE

\* hasHotJournal: a journal, and no connection that has reserved the file.
Hot(c) == Journaled # {} /\ ~Others(c, Reserved)

\* No user accesses the database with a key known to be out of date nor, if Reopen,
\* with cached pages while it is not certain which key is the right one.
MayAccess(c) ==
  /\ key[c] \in known
  /\ Reopen => cache[c] = Nothing \/ known = {key[c]}

\* sqlite3PagerSharedLock without a hot journal.
SharedLock(c) ==
  /\ pc[c] = "open" /\ MayAccess(c)
  /\ MayShare(c) /\ ~Hot(c)
  /\ pc' = [pc EXCEPT ![c] = "read"]
  /\ cache' = [cache EXCEPT ![c] = FreshCache(c)]
  /\ UNCHANGED <<disk, journal, key, writeKey, dirty, version, todo, known>>

\* sqlite3PagerSharedLock with a hot journal, which takes EXCLUSIVE at once.
StartPlayback(c) ==
  /\ pc[c] = "open" /\ MayAccess(c)
  /\ MayShare(c) /\ Hot(c) /\ MayExclude(c)
  /\ pc' = [pc EXCEPT ![c] = "playback"]
  /\ cache' = [cache EXCEPT ![c] = Nothing]
  /\ todo' = Journaled
  /\ UNCHANGED <<disk, journal, key, writeKey, dirty, version, known>>

\* readDbPage with the right key; reading tells which of the known keys is right.
ReadPage(c, p) ==
  /\ pc[c] \in {"read", "write"} /\ cache[c][p] = None
  /\ p # 1 => cache[c][1] # None
  /\ disk[p].key = key[c]
  /\ cache' = [cache EXCEPT ![c][p] = disk[p].val]
  /\ version' = [version EXCEPT ![c] = IF p = 1 THEN disk[1].val ELSE @]
  /\ known' = {key[c]}
  /\ UNCHANGED <<disk, journal, pc, key, writeKey, dirty, todo>>

\* What the page cache holds after a rollback: the pages as they were.
RolledBack(c) ==
  [cache EXCEPT ![c] = [p \in Page |-> IF p \in dirty[c] THEN disk[p].val ELSE @[p]]]

\* decode_page throws: the statement fails and, in autocommit mode, its transaction
\* is rolled back and the lock given up.  A version that could not be read is not
\* valid.  In an explicit transaction only the statement fails, a stuttering step.
ReadFails(c, p) ==
  /\ pc[c] \in {"read", "write"} /\ cache[c][p] = None
  /\ p # 1 => cache[c][1] # None
  /\ disk[p].key # key[c]
  /\ pc' = [pc EXCEPT ![c] = "open"]
  /\ cache' = RolledBack(c)
  /\ dirty' = [dirty EXCEPT ![c] = {}]
  /\ version' = [version EXCEPT ![c] = IF p = 1 THEN None ELSE @]
  /\ UNCHANGED <<disk, journal, key, writeKey, todo, known>>

\* A read transaction ends; the cache stays.
Unlock(c) ==
  /\ pc[c] = "read"
  /\ pc' = [pc EXCEPT ![c] = "open"]
  /\ UNCHANGED <<disk, journal, key, writeKey, cache, dirty, version, todo, known>>

\* sqlite3PagerBegin.
Begin(c) ==
  /\ pc[c] = "read" /\ cache[c][1] # None
  /\ MayReserve(c)
  /\ pc' = [pc EXCEPT ![c] = "write"]
  /\ UNCHANGED <<disk, journal, key, writeKey, cache, dirty, version, todo, known>>

WritePage(c, p) ==
  /\ pc[c] = "write" /\ p # 1 /\ cache[c][p] # None
  /\ cache[c][1] < MaxVersion
  /\ cache' = [cache EXCEPT ![c][p] = cache[c][1] + 1]
  /\ dirty' = [dirty EXCEPT ![c] = @ \cup {p}]
  /\ UNCHANGED <<disk, journal, pc, key, writeKey, version, todo, known>>

\* A VACUUM under crypt_transformation rewrites every page with a new key.
Reencrypt(c, k) ==
  /\ pc[c] = "write" /\ dirty[c] = {} /\ k # key[c]
  /\ \A p \in Page : cache[c][p] # None
  /\ cache[c][1] < MaxVersion
  /\ dirty' = [dirty EXCEPT ![c] = Page]
  /\ writeKey' = [writeKey EXCEPT ![c] = k]
  /\ pc' = [pc EXCEPT ![c] = "pending"]
  /\ UNCHANGED <<disk, journal, key, cache, version, todo, known>>

\* pager_end_transaction keeps SHARED; a connection that failed to re-encrypt is
\* of no use any more, and the application closes it.
Ended(c) == [pc EXCEPT ![c] = IF writeKey[c] = key[c] THEN "read" ELSE "failed"]

\* ROLLBACK, or a commit given up, before anything was written.
Rollback(c) ==
  /\ pc[c] \in {"write", "pending"}
  /\ pc' = Ended(c)
  /\ cache' = RolledBack(c)
  /\ dirty' = [dirty EXCEPT ![c] = {}]
  /\ UNCHANGED <<disk, journal, key, writeKey, version, todo, known>>

\* COMMIT asks for EXCLUSIVE: PENDING comes first and stays while readers are
\* left, and the application tries again.
StartCommit(c) ==
  /\ pc[c] = "write" /\ dirty[c] # {}
  /\ pc' = [pc EXCEPT ![c] = "pending"]
  /\ UNCHANGED <<disk, journal, key, writeKey, cache, dirty, version, todo, known>>

\* pagerExclusiveLock, pager_incr_changecounter and the sync of the journal.  Until
\* a re-encryption has succeeded the database may be found under either key.
ExclusiveLock(c) ==
  /\ pc[c] = "pending" /\ MayExclude(c)
  /\ pc' = [pc EXCEPT ![c] = "commit"]
  /\ cache' = [cache EXCEPT ![c][1] = @ + 1]
  /\ dirty' = [dirty EXCEPT ![c] = @ \cup {1}]
  /\ todo' = dirty'[c]
  /\ journal' = [p \in Page |-> IF p \in dirty'[c] THEN disk[p].val ELSE None]
  /\ known' = known \cup {writeKey[c]}
  /\ UNCHANGED <<disk, key, writeKey, version>>

\* pager_write_pagelist, in the order of the pages.
CommitPage(c) ==
  /\ pc[c] = "commit"
  /\ \E p \in todo :
       /\ \A q \in todo : p <= q
       /\ disk' = [disk EXCEPT ![p] = [key |-> writeKey[c], val |-> cache[c][p]]]
       /\ version' = [version EXCEPT ![c] = IF p = 1 THEN cache[c][1] ELSE @]
       /\ todo' = todo \ {p}
  /\ UNCHANGED <<journal, pc, key, writeKey, cache, dirty, known>>

\* The journal is deleted and the lock lowered; the application ends a
\* re-encryption and tells the other users.
CommitDone(c) ==
  /\ pc[c] = "commit" /\ todo = {}
  /\ journal' = Nothing
  /\ pc' = [pc EXCEPT ![c] = "read"]
  /\ key' = [key EXCEPT ![c] = writeKey[c]]
  /\ known' = {writeKey[c]}
  /\ dirty' = [dirty EXCEPT ![c] = {}]
  /\ UNCHANGED <<disk, writeKey, cache, version, todo>>

\* Mutant: a failed commit restores every page, journaled or not.
CommitFails_AllPages(c) ==
  /\ pc[c] = "commit"
  /\ pc' = [pc EXCEPT ![c] = "playback"]
  /\ todo' = Page
  /\ UNCHANGED <<disk, journal, key, writeKey, cache, dirty, version, known>>

\* A write fails: the transaction is rolled back under the same lock.
CommitFails(c) ==
  /\ pc[c] = "commit"
  /\ pc' = [pc EXCEPT ![c] = "playback"]
  /\ todo' = Journaled
  /\ UNCHANGED <<disk, journal, key, writeKey, cache, dirty, version, known>>

\* Mutant: the restored page 1 does not restore the version.
RestorePage_KeepsVersion(c) ==
  /\ pc[c] = "playback"
  /\ \E p \in todo :
       /\ disk' = [disk EXCEPT ![p] = [key |-> writeKey[c], val |-> journal[p]]]
       /\ cache' = IF cache[c][p] = None THEN cache
                   ELSE [cache EXCEPT ![c][p] = journal[p]]
       /\ todo' = todo \ {p}
  /\ UNCHANGED <<journal, pc, key, writeKey, dirty, version, known>>

\* pager_playback_one_page encodes with the key of whoever rolls back and restores
\* the cached copy and, with page 1, the version.
RestorePage(c) ==
  /\ pc[c] = "playback"
  /\ \E p \in todo :
       /\ disk' = [disk EXCEPT ![p] = [key |-> writeKey[c], val |-> journal[p]]]
       /\ cache' = IF cache[c][p] = None THEN cache
                   ELSE [cache EXCEPT ![c][p] = journal[p]]
       /\ version' = IF p # 1 \/ cache[c][1] = None THEN version
                     ELSE [version EXCEPT ![c] = journal[1]]
       /\ todo' = todo \ {p}
  /\ UNCHANGED <<journal, pc, key, writeKey, dirty, known>>

\* The journal is deleted and the lock lowered.
RestoreDone(c) ==
  /\ pc[c] = "playback" /\ todo = {}
  /\ journal' = Nothing
  /\ pc' = Ended(c)
  /\ dirty' = [dirty EXCEPT ![c] = {}]
  /\ UNCHANGED <<disk, key, writeKey, cache, version, todo, known>>

\* The process dies, or a connection without a transaction is closed: its locks
\* go and the journal stays.
Crash(c) ==
  /\ pc[c] # "closed"
  /\ pc' = [pc EXCEPT ![c] = "closed"]
  /\ cache' = [cache EXCEPT ![c] = Nothing]
  /\ dirty' = [dirty EXCEPT ![c] = {}]
  /\ version' = [version EXCEPT ![c] = None]
  /\ writeKey' = [writeKey EXCEPT ![c] = key[c]]
  /\ todo' = IF pc[c] \in {"commit", "playback"} THEN {} ELSE todo
  /\ UNCHANGED <<disk, journal, key, known>>

\* What the library does on its own once a call has begun, and what an
\* application does again while the database is busy.
Proceed(c) ==
  \/ ExclusiveLock(c) \/ CommitPage(c) \/ CommitDone(c) \/ CommitFails(c)
  \/ RestorePage(c) \/ RestoreDone(c)

Next ==
  \E c \in Conn :
    \/ \E k \in Key : Open(c, k) \/ Reencrypt(c, k)
    \/ SharedLock(c) \/ StartPlayback(c) \/ Unlock(c) \/ Begin(c)
    \/ \E p \in Page : ReadPage(c, p) \/ ReadFails(c, p) \/ WritePage(c, p)
    \/ StartCommit(c) \/ Rollback(c) \/ Proceed(c) \/ Crash(c)

Spec == Init /\ [][Next]_vars

\* Calls proceed, and every read transaction ends.
FairSpec == Spec /\ \A c \in Conn : WF_vars(Proceed(c)) /\ WF_vars(Unlock(c))

-----------------------------------------------------------------------------
(* Properties.                                                              *)

\* However connections interleave, crash and roll each other's journals back, the
\* pages that no rollback will restore are stored under one key that the users
\* know: a re-encryption by one connection and a hot-journal playback by another
\* never leave two keys in the file.
OneKey == \E k \in known : \A p \in Page \ Journaled : disk[p].key = k

\* A connection that holds a lock never works with a page that was changed, or
\* encoded again, since it read it: the change counter, stored in the clear, drops
\* a stale cache also across re-encryption and playback by others.
NoStaleCache ==
  \A c \in Conn, p \in Page :
    pc[c] \in {"read", "write", "pending"} /\ cache[c][p] # None /\ p \notin dirty[c]
      => disk[p] = [key |-> key[c], val |-> cache[c][p]]

\* Committed content, and content as the transaction of the one writer sees it.
Durable == [p \in Page |-> IF p \in Journaled THEN journal[p] ELSE disk[p].val]
View ==
  IF \E c \in Conn : pc[c] \in {"write", "pending", "commit"}
  THEN LET w == CHOOSE c \in Conn : pc[c] \in {"write", "pending", "commit"}
       IN  [p \in Page |-> IF cache[w][p] # None THEN cache[w][p] ELSE disk[p].val]
  ELSE Durable

Store == INSTANCE AtomicStore WITH store <- Durable, view <- View, Value <- Version

\* Together the connections are one atomic store: transactions are serial, none
\* builds on a state another one has replaced, and whoever rolls a crashed
\* transaction back restores exactly what was committed.
SerialTransactions == Store!StoreSpec

\* A commit that waits for readers is not starved by new ones.
CommitsNotStarved == \A c \in Conn : pc[c] = "pending" ~> pc[c] # "pending"
=============================================================================
