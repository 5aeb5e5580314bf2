------------------------------- MODULE CryptDb -------------------------------
(***************************************************************************)
(* A database kept in an encrypted file: SQLite's rollback-journal pager   *)
(* (ysqlite3/sqlite3.c) reading and writing its pages through Crypt_file,  *)
(* and an application that configures the file with PRAGMA key, cipher and *)
(* crypt_transformation and with Database::set_reserved_size.              *)
(*                                                                         *)
(* The pager writes original pages to the rollback journal before it       *)
(* changes them in the file.  The journal is not a main_db file, so its    *)
(* images bypass encode_page and decode_page: whatever restores them       *)
(* encodes them anew with the encryptor of that moment.                    *)
(***************************************************************************)
EXTENDS CryptFile

CONSTANTS
  Client,     \* "careful" keeps to the documented order of calls, "any" does not
  Setups,     \* the set-ups of page cache and application that are considered
  NotVacuum   \* no VACUUM is running

\* spill: the page cache is small enough to spill inside transactions;
\* rekey: the application re-encrypts with crypt_transformation;
\* blind: it accesses an encrypted database also while no cipher is set.
Setup == [spill : BOOLEAN, rekey : BOOLEAN, blind : BOOLEAN]

ASSUME ClientAssumption ==
  /\ Client \in {"careful", "any"}
  /\ Setups \subseteq Setup
  /\ NotVacuum \notin Reserve

VARIABLES
  setup,    \* the set-up of this behaviour, which never changes
  pc,       \* what the connection is doing
  cache,    \* the pager's page cache
  dirty,    \* cached pages not yet written to the file
  journal,  \* original pages in the rollback journal
  synced,   \* journaled pages whose record a sync of the journal made durable
  todo,     \* pages the running VACUUM, commit, rollback or playback has left
  want,     \* BtShared.nReserveWanted
  resetTo,  \* while a VACUUM runs: the reserve requested after it has failed
  stage,    \* how far the application has configured this connection
  known     \* encryptors the application tries when it opens the database

pagerVars == <<cache, dirty, journal, synced, todo>>
clientVars == <<stage, known>>
vars == <<setup, cryptVars, disk, pc, pagerVars, want, resetTo, clientVars>>

PC == {"closed", "idle", "write", "vacuum", "commit", "rollback", "playback"}
Stage == {"config", "using", "rekey", "vacuumed", "failed"}

TypeOK ==
  /\ CryptTypeOK
  /\ setup \in Setups
  /\ pc \in PC
  /\ cache \in [Page -> Image \cup Undecoded \cup {NoImage}]
  /\ dirty \subseteq Page
  /\ journal \in [Page -> Image \cup Undecoded \cup {NoImage}]
  /\ synced \subseteq Page
  /\ todo \subseteq Page
  /\ want \in Reserve
  /\ resetTo \in Reserve \cup {NotVacuum}
  /\ stage \in Stage
  /\ known \subseteq Encryptor

-----------------------------------------------------------------------------
Nothing == [p \in Page |-> NoImage]
Journaled == {p \in Page : journal[p] # NoImage}
Larger(m, n) == IF m >= n THEN m ELSE n

\* hasHotJournal: a journal with synced records and no transaction that owns it.
Hot == pc \in {"idle", "closed"} /\ synced # {}

\* A file as an earlier, completed session left it: all pages under one
\* encryptor, laid out for it.
Init ==
  /\ setup \in Setups
  /\ \E e \in Encryptor, r \in Reserve :
       /\ e.cipher # NullCipher => r = crypt_file_reserve_size
       /\ \E content \in [Page -> Value] :
            disk = [p \in Page |-> [enc |-> Seal(e), val |-> content[p], res |-> r]]
       /\ known = {Seal(e)}
  /\ current = NoEncryptor
  /\ transformation = NoEncryptor
  /\ transform = FALSE
  /\ pc = "closed"
  /\ cache = Nothing
  /\ dirty = {}
  /\ journal = Nothing
  /\ synced = {}
  /\ todo = {}
  /\ want = 0
  /\ resetTo = NotVacuum
  /\ stage = "config"

-----------------------------------------------------------------------------
(* The application.  A careful one sets key and cipher before it accesses   *)
(* the database, accesses it only with an encryptor it knows, re-encrypts   *)
(* by crypt_transformation=1, key, cipher, VACUUM, crypt_transformation=0   *)
(* with no hot journal around, and closes the connection when that fails.   *)

MayConfigure == Client = "any" \/ stage \in {"config", "rekey"}
MayAccess ==
  \/ Client = "any"
  \/ stage \in {"using", "rekey"}
  \/ stage = "config" /\ Seal(current) \in known
MayModify == Client = "any" \/ stage = "using"

\* sqlite3_open_v2 with the crypt VFS; the URI may carry key and cipher.
Open(key, cipher) ==
  /\ pc = "closed"
  /\ Construct(key, cipher)
  /\ pc' = "idle"
  /\ want' = 0
  /\ UNCHANGED <<disk, pagerVars, resetTo, clientVars>>

\* The three PRAGMAs reach file_control without touching the database, inside
\* and outside of transactions.
SetKey(value) ==
  /\ pc \in {"idle", "write"} /\ MayConfigure
  /\ PragmaKey(value)
  /\ UNCHANGED <<disk, pc, pagerVars, want, resetTo, clientVars>>

SetCipher(value) ==
  /\ pc \in {"idle", "write"} /\ MayConfigure
  /\ PragmaCipher(value)
  /\ UNCHANGED <<disk, pc, pagerVars, want, resetTo, clientVars>>

StartTransformation ==
  /\ pc \in {"idle", "write"} /\ setup.rekey
  /\ Client = "careful" => stage = "using" /\ pc = "idle" /\ ~Hot
  /\ PragmaTransformation(TRUE)
  /\ stage' = IF Client = "careful" THEN "rekey" ELSE stage
  /\ UNCHANGED <<disk, pc, pagerVars, want, resetTo, known>>

EndTransformation ==
  /\ pc \in {"idle", "write"}
  /\ Client = "careful" => stage = "vacuumed"
  /\ PragmaTransformation(FALSE)
  /\ IF Client = "careful"
     THEN stage' = "using" /\ known' = {Seal(transformation)}
     ELSE UNCHANGED clientVars
  /\ UNCHANGED <<disk, pc, pagerVars, want, resetTo>>

-----------------------------------------------------------------------------
(* The pager.                                                               *)

\* Everything but page 1 is reached through the schema, which is read from page 1
\* and kept in memory when that page is evicted and read again as ciphertext.  A
\* careful application has read no schema before it has read page 1 decoded.
SchemaRead == cache[1] # NoImage /\ (Client = "careful" => cache[1] \in Image)

\* readDbPage.  The first page that is decoded tells a careful application that its
\* key is right.
ReadPage(p) ==
  /\ pc \in {"idle", "write", "vacuum"} /\ ~Hot /\ MayAccess
  /\ cache[p] = NoImage
  /\ p # 1 => SchemaRead
  /\ read(p) # NotADb
  /\ setup.blind \/ read(p) \in Image
  /\ cache' = [cache EXCEPT ![p] = read(p)]
  /\ IF Client = "careful" /\ stage = "config" /\ read(p) \in Image
     THEN stage' = "using" /\ known' = {Seal(current)}
     ELSE UNCHANGED clientVars
  /\ UNCHANGED <<cryptVars, disk, pc, dirty, journal, synced, todo, want, resetTo>>

\* pager_write: journal the original, then change the cached page, be it decoded or
\* not.
Modify(p, img) ==
  /\ cache[p] # NoImage
  /\ journal' = [journal EXCEPT ![p] = IF @ = NoImage THEN cache[p] ELSE @]
  /\ cache' = [cache EXCEPT ![p] = img]
  /\ dirty' = dirty \cup {p}

\* What a statement makes of a cached page.  Of a page 1 in ciphertext it changes
\* the header only, which is plain (PRAGMA user_version); any other page that it
\* changes without looking at the content (an overflow page) it fills anew.
Changed(p, v) ==
  IF p = 1 /\ cache[1] \in Undecoded THEN cache[1]
  ELSE [val |-> v, res |-> cache[p].res]

WritePage(p, v) ==
  /\ pc \in {"idle", "write"} /\ ~Hot /\ MayModify
  /\ cache[1] # NoImage
  /\ Modify(p, Changed(p, v))
  /\ pc' = "write"
  /\ UNCHANGED <<cryptVars, disk, synced, todo, want, resetTo, clientVars>>

\* pagerStress: sync the journal if the record of p is not durable, write p.
SpillPage(p) ==
  /\ setup.spill /\ pc \in {"write", "vacuum"}
  /\ p \in dirty \ {1}
  /\ write(p, cache[p])
  /\ dirty' = dirty \ {p}
  /\ synced' = IF p \in synced THEN synced ELSE Journaled
  /\ UNCHANGED <<cryptVars, pc, cache, journal, todo, want, resetTo, clientVars>>

\* Mutant: a dirty page is dropped.
EvictPage_Dirty(p) ==
  /\ pc \in {"idle", "write", "vacuum"}
  /\ cache[p] # NoImage
  /\ p = 1 => pc = "idle"
  /\ cache' = [cache EXCEPT ![p] = NoImage]
  /\ UNCHANGED <<cryptVars, disk, pc, dirty, journal, synced, todo, want, resetTo, clientVars>>

\* A clean page leaves the cache; page 1 is pinned by a transaction.
EvictPage(p) ==
  /\ pc \in {"idle", "write", "vacuum"}
  /\ cache[p] # NoImage /\ p \notin dirty
  /\ p = 1 => pc = "idle"
  /\ cache' = [cache EXCEPT ![p] = NoImage]
  /\ UNCHANGED <<cryptVars, disk, pc, dirty, journal, synced, todo, want, resetTo, clientVars>>

\* Mutant: the journal is not synced before the file is changed.
StartCommit_NoSync ==
  /\ pc \in {"write", "vacuum"}
  /\ pc = "vacuum" => todo = {}
  /\ Modify(1, cache[1])
  /\ todo' = dirty'
  /\ pc' = "commit"
  /\ UNCHANGED <<cryptVars, disk, synced, want, resetTo, clientVars>>

\* sqlite3PagerCommitPhaseOne: the change counter dirties page 1, the journal
\* is synced ...
StartCommit ==
  /\ pc \in {"write", "vacuum"}
  /\ pc = "vacuum" => todo = {}
  /\ Modify(1, cache[1])
  /\ synced' = Journaled \cup {1}
  /\ todo' = dirty'
  /\ pc' = "commit"
  /\ UNCHANGED <<cryptVars, disk, want, resetTo, clientVars>>

\* ... and pager_write_pagelist writes the dirty pages in ascending order.
CommitPage ==
  /\ pc = "commit"
  /\ \E p \in todo :
       /\ \A q \in todo : p <= q
       /\ write(p, cache[p])
       /\ todo' = todo \ {p}
       /\ dirty' = dirty \ {p}
  /\ UNCHANGED <<cryptVars, pc, cache, journal, synced, want, resetTo, clientVars>>

\* sqlite3PagerCommitPhaseTwo: deleting the journal commits.  A VACUUM ends with
\* nReserveWanted cleared, whether it succeeds or fails.
CommitDone ==
  /\ pc = "commit" /\ todo = {}
  /\ journal' = Nothing
  /\ synced' = {}
  /\ pc' = "idle"
  /\ want' = IF resetTo = NotVacuum THEN want ELSE 0
  /\ resetTo' = NotVacuum
  /\ stage' = IF stage = "rekey" THEN "vacuumed" ELSE stage
  /\ UNCHANGED <<cryptVars, disk, cache, dirty, todo, known>>

\* A failed VACUUM of set_reserved_size requests the former reserve again; a
\* careful application gives up a connection whose re-encryption failed.
TransactionFails ==
  /\ todo' = Journaled
  /\ pc' = "rollback"
  /\ want' = IF resetTo = NotVacuum THEN want ELSE resetTo
  /\ resetTo' = NotVacuum
  /\ stage' = IF stage = "rekey" THEN "failed" ELSE stage

\* A page write is refused by Page_transforming_file, or a write, the sync of the
\* file or the deletion of the journal fails in the parent.
CommitFails ==
  /\ pc = "commit"
  /\ TransactionFails
  /\ UNCHANGED <<cryptVars, disk, cache, dirty, journal, synced, known>>

\* ROLLBACK, or a statement that failed before the commit began.
Rollback ==
  /\ pc \in {"write", "vacuum"}
  /\ TransactionFails
  /\ UNCHANGED <<cryptVars, disk, cache, dirty, journal, synced, known>>

\* Any access to the database first rolls a hot journal back.
StartPlayback ==
  /\ pc = "idle" /\ Hot /\ MayAccess
  /\ cache' = Nothing
  /\ todo' = synced
  /\ pc' = "playback"
  /\ UNCHANGED <<cryptVars, disk, dirty, journal, synced, want, resetTo, clientVars>>

\* Mutant: only the file is restored, not the cached copies.
RestorePage_FileOnly ==
  /\ pc \in {"rollback", "playback"}
  /\ \E p \in todo :
       /\ IF p \in synced THEN write(p, journal[p]) ELSE UNCHANGED disk
       /\ todo' = todo \ {p}
       /\ dirty' = dirty \ {p}
  /\ UNCHANGED <<cryptVars, pc, cache, journal, synced, want, resetTo, clientVars>>

\* pager_playback_one_page: a page whose record was synced may have changed in
\* the file and is written there; a cached copy is restored in place.
RestorePage ==
  /\ pc \in {"rollback", "playback"}
  /\ \E p \in todo :
       /\ IF p \in synced THEN write(p, journal[p]) ELSE UNCHANGED disk
       /\ cache' = [cache EXCEPT ![p] = IF @ = NoImage THEN @ ELSE journal[p]]
       /\ todo' = todo \ {p}
       /\ dirty' = dirty \ {p}
  /\ UNCHANGED <<cryptVars, pc, journal, synced, want, resetTo, clientVars>>

RestoreDone ==
  /\ pc \in {"rollback", "playback"} /\ todo = {}
  /\ journal' = Nothing
  /\ synced' = {}
  /\ pc' = "idle"
  /\ UNCHANGED <<cryptVars, disk, cache, dirty, todo, want, resetTo, clientVars>>

\* The synced records are what is left of a journal its transaction abandons.
AbandonJournal ==
  /\ journal' = [p \in Page |-> IF p \in synced THEN journal[p] ELSE NoImage]
  /\ cache' = Nothing
  /\ dirty' = {}
  /\ todo' = {}
  /\ UNCHANGED synced

\* Mutant: the restore starts over instead of giving up.
RestoreFails_Retries ==
  /\ pc \in {"rollback", "playback"} /\ todo \cap synced # {}
  /\ todo' = Journaled
  /\ UNCHANGED <<cryptVars, disk, pc, cache, dirty, journal, synced, want, resetTo, clientVars>>

\* A restoring write is refused or fails: the pager gives up its lock and leaves
\* the journal hot.  It drops its cache at once after an I/O error, and after a
\* refused write with the playback that must precede any other use of it.
RestoreFails ==
  /\ pc \in {"rollback", "playback"} /\ todo \cap synced # {}
  /\ AbandonJournal
  /\ pc' = "idle"
  /\ UNCHANGED <<cryptVars, disk, want, resetTo, clientVars>>

-----------------------------------------------------------------------------
(* VACUUM and set_reserved_size.                                            *)

\* sqlite3RunVacuum begins.  Until it has succeeded a careful application must
\* be ready to find the database under its old or its new encryptor.
BeginVacuum(reserve, reset) ==
  /\ pc = "idle" /\ ~Hot /\ MayAccess
  /\ SchemaRead
  /\ pc' = "vacuum"
  /\ todo' = Page
  /\ want' = reserve
  /\ resetTo' = reset
  /\ known' = IF Client = "careful" /\ stage = "rekey"
              THEN {Seal(current), Seal(transformation)} ELSE known
  /\ UNCHANGED <<cryptVars, disk, cache, dirty, journal, synced, stage>>

Vacuum == BeginVacuum(want, 0)

\* The rebuilt content is copied back page by page, in the layout of the
\* requested reserve, which can only grow.  Ciphertext cannot be rebuilt: a VACUUM
\* that comes across it fails.
VacuumPage ==
  /\ pc = "vacuum"
  /\ \E p \in todo :
       /\ cache[p] \in Image
       /\ Modify(p, [cache[p] EXCEPT !.res = Larger(want, @)])
       /\ todo' = todo \ {p}
  /\ UNCHANGED <<cryptVars, disk, pc, synced, want, resetTo, clientVars>>

\* Database::set_reserved_size.  SQLite knows the reserve in the plain header
\* of page 1 from sqlite3_open on; it vacuums if asked to and anything changes.
SetReservedSize(size, vacuum) ==
  /\ pc = "idle" /\ ~Hot
  /\ Client = "any" \/ stage \in {"config", "using"}
  /\ LET n == Larger(want, IF cache[1] # NoImage THEN cache[1].res ELSE disk[1].res) IN
     IF vacuum /\ n # size
     THEN BeginVacuum(size, n)
     ELSE /\ want' = size
          /\ UNCHANGED <<cryptVars, disk, pc, pagerVars, resetTo, clientVars>>

-----------------------------------------------------------------------------
\* Cache, file object and unsynced journal records are lost with the process.
LoseConnection ==
  /\ AbandonJournal
  /\ Destroy
  /\ pc' = "closed"
  /\ want' = 0
  /\ resetTo' = NotVacuum
  /\ stage' = "config"
  /\ UNCHANGED <<disk, known>>

Close == pc = "idle" /\ LoseConnection
Crash == pc \notin {"idle", "closed"} /\ LoseConnection

\* The library works off what a call has begun without returning to the caller.
LibraryStep ==
  CommitPage \/ CommitDone \/ CommitFails \/ RestorePage \/ RestoreDone \/ RestoreFails

Step ==
  \/ \E k \in Key \cup {Malformed}, c \in Cipher \cup {NullCipher, Malformed} : Open(k, c)
  \/ \E k \in Key \cup {Malformed} : SetKey(k)
  \/ \E c \in Cipher \cup {NullCipher, Malformed} : SetCipher(c)
  \/ StartTransformation \/ EndTransformation
  \/ \E p \in Page : ReadPage(p) \/ SpillPage(p) \/ EvictPage(p)
  \/ \E p \in Page, v \in Value : WritePage(p, v)
  \/ StartCommit \/ Rollback \/ StartPlayback
  \/ LibraryStep
  \/ Vacuum \/ VacuumPage
  \/ \E n \in Reserve, vacuum \in BOOLEAN : SetReservedSize(n, vacuum)
  \/ Close \/ Crash

Next == Step /\ UNCHANGED setup

Spec == Init /\ [][Next]_vars
FairSpec == Spec /\ WF_vars(LibraryStep /\ UNCHANGED setup)
=============================================================================
