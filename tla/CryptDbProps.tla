----------------------------- MODULE CryptDbProps -----------------------------
(***************************************************************************)
(* What makes the encrypted database of CryptDb correct.                   *)
(***************************************************************************)
EXTENDS CryptDb

\* What a crash leaves of page p: the synced journal record if there is one,
\* else the stored page.
Survivor(p) ==
  IF p \in synced THEN journal[p] ELSE [val |-> disk[p].val, res |-> disk[p].res]

\* Whatever the connection is doing when it dies, one of the encryptors the
\* application knows reads the database after its journal is rolled back: the
\* pages SQLite will not restore are all stored under that single encryptor.
\* encode_page's choice of encryptor must preserve this through commit, rollback,
\* hot-journal playback and re-encryption.
OneEncryptor == \E e \in known : \A p \in Page \ synced : disk[p].enc = e

\* No committed page loses its last 32 bytes to IV and tag: the reserve check of
\* page 1 refuses a commit before it has changed any page, and a rollback before
\* it deletes the journal.  An application that is neither careful nor sets a cipher
\* before it accesses an encrypted database can do that: it has PRAGMA user_version
\* write a page 1 that is cached as ciphertext, and encodes it a second time.
NothingOverwritten ==
  Client = "careful" \/ ~setup.blind => \A p \in Page : Survivor(p).val # Damaged

\* A clean cached page is the page that is stored, also after a failed commit
\* was rolled back in memory and in the file.
CacheCoherent ==
  pc \in {"idle", "write", "vacuum", "commit"} =>
    \A p \in Page \ dirty :
      cache[p] \in Image => cache[p] = [val |-> disk[p].val, res |-> disk[p].res]

\* Committed content, and content as the open transaction sees it.
Durable == [p \in Page |-> Survivor(p).val]
View ==
  IF pc \in {"write", "vacuum", "commit"}
  THEN [p \in Page |-> IF cache[p] \in Image THEN cache[p].val ELSE disk[p].val]
  ELSE Durable

Store == INSTANCE AtomicStore WITH store <- Durable, view <- View

\* Seen through the journal, the encrypted file is an atomic store: a commit
\* happens in one step, and a rollback, a failed commit, a crash, a playback,
\* a re-encryption or a changed reserve size leave the committed content alone.
AtomicTransactions == Store!StoreSpec

\* A commit, rollback or playback that began ends, whatever writes are refused
\* or fail.
TransactionResolves ==
  pc \in {"commit", "rollback", "playback"} ~> pc \in {"idle", "closed"}

-----------------------------------------------------------------------------
(* Inductive invariants.                                                    *)

\* Dirty pages are cached, a commit has exactly the dirty pages left to write,
\* and what a rollback or playback has left is in the journal.  Ciphertext gets into
\* cache and journal only where encrypted pages are read while no cipher is set.
Bookkeeping ==
  /\ synced \subseteq Journaled
  /\ dirty \subseteq Journaled
  /\ \A p \in dirty : cache[p] # NoImage
  /\ ~setup.blind => \A p \in Page : {cache[p], journal[p]} \cap Undecoded = {}
  /\ pc \in {"idle", "closed", "playback"} => dirty = {}
  /\ pc \in {"closed", "playback"} => \A p \in Page : cache[p] = NoImage
  /\ pc = "commit" => todo = dirty
  /\ pc = "rollback" => dirty \subseteq todo
  /\ pc \in {"rollback", "playback"} => todo \subseteq Journaled

\* Which stages of a careful application each activity belongs to, and which
\* encryptors the application then knows.
ClientInv ==
  /\ transform <=> stage \in {"rekey", "vacuumed", "failed"}
  /\ stage = "config" => pc \in {"closed", "idle", "playback"}
  /\ pc = "closed" => stage = "config"
  /\ stage = "using" => known = {Seal(current)}
  /\ stage = "rekey" =>
       /\ setup.rekey
       /\ pc \in {"idle", "vacuum", "commit"}
       /\ pc = "idle" => known = {Seal(current)} /\ synced = {}
       /\ pc # "idle" => known = {Seal(current), Seal(transformation)}
  /\ stage = "vacuumed" => pc = "idle" /\ synced = {}
  /\ stage = "failed" => pc \in {"idle", "rollback"}
  /\ stage \in {"vacuumed", "failed"} => Seal(transformation) \in known
  /\ pc = "playback" => Seal(current) \in known
  /\ ~setup.rekey => \E e \in known : known = {e}

\* A careful application never changes a page that it has not decoded: it comes
\* across ciphertext only as page 1, before it has found the right key.
Legible ==
  /\ stage = "config" =>
       cache[1] \notin Image /\ \A p \in Page \ {1} : cache[p] = NoImage
  /\ stage # "config" => \A p \in Page : cache[p] \notin Undecoded
  /\ \A p \in Page : journal[p] \notin Undecoded

\* Page p is stored under what encode_page would encode it with.
StoredAsWritten(p) == disk[p].enc = Seal(write_encryptor)

\* Where the stored pages stand while the pager works.  With two encryptors
\* known, a journal holds every page or none, so that restoring it leaves one.
StoredKeys ==
  /\ OneEncryptor
  /\ ClientInv
  /\ (\E e \in known : known = {e}) \/ synced = {} \/ synced = Page
  /\ pc \in {"write", "vacuum"} => \A p \in Page : disk[p].enc = Seal(current)
  /\ stage = "vacuumed" => \A p \in Page : StoredAsWritten(p)
  /\ pc = "vacuum" /\ stage = "rekey" => Page \ todo \subseteq dirty /\ synced = {}
  /\ pc = "commit" /\ stage = "rekey" => synced = Page
  /\ pc \in {"commit", "playback"} => todo \subseteq synced
  /\ pc \in {"commit", "playback"} => \A p \in Page \ todo : StoredAsWritten(p)
  /\ pc = "rollback" /\ synced # {} =>
       \A p \in Page \ (todo \cap synced) : StoredAsWritten(p)

KeyInv == StoredKeys /\ Legible
=============================================================================
