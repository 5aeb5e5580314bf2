------------------------ MODULE CryptDbContentProofs ------------------------
(***************************************************************************)
(* Proofs about the content of the encrypted database of CryptDb: nothing  *)
(* is overwritten by IV and tag, the cache is coherent, and the file with  *)
(* its journal implements an atomic store.  They hold for a careful client *)
(* and for one that calls in any order as long as it does not access an    *)
(* encrypted database while no cipher is set.  With a page cache that      *)
(* spills they hold for a careful client that does not re-encrypt.         *)
(*                                                                         *)
(* The argument: all pages of the database have the same reserve, so that  *)
(* the check of page 1 speaks for all of them.  A commit writes page 1     *)
(* first, and a rollback that wrote anything cannot end without it.  Only  *)
(* a spilled page is written without page 1; then the encryptor must be    *)
(* the one the database is laid out for.                                   *)
(***************************************************************************)
EXTENDS CryptDbProofs

\* With a spilling cache the application is careful and does not re-encrypt.
SpillsCarefully == \A m \in Setups : m.spill => Client = "careful" /\ ~m.rekey

\* The application changes no page in ciphertext: it is careful, or it does not
\* access an encrypted database while no cipher is set.
Sighted == Client = "careful" \/ ~setup.blind
SightedSetups == Client = "careful" \/ \A m \in Setups : ~m.blind

\* What is journaled or worked on are page images.
Decoded ==
  /\ \A p \in Page : journal[p] \in Image \cup {NoImage}
  /\ \A p \in dirty : cache[p] \in Image
  /\ pc \in {"write", "vacuum", "commit"} \/ MayModify =>
       \A p \in Page : cache[p] \in Image \cup {NoImage}

\* The page image in the file, and the image the open transaction works with.
Plain(p) == [val |-> disk[p].val, res |-> disk[p].res]
Seen(p) == IF cache[p] \in Image THEN cache[p] ELSE Plain(p)

\* The cache and the journal agree with the stored pages where these have not been
\* written yet, and with what was restored.
Coherent ==
  /\ CacheCoherent
  /\ \A p \in Journaled \ synced : journal[p] = Plain(p)
  /\ pc \in {"idle", "closed", "playback"} => Journaled = synced
  /\ pc = "commit" => synced = Journaled
  /\ pc = "rollback" =>
       \A p \in Page \ todo : cache[p] \in Image =>
         cache[p] = IF p \in Journaled THEN journal[p] ELSE Plain(p)
  /\ pc \in {"rollback", "playback"} =>
       \A p \in synced \ todo :
         /\ disk[p] = encode_page(journal[p], write_encryptor)
         /\ p = 1 => check_reserve_size(journal[1].res)

\* All pages that a crash leaves have one reserve, which only a VACUUM raises, and
\* page 1 vouches for the pages that are written.
Layout ==
  /\ \A p, q \in Page : Survivor(p).res = Survivor(q).res
  /\ pc = "write" => \A p \in Page : Seen(p).res = Survivor(p).res
  /\ pc = "vacuum" =>
       \A p \in Page : Seen(p).res = IF p \in todo THEN Survivor(p).res
                                     ELSE Larger(want, Survivor(p).res)
  /\ pc = "commit" =>
       /\ \A p, q \in Page : Seen(p).res = Seen(q).res
       /\ \A p \in Page : Seen(p).res >= Survivor(p).res
       /\ 1 \notin todo => check_reserve_size(Seen(1).res)
  /\ synced # {} /\ 1 \notin synced => setup.spill
  /\ setup.spill =>
       \A e \in known : e.cipher # NullCipher =>
         \A p \in Page : Survivor(p).res >= crypt_file_reserve_size

\* Neither what a crash leaves nor what the transaction works with is damaged.
Undamaged ==
  /\ \A p \in Page : Survivor(p).val # Damaged
  /\ pc \in {"write", "vacuum", "commit"} => \A p \in Page : Seen(p).val # Damaged

ContentInv ==
  /\ Sighted
  /\ TypeInv
  /\ Client = "careful" => KeyInv
  /\ Coherent /\ Layout /\ Undamaged

\* Encoding a page laid out with this reserve overwrites no content.
Fits(res) == write_encryptor.cipher = NullCipher \/ res >= crypt_file_reserve_size

-----------------------------------------------------------------------------
(* Lemmas.                                                                  *)

\* A careful application has found its key before it changes anything, and another
\* one that sets its cipher first comes across no ciphertext.
LEMMA DecodedInv == ASSUME ContentInv PROVE Decoded
<1>1. TypeOK /\ Bookkeeping /\ setup \in Setups
  BY DEF ContentInv, TypeInv, TypeOK
<1>2. CASE Client = "careful"
  <2>1. KeyInv /\ ClientInv
    BY <1>2 DEF ContentInv, KeyInv, StoredKeys
  <2>2. pc \in {"write", "vacuum", "commit"} \/ MayModify => stage # "config"
    BY <1>2, <2>1 DEF ClientInv, MayModify
  <2> QED
    BY <2>1, <2>2, CarefulDecoded DEF ContentInv, Decoded
<1>3. CASE ~setup.blind
  <2>1. \A p \in Page : cache[p] \notin Undecoded /\ journal[p] \notin Undecoded
    BY <1>1, <1>3 DEF Bookkeeping
  <2>2. \A p \in Page : /\ cache[p] \in Image \cup {NoImage}
                       /\ journal[p] \in Image \cup {NoImage}
    BY <1>1, <2>1 DEF TypeOK
  <2> QED
    BY <1>1, <2>2 DEF TypeOK, Bookkeeping, Decoded
<1> QED
  BY <1>2, <1>3 DEF ContentInv, Sighted

\* Everything that stands for a page's content is a page image.
LEMMA Images ==
  ASSUME TypeInv, Decoded, NEW p \in Page
  PROVE  /\ Plain(p) \in Image /\ Seen(p) \in Image /\ Survivor(p) \in Image
         /\ p \in Journaled => journal[p] \in Image
<1>1. disk[p] \in Stored
  BY DEF TypeInv, TypeOK, CryptTypeOK
<1>2. Plain(p) \in Image
  BY <1>1 DEF Plain, Stored, Image
<1>3. p \in Journaled => journal[p] \in Image
  BY DEF Decoded, Journaled
<1>4. synced \subseteq Journaled
  BY DEF TypeInv, Bookkeeping
<1> QED
  BY <1>2, <1>3, <1>4 DEF Seen, Survivor, Plain

\* A reserve is a number of bytes.
LEMMA ReserveOfImage == ASSUME NEW img \in Image PROVE img.res \in Nat
<1>1. img.res \in Reserve
  BY DEF Image
<1>2. img.res \in 0..255
  BY <1>1, CryptAssumption
<1> QED
  BY <1>2

\* A page that fits is stored undamaged, and no other page changes.
LEMMA WriteFits ==
  ASSUME TypeInv, NEW p \in Page, NEW img \in Image, write(p, img), Fits(img.res)
  PROVE  Plain(p)' = img /\ \A q \in Page \ {p} : disk'[q] = disk[q]
<1>1. disk' = [disk EXCEPT ![p] = encode_page(img, write_encryptor)]
  BY DEF write
<1>2. disk \in [Page -> Stored]
  BY DEF TypeInv, TypeOK, CryptTypeOK
<1>3. disk'[p].val = img.val /\ disk'[p].res = img.res
  BY <1>1, <1>2, Disjoint DEF encode_page, Fits
<1> QED
  BY <1>1, <1>2, <1>3 DEF Plain, Image

\* The reserve check of page 1 lets only pass what fits.
LEMMA CheckedFits == ASSUME NEW n \in Nat, check_reserve_size(n) PROVE Fits(n)
BY DEF check_reserve_size, Fits, crypt_file_reserve_size

\* Between transactions, cache and file and what a crash would leave are the same.
LEMMA AtRest ==
  ASSUME TypeInv, Coherent, pc = "idle", ~Hot
  PROVE  /\ synced = {} /\ Journaled = {}
         /\ \A p \in Page : Seen(p) = Plain(p) /\ Survivor(p) = Plain(p)
<1>1. synced = {} /\ Journaled = {} /\ dirty = {}
  BY DEF Hot, Coherent, TypeInv, Bookkeeping
<1> QED
  BY <1>1 DEF Coherent, CacheCoherent, Seen, Survivor, Plain

\* With a spilling cache the application is careful, so that what it writes with is
\* what the database is laid out for.
LEMMA SpillFits ==
  ASSUME SpillsCarefully, ContentInv, setup.spill, pc \notin {"idle", "closed"},
         NEW p \in Page
  PROVE  Fits(Survivor(p).res)
<1>1. TypeOK /\ ~setup.rekey /\ Client = "careful" /\ KeyInv /\ ClientInv
  BY DEF ContentInv, TypeInv, TypeOK, SpillsCarefully, KeyInv, StoredKeys
<1>2. Seal(write_encryptor) \in known
  BY <1>1 DEF ClientInv, write_encryptor, TypeOK, Stage, PC
<1>3. write_encryptor.cipher # NullCipher => Seal(write_encryptor) = write_encryptor
  BY DEF Seal
<1> QED
  BY <1>2, <1>3 DEF ContentInv, Layout, Fits

\* A restore that has come to its end has written nothing that did not fit: the
\* journal holds page 1, which was checked, or the cache has spilled.
LEMMA RestoredFits ==
  ASSUME SpillsCarefully, ContentInv, pc \in {"rollback", "playback"}, todo = {},
         NEW p \in synced
  PROVE  Plain(p) = journal[p]
<1>1. p \in Page /\ journal[p] \in Image /\ synced \subseteq Page
  BY DecodedInv, Images DEF ContentInv, TypeInv, TypeOK, Bookkeeping
<1>2. Survivor(p) = journal[p]
  BY DEF Survivor
<1>3. Fits(journal[p].res)
  <2>1. CASE setup.spill
    BY <1>1, <1>2, <2>1, SpillFits
  <2>2. CASE ~setup.spill
    <3>1. 1 \in synced /\ Survivor(1) = journal[1]
      BY <2>2 DEF ContentInv, Layout, Survivor
    <3>2. check_reserve_size(journal[1].res)
      BY <3>1 DEF ContentInv, Coherent
    <3>3. journal[1].res = journal[p].res
      BY <1>1, <1>2, <3>1 DEF ContentInv, Layout
    <3> QED
      BY <1>1, <3>2, <3>3, CheckedFits, ReserveOfImage
  <2> QED
    BY <2>1, <2>2
<1>4. disk[p] = encode_page(journal[p], write_encryptor)
  BY DEF ContentInv, Coherent
<1> QED
  BY <1>1, <1>3, <1>4, Disjoint DEF encode_page, Fits, Plain, Image

-----------------------------------------------------------------------------
(* What the steps do to the pages a crash leaves and to those the           *)
(* transaction works with.                                                  *)

Kept == \A p \in Page : Survivor(p)' = Survivor(p)
SeenKept == \A p \in Page : Seen(p)' = Seen(p)

\* A statement that changes a page image makes another one of it.
LEMMA ChangedImage ==
  ASSUME Decoded, NEW p \in Page, NEW v \in Value, WritePage(p, v)
  PROVE  /\ cache[p] \in Image /\ Changed(p, v) \in Image
         /\ Changed(p, v) = [cache[p] EXCEPT !.val = v]
<1>1. cache[p] \in Image /\ cache[1] \in Image
  BY CryptAssumption DEF WritePage, Modify, Decoded
<1>2. Changed(p, v) = [val |-> v, res |-> cache[p].res]
  BY <1>1, Disjoint DEF Changed
<1> QED
  BY <1>1, <1>2 DEF Image, Content

\* Steps that leave file, cache and journal alone.
LEMMA QuietKept ==
  ASSUME UNCHANGED <<disk, cache, journal, synced>>
  PROVE  Kept /\ SeenKept
BY DEF Kept, SeenKept, Survivor, Seen, Plain

\* A page is read as it is stored, or not at all.
LEMMA ReadKept ==
  ASSUME TypeInv, NEW p \in Page, ReadPage(p)
  PROVE  /\ Kept /\ SeenKept
         /\ cache'[p] \in Image => cache'[p] = Plain(p)
<1>1. read(p) \in Image => read(p) = Plain(p)
  <2>1. disk[p] \in Stored
    BY DEF TypeInv, TypeOK, CryptTypeOK
  <2>2. disk[p].enc # Seal(current) => decode_page(disk[p], current) \notin Image
    BY <2>1, Sentinels, Disjoint DEF decode_page, Seal, Undecoded
  <2> QED
    BY <2>2, Sentinels DEF read, decode_page, Plain
<1>2. cache'[p] = read(p) /\ \A q \in Page \ {p} : cache'[q] = cache[q]
  BY DEF ReadPage, TypeInv, TypeOK
<1>3. disk' = disk /\ journal' = journal /\ synced' = synced /\ cache[p] \notin Image
  BY Sentinels DEF ReadPage
<1> QED
  BY <1>1, <1>2, <1>3 DEF Kept, SeenKept, Survivor, Seen, Plain

\* Only clean pages leave the cache.
LEMMA EvictKept ==
  ASSUME TypeInv, Coherent, NEW p \in Page, EvictPage(p)
  PROVE  Kept /\ SeenKept
<1>1. cache'[p] \notin Image /\ \A q \in Page \ {p} : cache'[q] = cache[q]
  BY Sentinels DEF EvictPage, TypeInv, TypeOK
<1>2. disk' = disk /\ journal' = journal /\ synced' = synced
  BY DEF EvictPage
<1>3. cache[p] \in Image => cache[p] = Plain(p)
  BY DEF EvictPage, Coherent, CacheCoherent, Plain
<1> QED
  BY <1>1, <1>2, <1>3 DEF Kept, SeenKept, Survivor, Seen, Plain

\* pager_write journals what is stored.
LEMMA ModifyKept ==
  ASSUME TypeInv, Coherent, pc \in {"idle", "write", "vacuum"},
         NEW p \in Page, cache[p] \in Image,
         NEW img \in Image, Modify(p, img), UNCHANGED <<disk, synced>>
  PROVE  /\ Kept
         /\ Seen(p)' = img /\ cache[p] = Seen(p)
         /\ \A q \in Page \ {p} : Seen(q)' = Seen(q)
         /\ Journaled' = Journaled \cup {p}
         /\ \A q \in Journaled' \ synced : journal'[q] = Plain(q)
         /\ \A q \in Page \ dirty' : cache'[q] \in Image => cache'[q] = Plain(q)
<1>1. /\ cache[p] \in Image /\ cache' = [cache EXCEPT ![p] = img]
      /\ dirty' = dirty \cup {p}
      /\ journal' = [journal EXCEPT ![p] = IF @ = NoImage THEN cache[p] ELSE @]
  BY DEF Modify
<1>2. /\ cache \in [Page -> Image \cup Undecoded \cup {NoImage}]
      /\ journal \in [Page -> Image \cup Undecoded \cup {NoImage}]
      /\ synced \subseteq Journaled /\ dirty \subseteq Journaled
  BY DEF TypeInv, TypeOK, Bookkeeping
<1>3. cache'[p] = img /\ \A q \in Page \ {p} : cache'[q] = cache[q] /\ journal'[q] = journal[q]
  BY <1>1, <1>2
<1>4. p \in Journaled => journal'[p] = journal[p]
  BY <1>1, <1>2 DEF Journaled
<1>5. p \notin Journaled => journal'[p] = cache[p] /\ cache[p] = Plain(p)
  BY <1>1, <1>2 DEF Journaled, Coherent, CacheCoherent, Plain
<1>6. Journaled' = Journaled \cup {p}
  BY <1>1, <1>2, <1>3, <1>4, <1>5, Sentinels DEF Journaled
<1>7. Kept
  BY <1>2, <1>3, <1>4 DEF Kept, Survivor
<1>8. Seen(p)' = img /\ cache[p] = Seen(p) /\ \A q \in Page \ {p} : Seen(q)' = Seen(q)
  BY <1>1, <1>3 DEF Seen, Plain
<1>9. \A q \in Journaled' \ synced : journal'[q] = Plain(q)
  BY <1>2, <1>3, <1>4, <1>5, <1>6 DEF Coherent, Journaled
<1>10. \A q \in Page \ dirty' : cache'[q] \in Image => cache'[q] = Plain(q)
  BY <1>1, <1>3 DEF Coherent, CacheCoherent, Plain
<1> QED
  BY <1>6, <1>7, <1>8, <1>9, <1>10

\* A dirty page is written early; its original is in the synced journal by then.
LEMMA SpillKept ==
  ASSUME SpillsCarefully, ContentInv, NEW p \in Page, SpillPage(p)
  PROVE  /\ Kept /\ SeenKept
         /\ Plain(p)' = cache[p] /\ cache[p] \in Image
         /\ \A q \in Page \ {p} : Plain(q)' = Plain(q)
         /\ p \in synced' /\ synced \subseteq synced' /\ synced' \subseteq Journaled
<1>1. TypeInv /\ Bookkeeping /\ Decoded /\ Coherent /\ Layout
  BY DecodedInv DEF ContentInv, TypeInv
<1>2. setup.spill /\ pc \in {"write", "vacuum"} /\ p \in dirty
  BY DEF SpillPage
<1>3. cache[p] \in Image /\ p \in Journaled /\ Seen(p) = cache[p]
  BY <1>1, <1>2 DEF Bookkeeping, Decoded, Seen
<1>4. Fits(cache[p].res)
  <2>1. Fits(Survivor(p).res) /\ Survivor(p).res \in Nat /\ cache[p].res \in Nat
    BY <1>1, <1>2, <1>3, SpillFits, Images, ReserveOfImage
  <2>2. want \in Nat
    BY <1>1, CryptAssumption DEF TypeInv, TypeOK
  <2>3. cache[p].res >= Survivor(p).res
    BY <1>1, <1>2, <1>3, <2>1, <2>2 DEF Layout, Larger
  <2> QED
    BY <2>1, <2>3 DEF Fits, crypt_file_reserve_size
<1>5. Plain(p)' = cache[p] /\ \A q \in Page \ {p} : disk'[q] = disk[q]
  BY <1>1, <1>3, <1>4, WriteFits DEF SpillPage
<1>6. p \in synced' /\ synced \subseteq synced' /\ synced' \subseteq Journaled
  BY <1>1, <1>3 DEF SpillPage, Bookkeeping
<1>7. cache' = cache /\ journal' = journal
  BY DEF SpillPage
<1>8. Kept
  BY <1>1, <1>5, <1>6, <1>7 DEF Kept, Survivor, Coherent, Plain, Journaled
<1>9. SeenKept
  BY <1>3, <1>5, <1>7 DEF SeenKept, Seen, Plain
<1> QED
  BY <1>3, <1>5, <1>6, <1>8, <1>9 DEF Plain

\* The journal is synced before any page it holds is written.
LEMMA StartCommitKept ==
  ASSUME TypeInv, Decoded, Coherent, StartCommit
  PROVE  /\ Kept /\ SeenKept
         /\ synced' = Journaled' /\ 1 \in synced'
         /\ \A q \in Page \ dirty' : cache'[q] \in Image => cache'[q] = Plain(q)
<1>1. /\ pc \in {"write", "vacuum"} /\ Modify(1, cache[1]) /\ cache[1] \in Image
      /\ disk' = disk /\ synced' = Journaled \cup {1} /\ 1 \in Page
  BY CryptAssumption DEF StartCommit, Modify, Decoded
<1>2. /\ cache \in [Page -> Image \cup Undecoded \cup {NoImage}]
      /\ journal \in [Page -> Image \cup Undecoded \cup {NoImage}]
      /\ synced \subseteq Journaled /\ dirty \subseteq Journaled
  BY DEF TypeInv, TypeOK, Bookkeeping
<1>3. cache' = cache
  BY <1>1, <1>2 DEF Modify
<1>4. \A q \in Page : q # 1 => journal'[q] = journal[q]
  BY <1>1, <1>2 DEF Modify
<1>5. 1 \in Journaled => journal'[1] = journal[1]
  BY <1>1, <1>2 DEF Modify, Journaled
<1>6. 1 \notin Journaled => journal'[1] = cache[1] /\ cache[1] = Plain(1)
  BY <1>1, <1>2 DEF Modify, Journaled, Coherent, CacheCoherent, Plain
<1>7. Journaled' = Journaled \cup {1}
  BY <1>1, <1>2, <1>4, <1>5, <1>6, Sentinels DEF Journaled
<1>8. Kept
  BY <1>1, <1>2, <1>4, <1>5, <1>6 DEF Kept, Survivor, Coherent, Plain, Journaled
<1>9. SeenKept
  BY <1>1, <1>3 DEF SeenKept, Seen, Plain
<1>10. \A q \in Page \ dirty' : cache'[q] \in Image => cache'[q] = Plain(q)
  BY <1>1, <1>3 DEF Modify, Coherent, CacheCoherent, Plain
<1> QED
  BY <1>1, <1>7, <1>8, <1>9, <1>10

\* Page 1, which is checked, comes first and has the reserve of all others.
LEMMA CommitPageKept ==
  ASSUME ContentInv, CommitPage
  PROVE  /\ Kept /\ SeenKept
         /\ \A q \in Page \ dirty' : cache[q] \in Image => cache[q] = Plain(q)'
         /\ 1 \notin todo' => check_reserve_size(Seen(1).res)
<1>1. TypeInv /\ Bookkeeping /\ TypeOK /\ Decoded /\ Coherent /\ Layout
  BY DecodedInv DEF ContentInv, TypeInv
<1>2. PICK p \in todo : /\ \A q \in todo : p <= q
                        /\ write(p, cache[p])
                        /\ todo' = todo \ {p} /\ dirty' = dirty \ {p}
  BY DEF CommitPage
<1>3. /\ pc = "commit" /\ p \in Page /\ p \in synced /\ cache[p] \in Image
      /\ Seen(p) = cache[p] /\ 1 \in Page
  BY <1>1, <1>2, CryptAssumption DEF CommitPage, Bookkeeping, TypeOK, Decoded,
     Coherent, Seen
<1>4. 1 \notin todo' => check_reserve_size(Seen(1).res)
  <2>1. CASE p = 1
    BY <1>2, <1>3, <2>1 DEF write, WriteRefused
  <2>2. CASE p # 1
    BY <1>1, <1>2, <1>3, <2>2 DEF Layout
  <2> QED
    BY <2>1, <2>2
<1>5. 1 \notin todo'
  <2>1. \A q \in Page : q \in Nat /\ q >= 1
    BY CryptAssumption
  <2> QED
    BY <1>2, <1>3, <2>1
<1>6. Fits(cache[p].res)
  <2>1. Fits(Seen(1).res)
    BY <1>1, <1>3, <1>4, <1>5, CheckedFits, Images, ReserveOfImage
  <2> QED
    BY <1>1, <1>3, <2>1 DEF Layout
<1>7. Plain(p)' = cache[p] /\ \A q \in Page \ {p} : disk'[q] = disk[q]
  BY <1>1, <1>2, <1>3, <1>6, WriteFits
<1>8. cache' = cache /\ journal' = journal /\ synced' = synced
  BY DEF CommitPage
<1>9. Kept /\ SeenKept
  BY <1>3, <1>7, <1>8 DEF Kept, SeenKept, Survivor, Seen, Plain
<1>10. \A q \in Page \ dirty' : cache[q] \in Image => cache[q] = Plain(q)'
  BY <1>1, <1>2, <1>3, <1>7 DEF Coherent, CacheCoherent, Plain
<1> QED
  BY <1>4, <1>9, <1>10

\* When the last page is written, the file is what the transaction has seen.
LEMMA CommitDoneEffect ==
  ASSUME ContentInv, CommitDone
  PROVE  /\ \A p \in Page : Survivor(p)' = Seen(p) /\ Seen(p) = Plain(p) /\ Seen(p)' = Seen(p)
         /\ synced' = {} /\ Journaled' = {} /\ dirty = {}
<1>1. dirty = {}
  BY DEF ContentInv, TypeInv, Bookkeeping, CommitDone
<1>2. \A p \in Page : Seen(p) = Plain(p)
  BY <1>1 DEF CommitDone, ContentInv, Coherent, CacheCoherent, Seen, Plain
<1>3. synced' = {} /\ Journaled' = {} /\ disk' = disk /\ cache' = cache
  BY DEF CommitDone, Journaled, Nothing
<1> QED
  BY <1>1, <1>2, <1>3 DEF Survivor, Seen, Plain

\* A page that is restored is in the journal, which stays as it is.
LEMMA RestorePageKept ==
  ASSUME TypeInv, Decoded, RestorePage
  PROVE  \E p \in todo :
           /\ p \in Page /\ p \in Journaled /\ todo' = todo \ {p} /\ dirty' = dirty \ {p}
           /\ p \in synced => write(p, journal[p])
           /\ p \notin synced => disk' = disk
           /\ \A q \in Page \ {p} : disk'[q] = disk[q] /\ cache'[q] = cache[q]
           /\ cache'[p] \in Image => cache'[p] = journal[p]
           /\ Kept
<1>1. PICK p \in todo :
        /\ IF p \in synced THEN write(p, journal[p]) ELSE UNCHANGED disk
        /\ cache' = [cache EXCEPT ![p] = IF @ = NoImage THEN @ ELSE journal[p]]
        /\ todo' = todo \ {p}
        /\ dirty' = dirty \ {p}
  BY DEF RestorePage
<1>2. p \in Page /\ p \in Journaled
  BY <1>1 DEF RestorePage, TypeInv, TypeOK, Bookkeeping
<1>3. \A q \in Page \ {p} : disk'[q] = disk[q] /\ cache'[q] = cache[q]
  BY <1>1, <1>2 DEF write, TypeInv, TypeOK, CryptTypeOK
<1>4. cache'[p] \in Image => cache'[p] = journal[p]
  BY <1>1, <1>2, Sentinels DEF TypeInv, TypeOK
<1>5. Kept
  BY <1>1, <1>3 DEF Kept, Survivor, RestorePage
<1> QED
  BY <1>1, <1>2, <1>3, <1>4, <1>5

\* The journal is deleted when the file no longer differs from it.
LEMMA RestoreDoneKept ==
  ASSUME SpillsCarefully, ContentInv, RestoreDone
  PROVE  /\ Kept
         /\ synced' = {} /\ Journaled' = {} /\ dirty = {}
         /\ \A p \in Page : cache[p] \in Image => cache[p] = Plain(p)
<1>1. pc \in {"rollback", "playback"} /\ todo = {}
  BY DEF RestoreDone
<1>2. \A p \in synced : Plain(p) = journal[p]
  BY <1>1, RestoredFits
<1>3. synced' = {} /\ Journaled' = {} /\ disk' = disk /\ cache' = cache
  BY DEF RestoreDone, Journaled, Nothing
<1>4. Kept
  BY <1>2, <1>3 DEF Kept, Survivor, Plain
<1>5. dirty = {}
  BY <1>1 DEF ContentInv, TypeInv, Bookkeeping
<1>6. \A p \in Page : cache[p] \in Image => cache[p] = Plain(p)
  <2>1. CASE pc = "playback"
    BY <2>1, Sentinels DEF ContentInv, TypeInv, Bookkeeping
  <2>2. CASE pc = "rollback"
    BY <1>1, <1>2, <2>2 DEF ContentInv, Coherent
  <2> QED
    BY <1>1, <2>1, <2>2
<1> QED
  BY <1>3, <1>4, <1>5, <1>6

\* What is left of an abandoned transaction is what was synced.
LEMMA AbandonKept ==
  ASSUME TypeInv, AbandonJournal, disk' = disk
  PROVE  /\ Kept
         /\ synced' = synced /\ Journaled' = synced
         /\ \A p \in Page : cache'[p] \notin Image
<1>1. synced \subseteq Journaled /\ synced \subseteq Page
  BY DEF TypeInv, TypeOK, Bookkeeping
<1>2. /\ journal' = [p \in Page |-> IF p \in synced THEN journal[p] ELSE NoImage]
      /\ cache' = Nothing /\ synced' = synced
  BY DEF AbandonJournal
<1>3. Journaled' = synced
  BY <1>1, <1>2 DEF Journaled
<1>4. Kept
  BY <1>1, <1>2 DEF Kept, Survivor
<1> QED
  BY <1>2, <1>3, <1>4, Sentinels DEF Nothing

-----------------------------------------------------------------------------
(* The invariant is inductive.                                              *)

\* With a spilling cache the application learns of no further encryptor.
LEMMA KnownShrinks ==
  ASSUME SpillsCarefully, ContentInv, [Next]_vars, setup.spill
  PROVE  known' \subseteq known
<1>1. Client = "careful" /\ ~setup.rekey /\ ClientInv
  BY DEF SpillsCarefully, ContentInv, TypeInv, TypeOK, KeyInv, StoredKeys
<1>2. stage # "rekey" /\ (stage = "vacuumed" => Seal(transformation) \in known)
  BY <1>1 DEF ClientInv
<1>3. ASSUME EndTransformation PROVE known' \subseteq known
  BY <1>1, <1>2, <1>3 DEF EndTransformation
<1>4. ASSUME NEW p \in Page, ReadPage(p) PROVE known' \subseteq known
  BY <1>1, <1>4 DEF ReadPage, MayAccess, clientVars
<1>5. ASSUME NEW r, NEW n, BeginVacuum(r, n) PROVE known' \subseteq known
  BY <1>2, <1>5 DEF BeginVacuum
<1> QED
  BY <1>3, <1>4, <1>5
  DEF Next, Step, LibraryStep, vars, clientVars, Open, SetKey, SetCipher,
      StartTransformation,
      SpillPage, EvictPage, WritePage, StartCommit, Rollback, StartPlayback, CommitPage,
      CommitDone, CommitFails, RestorePage, RestoreDone, RestoreFails, Vacuum, VacuumPage,
      SetReservedSize, Close, Crash, LoseConnection

\* While the surviving pages stay, so does their layout.
LEMMA LayoutKept ==
  ASSUME SpillsCarefully, ContentInv, [Next]_vars, Kept
  PROVE  /\ \A p, q \in Page : Survivor(p)'.res = Survivor(q)'.res
         /\ setup'.spill =>
              \A e \in known' : e.cipher # NullCipher =>
                \A p \in Page : Survivor(p)'.res >= crypt_file_reserve_size
<1>1. setup' = setup /\ Layout
  BY DEF Next, vars, ContentInv
<1>2. setup.spill => known' \subseteq known
  BY KnownShrinks
<1> QED
  BY <1>1, <1>2 DEF Kept, Layout

\* Cache and journal stay coherent with the file.
LEMMA CoherentStep ==
  ASSUME SpillsCarefully, ContentInv, [Next]_vars
  PROVE  Coherent'
<1> USE DEF pagerVars, clientVars
<1>s. setup' = setup
  BY DEF Next, vars
<1> USE <1>s
<1>t. TypeInv /\ TypeOK /\ Bookkeeping /\ Decoded /\ Coherent /\ Layout /\ Undamaged
  BY DecodedInv DEF ContentInv, TypeInv
<1>0. CASE UNCHANGED vars
  BY <1>0, <1>t DEF vars, cryptVars, Coherent, CacheCoherent, Plain, Journaled,
     write_encryptor, check_reserve_size
<1>1. ASSUME NEW k, NEW c, Open(k, c)
      PROVE  Coherent'
  BY <1>1, <1>t, Sentinels DEF Open, Bookkeeping, Coherent, CacheCoherent,
     Plain, Journaled, write_encryptor, check_reserve_size
<1>2. ASSUME NEW v, SetKey(v) \/ SetCipher(v)
      PROVE  Coherent'
  BY <1>2, <1>t DEF SetKey, SetCipher, cryptVars, Coherent, CacheCoherent, Plain,
     Journaled, write_encryptor, check_reserve_size
<1>3. CASE StartTransformation \/ EndTransformation
  BY <1>3, <1>t DEF StartTransformation, EndTransformation, cryptVars, Coherent,
     CacheCoherent, Plain, Journaled, write_encryptor, check_reserve_size
<1>4. ASSUME NEW p \in Page, ReadPage(p)
      PROVE  Coherent'
  <2>1. cache'[p] \in Image => cache'[p] = Plain(p)
    BY <1>4, <1>t, ReadKept
  <2>2. \A q \in Page \ {p} : cache'[q] = cache[q]
    BY <1>4, <1>t DEF ReadPage, TypeOK
  <2> QED
    BY <1>4, <1>t, <2>1, <2>2 DEF ReadPage, cryptVars, Coherent, CacheCoherent, Plain,
       Journaled, write_encryptor, check_reserve_size
<1>5. ASSUME NEW p \in Page, SpillPage(p)
      PROVE  Coherent'
  <2>1. /\ Plain(p)' = cache[p] /\ cache[p] \in Image
        /\ \A q \in Page \ {p} : Plain(q)' = Plain(q)
        /\ p \in synced' /\ synced \subseteq synced'
    BY <1>5, SpillKept
  <2>2. /\ pc \in {"write", "vacuum"} /\ pc' = pc /\ cache' = cache /\ journal' = journal
        /\ dirty' = dirty \ {p}
    BY <1>5 DEF SpillPage
  <2>3. CacheCoherent'
    BY <1>t, <2>1, <2>2 DEF Coherent, CacheCoherent, Plain
  <2>4. \A q \in Journaled \ synced' : journal[q] = Plain(q)'
    BY <1>t, <2>1 DEF Coherent, Journaled
  <2> QED
    BY <2>2, <2>3, <2>4 DEF Coherent, Journaled
<1>6. ASSUME NEW p \in Page, EvictPage(p)
      PROVE  Coherent'
  <2>1. cache'[p] \notin Image /\ \A q \in Page \ {p} : cache'[q] = cache[q]
    BY <1>6, <1>t, Sentinels DEF EvictPage, TypeOK
  <2> QED
    BY <1>6, <1>t, <2>1 DEF EvictPage, cryptVars, Coherent, CacheCoherent, Plain,
       Journaled, write_encryptor, check_reserve_size
<1>7. ASSUME NEW p \in Page, NEW v \in Value, WritePage(p, v)
      PROVE  Coherent'
  <2>1. /\ cache[p] \in Image /\ Changed(p, v) \in Image
        /\ Changed(p, v) = [cache[p] EXCEPT !.val = v]
        /\ pc \in {"idle", "write"} /\ pc' = "write"
    BY <1>7, <1>t, ChangedImage DEF WritePage
  <2>2. /\ \A q \in Journaled' \ synced : journal'[q] = Plain(q)
        /\ \A q \in Page \ dirty' : cache'[q] \in Image => cache'[q] = Plain(q)
    BY <1>7, <1>t, <2>1, ModifyKept DEF WritePage
  <2>3. disk' = disk /\ synced' = synced
    BY <1>7 DEF WritePage
  <2> QED
    BY <2>1, <2>2, <2>3 DEF Coherent, CacheCoherent, Plain
<1>8. CASE StartCommit
  <2>1. /\ synced' = Journaled'
        /\ \A q \in Page \ dirty' : cache'[q] \in Image => cache'[q] = Plain(q)
    BY <1>8, <1>t, StartCommitKept
  <2>2. pc' = "commit" /\ disk' = disk
    BY <1>8 DEF StartCommit
  <2> QED
    BY <2>1, <2>2 DEF Coherent, CacheCoherent, Plain
<1>9. CASE CommitPage
  <2>1. \A q \in Page \ dirty' : cache[q] \in Image => cache[q] = Plain(q)'
    BY <1>9, CommitPageKept
  <2>2. /\ pc = "commit" /\ pc' = pc /\ cache' = cache /\ journal' = journal
        /\ synced' = synced
    BY <1>9 DEF CommitPage
  <2> QED
    BY <1>t, <2>1, <2>2 DEF Coherent, CacheCoherent, Plain, Journaled
<1>10. CASE CommitDone
  <2>1. synced' = {} /\ Journaled' = {} /\ dirty = {}
    BY <1>10, CommitDoneEffect
  <2> QED
    BY <1>10, <1>t, <2>1 DEF CommitDone, Coherent, CacheCoherent
<1>11. CASE CommitFails \/ Rollback
  <2>1. pc \in {"write", "vacuum", "commit"} /\ pc' = "rollback" /\ todo' = Journaled
    BY <1>11 DEF CommitFails, Rollback, TransactionFails
  <2>2. UNCHANGED <<disk, cache, dirty, journal, synced>>
    BY <1>11 DEF CommitFails, Rollback
  <2> QED
    BY <1>t, <2>1, <2>2 DEF Coherent, CacheCoherent, Plain, Journaled, Bookkeeping
<1>12. CASE StartPlayback
  <2>1. pc' = "playback" /\ todo' = synced /\ pc = "idle" /\ UNCHANGED <<disk, journal, synced>>
    BY <1>12 DEF StartPlayback
  <2> QED
    BY <1>t, <2>1 DEF Coherent, CacheCoherent, Plain, Journaled
<1>13. CASE RestorePage
  <2>1. PICK p \in todo :
          /\ p \in Page /\ p \in Journaled /\ todo' = todo \ {p}
          /\ p \in synced => write(p, journal[p])
          /\ p \notin synced => disk' = disk
          /\ \A q \in Page \ {p} : disk'[q] = disk[q] /\ cache'[q] = cache[q]
          /\ cache'[p] \in Image => cache'[p] = journal[p]
    BY <1>13, <1>t, RestorePageKept
  <2>2. /\ pc \in {"rollback", "playback"} /\ pc' = pc
        /\ journal' = journal /\ synced' = synced /\ UNCHANGED cryptVars
    BY <1>13 DEF RestorePage
  <2>3. write_encryptor' = write_encryptor
    BY <2>2 DEF cryptVars, write_encryptor
  <2>4. p \in synced =>
          /\ disk'[p] = encode_page(journal[p], write_encryptor)
          /\ p = 1 => check_reserve_size(journal[1].res)
    BY <1>t, <2>1 DEF write, WriteRefused, TypeOK, CryptTypeOK
  <2>5. synced \subseteq Page
    BY <1>t DEF TypeOK
  <2>6. Journaled' = Journaled
    BY <2>2 DEF Journaled
  <2>7. \A q \in synced \ todo' :
          /\ disk'[q] = encode_page(journal[q], write_encryptor)
          /\ q = 1 => check_reserve_size(journal[1].res)
    BY <1>t, <2>1, <2>2, <2>4, <2>5 DEF Coherent
  <2>8. \A q \in Journaled \ synced : journal[q] = Plain(q)'
    <3>1. \A q \in Page \ synced : disk'[q] = disk[q]
      BY <2>1
    <3> QED  BY <1>t, <3>1 DEF Coherent, Plain, Journaled
  <2>9. pc = "rollback" =>
          \A q \in Page \ todo' : cache'[q] \in Image =>
            cache'[q] = IF q \in Journaled THEN journal[q] ELSE Plain(q)'
    BY <1>t, <2>1 DEF Coherent, Plain
  <2> QED
    BY <1>t, <2>2, <2>3, <2>6, <2>7, <2>8, <2>9
    DEF Coherent, CacheCoherent, check_reserve_size
<1>14. CASE RestoreDone
  <2>1. /\ synced' = {} /\ Journaled' = {} /\ dirty = {}
        /\ \A p \in Page : cache[p] \in Image => cache[p] = Plain(p)
    BY <1>14, RestoreDoneKept
  <2> QED
    BY <1>14, <2>1 DEF RestoreDone, Coherent, CacheCoherent, Plain
<1>15. CASE RestoreFails
  <2>1. synced' = synced /\ Journaled' = synced /\ \A p \in Page : cache'[p] \notin Image
    BY <1>15, <1>t, AbandonKept DEF RestoreFails
  <2> QED
    BY <1>15, <2>1 DEF RestoreFails, Coherent, CacheCoherent
<1>16. ASSUME NEW r \in Reserve, NEW n \in Reserve, BeginVacuum(r, n)
      PROVE  Coherent'
  <2>1. pc = "idle" /\ pc' = "vacuum" /\ UNCHANGED <<disk, cache, dirty, journal, synced>>
    BY <1>16 DEF BeginVacuum
  <2> QED
    BY <1>t, <2>1 DEF Coherent, CacheCoherent, Plain, Journaled
<1>17. CASE Vacuum
  BY <1>17, <1>16, <1>t, CryptAssumption DEF Vacuum, TypeOK
<1>18. CASE VacuumPage
  <2>1. PICK p \in todo :
          cache[p] \in Image /\ Modify(p, [cache[p] EXCEPT !.res = Larger(want, @)])
    BY <1>18 DEF VacuumPage
  <2>2. p \in Page /\ [cache[p] EXCEPT !.res = Larger(want, @)] \in Image
    BY <1>t, <2>1 DEF TypeOK, Modify, Larger, Image
  <2>3. pc = "vacuum" /\ pc' = pc /\ disk' = disk /\ synced' = synced
    BY <1>18 DEF VacuumPage
  <2>4. /\ \A q \in Journaled' \ synced : journal'[q] = Plain(q)
        /\ \A q \in Page \ dirty' : cache'[q] \in Image => cache'[q] = Plain(q)
    BY <1>t, <2>1, <2>2, <2>3, ModifyKept
  <2> QED
    BY <2>3, <2>4 DEF Coherent, CacheCoherent, Plain
<1>19. ASSUME NEW n \in Reserve, NEW b \in BOOLEAN, SetReservedSize(n, b)
      PROVE  Coherent'
  <2> DEFINE m == Larger(want, IF cache[1] # NoImage THEN cache[1].res ELSE disk[1].res)
  <2>1. m \in Reserve
    BY <1>t, CryptAssumption, PageType DEF TypeOK, CryptTypeOK, Larger, Stored
  <2>2. CASE BeginVacuum(n, m)
    BY <2>1, <2>2, <1>16
  <2>3. CASE ~BeginVacuum(n, m)
    <3>1. pc = "idle" /\ pc' = pc /\ UNCHANGED <<cryptVars, disk, pagerVars, clientVars>>
      BY <1>19, <2>3 DEF SetReservedSize
    <3> QED  BY <1>t, <3>1 DEF cryptVars, Coherent, CacheCoherent, Plain, Journaled,
                write_encryptor, check_reserve_size 
  <2> QED
    BY <2>2, <2>3
<1>20. CASE Close \/ Crash
  <2>1. synced' = synced /\ Journaled' = synced /\ \A p \in Page : cache'[p] \notin Image
    BY <1>20, <1>t, AbandonKept DEF Close, Crash, LoseConnection
  <2> QED
    BY <1>20, <2>1 DEF Close, Crash, LoseConnection, Coherent, CacheCoherent
<1> QED
  BY <1>0, <1>1, <1>2, <1>3, <1>4, <1>5, <1>6, <1>7, <1>8, <1>9, <1>10, <1>11, <1>12,
     <1>13, <1>14, <1>15, <1>16, <1>17, <1>18, <1>19, <1>20
  DEF Next, Step, LibraryStep

\* The layout stays uniform, and page 1 goes on to vouch for it.
LEMMA LayoutStep ==
  ASSUME SpillsCarefully, ContentInv, [Next]_vars
  PROVE  Layout'
<1> USE DEF pagerVars, clientVars
<1>s. setup' = setup
  BY DEF Next, vars
<1> USE <1>s
<1>t. TypeInv /\ TypeOK /\ Bookkeeping /\ Decoded /\ Coherent /\ Layout /\ Undamaged
  BY DecodedInv DEF ContentInv, TypeInv
<1>0. CASE UNCHANGED vars
  BY <1>0, <1>t DEF vars, cryptVars, pagerVars, Layout, Survivor, Seen, Plain,
     check_reserve_size, write_encryptor
<1>1. ASSUME NEW k, NEW c, Open(k, c)
      PROVE  Layout'
  <2>1. Kept /\ SeenKept
    BY <1>1, QuietKept DEF Open
  <2>2. pc' = "idle" /\ synced' = synced
    BY <1>1 DEF Open
  <2> QED
    BY <1>t, <2>1, <2>2, LayoutKept DEF Layout, Kept, SeenKept
<1>2. ASSUME NEW v, SetKey(v) \/ SetCipher(v)
      PROVE  Layout'
  <2>1. Kept /\ SeenKept
    BY <1>2, QuietKept DEF SetKey, SetCipher
  <2>2. pc \in {"idle", "write"} /\ pc' = pc /\ synced' = synced
    BY <1>2 DEF SetKey, SetCipher
  <2> QED
    BY <1>t, <2>1, <2>2, LayoutKept DEF Layout, Kept, SeenKept
<1>3. CASE StartTransformation \/ EndTransformation
  <2>1. Kept /\ SeenKept
    BY <1>3, QuietKept DEF StartTransformation, EndTransformation
  <2>2. pc \in {"idle", "write"} /\ pc' = pc /\ synced' = synced
    BY <1>3 DEF StartTransformation, EndTransformation
  <2> QED
    BY <1>t, <2>1, <2>2, LayoutKept DEF Layout, Kept, SeenKept
<1>4. ASSUME NEW p \in Page, ReadPage(p)
      PROVE  Layout'
  <2>1. Kept /\ SeenKept
    BY <1>4, <1>t, ReadKept
  <2>2. UNCHANGED <<pc, todo, want, synced>> /\ pc \in {"idle", "write", "vacuum"}
    BY <1>4 DEF ReadPage
  <2> QED
    BY <1>t, <2>1, <2>2, LayoutKept DEF Layout, Kept, SeenKept
<1>5. ASSUME NEW p \in Page, SpillPage(p)
      PROVE  Layout'
  <2>1. Kept /\ SeenKept
    BY <1>5, SpillKept
  <2>2. UNCHANGED <<pc, todo, want>> /\ pc \in {"write", "vacuum"} /\ setup.spill
    BY <1>5 DEF SpillPage
  <2> QED
    BY <1>t, <2>1, <2>2, LayoutKept DEF Layout, Kept, SeenKept
<1>6. ASSUME NEW p \in Page, EvictPage(p)
      PROVE  Layout'
  <2>1. Kept /\ SeenKept
    BY <1>6, <1>t, EvictKept
  <2>2. UNCHANGED <<pc, todo, want, synced>> /\ pc \in {"idle", "write", "vacuum"}
    BY <1>6 DEF EvictPage
  <2> QED
    BY <1>t, <2>1, <2>2, LayoutKept DEF Layout, Kept, SeenKept
<1>7. ASSUME NEW p \in Page, NEW v \in Value, WritePage(p, v)
      PROVE  Layout'
  <2>1. /\ cache[p] \in Image /\ Changed(p, v) \in Image
        /\ Changed(p, v) = [cache[p] EXCEPT !.val = v]
        /\ pc \in {"idle", "write"} /\ pc' = "write"
    BY <1>7, <1>t, ChangedImage DEF WritePage
  <2>2. disk' = disk /\ synced' = synced
    BY <1>7 DEF WritePage
  <2>3. /\ Kept /\ Seen(p)' = Changed(p, v) /\ cache[p] = Seen(p)
        /\ \A q \in Page \ {p} : Seen(q)' = Seen(q)
    BY <1>7, <1>t, <2>1, <2>2, ModifyKept DEF WritePage
  <2>4. Seen(p)'.res = Seen(p).res
    BY <1>t, <2>1, <2>3 DEF Image
  <2>5. \A q \in Page : Seen(q).res = Survivor(q).res
    BY <1>7, <1>t, <2>1, AtRest DEF WritePage, Layout
  <2>6. \A q \in Page : Seen(q)'.res = Survivor(q)'.res
    BY <2>3, <2>4, <2>5 DEF Kept
  <2> QED
    BY <1>t, <2>1, <2>2, <2>3, <2>6, LayoutKept DEF Layout
<1>8. CASE StartCommit
  <2>1. Kept /\ SeenKept /\ 1 \in synced'
    BY <1>8, <1>t, StartCommitKept
  <2>2. pc' = "commit" /\ pc \in {"write", "vacuum"} /\ (pc = "vacuum" => todo = {})
    BY <1>8 DEF StartCommit
  <2>3. 1 \in todo'
    BY <1>8 DEF StartCommit, Modify
  <2>4. want \in Nat /\ \A p \in Page : Survivor(p).res \in Nat
    BY <1>t, Images, ReserveOfImage, CryptAssumption DEF TypeOK
  <2>5. \A p, q \in Page : Seen(p).res = Seen(q).res
    BY <1>t, <2>2 DEF Layout
  <2>6. \A p \in Page : Seen(p).res >= Survivor(p).res
    BY <1>t, <2>2, <2>4 DEF Layout, Larger
  <2> QED
    BY <1>t, <2>1, <2>2, <2>3, <2>5, <2>6, LayoutKept DEF Layout, Kept, SeenKept
<1>9. CASE CommitPage
  <2>1. Kept /\ SeenKept /\ (1 \notin todo' => check_reserve_size(Seen(1).res))
    BY <1>9, CommitPageKept
  <2>2. pc = "commit" /\ pc' = pc /\ synced' = synced /\ UNCHANGED cryptVars
    BY <1>9 DEF CommitPage
  <2>3. 1 \notin todo' => check_reserve_size(Seen(1).res)'
    BY <2>1, <2>2, CryptAssumption DEF check_reserve_size, write_encryptor, cryptVars,
       SeenKept
  <2> QED
    BY <1>t, <2>1, <2>2, <2>3, LayoutKept DEF Layout, Kept, SeenKept
<1>10. CASE CommitDone
  <2>1. (\A p \in Page : Survivor(p)' = Seen(p)) /\ synced' = {} /\ pc' = "idle" /\ pc = "commit"
    BY <1>10, CommitDoneEffect DEF CommitDone
  <2>2. setup.spill => known' \subseteq known
    BY KnownShrinks
  <2>3. \A p \in Page : Survivor(p).res \in Nat /\ Seen(p).res \in Nat
    BY <1>t, Images, ReserveOfImage
  <2>4. \A p \in Page : Survivor(p)'.res >= Survivor(p).res
    BY <1>t, <2>1 DEF Layout
  <2>5. setup.spill =>
          \A e \in known' : e.cipher # NullCipher =>
            \A p \in Page : Survivor(p)'.res >= crypt_file_reserve_size
    BY <1>t, <2>1, <2>2, <2>3, <2>4 DEF Layout, crypt_file_reserve_size
  <2>6. \A p, q \in Page : Survivor(p)'.res = Survivor(q)'.res
    BY <1>t, <2>1 DEF Layout
  <2> QED
    BY <2>1, <2>5, <2>6 DEF Layout
<1>11. CASE CommitFails \/ Rollback
  <2>1. Kept /\ SeenKept
    BY <1>11, QuietKept DEF CommitFails, Rollback
  <2>2. pc' = "rollback" /\ synced' = synced
    BY <1>11 DEF CommitFails, Rollback, TransactionFails
  <2> QED
    BY <1>t, <2>1, <2>2, LayoutKept DEF Layout, Kept, SeenKept
<1>12. CASE StartPlayback
  <2>1. Kept
    BY <1>12 DEF StartPlayback, Kept, Survivor
  <2>2. pc' = "playback" /\ synced' = synced
    BY <1>12 DEF StartPlayback
  <2> QED
    BY <1>t, <2>1, <2>2, LayoutKept DEF Layout
<1>13. CASE RestorePage
  <2>1. Kept
    BY <1>13, <1>t, RestorePageKept
  <2>2. pc \in {"rollback", "playback"} /\ pc' = pc /\ synced' = synced
    BY <1>13 DEF RestorePage
  <2> QED
    BY <1>t, <2>1, <2>2, LayoutKept DEF Layout
<1>14. CASE RestoreDone
  <2>1. Kept
    BY <1>14, RestoreDoneKept
  <2>2. pc' = "idle" /\ synced' = {}
    BY <1>14 DEF RestoreDone
  <2> QED
    BY <1>t, <2>1, <2>2, LayoutKept DEF Layout
<1>15. CASE RestoreFails
  <2>1. Kept
    BY <1>15, <1>t, AbandonKept DEF RestoreFails
  <2>2. pc' = "idle" /\ synced' = synced
    BY <1>15 DEF RestoreFails, AbandonJournal
  <2> QED
    BY <1>t, <2>1, <2>2, LayoutKept DEF Layout
<1>16. ASSUME NEW r \in Reserve, NEW n \in Reserve, BeginVacuum(r, n)
      PROVE  Layout'
  <2>1. Kept /\ SeenKept
    BY <1>16, QuietKept DEF BeginVacuum
  <2>2. pc' = "vacuum" /\ todo' = Page /\ synced' = synced /\ pc = "idle" /\ ~Hot
    BY <1>16 DEF BeginVacuum
  <2>3. \A p \in Page : Seen(p).res = Survivor(p).res
    BY <1>t, <2>2, AtRest
  <2> QED
    BY <1>t, <2>1, <2>2, <2>3, LayoutKept DEF Layout, Kept, SeenKept
<1>17. CASE Vacuum
  BY <1>17, <1>16, <1>t, CryptAssumption DEF Vacuum, TypeOK
<1>18. CASE VacuumPage
  <2>1. PICK p \in todo :
          /\ cache[p] \in Image /\ todo' = todo \ {p}
          /\ Modify(p, [cache[p] EXCEPT !.res = Larger(want, @)])
    BY <1>18 DEF VacuumPage
  <2>2. p \in Page /\ [cache[p] EXCEPT !.res = Larger(want, @)] \in Image
    BY <1>t, <2>1 DEF TypeOK, Modify, Larger, Image
  <2>3. pc = "vacuum" /\ pc' = pc /\ disk' = disk /\ synced' = synced /\ want' = want
    BY <1>18 DEF VacuumPage
  <2>4. /\ Kept /\ Seen(p)' = [cache[p] EXCEPT !.res = Larger(want, @)] /\ cache[p] = Seen(p)
        /\ \A q \in Page \ {p} : Seen(q)' = Seen(q)
    BY <1>t, <2>1, <2>2, <2>3, ModifyKept
  <2>5. Seen(p)'.res = Larger(want, Seen(p).res)
    BY <1>t, <2>2, <2>4, Images DEF Image
  <2>6. Seen(p)'.res = Larger(want, Survivor(p).res)
    BY <1>t, <2>1, <2>2, <2>3, <2>5 DEF Layout
  <2>7. \A q \in Page :
          Seen(q)'.res = IF q \in todo' THEN Survivor(q)'.res
                         ELSE Larger(want', Survivor(q)'.res)
    BY <1>t, <2>1, <2>3, <2>4, <2>6 DEF Layout, Kept
  <2> QED
    BY <1>t, <2>3, <2>4, <2>7, LayoutKept DEF Layout
<1>19. ASSUME NEW n \in Reserve, NEW b \in BOOLEAN, SetReservedSize(n, b)
      PROVE  Layout'
  <2> DEFINE m == Larger(want, IF cache[1] # NoImage THEN cache[1].res ELSE disk[1].res)
  <2>1. m \in Reserve
    BY <1>t, CryptAssumption, PageType DEF TypeOK, CryptTypeOK, Larger, Stored
  <2>2. CASE BeginVacuum(n, m)
    BY <2>1, <2>2, <1>16
  <2>3. CASE ~BeginVacuum(n, m)
    <3>1. pc = "idle" /\ pc' = pc /\ UNCHANGED <<disk, cache, journal, synced>>
      BY <1>19, <2>3 DEF SetReservedSize
    <3>2. Kept /\ SeenKept
      BY <3>1, QuietKept
    <3> QED  BY <1>t, <3>1, <3>2, LayoutKept DEF Layout
  <2> QED
    BY <2>2, <2>3
<1>20. CASE Close \/ Crash
  <2>1. Kept
    BY <1>20, <1>t, AbandonKept DEF Close, Crash, LoseConnection
  <2>2. pc' = "closed" /\ synced' = synced
    BY <1>20 DEF Close, Crash, LoseConnection, AbandonJournal
  <2> QED
    BY <1>t, <2>1, <2>2, LayoutKept DEF Layout
<1> QED
  BY <1>0, <1>1, <1>2, <1>3, <1>4, <1>5, <1>6, <1>7, <1>8, <1>9, <1>10, <1>11, <1>12,
     <1>13, <1>14, <1>15, <1>16, <1>17, <1>18, <1>19, <1>20
  DEF Next, Step, LibraryStep

\* No content is lost.
LEMMA UndamagedStep ==
  ASSUME SpillsCarefully, ContentInv, [Next]_vars
  PROVE  Undamaged'
<1> USE DEF pagerVars, clientVars
<1>s. setup' = setup
  BY DEF Next, vars
<1> USE <1>s
<1>t. TypeInv /\ TypeOK /\ Bookkeeping /\ Decoded /\ Coherent /\ Layout /\ Undamaged
  BY DecodedInv DEF ContentInv, TypeInv
<1>0. CASE UNCHANGED vars
  BY <1>0, <1>t DEF vars, cryptVars, pagerVars, Undamaged,
     Survivor, Seen, Plain
<1>1. ASSUME NEW k, NEW c, Open(k, c)
      PROVE  Undamaged'
  <2>1. Kept /\ SeenKept
    BY <1>1, QuietKept DEF Open
  <2>2. pc' = "idle"
    BY <1>1 DEF Open
  <2> QED
    BY <1>t, <2>1, <2>2 DEF Undamaged, Kept, SeenKept
<1>2. ASSUME NEW v, SetKey(v) \/ SetCipher(v)
      PROVE  Undamaged'
  <2>1. Kept /\ SeenKept
    BY <1>2, QuietKept DEF SetKey, SetCipher
  <2>2. pc' = pc
    BY <1>2 DEF SetKey, SetCipher
  <2> QED
    BY <1>t, <2>1, <2>2 DEF Undamaged, Kept, SeenKept
<1>3. CASE StartTransformation \/ EndTransformation
  <2>1. Kept /\ SeenKept
    BY <1>3, QuietKept DEF StartTransformation, EndTransformation
  <2>2. pc' = pc
    BY <1>3 DEF StartTransformation, EndTransformation
  <2> QED
    BY <1>t, <2>1, <2>2 DEF Undamaged, Kept, SeenKept
<1>4. ASSUME NEW p \in Page, ReadPage(p)
      PROVE  Undamaged'
  <2>1. Kept /\ SeenKept
    BY <1>4, <1>t, ReadKept
  <2>2. pc' = pc
    BY <1>4 DEF ReadPage
  <2> QED
    BY <1>t, <2>1, <2>2 DEF Undamaged, Kept, SeenKept
<1>5. ASSUME NEW p \in Page, SpillPage(p)
      PROVE  Undamaged'
  <2>1. Kept /\ SeenKept
    BY <1>5, SpillKept
  <2>2. pc' = pc
    BY <1>5 DEF SpillPage
  <2> QED
    BY <1>t, <2>1, <2>2 DEF Undamaged, Kept, SeenKept
<1>6. ASSUME NEW p \in Page, EvictPage(p)
      PROVE  Undamaged'
  <2>1. Kept /\ SeenKept
    BY <1>6, <1>t, EvictKept
  <2>2. pc' = pc
    BY <1>6 DEF EvictPage
  <2> QED
    BY <1>t, <2>1, <2>2 DEF Undamaged, Kept, SeenKept
<1>7. ASSUME NEW p \in Page, NEW v \in Value, WritePage(p, v)
      PROVE  Undamaged'
  <2>1. /\ cache[p] \in Image /\ Changed(p, v) \in Image
        /\ Changed(p, v) = [cache[p] EXCEPT !.val = v]
        /\ pc \in {"idle", "write"} /\ pc' = "write"
    BY <1>7, <1>t, ChangedImage DEF WritePage
  <2>2. disk' = disk /\ synced' = synced
    BY <1>7 DEF WritePage
  <2>3. /\ Kept /\ Seen(p)' = Changed(p, v) /\ cache[p] = Seen(p)
        /\ \A q \in Page \ {p} : Seen(q)' = Seen(q)
    BY <1>7, <1>t, <2>1, <2>2, ModifyKept DEF WritePage
  <2>4. Seen(p)'.val = v /\ v # Damaged
    BY <1>t, <2>1, <2>3, CryptAssumption DEF Image
  <2>5. \A q \in Page : Seen(q).val # Damaged
    BY <1>7, <1>t, <2>1, AtRest DEF WritePage, Undamaged
  <2>6. \A q \in Page : Seen(q)'.val # Damaged
    BY <2>3, <2>4, <2>5
  <2> QED
    BY <1>t, <2>3, <2>6 DEF Undamaged, Kept
<1>8. CASE StartCommit
  <2>1. Kept /\ SeenKept
    BY <1>8, <1>t, StartCommitKept
  <2>2. pc \in {"write", "vacuum"}
    BY <1>8 DEF StartCommit
  <2> QED
    BY <1>t, <2>1, <2>2 DEF Undamaged, Kept, SeenKept
<1>9. CASE CommitPage
  <2>1. Kept /\ SeenKept
    BY <1>9, CommitPageKept
  <2>2. pc' = pc
    BY <1>9 DEF CommitPage
  <2> QED
    BY <1>t, <2>1, <2>2 DEF Undamaged, Kept, SeenKept
<1>10. CASE CommitDone
  <2>1. (\A p \in Page : Survivor(p)' = Seen(p)) /\ pc' = "idle" /\ pc = "commit"
    BY <1>10, CommitDoneEffect DEF CommitDone
  <2> QED
    BY <1>t, <2>1 DEF Undamaged
<1>11. CASE CommitFails \/ Rollback
  <2>1. Kept /\ SeenKept
    BY <1>11, QuietKept DEF CommitFails, Rollback
  <2>2. pc' = "rollback"
    BY <1>11 DEF CommitFails, Rollback, TransactionFails
  <2> QED
    BY <1>t, <2>1, <2>2 DEF Undamaged, Kept, SeenKept
<1>12. CASE StartPlayback
  <2>1. Kept
    BY <1>12 DEF StartPlayback, Kept, Survivor
  <2>2. pc' = "playback" /\ synced' = synced
    BY <1>12 DEF StartPlayback
  <2> QED
    BY <1>t, <2>1, <2>2 DEF Undamaged, Kept
<1>13. CASE RestorePage
  <2>1. Kept
    BY <1>13, <1>t, RestorePageKept
  <2>2. pc \in {"rollback", "playback"} /\ pc' = pc /\ synced' = synced
    BY <1>13 DEF RestorePage
  <2> QED
    BY <1>t, <2>1, <2>2 DEF Undamaged, Kept
<1>14. CASE RestoreDone
  <2>1. Kept
    BY <1>14, RestoreDoneKept
  <2>2. pc' = "idle" /\ synced' = {}
    BY <1>14 DEF RestoreDone
  <2> QED
    BY <1>t, <2>1, <2>2 DEF Undamaged, Kept
<1>15. CASE RestoreFails
  <2>1. Kept
    BY <1>15, <1>t, AbandonKept DEF RestoreFails
  <2>2. pc' = "idle" /\ synced' = synced
    BY <1>15 DEF RestoreFails, AbandonJournal
  <2> QED
    BY <1>t, <2>1, <2>2 DEF Undamaged, Kept
<1>16. ASSUME NEW r \in Reserve, NEW n \in Reserve, BeginVacuum(r, n)
      PROVE  Undamaged'
  <2>1. Kept /\ SeenKept
    BY <1>16, QuietKept DEF BeginVacuum
  <2>2. pc' = "vacuum" /\ pc = "idle" /\ ~Hot
    BY <1>16 DEF BeginVacuum
  <2>3. \A p \in Page : Seen(p) = Survivor(p)
    BY <1>t, <2>2, AtRest
  <2> QED
    BY <1>t, <2>1, <2>2, <2>3 DEF Undamaged, Kept, SeenKept
<1>17. CASE Vacuum
  BY <1>17, <1>16, <1>t, CryptAssumption DEF Vacuum, TypeOK
<1>18. CASE VacuumPage
  <2>1. PICK p \in todo :
          /\ cache[p] \in Image /\ todo' = todo \ {p}
          /\ Modify(p, [cache[p] EXCEPT !.res = Larger(want, @)])
    BY <1>18 DEF VacuumPage
  <2>2. p \in Page /\ [cache[p] EXCEPT !.res = Larger(want, @)] \in Image
    BY <1>t, <2>1 DEF TypeOK, Modify, Larger, Image
  <2>3. pc = "vacuum" /\ pc' = pc /\ disk' = disk /\ synced' = synced /\ want' = want
    BY <1>18 DEF VacuumPage
  <2>4. /\ Kept /\ Seen(p)' = [cache[p] EXCEPT !.res = Larger(want, @)] /\ cache[p] = Seen(p)
        /\ \A q \in Page \ {p} : Seen(q)' = Seen(q)
    BY <1>t, <2>1, <2>2, <2>3, ModifyKept
  <2>5. Seen(p)'.val = Seen(p).val
    BY <1>t, <2>2, <2>4, Images DEF Image
  <2>6. \A q \in Page : Seen(q)'.val # Damaged
    BY <1>t, <2>3, <2>4, <2>5 DEF Undamaged
  <2> QED
    BY <1>t, <2>4, <2>6 DEF Undamaged, Kept
<1>19. ASSUME NEW n \in Reserve, NEW b \in BOOLEAN, SetReservedSize(n, b)
      PROVE  Undamaged'
  <2> DEFINE m == Larger(want, IF cache[1] # NoImage THEN cache[1].res ELSE disk[1].res)
  <2>1. m \in Reserve
    BY <1>t, CryptAssumption, PageType DEF TypeOK, CryptTypeOK, Larger, Stored
  <2>2. CASE BeginVacuum(n, m)
    BY <2>1, <2>2, <1>16
  <2>3. CASE ~BeginVacuum(n, m)
    <3>1. pc = "idle" /\ pc' = pc /\ UNCHANGED <<disk, cache, journal, synced>>
      BY <1>19, <2>3 DEF SetReservedSize
    <3>2. Kept /\ SeenKept
      BY <3>1, QuietKept
    <3> QED  BY <1>t, <3>1, <3>2 DEF Undamaged, Kept
  <2> QED
    BY <2>2, <2>3
<1>20. CASE Close \/ Crash
  <2>1. Kept
    BY <1>20, <1>t, AbandonKept DEF Close, Crash, LoseConnection
  <2>2. pc' = "closed" /\ synced' = synced
    BY <1>20 DEF Close, Crash, LoseConnection, AbandonJournal
  <2> QED
    BY <1>t, <2>1, <2>2 DEF Undamaged, Kept
<1> QED
  BY <1>0, <1>1, <1>2, <1>3, <1>4, <1>5, <1>6, <1>7, <1>8, <1>9, <1>10, <1>11, <1>12,
     <1>13, <1>14, <1>15, <1>16, <1>17, <1>18, <1>19, <1>20
  DEF Next, Step, LibraryStep

-----------------------------------------------------------------------------
(* The invariant, and the two properties it gives.                          *)

\* What an earlier session left is laid out for its encryptor, with an empty cache.
LEMMA InitContent == Init /\ Sighted => ContentInv
<1> SUFFICES ASSUME Init, Sighted PROVE ContentInv
  OBVIOUS
<1>1. TypeInv /\ KeyInv
  BY InitType, InitKey
<1>2. PICK e \in Encryptor, r \in Reserve :
        /\ e.cipher # NullCipher => r = crypt_file_reserve_size
        /\ \E content \in [Page -> Value] :
             disk = [p \in Page |-> [enc |-> Seal(e), val |-> content[p], res |-> r]]
        /\ known = {Seal(e)}
  BY DEF Init
<1>3. PICK content \in [Page -> Value] :
        disk = [p \in Page |-> [enc |-> Seal(e), val |-> content[p], res |-> r]]
  BY <1>2
<1>4. \A p \in Page : Plain(p) = [val |-> content[p], res |-> r]
  BY <1>3 DEF Plain
<1>5. /\ synced = {} /\ Journaled = {} /\ pc = "closed"
      /\ \A p \in Page : cache[p] \notin Image
  BY Sentinels DEF Init, Nothing, Journaled
<1>6. \A p \in Page : Survivor(p) = Plain(p)
  BY <1>5 DEF Survivor, Plain
<1>7. Coherent
  BY <1>5 DEF Coherent, CacheCoherent
<1>8. \A d \in known : d.cipher # NullCipher => r >= crypt_file_reserve_size
  BY <1>2 DEF Seal, NoEncryptor, crypt_file_reserve_size
<1>9. Layout
  BY <1>4, <1>5, <1>6, <1>8 DEF Layout
<1>10. Undamaged
  BY <1>4, <1>5, <1>6, CryptAssumption DEF Undamaged
<1> QED
  BY <1>1, <1>7, <1>9, <1>10 DEF ContentInv

\* Every step keeps the invariant.
LEMMA ContentStep ==
  ASSUME SpillsCarefully, ContentInv, [Next]_vars
  PROVE  ContentInv'
<1>1. TypeInv'
  BY TypeStep DEF ContentInv
<1>2. Client = "careful" => KeyInv'
  BY KeyStep DEF ContentInv, SpillsCarefully
<1>3. Sighted'
  BY DEF ContentInv, Sighted, Next, vars
<1> QED
  BY <1>1, <1>2, <1>3, CoherentStep, LayoutStep, UndamagedStep DEF ContentInv

\* ContentInv holds in every reachable state of an application that changes no
\* page in ciphertext.
LEMMA ContentInvariant == ASSUME SpillsCarefully PROVE Spec => [](Sighted => ContentInv)
<1>1. Init => (Sighted => ContentInv)
  BY InitContent
<1>2. (Sighted => ContentInv) /\ [Next]_vars => (Sighted => ContentInv)'
  <2>1. [Next]_vars => setup' = setup
    BY DEF Next, vars
  <2> QED
    BY <2>1, ContentStep DEF Sighted
<1> QED
  BY <1>1, <1>2, PTL DEF Spec

\* No committed page loses content to IV and tag, because page 1 is checked before
\* any other page is written: not for a careful application, nor for one that calls
\* in any order but accesses no encrypted database while no cipher is set.  With a
\* cache that spills, which writes other pages alone, it must be careful and must
\* not re-encrypt.
THEOREM NeverOverwritten == ASSUME SpillsCarefully PROVE Spec => []NothingOverwritten
<1>1. (Sighted => ContentInv) => NothingOverwritten
  BY DEF ContentInv, Undamaged, NothingOverwritten, Sighted
<1> QED
  BY <1>1, ContentInvariant, PTL

\* If no set-up is blind, every reachable state satisfies ContentInv.
LEMMA SightedContent ==
  ASSUME SpillsCarefully, SightedSetups PROVE Spec => []ContentInv
<1>1. TypeOK => Sighted
  BY DEF TypeOK, Sighted, SightedSetups
<1> QED
  BY <1>1, ContentInvariant, TypeOKAlways, PTL

\* A clean page in the cache has the content and the reserve of the page in the
\* file, also after a commit that failed half-way was rolled back.
THEOREM CacheAlwaysCoherent ==
  ASSUME SpillsCarefully, SightedSetups PROVE Spec => []CacheCoherent
<1>1. ContentInv => CacheCoherent
  BY DEF ContentInv, Coherent
<1> QED
  BY <1>1, SightedContent, PTL

-----------------------------------------------------------------------------
(* The file with its journal implements an atomic store.                    *)

Active == pc \in {"write", "vacuum", "commit"}

\* The abstract view in terms of the page images.
LEMMA ViewIs ==
  /\ Active => View = [p \in Page |-> Seen(p).val]
  /\ ~Active => View = Durable
BY DEF Active, View, Seen, Plain

\* A step that ends or is outside of a transaction and leaves what a crash leaves.
LEMMA AbortStep ==
  ASSUME Kept, ~Active'
  PROVE  Store!Abort
<1>1. View' = Durable'
  BY DEF View, Active
<1>2. Durable' = Durable
  BY DEF Durable, Kept
<1> QED
  BY <1>1, <1>2 DEF Store!Abort

\* A step inside of a transaction that changes no content.
LEMMA QuietStep ==
  ASSUME Kept, Active, Active', \A p \in Page : Seen(p)'.val = Seen(p).val
  PROVE  UNCHANGED Store!storeVars
<1>1. View = [p \in Page |-> Seen(p).val]
  BY ViewIs
<1>2. View' = [p \in Page |-> Seen(p)'.val]
  BY DEF Active, View, Seen, Plain
<1>3. Durable' = Durable
  BY DEF Durable, Kept
<1> QED
  BY <1>1, <1>2, <1>3 DEF Store!storeVars

\* Every step of the encrypted database is a step of the atomic store or leaves it
\* alone.
LEMMA RefinementStep ==
  ASSUME SpillsCarefully, ContentInv, [Next]_vars
  PROVE  [Store!StoreNext]_(Store!storeVars)
<1> USE DEF pagerVars, clientVars
<1>t. TypeInv /\ TypeOK /\ Bookkeeping /\ Decoded /\ Coherent /\ Layout
  BY DecodedInv DEF ContentInv, TypeInv
<1> DEFINE Goal == [Store!StoreNext]_(Store!storeVars)
<1>a. Store!Abort \/ UNCHANGED Store!storeVars => Goal
  BY DEF Store!StoreNext
<1> SUFFICES Goal
  OBVIOUS
<1> HIDE DEF Goal
<1>0. CASE UNCHANGED vars
  <2>1. Kept /\ SeenKept /\ pc' = pc
    BY <1>0, QuietKept DEF vars, pagerVars
  <2> QED
    BY <1>a, <2>1, AbortStep, QuietStep DEF SeenKept, Active
<1>1. ASSUME NEW k, NEW c, Open(k, c)
      PROVE  Goal
  BY <1>a, <1>1, QuietKept, AbortStep DEF Open, Active
<1>2. ASSUME NEW v,
             SetKey(v) \/ SetCipher(v) \/ StartTransformation \/ EndTransformation
      PROVE  Goal
  <2>1. Kept /\ SeenKept /\ pc' = pc
    BY <1>2, QuietKept DEF SetKey, SetCipher, StartTransformation, EndTransformation
  <2> QED
    BY <1>a, <2>1, AbortStep, QuietStep DEF SeenKept, Active
<1>4. ASSUME NEW p \in Page, ReadPage(p) \/ SpillPage(p) \/ EvictPage(p)
      PROVE  Goal
  <2>1. Kept /\ SeenKept
    BY <1>4, <1>t, ReadKept, SpillKept, EvictKept
  <2>2. pc' = pc
    BY <1>4 DEF ReadPage, SpillPage, EvictPage
  <2> QED
    BY <1>a, <2>1, <2>2, AbortStep, QuietStep DEF SeenKept, Active
<1>7. ASSUME NEW p \in Page, NEW v \in Value, WritePage(p, v)
      PROVE  Goal
  <2>1. /\ cache[p] \in Image /\ Changed(p, v) \in Image
        /\ Changed(p, v) = [cache[p] EXCEPT !.val = v]
        /\ pc \in {"idle", "write"} /\ pc' = "write"
    BY <1>7, <1>t, ChangedImage DEF WritePage
  <2>2. disk' = disk /\ synced' = synced
    BY <1>7 DEF WritePage
  <2>3. /\ Kept /\ Seen(p)' = Changed(p, v) /\ cache[p] = Seen(p)
        /\ \A q \in Page \ {p} : Seen(q)' = Seen(q)
    BY <1>7, <1>t, <2>1, <2>2, ModifyKept DEF WritePage
  <2>4. Seen(p)'.val = v
    BY <1>t, <2>1, <2>3 DEF Image
  <2>5. View = [q \in Page |-> Seen(q).val]
    <3>1. CASE pc = "write"
      BY <3>1, ViewIs DEF Active
    <3>2. CASE pc = "idle"
      <4>1. View = Durable
        BY <3>2, ViewIs DEF Active
      <4>2. \A q \in Page : Seen(q) = Survivor(q)
        BY <1>7, <1>t, <3>2, AtRest DEF WritePage
      <4> QED
        BY <4>1, <4>2 DEF Durable
    <3> QED
      BY <2>1, <3>1, <3>2
  <2>6. View' = [q \in Page |-> Seen(q)'.val]
    BY <2>1 DEF View, Seen, Plain
  <2>7. View' = [View EXCEPT ![p] = v]
    BY <2>3, <2>4, <2>5, <2>6
  <2>8. Durable' = Durable
    BY <2>3 DEF Durable, Kept
  <2>9. Store!Put(p, v)
    BY <2>7, <2>8 DEF Store!Put
  <2> QED
    BY <2>9 DEF Goal, Store!StoreNext
<1>8. CASE StartCommit
  <2>1. Kept /\ SeenKept
    BY <1>8, <1>t, StartCommitKept
  <2>2. Active /\ Active'
    BY <1>8 DEF StartCommit, Active
  <2> QED
    BY <1>a, <2>1, <2>2, QuietStep DEF SeenKept
<1>9. CASE CommitPage
  <2>1. Kept /\ SeenKept
    BY <1>9, CommitPageKept
  <2>2. Active /\ Active'
    BY <1>9 DEF CommitPage, Active
  <2> QED
    BY <1>a, <2>1, <2>2, QuietStep DEF SeenKept
<1>10. CASE CommitDone
  <2>1. (\A p \in Page : Survivor(p)' = Seen(p)) /\ pc' = "idle" /\ pc = "commit"
    BY <1>10, CommitDoneEffect DEF CommitDone
  <2>2. View = [p \in Page |-> Seen(p).val] /\ View' = Durable'
    BY <2>1, ViewIs DEF Active, View
  <2>3. Durable' = View
    BY <2>1, <2>2 DEF Durable
  <2> QED
    BY <2>2, <2>3 DEF Goal, Store!StoreNext, Store!Commit
<1>11. CASE CommitFails \/ Rollback
  <2>1. Kept
    BY <1>11, QuietKept DEF CommitFails, Rollback
  <2>2. ~Active'
    BY <1>11 DEF CommitFails, Rollback, TransactionFails, Active
  <2> QED
    BY <1>a, <2>1, <2>2, AbortStep
<1>12. CASE StartPlayback
  <2>1. Kept /\ ~Active'
    BY <1>12 DEF StartPlayback, Kept, Survivor, Active
  <2> QED
    BY <1>a, <2>1, AbortStep
<1>13. CASE RestorePage
  <2>1. Kept
    BY <1>13, <1>t, RestorePageKept
  <2>2. ~Active'
    BY <1>13 DEF RestorePage, Active
  <2> QED
    BY <1>a, <2>1, <2>2, AbortStep
<1>14. CASE RestoreDone
  <2>1. Kept
    BY <1>14, RestoreDoneKept
  <2>2. ~Active'
    BY <1>14 DEF RestoreDone, Active
  <2> QED
    BY <1>a, <2>1, <2>2, AbortStep
<1>15. CASE RestoreFails
  <2>1. Kept
    BY <1>15, <1>t, AbandonKept DEF RestoreFails
  <2>2. ~Active'
    BY <1>15 DEF RestoreFails, Active
  <2> QED
    BY <1>a, <2>1, <2>2, AbortStep
<1>16. ASSUME NEW r \in Reserve, NEW n \in Reserve, BeginVacuum(r, n)
      PROVE  Goal
  <2>1. Kept /\ SeenKept
    BY <1>16, QuietKept DEF BeginVacuum
  <2>2. pc' = "vacuum" /\ pc = "idle" /\ ~Hot
    BY <1>16 DEF BeginVacuum
  <2>3. \A p \in Page : Seen(p) = Survivor(p)
    BY <1>t, <2>2, AtRest
  <2>4. View = Durable
    BY <2>2, ViewIs DEF Active
  <2>5. Durable' = Durable
    BY <2>1 DEF Durable, Kept
  <2>6. View' = [p \in Page |-> Seen(p)'.val]
    BY <2>2 DEF View, Seen, Plain
  <2>7. View' = Durable
    BY <2>1, <2>3, <2>6 DEF SeenKept, Durable
  <2> QED
    BY <1>a, <2>5, <2>7 DEF Store!Abort
<1>17. CASE Vacuum
  BY <1>17, <1>16, <1>t, CryptAssumption DEF Vacuum, TypeOK
<1>18. CASE VacuumPage
  <2>1. PICK p \in todo :
          /\ cache[p] \in Image /\ todo' = todo \ {p}
          /\ Modify(p, [cache[p] EXCEPT !.res = Larger(want, @)])
    BY <1>18 DEF VacuumPage
  <2>2. p \in Page /\ [cache[p] EXCEPT !.res = Larger(want, @)] \in Image
    BY <1>t, <2>1 DEF TypeOK, Modify, Larger, Image
  <2>3. pc = "vacuum" /\ pc' = pc /\ disk' = disk /\ synced' = synced
    BY <1>18 DEF VacuumPage
  <2>4. /\ Kept /\ Seen(p)' = [cache[p] EXCEPT !.res = Larger(want, @)] /\ cache[p] = Seen(p)
        /\ \A q \in Page \ {p} : Seen(q)' = Seen(q)
    BY <1>t, <2>1, <2>2, <2>3, ModifyKept
  <2>5. Seen(p)'.val = Seen(p).val
    BY <1>t, <2>2, <2>4, Images DEF Image
  <2> QED
    BY <1>a, <2>3, <2>4, <2>5, QuietStep DEF Active
<1>19. ASSUME NEW n \in Reserve, NEW b \in BOOLEAN, SetReservedSize(n, b)
      PROVE  Goal
  <2> DEFINE m == Larger(want, IF cache[1] # NoImage THEN cache[1].res ELSE disk[1].res)
  <2>1. m \in Reserve
    BY <1>t, CryptAssumption, PageType DEF TypeOK, CryptTypeOK, Larger, Stored
  <2>2. CASE BeginVacuum(n, m)
    BY <2>1, <2>2, <1>16
  <2>3. CASE ~BeginVacuum(n, m)
    <3>1. pc = "idle" /\ pc' = pc /\ UNCHANGED <<disk, cache, journal, synced>>
      BY <1>19, <2>3 DEF SetReservedSize
    <3> QED
      BY <1>a, <3>1, QuietKept, AbortStep DEF Active
  <2> QED
    BY <2>2, <2>3
<1>20. CASE Close \/ Crash
  <2>1. Kept
    BY <1>20, <1>t, AbandonKept DEF Close, Crash, LoseConnection
  <2>2. ~Active'
    BY <1>20 DEF Close, Crash, LoseConnection, Active
  <2> QED
    BY <1>a, <2>1, <2>2, AbortStep
<1> QED
  BY <1>0, <1>1, <1>2, <1>4, <1>7, <1>8, <1>9, <1>10, <1>11, <1>12, <1>13, <1>14,
     <1>15, <1>17, <1>18, <1>19, <1>20
  DEF Next, Step, LibraryStep

\* The encrypted file implements an atomic store: whatever commits are refused,
\* rolled back, crash or re-encrypt, the content changes only by a whole commit.
THEOREM CryptRefinesStore ==
  ASSUME SpillsCarefully, SightedSetups PROVE Spec => AtomicTransactions
<1>1. Init => Store!StoreInit
  <2> SUFFICES ASSUME Init PROVE Store!StoreInit
    OBVIOUS
  <2>1. PICK e \in Encryptor, r \in Reserve, content \in [Page -> Value] :
          disk = [p \in Page |-> [enc |-> Seal(e), val |-> content[p], res |-> r]]
    BY DEF Init
  <2>2. synced = {} /\ pc = "closed"
    BY DEF Init
  <2>3. Durable \in [Page -> Value]
    BY <2>1, <2>2 DEF Durable, Survivor
  <2>4. View = Durable
    BY <2>2, ViewIs DEF Active
  <2> QED
    BY <2>3, <2>4 DEF Store!StoreInit
<1>2. ContentInv /\ [Next]_vars => [Store!StoreNext]_(Store!storeVars)
  BY RefinementStep
<1> QED
  BY <1>1, <1>2, SightedContent, PTL DEF Spec, AtomicTransactions, Store!StoreSpec
=============================================================================
