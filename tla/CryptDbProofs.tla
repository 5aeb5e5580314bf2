---------------------------- MODULE CryptDbProofs ----------------------------
(***************************************************************************)
(* Proofs about CryptDb for every set of pages, keys, ciphers and values.  *)
(***************************************************************************)
EXTENDS CryptDbProps, TLAPS

(* What encoding and decoding return.                                       *)

\* A fresh Encryptor is one.
LEMMA NoEncryptorType == NoEncryptor \in Encryptor
BY CryptAssumption DEF NoEncryptor, Encryptor

\* What a page is sealed with is an encryptor.
LEMMA SealType == ASSUME NEW e \in Encryptor PROVE Seal(e) \in Encryptor
BY NoEncryptorType DEF Seal

\* A page image in the clear is not ciphertext taken for one.
LEMMA Disjoint == ASSUME NEW img \in Image PROVE img \notin Undecoded
<1> SUFFICES ASSUME img \in Stored PROVE FALSE
  BY DEF Undecoded
<1>1. DOMAIN img = {"val", "res"}
  BY DEF Image
<1>2. DOMAIN img = {"enc", "val", "res"}
  BY DEF Stored
<1> QED
  BY <1>1, <1>2

\* The sentinels are no pages.
LEMMA Sentinels ==
  /\ NoImage \notin Image /\ NoImage \notin Undecoded
  /\ NotADb \notin Image /\ NotADb \notin Undecoded
BY SentinelAssumption DEF Undecoded

\* What the pager takes for a page: an image or ciphertext, with a reserve byte.
LEMMA PageType ==
  ASSUME NEW img \in Image \cup Undecoded
  PROVE  img.val \in Content /\ img.res \in Reserve
BY DEF Image, Undecoded, Stored

\* encode_page makes a stored page of whatever the pager takes for one, and seals
\* a page image with the encryptor it was given.
LEMMA EncodeType ==
  ASSUME NEW img \in Image \cup Undecoded, NEW e \in Encryptor
  PROVE  /\ encode_page(img, e) \in Stored
         /\ img \in Image => encode_page(img, e).enc = Seal(e)
<1>1. CASE e.cipher = NullCipher /\ img \in Undecoded
  BY <1>1, Disjoint DEF encode_page, Undecoded
<1>2. CASE ~(e.cipher = NullCipher /\ img \in Undecoded)
  BY <1>2, SealType, PageType DEF encode_page, Stored, Content
<1> QED
  BY <1>1, <1>2

\* The encryptor that encode_page picks is well typed.
LEMMA WriteEncryptorType == ASSUME CryptTypeOK PROVE write_encryptor \in Encryptor
BY DEF CryptTypeOK, write_encryptor

\* read() returns a page image, takes ciphertext for one, or throws.
LEMMA ReadType ==
  ASSUME CryptTypeOK, NEW p \in Page
  PROVE  read(p) \in Image \cup Undecoded \cup {NotADb}
<1>1. disk[p] \in Stored
  BY DEF CryptTypeOK
<1>2. decode_page(disk[p], current) \in Image \cup Undecoded \cup {NotADb}
  <2>1. CASE disk[p].enc = Seal(current)
    BY <1>1, <2>1 DEF decode_page, Stored, Image
  <2>2. CASE disk[p].enc # Seal(current)
    BY <1>1, <2>2 DEF decode_page, Seal, Undecoded
  <2> QED
    BY <2>1, <2>2
<1> QED
  BY <1>2 DEF read

\* write() stores a page of the right type, a page image under the write encryptor.
LEMMA WriteType ==
  ASSUME CryptTypeOK, NEW p \in Page, NEW img \in Image \cup Undecoded, write(p, img)
  PROVE  /\ disk' \in [Page -> Stored]
         /\ img \in Image => disk'[p].enc = Seal(write_encryptor)
         /\ \A q \in Page \ {p} : disk'[q] = disk[q]
<1>1. encode_page(img, write_encryptor) \in Stored
  BY WriteEncryptorType, EncodeType
<1>2. img \in Image => encode_page(img, write_encryptor).enc = Seal(write_encryptor)
  BY WriteEncryptorType, EncodeType
<1>3. disk' = [disk EXCEPT ![p] = encode_page(img, write_encryptor)]
  BY DEF write
<1> QED
  BY <1>1, <1>2, <1>3 DEF CryptTypeOK

\* The handlers of file_control and the constructor keep the encryptors' types.
LEMMA SetType ==
  ASSUME NEW e \in Encryptor, NEW v
  PROVE  _generate_key(v, e) \in Encryptor /\ _set_chiper(v, e) \in Encryptor
BY DEF _generate_key, _set_chiper, Encryptor

CryptStateOK ==
  current \in Encryptor /\ transformation \in Encryptor /\ transform \in BOOLEAN

\* The file object's own operations keep its state well typed.
LEMMA CryptStateStep ==
  ASSUME CryptStateOK,
         \/ \E k, c : Construct(k, c)
         \/ Destroy
         \/ \E v : PragmaKey(v) \/ PragmaCipher(v)
         \/ \E on \in BOOLEAN : PragmaTransformation(on)
         \/ UNCHANGED cryptVars
  PROVE  CryptStateOK'
<1>1. CASE \E k, c : Construct(k, c)
  BY <1>1, SetType, NoEncryptorType DEF Construct, CryptStateOK
<1>2. CASE Destroy
  BY <1>2, NoEncryptorType DEF Destroy, CryptStateOK
<1>3. CASE \E v : PragmaKey(v)
  BY <1>3, SetType DEF PragmaKey, CryptStateOK
<1>4. CASE \E v : PragmaCipher(v)
  BY <1>4, SetType DEF PragmaCipher, CryptStateOK
<1>5. CASE \E on \in BOOLEAN : PragmaTransformation(on)
  BY <1>5 DEF PragmaTransformation, CryptStateOK, cryptVars
<1>6. CASE UNCHANGED cryptVars
  BY <1>6 DEF CryptStateOK, cryptVars
<1> QED
  BY <1>1, <1>2, <1>3, <1>4, <1>5, <1>6

-----------------------------------------------------------------------------
(* Type correctness.  It needs Bookkeeping: a commit writes cached images    *)
(* and a rollback journaled ones only because of the pages left in todo.     *)

TypeInv == TypeOK /\ Bookkeeping

\* A file left by a completed session satisfies the type invariant.
LEMMA InitType == Init => TypeInv
<1> SUFFICES ASSUME Init PROVE TypeInv
  OBVIOUS
<1>1. disk \in [Page -> Stored] /\ known \subseteq Encryptor
  BY SealType DEF Init, Stored, Content
<1> QED
  BY <1>1, NoEncryptorType, CryptAssumption, ClientAssumption, Sentinels
  DEF Init, TypeInv, TypeOK, CryptTypeOK, Bookkeeping, PC, Stage, Nothing, Journaled

\* Every step of the pager and of the application keeps types and bookkeeping.
LEMMA TypeStep == TypeInv /\ [Next]_vars => TypeInv'
<1> SUFFICES ASSUME TypeOK, Bookkeeping, [Next]_vars
             PROVE  TypeOK' /\ Bookkeeping'
  BY DEF TypeInv
<1> USE DEF pagerVars, clientVars
<1>s. setup' = setup
  BY DEF Next, vars
<1> USE <1>s
<1>c. CryptStateOK /\ CryptTypeOK
  BY DEF TypeOK, CryptTypeOK, CryptStateOK
<1>0. CASE UNCHANGED vars
  BY <1>0 DEF vars, cryptVars, TypeOK, CryptTypeOK, Bookkeeping, Journaled
<1>1. ASSUME NEW k \in Key \cup {Malformed},
             NEW c \in Cipher \cup {NullCipher, Malformed}, Open(k, c)
      PROVE  TypeOK' /\ Bookkeeping'
  <2>1. CryptStateOK'
    BY <1>1, <1>c, CryptStateStep DEF Open
  <2> QED
    BY <1>1, <2>1, CryptAssumption
    DEF Open, TypeOK, CryptTypeOK, CryptStateOK, Bookkeeping, Journaled, PC
<1>2. ASSUME NEW v, SetKey(v) \/ SetCipher(v)
      PROVE  TypeOK' /\ Bookkeeping'
  <2>1. CryptStateOK'
    BY <1>2, <1>c, CryptStateStep DEF SetKey, SetCipher
  <2> QED
    BY <1>2, <2>1
    DEF SetKey, SetCipher, TypeOK, CryptTypeOK, CryptStateOK, Bookkeeping, Journaled
<1>3. CASE StartTransformation
  <2>1. CryptStateOK'
    BY <1>3, <1>c, CryptStateStep DEF StartTransformation
  <2> QED
    BY <1>3, <2>1
    DEF StartTransformation, TypeOK, CryptTypeOK, CryptStateOK, Bookkeeping, Journaled,
        Stage
<1>4. CASE EndTransformation
  <2>1. CryptStateOK' /\ Seal(transformation) \in Encryptor
    BY <1>4, <1>c, CryptStateStep, SealType DEF EndTransformation, CryptStateOK
  <2> QED
    BY <1>4, <2>1
    DEF EndTransformation, TypeOK, CryptTypeOK, CryptStateOK, Bookkeeping, Journaled,
        Stage
<1>5. ASSUME NEW p \in Page, ReadPage(p)
      PROVE  TypeOK' /\ Bookkeeping'
  <2>1. read(p) \in Image \cup Undecoded /\ (~setup.blind => read(p) \in Image)
    BY <1>5, <1>c, ReadType DEF ReadPage
  <2>2. Seal(current) \in Encryptor
    BY <1>c, SealType DEF CryptStateOK
  <2>3. TypeOK'
    BY <1>5, <2>1, <2>2 DEF ReadPage, TypeOK, CryptTypeOK, cryptVars, Stage
  <2>4. p \notin dirty
    BY <1>5 DEF ReadPage, Bookkeeping
  <2>5. ~setup.blind => read(p) \notin Undecoded
    BY <2>1, Disjoint
  <2>6. cache'[p] = read(p) /\ \A q \in Page \ {p} : cache'[q] = cache[q]
    BY <1>5 DEF ReadPage, TypeOK
  <2>7. ~setup.blind => \A q \in Page : {cache'[q], journal'[q]} \cap Undecoded = {}
    BY <1>5, <2>5, <2>6 DEF ReadPage, Bookkeeping
  <2>8. Bookkeeping'
    BY <1>5, <2>4, <2>6, <2>7 DEF ReadPage, Bookkeeping, Journaled
  <2> QED
    BY <2>3, <2>8
<1>6. ASSUME NEW p \in Page, SpillPage(p)
      PROVE  TypeOK' /\ Bookkeeping'
  <2>1. cache[p] \in Image \cup Undecoded
    BY <1>6 DEF SpillPage, Bookkeeping, TypeOK
  <2>2. disk' \in [Page -> Stored]
    BY <1>6, <2>1, <1>c, WriteType DEF SpillPage
  <2> QED
    BY <1>6, <2>2
    DEF SpillPage, TypeOK, CryptTypeOK, cryptVars, Bookkeeping, Journaled
<1>7. ASSUME NEW p \in Page, EvictPage(p)
      PROVE  TypeOK' /\ Bookkeeping'
  BY <1>7, Sentinels DEF EvictPage, TypeOK, CryptTypeOK, cryptVars, Bookkeeping,
     Journaled
<1>m. ASSUME NEW p \in Page, NEW img \in Image \cup Undecoded, Modify(p, img),
             ~setup.blind => img \notin Undecoded
      PROVE  /\ cache' \in [Page -> Image \cup Undecoded \cup {NoImage}]
             /\ journal' \in [Page -> Image \cup Undecoded \cup {NoImage}]
             /\ dirty' \subseteq Page
             /\ Journaled' = Journaled \cup {p}
             /\ dirty' = dirty \cup {p}
             /\ \A q \in dirty' : cache'[q] # NoImage
             /\ ~setup.blind =>
                  \A q \in Page : {cache'[q], journal'[q]} \cap Undecoded = {}
  <2>1. /\ cache[p] # NoImage /\ img # NoImage
        /\ cache' = [cache EXCEPT ![p] = img] /\ dirty' = dirty \cup {p}
        /\ journal' = [journal EXCEPT ![p] = IF @ = NoImage THEN cache[p] ELSE @]
    BY <1>m, Sentinels DEF Modify
  <2>2. cache' \in [Page -> Image \cup Undecoded \cup {NoImage}]
    BY <2>1 DEF TypeOK
  <2>3. journal' \in [Page -> Image \cup Undecoded \cup {NoImage}]
    BY <2>1 DEF TypeOK
  <2>4. \A q \in Page : journal'[q] # NoImage <=> journal[q] # NoImage \/ q = p
    BY <2>1 DEF TypeOK
  <2>5. Journaled' = Journaled \cup {p}
    BY <2>4 DEF Journaled
  <2>6. \A q \in dirty' : cache'[q] # NoImage
    BY <2>1 DEF TypeOK, Bookkeeping
  <2>7. ASSUME ~setup.blind, NEW q \in Page
        PROVE  {cache'[q], journal'[q]} \cap Undecoded = {}
    BY <1>m, <2>1, <2>7 DEF TypeOK, Bookkeeping
  <2> QED
    BY <2>1, <2>2, <2>3, <2>5, <2>6, <2>7 DEF TypeOK
<1>8. ASSUME NEW p \in Page, NEW v \in Value, WritePage(p, v)
      PROVE  TypeOK' /\ Bookkeeping'
  <2>1. cache[p] \in Image \cup Undecoded /\ Modify(p, Changed(p, v))
    BY <1>8 DEF WritePage, Modify, TypeOK
  <2>2. Changed(p, v) \in Image \cup Undecoded
    BY <2>1, PageType DEF Changed, Image, Content
  <2>3. ~setup.blind => Changed(p, v) \notin Undecoded
    <3>1. [val |-> v, res |-> cache[p].res] \in Image
      BY <2>1, PageType DEF Image, Content
    <3> QED
      BY <3>1, Disjoint, CryptAssumption DEF Changed, Bookkeeping
  <2> QED
    BY <1>8, <1>m, <2>1, <2>2, <2>3
    DEF WritePage, TypeOK, CryptTypeOK, cryptVars, Bookkeeping, PC
<1>9. CASE StartCommit
  <2>1. 1 \in Page /\ cache[1] \in Image \cup Undecoded /\ Modify(1, cache[1])
    BY <1>9, CryptAssumption DEF StartCommit, Modify, TypeOK
  <2>2. ~setup.blind => cache[1] \notin Undecoded
    BY <2>1 DEF Bookkeeping
  <2> QED
    BY <1>9, <1>m, <2>1, <2>2
    DEF StartCommit, TypeOK, CryptTypeOK, cryptVars, Bookkeeping, PC, Journaled
<1>10. CASE CommitPage
  <2>1. PICK p \in todo :
          /\ write(p, cache[p])
          /\ todo' = todo \ {p}
          /\ dirty' = dirty \ {p}
    BY <1>10 DEF CommitPage
  <2>2. p \in Page /\ cache[p] \in Image \cup Undecoded
    BY <1>10, <2>1 DEF CommitPage, Bookkeeping, TypeOK
  <2>3. disk' \in [Page -> Stored]
    BY <2>1, <2>2, <1>c, WriteType
  <2> QED
    BY <1>10, <2>1, <2>3
    DEF CommitPage, TypeOK, CryptTypeOK, cryptVars, Bookkeeping, Journaled
<1>11. CASE CommitDone
  BY <1>11, CryptAssumption, Sentinels
  DEF CommitDone, TypeOK, CryptTypeOK, cryptVars, Bookkeeping, Journaled, Nothing, PC,
      Stage
<1>12. CASE CommitFails \/ Rollback
  BY <1>12
  DEF CommitFails, Rollback, TransactionFails, TypeOK, CryptTypeOK, cryptVars,
      Bookkeeping, Journaled, PC, Stage
<1>13. CASE StartPlayback
  BY <1>13, Sentinels
  DEF StartPlayback, TypeOK, CryptTypeOK, cryptVars, Bookkeeping, Journaled, Nothing,
      PC
<1>14. CASE RestorePage
  <2>1. PICK p \in todo :
          /\ IF p \in synced THEN write(p, journal[p]) ELSE UNCHANGED disk
          /\ cache' = [cache EXCEPT ![p] = IF @ = NoImage THEN @ ELSE journal[p]]
          /\ todo' = todo \ {p}
          /\ dirty' = dirty \ {p}
    BY <1>14 DEF RestorePage
  <2>2. p \in Page /\ journal[p] \in Image \cup Undecoded
    BY <1>14, <2>1 DEF RestorePage, Bookkeeping, TypeOK, Journaled
  <2>3. disk' \in [Page -> Stored]
    BY <2>1, <2>2, <1>c, WriteType DEF CryptTypeOK
  <2>4. cache' \in [Page -> Image \cup Undecoded \cup {NoImage}]
    BY <2>1, <2>2 DEF TypeOK
  <2>5. \A q \in dirty' : cache'[q] # NoImage
    BY <2>1, <2>2 DEF TypeOK, Bookkeeping
  <2>6. ~setup.blind => \A q \in Page : cache'[q] \notin Undecoded
    BY <2>1, <2>2 DEF TypeOK, Bookkeeping
  <2> QED
    BY <1>14, <2>1, <2>3, <2>4, <2>5, <2>6
    DEF RestorePage, TypeOK, CryptTypeOK, cryptVars, Bookkeeping, Journaled
<1>15. CASE RestoreDone
  BY <1>15, Sentinels
  DEF RestoreDone, TypeOK, CryptTypeOK, cryptVars, Bookkeeping, Journaled, Nothing, PC
<1>a. ASSUME AbandonJournal
      PROVE  /\ journal' \in [Page -> Image \cup Undecoded \cup {NoImage}]
             /\ cache' \in [Page -> Image \cup Undecoded \cup {NoImage}]
             /\ \A p \in Page : cache'[p] = NoImage
             /\ dirty' = {} /\ todo' = {} /\ synced' = synced
             /\ synced \subseteq Journaled'
             /\ ~setup.blind => \A p \in Page : journal'[p] \notin Undecoded
  BY <1>a, Sentinels DEF AbandonJournal, TypeOK, Bookkeeping, Journaled, Nothing
<1>16. CASE RestoreFails
  BY <1>16, <1>a, Sentinels
  DEF RestoreFails, TypeOK, CryptTypeOK, cryptVars, Bookkeeping, PC
<1>17. ASSUME NEW r \in Reserve, NEW n \in Reserve, BeginVacuum(r, n)
       PROVE  TypeOK' /\ Bookkeeping'
  <2>1. Seal(current) \in Encryptor /\ Seal(transformation) \in Encryptor
    BY <1>c, SealType DEF CryptStateOK
  <2> QED
    BY <1>17, <2>1
    DEF BeginVacuum, TypeOK, CryptTypeOK, cryptVars, Bookkeeping, Journaled, PC
<1>18. CASE Vacuum
  BY <1>18, <1>17, CryptAssumption DEF Vacuum, TypeOK
<1>19. CASE VacuumPage
  <2>1. PICK p \in todo :
          /\ cache[p] \in Image
          /\ Modify(p, [cache[p] EXCEPT !.res = Larger(want, @)])
          /\ todo' = todo \ {p}
    BY <1>19 DEF VacuumPage
  <2>2. p \in Page /\ [cache[p] EXCEPT !.res = Larger(want, @)] \in Image
    BY <2>1 DEF TypeOK, Larger, Image
  <2>3. [cache[p] EXCEPT !.res = Larger(want, @)] \notin Undecoded
    BY <2>2, Disjoint
  <2> QED
    BY <1>19, <2>1, <2>2, <2>3, <1>m
    DEF VacuumPage, TypeOK, CryptTypeOK, cryptVars, Bookkeeping
<1>20. ASSUME NEW n \in Reserve, NEW b \in BOOLEAN, SetReservedSize(n, b)
       PROVE  TypeOK' /\ Bookkeeping'
  <2> DEFINE m == Larger(want, IF cache[1] # NoImage THEN cache[1].res ELSE disk[1].res)
  <2>1. m \in Reserve
    BY CryptAssumption, PageType DEF TypeOK, CryptTypeOK, Larger, Stored
  <2>2. CASE BeginVacuum(n, m)
    BY <2>1, <2>2, <1>17
  <2>3. CASE ~BeginVacuum(n, m)
    BY <1>20, <2>3
    DEF SetReservedSize, TypeOK, CryptTypeOK, cryptVars, Bookkeeping, Journaled
  <2> QED
    BY <2>2, <2>3
<1>21. CASE Close \/ Crash
  <2>1. CryptStateOK'
    BY <1>21, <1>c, CryptStateStep DEF Close, Crash, LoseConnection
  <2>2. /\ AbandonJournal
        /\ pc' = "closed" /\ want' = 0 /\ resetTo' = NotVacuum
        /\ stage' = "config" /\ UNCHANGED <<disk, known>>
    BY <1>21 DEF Close, Crash, LoseConnection
  <2>3. TypeOK'
    BY <1>a, <2>1, <2>2, CryptAssumption
    DEF TypeOK, CryptTypeOK, CryptStateOK, PC, Stage
  <2>4. Bookkeeping'
    BY <1>a, <2>2, Sentinels DEF Bookkeeping
  <2> QED
    BY <2>3, <2>4
<1> QED
  BY <1>0, <1>1, <1>2, <1>3, <1>4, <1>5, <1>6, <1>7, <1>8, <1>9, <1>10, <1>11, <1>12,
     <1>13, <1>14, <1>15, <1>16, <1>18, <1>19, <1>20, <1>21
  DEF Next, Step, LibraryStep

\* Every reachable state is well typed, and a commit or rollback always finds the
\* page it has to write in the cache or in the journal.
THEOREM TypeCorrect == Spec => [](TypeOK /\ Bookkeeping)
<1>1. Init => TypeInv
  BY InitType
<1>2. TypeInv /\ [Next]_vars => TypeInv'
  BY TypeStep
<1> QED
  BY <1>1, <1>2, PTL DEF Spec, TypeInv

\* In particular every page of the file, the cache and the journal is one.
THEOREM TypeOKAlways == Spec => []TypeOK
BY TypeCorrect, PTL

-----------------------------------------------------------------------------
(* A careful application never loses the key of its database, unless it      *)
(* re-encrypts with a cache that spills (run rekey_spill shows that it may). *)

\* A file left by a completed session is under the one known encryptor.
LEMMA InitKey == Init => KeyInv
<1> SUFFICES ASSUME Init PROVE KeyInv
  OBVIOUS
<1>1. StoredKeys
  BY SentinelAssumption DEF Init, Nothing, StoredKeys, OneEncryptor, ClientInv
<1>2. Legible
  BY Sentinels, CryptAssumption DEF Init, Nothing, Legible
<1> QED
  BY <1>1, <1>2 DEF KeyInv

\* A careful application works on page images only, once it has found its key.
LEMMA CarefulDecoded ==
  ASSUME TypeInv, KeyInv
  PROVE  /\ stage # "config" => \A p \in Page : cache[p] \in Image \cup {NoImage}
         /\ \A p \in Page : journal[p] \in Image \cup {NoImage}
         /\ \A p \in dirty : p \in Page /\ cache[p] \in Image
         /\ \A p \in Journaled : p \in Page /\ journal[p] \in Image
<1>1. TypeOK /\ Bookkeeping /\ ClientInv /\ Legible
  BY DEF TypeInv, KeyInv, StoredKeys
<1>2. stage # "config" => \A p \in Page : cache[p] \in Image \cup {NoImage}
  BY <1>1 DEF TypeOK, Legible
<1>3. \A p \in Page : journal[p] \in Image \cup {NoImage}
  BY <1>1 DEF TypeOK, Legible
<1>4. dirty # {} => stage # "config"
  BY <1>1 DEF Bookkeeping, ClientInv
<1>5. \A p \in dirty : p \in Page /\ cache[p] \in Image
  BY <1>1, <1>2, <1>4 DEF TypeOK, Bookkeeping
<1> QED
  BY <1>2, <1>3, <1>5 DEF Journaled

\* Every step of a careful application and of the pager keeps the stored pages
\* under one known encryptor, or all of the others in the journal.
LEMMA StoredKeysStep ==
  ASSUME Client = "careful", \A m \in Setups : ~(m.spill /\ m.rekey),
         TypeInv, KeyInv, [Next]_vars
  PROVE  StoredKeys'
<1> USE DEF pagerVars, clientVars
<1>s. setup' = setup
  BY DEF Next, vars
<1> USE <1>s
<1>t. TypeOK /\ Bookkeeping /\ CryptTypeOK
  BY DEF TypeInv, TypeOK
<1>l. StoredKeys /\ Legible
  BY DEF KeyInv
<1>k. OneEncryptor /\ ClientInv
  BY <1>l DEF StoredKeys
<1>d. /\ \A p \in dirty : cache[p] \in Image
      /\ \A p \in Journaled : journal[p] \in Image
  BY CarefulDecoded
<1>0. CASE UNCHANGED vars
  BY <1>0, <1>l DEF vars, cryptVars, StoredKeys, OneEncryptor, ClientInv,
     StoredAsWritten, write_encryptor
<1>1. ASSUME NEW k \in Key \cup {Malformed},
             NEW c \in Cipher \cup {NullCipher, Malformed}, Open(k, c)
      PROVE  StoredKeys'
  BY <1>1, <1>l DEF Open, Construct, StoredKeys, OneEncryptor, ClientInv
<1>2. ASSUME NEW v, SetKey(v) \/ SetCipher(v)
      PROVE  StoredKeys'
  BY <1>2, <1>l DEF SetKey, SetCipher, MayConfigure, PragmaKey, PragmaCipher,
     StoredKeys, OneEncryptor, ClientInv
<1>3. CASE StartTransformation
  BY <1>3, <1>l, <1>t
  DEF StartTransformation, PragmaTransformation, Hot, StoredKeys, OneEncryptor,
      ClientInv, cryptVars
<1>4. CASE EndTransformation
  BY <1>4, <1>l, <1>t
  DEF EndTransformation, PragmaTransformation, StoredKeys, OneEncryptor, ClientInv,
      cryptVars,
      StoredAsWritten, write_encryptor
<1>r. ASSUME NEW p \in Page, read(p) \in Image
      PROVE  disk[p].enc = Seal(current)
  <2>1. disk[p] \in Stored /\ read(p) # NotADb /\ read(p) \notin Undecoded
    BY <1>r, <1>t, Sentinels, Disjoint DEF CryptTypeOK
  <2> QED
    BY <2>1 DEF read, decode_page, Undecoded, Seal
<1>5. ASSUME NEW p \in Page, ReadPage(p)
      PROVE  StoredKeys'
  <2>1. CASE stage = "config" /\ read(p) \in Image
    <3>1. disk[p].enc = Seal(current)
      BY <1>r, <2>1
    <3>2. pc = "idle" /\ synced = {} /\ ~transform
      BY <1>5, <1>k, <2>1 DEF ReadPage, ClientInv, Hot
    <3>3. \A q \in Page : disk[q].enc = Seal(current)
      BY <1>k, <3>1, <3>2 DEF OneEncryptor
    <3> QED
      BY <1>5, <1>l, <2>1, <3>2, <3>3
      DEF ReadPage, cryptVars, StoredKeys, OneEncryptor, ClientInv
  <2>2. CASE ~(stage = "config" /\ read(p) \in Image)
    BY <1>5, <1>l, <1>t, <2>2
    DEF ReadPage, cryptVars, TypeOK, StoredKeys, OneEncryptor, ClientInv,
        StoredAsWritten, write_encryptor
  <2> QED
    BY <2>1, <2>2
<1>6. ASSUME NEW p \in Page, SpillPage(p)
      PROVE  StoredKeys'
  <2>1. ~setup.rekey /\ stage = "using" /\ ~transform
    BY <1>6, <1>k, <1>t DEF SpillPage, ClientInv, TypeOK, Stage
  <2>2. cache[p] \in Image
    BY <1>6, <1>d DEF SpillPage
  <2>3. \A q \in Page : disk'[q].enc = Seal(current)
    BY <1>6, <1>l, <1>t, <2>1, <2>2, WriteType DEF SpillPage, StoredKeys,
       write_encryptor
  <2> QED
    BY <1>6, <1>l, <2>1, <2>3 DEF SpillPage, cryptVars, StoredKeys, OneEncryptor,
       ClientInv
<1>7. ASSUME NEW p \in Page, EvictPage(p)
      PROVE  StoredKeys'
  BY <1>7, <1>l, <1>t, SentinelAssumption
  DEF EvictPage, TypeOK, cryptVars, StoredKeys, OneEncryptor, ClientInv,
      StoredAsWritten, write_encryptor
<1>8. ASSUME NEW p \in Page, NEW v \in Value, WritePage(p, v)
      PROVE  StoredKeys'
  BY <1>8, <1>l, <1>t DEF WritePage, MayModify, Hot, Modify, cryptVars, StoredKeys,
     OneEncryptor, ClientInv
<1>9. CASE StartCommit
  <2>1. /\ \A p \in Page : disk[p].enc = Seal(current)
        /\ stage \in {"using", "rekey"}
        /\ Seal(current) \in known
    BY <1>9, <1>l, <1>t DEF StartCommit, StoredKeys, ClientInv, TypeOK, Stage
  <2>2. todo' = dirty \cup {1} /\ synced' = Journaled \cup {1} /\ todo' \subseteq synced'
    BY <1>9, <1>t DEF StartCommit, Modify, Bookkeeping
  <2>3. CASE stage = "using"
    BY <1>9, <1>l, <2>1, <2>2, <2>3
    DEF StartCommit, cryptVars, StoredKeys, OneEncryptor, ClientInv, StoredAsWritten,
        write_encryptor
  <2>4. CASE stage = "rekey"
    <3>1. pc = "vacuum" /\ todo = {}
      BY <1>9, <1>k, <2>4 DEF StartCommit, ClientInv
    <3>2. Page \subseteq dirty /\ dirty \subseteq Page
      BY <1>t, <1>l, <2>4, <3>1 DEF StoredKeys, TypeOK
    <3>3. todo' = Page /\ synced' = Page
      <4>1. Journaled \subseteq Page /\ dirty \subseteq Journaled
        BY <1>t DEF Bookkeeping, Journaled
      <4> QED
        BY <2>2, <3>2, <4>1, CryptAssumption
    <3> QED
      BY <1>9, <1>l, <2>1, <2>2, <2>4, <3>3
      DEF StartCommit, cryptVars, StoredKeys, OneEncryptor, ClientInv
  <2> QED
    BY <2>1, <2>3, <2>4
<1>10. CASE CommitPage
  <2>1. PICK p \in todo :
          write(p, cache[p]) /\ todo' = todo \ {p} /\ dirty' = dirty \ {p}
    BY <1>10 DEF CommitPage
  <2>2. p \in Page /\ p \in synced /\ cache[p] \in Image
    BY <1>10, <1>t, <1>l, <1>d, <2>1 DEF CommitPage, Bookkeeping, TypeOK, StoredKeys
  <2>3. /\ disk'[p].enc = Seal(write_encryptor)
        /\ \A q \in Page \ {p} : disk'[q] = disk[q]
    BY <1>t, <2>1, <2>2, WriteType
  <2>4. OneEncryptor'
    BY <1>10, <1>k, <2>2, <2>3 DEF CommitPage, OneEncryptor
  <2>5. \A q \in Page \ todo' : StoredAsWritten(q)'
    BY <1>10, <1>l, <2>1, <2>3 DEF CommitPage, cryptVars, StoredKeys, StoredAsWritten,
       write_encryptor
  <2> QED
    BY <1>10, <1>l, <1>t, <2>1, <2>4, <2>5 DEF CommitPage, cryptVars, StoredKeys,
       ClientInv
<1>11. CASE CommitDone
  <2>1. \A p \in Page : StoredAsWritten(p)
    BY <1>11, <1>l DEF CommitDone, StoredKeys
  <2>2. stage \in {"using", "rekey"} /\ Seal(write_encryptor) \in known
    BY <1>11, <1>k, <1>t DEF CommitDone, ClientInv, write_encryptor, TypeOK, Stage
  <2>3. OneEncryptor'
    BY <1>11, <2>1, <2>2 DEF CommitDone, OneEncryptor, StoredAsWritten
  <2>4. ClientInv'
    BY <1>11, <1>k, <2>2 DEF CommitDone, cryptVars, ClientInv, write_encryptor
  <2>5. \A p \in Page : StoredAsWritten(p)'
    BY <1>11, <2>1 DEF CommitDone, cryptVars, StoredAsWritten, write_encryptor
  <2> QED
    BY <1>11, <1>l, <2>3, <2>4, <2>5 DEF CommitDone, StoredKeys
<1>12. CASE CommitFails
  <2>1. todo' = Journaled /\ synced \subseteq Journaled /\ synced \subseteq Page
    BY <1>12, <1>t DEF CommitFails, TransactionFails, Bookkeeping, TypeOK
  <2> QED
    BY <1>12, <1>l, <1>t, <2>1
    DEF CommitFails, TransactionFails, cryptVars, StoredKeys, OneEncryptor, ClientInv,
        StoredAsWritten, write_encryptor, TypeOK, Stage
<1>22. CASE Rollback
  BY <1>22, <1>l, <1>t
  DEF Rollback, TransactionFails, cryptVars, StoredKeys, OneEncryptor, ClientInv,
      StoredAsWritten, write_encryptor, TypeOK, Stage
<1>13. CASE StartPlayback
  <2>1. stage \in {"config", "using"} /\ ~transform /\ Seal(current) \in known
    BY <1>13, <1>l, <1>t DEF StartPlayback, MayAccess, Hot, StoredKeys, ClientInv
  <2>2. \A p \in Page \ synced : disk[p].enc = Seal(current)
    BY <1>13, <1>l, <2>1 DEF StartPlayback, Hot, StoredKeys, OneEncryptor
  <2> QED
    BY <1>13, <1>l, <1>t, <2>1, <2>2, SentinelAssumption
    DEF StartPlayback, Nothing, cryptVars, StoredKeys, OneEncryptor, ClientInv,
        StoredAsWritten, write_encryptor
<1>14. CASE RestorePage
  <2>1. PICK p \in todo :
          /\ IF p \in synced THEN write(p, journal[p]) ELSE UNCHANGED disk
          /\ cache' = [cache EXCEPT ![p] = IF @ = NoImage THEN @ ELSE journal[p]]
          /\ todo' = todo \ {p}
    BY <1>14 DEF RestorePage
  <2>2. p \in Page /\ journal[p] \in Image
    BY <1>14, <1>t, <1>d, <2>1 DEF RestorePage, Bookkeeping, TypeOK
  <2>3. /\ p \in synced => disk'[p].enc = Seal(write_encryptor)
        /\ p \notin synced => disk'[p] = disk[p]
        /\ \A q \in Page \ {p} : disk'[q] = disk[q]
    BY <1>t, <2>1, <2>2, WriteType
  <2>4. OneEncryptor'
    BY <1>14, <1>k, <2>3 DEF RestorePage, OneEncryptor
  <2>5. ClientInv'
    BY <1>14, <1>k, <1>t, <2>1, SentinelAssumption
    DEF RestorePage, cryptVars, ClientInv, Bookkeeping, TypeOK
  <2>6. write_encryptor' = write_encryptor
    BY <1>14 DEF RestorePage, cryptVars, write_encryptor
  <2>7. pc = "playback" => \A q \in Page \ todo' : StoredAsWritten(q)'
    BY <1>14, <1>l, <2>1, <2>2, <2>3, <2>6 DEF StoredKeys, StoredAsWritten
  <2>8. pc = "rollback" /\ synced # {} =>
          \A q \in Page \ (todo' \cap synced) : StoredAsWritten(q)'
    BY <1>l, <2>1, <2>2, <2>3, <2>6 DEF StoredKeys, StoredAsWritten
  <2> QED
    BY <1>14, <1>l, <2>4, <2>5, <2>7, <2>8 DEF RestorePage, StoredKeys, ClientInv
<1>15. CASE RestoreDone
  <2>1. pc = "playback" \/ synced # {} => \A p \in Page : StoredAsWritten(p)
    BY <1>15, <1>l DEF RestoreDone, StoredKeys
  <2>2. Seal(write_encryptor) \in known
    BY <1>15, <1>k, <1>t DEF RestoreDone, ClientInv, write_encryptor, TypeOK, Stage
  <2>3. \E e \in known : \A p \in Page : disk[p].enc = e
    BY <1>15, <1>k, <2>1, <2>2 DEF RestoreDone, OneEncryptor, StoredAsWritten
  <2> QED
    BY <1>15, <1>l, <1>t, <2>3 DEF RestoreDone, cryptVars, StoredKeys, OneEncryptor,
       ClientInv
<1>16. CASE RestoreFails
  BY <1>16, <1>l, <1>t, SentinelAssumption
  DEF RestoreFails, AbandonJournal, Nothing, TypeOK, cryptVars, StoredKeys,
      OneEncryptor, ClientInv, StoredAsWritten, write_encryptor
<1>17. ASSUME NEW r \in Reserve, NEW n \in Reserve, BeginVacuum(r, n)
       PROVE  StoredKeys'
  <2>1. stage \in {"using", "rekey"} /\ synced = {} /\ known = {Seal(current)}
    BY <1>17, <1>k, <1>l, CryptAssumption
    DEF BeginVacuum, MayAccess, SchemaRead, Hot, ClientInv, Legible
  <2>2. \A p \in Page : disk[p].enc = Seal(current)
    BY <1>k, <2>1 DEF OneEncryptor
  <2> QED
    BY <1>17, <1>l, <1>t, <2>1, <2>2
    DEF BeginVacuum, cryptVars, TypeOK, StoredKeys, OneEncryptor, ClientInv
<1>18. CASE Vacuum
  BY <1>18, <1>17, <1>t, CryptAssumption DEF Vacuum, TypeOK
<1>19. CASE VacuumPage
  BY <1>19, <1>l, <1>t DEF VacuumPage, Modify, cryptVars, StoredKeys, OneEncryptor,
     ClientInv, StoredAsWritten, write_encryptor
<1>20. ASSUME NEW n \in Reserve, NEW b \in BOOLEAN, SetReservedSize(n, b)
       PROVE  StoredKeys'
  <2> DEFINE m == Larger(want, IF cache[1] # NoImage THEN cache[1].res ELSE disk[1].res)
  <2>1. m \in Reserve
    BY <1>t, CryptAssumption, PageType DEF TypeOK, CryptTypeOK, Larger, Stored
  <2>2. CASE BeginVacuum(n, m)
    BY <2>1, <2>2, <1>17
  <2>3. CASE ~BeginVacuum(n, m)
    BY <1>20, <1>l, <2>3
    DEF SetReservedSize, cryptVars, StoredKeys, OneEncryptor, ClientInv,
        StoredAsWritten, write_encryptor
  <2> QED
    BY <2>2, <2>3
<1>21. CASE Close \/ Crash
  BY <1>21, <1>l, <1>t, SentinelAssumption
  DEF Close, Crash, LoseConnection, AbandonJournal, Nothing, Destroy, StoredKeys,
      OneEncryptor, ClientInv
<1> QED
  BY <1>0, <1>1, <1>2, <1>3, <1>4, <1>5, <1>6, <1>7, <1>8, <1>9, <1>10, <1>11, <1>12,
     <1>13, <1>14, <1>15, <1>16, <1>18, <1>19, <1>20, <1>21, <1>22
  DEF Next, Step, LibraryStep

\* A careful application reads ciphertext only as page 1 and before it has found its
\* key, and changes no page before it has.
LEMMA LegibleStep ==
  ASSUME Client = "careful", TypeInv, KeyInv, [Next]_vars
  PROVE  Legible'
<1> USE DEF pagerVars, clientVars
<1>t. TypeOK /\ Bookkeeping /\ CryptTypeOK
  BY DEF TypeInv, TypeOK
<1>l. StoredKeys /\ Legible /\ ClientInv
  BY DEF KeyInv, StoredKeys
<1>d. /\ stage # "config" => \A p \in Page : cache[p] \in Image \cup {NoImage}
      /\ \A p \in Page : journal[p] \in Image \cup {NoImage}
  BY CarefulDecoded
<1>n. \A p \in Page : Nothing[p] = NoImage
  BY DEF Nothing
\* Steps that leave cache and journal alone and do not return to the configuration.
<1>u. ASSUME UNCHANGED <<cache, journal>>, stage' = "config" <=> stage = "config"
      PROVE  Legible'
  BY <1>u, <1>l DEF Legible
<1>0. CASE UNCHANGED vars
  BY <1>0, <1>u DEF vars
<1>1. ASSUME NEW k, NEW c, Open(k, c)
      PROVE  Legible'
  BY <1>1, <1>u DEF Open
<1>2. ASSUME NEW v, SetKey(v) \/ SetCipher(v)
      PROVE  Legible'
  BY <1>2, <1>u DEF SetKey, SetCipher
<1>3. CASE StartTransformation \/ EndTransformation
  BY <1>3, <1>u DEF StartTransformation, EndTransformation
<1>5. ASSUME NEW p \in Page, ReadPage(p)
      PROVE  Legible'
  <2>1. /\ cache' = [cache EXCEPT ![p] = read(p)]
        /\ cache'[p] = read(p)
        /\ \A q \in Page \ {p} : cache'[q] = cache[q]
        /\ journal' = journal
    BY <1>5, <1>t DEF ReadPage, TypeOK
  <2>2. read(p) \in Image \cup Undecoded
    BY <1>5, <1>t, ReadType DEF ReadPage
  <2>3. CASE stage = "config"
    <3>1. p = 1
      BY <1>5, <1>l, <2>3 DEF ReadPage, SchemaRead, Legible
    <3>2. CASE read(p) \in Image
      <4>1. stage' = "using" /\ read(p) \notin Undecoded
        BY <1>5, <2>3, <3>2, Disjoint DEF ReadPage
      <4> QED
        BY <1>l, <2>1, <2>3, <3>1, <4>1, Sentinels DEF Legible
    <3>3. CASE read(p) \notin Image
      <4>1. stage' = "config"
        BY <1>5, <2>3, <3>3 DEF ReadPage
      <4> QED
        BY <1>l, <2>1, <2>3, <3>1, <3>3, <4>1 DEF Legible
    <3> QED
      BY <3>2, <3>3
  <2>4. CASE stage # "config"
    <3>1. stage' = stage /\ stage \in {"using", "rekey"} /\ pc # "closed"
      BY <1>5, <2>4 DEF ReadPage, MayAccess
    <3>2. disk[p].enc = Seal(current)
      <4>1. CASE pc = "idle"
        <5>1. synced = {} /\ known = {Seal(current)}
          BY <1>5, <1>l, <3>1, <4>1 DEF ReadPage, Hot, ClientInv
        <5> QED
          BY <1>l, <5>1 DEF StoredKeys, OneEncryptor
      <4>2. CASE pc # "idle"
        BY <1>5, <1>l, <4>2 DEF ReadPage, StoredKeys
      <4> QED
        BY <4>1, <4>2
    <3>3. disk[p] \in Stored
      BY <1>t DEF CryptTypeOK
    <3>4. read(p) \in Image
      BY <1>5, <3>2, <3>3 DEF ReadPage, read, decode_page, Stored, Image
    <3> QED
      BY <1>l, <2>1, <2>4, <3>1, <3>4, Disjoint DEF Legible
  <2> QED
    BY <2>3, <2>4
<1>6. ASSUME NEW p \in Page, SpillPage(p)
      PROVE  Legible'
  BY <1>6, <1>u DEF SpillPage
<1>7. ASSUME NEW p \in Page, EvictPage(p)
      PROVE  Legible'
  BY <1>7, <1>l, <1>t, Sentinels DEF EvictPage, Legible, TypeOK
<1>m. ASSUME NEW p \in Page, NEW img \in Image, Modify(p, img),
             stage # "config", stage' = stage
      PROVE  Legible'
  <2>1. \A q \in Page : journal'[q] \in Image \cup {NoImage}
    BY <1>m, <1>d, <1>t DEF Modify, TypeOK
  <2>2. \A q \in Page : cache'[q] \in Image \cup {NoImage}
    BY <1>m, <1>d, <1>t DEF Modify, TypeOK
  <2> QED
    BY <1>m, <2>1, <2>2, Disjoint, Sentinels DEF Legible
<1>8. ASSUME NEW p \in Page, NEW v \in Value, WritePage(p, v)
      PROVE  Legible'
  <2>1. stage = "using" /\ stage' = stage
    BY <1>8 DEF WritePage, MayModify
  <2>2. cache[p] # NoImage /\ cache[p] \in Image /\ cache[1] \in Image
    BY <1>8, <1>d, <2>1, CryptAssumption DEF WritePage, Modify
  <2>3. Changed(p, v) = [val |-> v, res |-> cache[p].res]
    BY <2>2, Disjoint DEF Changed
  <2>4. Changed(p, v) \in Image
    BY <2>2, <2>3 DEF Image, Content
  <2> QED
    BY <1>8, <1>m, <2>1, <2>4 DEF WritePage
<1>9. CASE StartCommit
  <2>1. stage # "config" /\ stage' = stage
    BY <1>9, <1>l DEF StartCommit, ClientInv
  <2>2. Modify(1, cache[1]) /\ cache[1] \in Image
    BY <1>9, <1>d, <2>1, CryptAssumption DEF StartCommit, Modify
  <2> QED
    BY <1>m, <2>1, <2>2, CryptAssumption
<1>10. CASE CommitPage
  BY <1>10, <1>u DEF CommitPage
<1>11. CASE CommitDone
  BY <1>11, <1>l, <1>n, Sentinels DEF CommitDone, Legible
<1>12. CASE CommitFails \/ Rollback
  BY <1>12, <1>u DEF CommitFails, Rollback, TransactionFails
<1>13. CASE StartPlayback
  BY <1>13, <1>l, <1>n, Sentinels, CryptAssumption DEF StartPlayback, Legible
<1>14. CASE RestorePage
  <2>1. PICK p \in todo :
          cache' = [cache EXCEPT ![p] = IF @ = NoImage THEN @ ELSE journal[p]]
    BY <1>14 DEF RestorePage
  <2>2. stage' = stage /\ journal' = journal
    BY <1>14 DEF RestorePage
  <2>3. CASE stage = "config"
    <3>1. \A q \in Page : cache[q] = NoImage
      BY <1>14, <1>l, <1>t, <2>3 DEF RestorePage, ClientInv, Bookkeeping
    <3>2. \A q \in Page : cache'[q] = NoImage
      BY <2>1, <3>1, <1>t DEF TypeOK
    <3> QED
      BY <1>l, <2>2, <2>3, <3>2, Sentinels, CryptAssumption DEF Legible
  <2>4. CASE stage # "config"
    <3>1. \A q \in Page : cache'[q] \in Image \cup {NoImage}
      BY <1>d, <2>1, <2>4, <1>t DEF TypeOK
    <3> QED
      BY <1>l, <2>2, <2>4, <3>1, Disjoint, Sentinels DEF Legible
  <2> QED
    BY <2>3, <2>4
<1>15. CASE RestoreDone
  BY <1>15, <1>l, <1>n, Sentinels DEF RestoreDone, Legible
<1>a. ASSUME AbandonJournal
      PROVE  Legible'
  <2>1. \A p \in Page : cache'[p] = NoImage /\ journal'[p] \in Image \cup {NoImage}
    BY <1>a, <1>d, <1>n DEF AbandonJournal
  <2> QED
    BY <2>1, Disjoint, Sentinels, CryptAssumption DEF Legible
<1>16. CASE RestoreFails
  BY <1>16, <1>a DEF RestoreFails
<1>17. ASSUME NEW r, NEW n, BeginVacuum(r, n)
       PROVE  Legible'
  BY <1>17, <1>u DEF BeginVacuum
<1>18. CASE Vacuum
  BY <1>18, <1>17 DEF Vacuum
<1>19. CASE VacuumPage
  <2>1. PICK p \in todo :
          cache[p] \in Image /\ Modify(p, [cache[p] EXCEPT !.res = Larger(want, @)])
    BY <1>19 DEF VacuumPage
  <2>2. p \in Page /\ [cache[p] EXCEPT !.res = Larger(want, @)] \in Image
    BY <2>1, <1>t DEF TypeOK, Larger, Image
  <2>3. stage # "config" /\ stage' = stage
    BY <1>19, <1>l DEF VacuumPage, ClientInv
  <2> QED
    BY <1>m, <2>1, <2>2, <2>3
<1>20. ASSUME NEW n, NEW b, SetReservedSize(n, b)
       PROVE  Legible'
  BY <1>20, <1>u, <1>17 DEF SetReservedSize
<1>21. CASE Close \/ Crash
  BY <1>21, <1>a DEF Close, Crash, LoseConnection
<1> QED
  BY <1>0, <1>1, <1>2, <1>3, <1>5, <1>6, <1>7, <1>8, <1>9, <1>10, <1>11, <1>12,
     <1>13, <1>14, <1>15, <1>16, <1>18, <1>19, <1>20, <1>21
  DEF Next, Step, LibraryStep

\* A careful application and the pager keep both together.
LEMMA KeyStep ==
  ASSUME Client = "careful", \A m \in Setups : ~(m.spill /\ m.rekey),
         TypeInv, KeyInv, [Next]_vars
  PROVE  KeyInv'
BY StoredKeysStep, LegibleStep DEF KeyInv

\* A careful application knows at every moment under which encryptors which pages
\* are stored, and which of them a journal will restore.
THEOREM KeyInvariant ==
  ASSUME Client = "careful", \A m \in Setups : ~(m.spill /\ m.rekey)
  PROVE  Spec => []KeyInv
<1>1. Init => TypeInv /\ KeyInv
  BY InitType, InitKey
<1>2. TypeInv /\ KeyInv /\ [Next]_vars => (TypeInv /\ KeyInv)'
  <2>1. TypeInv /\ [Next]_vars => TypeInv'
    BY TypeStep
  <2>2. TypeInv /\ KeyInv /\ [Next]_vars => KeyInv'
    BY KeyStep
  <2> QED
    BY <2>1, <2>2
<1> QED
  BY <1>1, <1>2, PTL DEF Spec

\* An application that keeps to the documented order of calls can always read its
\* database again with an encryptor it knows.
THEOREM KeyNeverLost ==
  ASSUME Client = "careful", \A m \in Setups : ~(m.spill /\ m.rekey)
  PROVE  Spec => []OneEncryptor
<1>1. KeyInv => OneEncryptor
  BY DEF KeyInv, StoredKeys
<1> QED
  BY <1>1, KeyInvariant, PTL
=============================================================================
