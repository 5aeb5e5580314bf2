------------------------------ MODULE CryptFile ------------------------------
(***************************************************************************)
(* The encrypting page file of ysqlite3: Crypt_file<SQLite3_file_wrapper>  *)
(* (vfs/crypt_file.hpp) on top of Page_transforming_file                   *)
(* (vfs/page_transforming_file.hpp).                                       *)
(*                                                                         *)
(* SQLite hands whole pages of the main database to write() and read();    *)
(* write() stores what encode_page makes of the page, read() returns what  *)
(* decode_page makes of the stored one.  The page image SQLite works on is *)
(* a value laid out with `res' reserved bytes at its end.  AES-GCM is      *)
(* ideal here: a page decodes under exactly the (cipher, key) pair that    *)
(* encoded it.  The first 100 bytes of page 1, the reserve byte among      *)
(* them, are never encoded, so the `res' of a stored page 1 is readable by *)
(* anyone.                                                                 *)
(***************************************************************************)
EXTENDS Naturals

CONSTANTS
  Page,        \* page numbers of the main database; page 1 holds the header
  Value,       \* page contents
  Key,         \* derived 32-byte keys; ZeroKey is the initial all-zero array
  ZeroKey,
  Cipher,      \* the supported ciphers (aes-*-gcm)
  NullCipher,  \* Encryptor::cipher == nullptr
  Reserve,     \* reserve sizes a database may be laid out with
  Malformed,   \* a pragma value the handler rejects; also: URI parameter absent
  Damaged,     \* content whose last 32 bytes were overwritten by IV and tag
  NoImage,     \* no page image here (uncached, not journaled)
  NotADb       \* decode_page threw SQLite3_code::not_a_database

\* `constexpr crypt_file_reserve_size()': 12 bytes of IV, 16 of tag, 4 unused.
crypt_file_reserve_size == 32

\* The library's facts about its constants: 32 bytes of meta data fit a page's
\* reserve, page 1 exists, and the sentinels are none of the ordinary values.
ASSUME CryptAssumption ==
  /\ Page \subseteq Nat \ {0}
  /\ 1 \in Page
  /\ ZeroKey \in Key
  /\ NullCipher \notin Cipher
  /\ Malformed \notin Key \cup Cipher \cup {NullCipher}
  /\ Reserve \subseteq 0..255
  /\ {0, crypt_file_reserve_size} \subseteq Reserve
  /\ Damaged \notin Value

\* struct Encryptor: a cipher (or nullptr) and a key.
Encryptor == [cipher : Cipher \cup {NullCipher}, key : Key]
NoEncryptor == [cipher |-> NullCipher, key |-> ZeroKey]

Content == Value \cup {Damaged}
\* A page image in the clear, and a page as it is stored.
Image == [val : Content, res : Reserve]
Stored == [enc : Encryptor, val : Content, res : Reserve]
\* Ciphertext that was taken for a page image as there was no cipher to decode it.
Undecoded == {s \in Stored : s.enc # NoEncryptor}

\* The sentinels are not page images.
ASSUME SentinelAssumption ==
  /\ NoImage \notin Image \cup Stored
  /\ NotADb \notin Image \cup Stored
  /\ NoImage # NotADb

VARIABLES
  current,         \* Crypt_file::_current
  transformation,  \* Crypt_file::_transformation
  transform,       \* Crypt_file::_transform
  disk             \* the pages in the parent file

cryptVars == <<current, transformation, transform>>

-----------------------------------------------------------------------------
\* With no cipher a page is stored as it is, whatever the key.
Seal(e) == IF e.cipher = NullCipher THEN NoEncryptor ELSE e

\* Mutant: re-encryption goes on writing with the old encryptor.
write_encryptor_AlwaysCurrent == current

\* What encode_page writes and pragmas configure: `_transform ? _transformation
\* : _current'.
write_encryptor == IF transform THEN transformation ELSE current

\* Mutant: IV and tag need one byte more than is reserved.
encode_page_ReserveOffByOne(img, e) ==
  IF e.cipher = NullCipher /\ img \in Undecoded THEN img
  ELSE [enc |-> Seal(e),
        val |-> IF \/ e.cipher = NullCipher
                   \/ img.res > crypt_file_reserve_size /\ img \notin Undecoded
                THEN img.val ELSE Damaged,
        res |-> img.res]

\* encode_page: the last 32 bytes of the page become IV and tag.  What was there
\* is lost: content if the page is laid out with a smaller reserve, the IV and tag
\* that are needed to decode it if the page is ciphertext itself.  With no cipher
\* ciphertext is stored as it was.
encode_page(img, e) ==
  IF e.cipher = NullCipher /\ img \in Undecoded THEN img
  ELSE [enc |-> Seal(e),
        val |-> IF \/ e.cipher = NullCipher
                   \/ img.res >= crypt_file_reserve_size /\ img \notin Undecoded
                THEN img.val ELSE Damaged,
        res |-> img.res]

\* decode_page: always under _current; without a cipher the bytes are taken as
\* they are, with one the tag must match.
decode_page(s, e) ==
  IF s.enc = Seal(e) THEN [val |-> s.val, res |-> s.res]
  ELSE IF e.cipher = NullCipher THEN s ELSE NotADb

\* Mutant: the reserve is checked against the encryptor that reads.
check_reserve_size_OfCurrent(size) ==
  \/ current.cipher = NullCipher
  \/ size = crypt_file_reserve_size

\* check_reserve_size, asked for the reserve byte of page 1 on read and write.
check_reserve_size(size) ==
  \/ write_encryptor.cipher = NullCipher
  \/ size = crypt_file_reserve_size

\* read(): the parent's bytes, decoded, then _parse_parameters on page 1.
read(p) ==
  IF p = 1 /\ ~check_reserve_size(disk[p].res)
  THEN NotADb
  ELSE decode_page(disk[p], current)

\* write(): _parse_parameters may refuse page 1 before anything is written ...
WriteRefused(p, img) == p = 1 /\ ~check_reserve_size(img.res)

\* ... otherwise the encoded copy goes to the parent file.
write(p, img) ==
  /\ ~WriteRefused(p, img)
  /\ disk' = [disk EXCEPT ![p] = encode_page(img, write_encryptor)]

-----------------------------------------------------------------------------
\* Mutant: an unknown cipher name is taken over.
_set_chiper_Unvalidated(value, e) == [e EXCEPT !.cipher = value]

\* _generate_key and _set_chiper: a rejected value leaves the encryptor alone.
_generate_key(value, e) == IF value \in Key THEN [e EXCEPT !.key = value] ELSE e
_set_chiper(value, e) ==
  IF value \in Cipher \cup {NullCipher} THEN [e EXCEPT !.cipher = value] ELSE e

\* The constructor applies the URI parameters key and cipher to _current.
Construct(key, cipher) ==
  /\ current' = _set_chiper(cipher, _generate_key(key, NoEncryptor))
  /\ transformation' = NoEncryptor
  /\ transform' = FALSE

\* ~Crypt_file: both keys are wiped with the object.
Destroy ==
  /\ current' = NoEncryptor
  /\ transformation' = NoEncryptor
  /\ transform' = FALSE

\* file_control(pragma): PRAGMA key and PRAGMA cipher configure the encryptor
\* that is being written with.
PragmaKey(value) ==
  /\ IF transform
     THEN /\ transformation' = _generate_key(value, transformation)
          /\ UNCHANGED current
     ELSE /\ current' = _generate_key(value, current)
          /\ UNCHANGED transformation
  /\ UNCHANGED transform

PragmaCipher(value) ==
  /\ IF transform
     THEN /\ transformation' = _set_chiper(value, transformation)
          /\ UNCHANGED current
     ELSE /\ current' = _set_chiper(value, current)
          /\ UNCHANGED transformation
  /\ UNCHANGED transform

\* Mutant: ending the transformation forgets to promote the new encryptor.
PragmaTransformation_NotPromoted(on) ==
  \/ /\ transform # on
     /\ transformation' = IF transform THEN transformation ELSE current
     /\ transform' = on
     /\ UNCHANGED current
  \/ transform = on /\ UNCHANGED cryptVars

\* PRAGMA crypt_transformation=0|1: starting copies _current, ending promotes
\* _transformation; repeating the present setting changes nothing.
PragmaTransformation(on) ==
  \/ /\ transform # on
     /\ IF transform
        THEN current' = transformation /\ UNCHANGED transformation
        ELSE transformation' = current /\ UNCHANGED current
     /\ transform' = on
  \/ transform = on /\ UNCHANGED cryptVars

CryptTypeOK ==
  /\ current \in Encryptor
  /\ transformation \in Encryptor
  /\ transform \in BOOLEAN
  /\ disk \in [Page -> Stored]
=============================================================================
