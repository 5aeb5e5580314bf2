----------------------------- MODULE Base64Proofs -----------------------------
(***************************************************************************)
(* Proofs about Base64 for inputs and texts of every length: the buffers   *)
(* suffice, the decoder yields what the reference definition says and      *)
(* accepts exactly the texts it should, and what was encoded is decoded    *)
(* to the same bytes.                                                      *)
(*                                                                         *)
(* The bound on the writes is not inductive by itself: the pending bits    *)
(* belong to it, so BufferInv counts in bits.  The count also tells where  *)
(* in the reference's string of bits the next byte begins, by which        *)
(* CodecInv compares the decoder with the reference byte by byte.          *)
(***************************************************************************)
EXTENDS Base64, SequenceTheorems, TLAPS

\* Bits written and pending come from the six bits of each character read.
BitCount == phase \in {"decoding", "padding"} => 8 * write + bits <= 6 * read

\* Characters not yet read are still those of the text.
Unread ==
    phase \in {"decoding", "padding"} =>
        /\ DOMAIN buf = 1..Len(text)
        /\ read <= Len(text)
        /\ \A i \in read + 1..Len(text) : buf[i] = text[i]

\* The encoder has worked off whole groups, unless it is through.
Groups ==
    phase = "encoding" =>
        /\ Len(text) = required_encode_size(read)
        /\ read <= Len(bytes)
        /\ read % 3 = 0 \/ read = Len(bytes)

Shapes ==
    /\ phase \in {"encoding", "encoded", "decoding", "padding", "done", "error"}
    /\ bytes \in Seq(Octet)
    /\ text \in Seq(Ascii)
    /\ read \in Nat
    /\ write \in Nat
    /\ bits \in {0, 2, 4, 6}

BufferInv == Shapes /\ BitCount /\ Unread /\ Groups

\* Every table entry the encoder can look up is an ASCII character (alpha in
\* encode).
LEMMA CharacterType ==
    ASSUME NEW a, NEW v \in 0..63
    PROVE  Character(a, v) \in Ascii
  <1> USE DEF Ascii
  <1>1. CASE v \in 62..63
    <2>1. v - 61 \in 1..2
      BY <1>1
    <2>2. Special["url"][v - 61] \in Ascii /\ Special["standard"][v - 61] \in Ascii
      BY <2>1 DEF Special
    <2> QED
      BY <1>1, <2>2 DEF Character
  <1>2. CASE v \in 0..61
    BY <1>2 DEF Character
  <1> QED
    BY <1>1, <1>2

\* The shifts and masks of the encoder yield sextets (encode).
LEMMA SextetType ==
    ASSUME NEW x \in Octet, NEW y \in Octet, NEW z \in Octet
    PROVE  /\ x \div 4 \in 0..63
           /\ (x % 4) * 16 + y \div 16 \in 0..63
           /\ (y % 16) * 4 + z \div 64 \in 0..63
           /\ z % 64 \in 0..63
  <1> USE DEF Octet
  <1>1. x % 4 \in 0..3 /\ y % 16 \in 0..15
    OBVIOUS
  <1>2. y \div 16 \in 0..15 /\ z \div 64 \in 0..3
    OBVIOUS
  <1>3. (x % 4) * 16 + y \div 16 \in 0..63
    BY <1>1, <1>2
  <1>4. (y % 16) * 4 + z \div 64 \in 0..63
    BY <1>1, <1>2
  <1> QED
    BY <1>3, <1>4

\* A round of the encoder's loop writes four characters (encode).
LEMMA GroupType ==
    ASSUME NEW a, NEW g \in Seq(Octet), Len(g) \in 1..3
    PROVE  Group(a, g) \in Seq(Ascii) /\ Len(Group(a, g)) = 4
  <1> DEFINE i(k) == IF k <= Len(g) THEN g[k] ELSE 0
             full == << Character(a, i(1) \div 4),
                        Character(a, (i(1) % 4) * 16 + i(2) \div 16),
                        Character(a, (i(2) % 16) * 4 + i(3) \div 64),
                        Character(a, i(3) % 64) >>
  <1>1. ASSUME NEW k \in 1..3 PROVE i(k) \in Octet
    <2>1. CASE k <= Len(g)
      BY <2>1
    <2>2. CASE ~(k <= Len(g))
      BY <2>2 DEF Octet
    <2> QED
      BY <2>1, <2>2
  <1>2. /\ Character(a, i(1) \div 4) \in Ascii
        /\ Character(a, (i(1) % 4) * 16 + i(2) \div 16) \in Ascii
        /\ Character(a, (i(2) % 16) * 4 + i(3) \div 64) \in Ascii
        /\ Character(a, i(3) % 64) \in Ascii
    <2>1. i(1) \in Octet /\ i(2) \in Octet /\ i(3) \in Octet
      BY <1>1
    <2> HIDE DEF i
    <2>2. /\ i(1) \div 4 \in 0..63
          /\ (i(1) % 4) * 16 + i(2) \div 16 \in 0..63
          /\ (i(2) % 16) * 4 + i(3) \div 64 \in 0..63
          /\ i(3) % 64 \in 0..63
      BY <2>1, SextetType
    <2> QED
      BY <2>2, CharacterType
  <1>3. ASSUME NEW k \in 1..4 PROVE full[k] \in Ascii
    <2> HIDE DEF i
    <2> QED
      BY <1>2
  <1>4. Group(a, g) = [k \in 1..4 |-> IF k <= Len(g) + 1 THEN full[k] ELSE Pad]
    BY DEF Group
  <1>5. ASSUME NEW k \in 1..4
        PROVE  (IF k <= Len(g) + 1 THEN full[k] ELSE Pad) \in Ascii
    <2>1. Pad \in Ascii
      BY DEF Pad, Ascii
    <2> HIDE DEF full
    <2> QED
      BY <1>3, <2>1
  <1> HIDE DEF full
  <1>6. Group(a, g) \in [1..4 -> Ascii]
    BY <1>4, <1>5
  <1>7. Group(a, g) \in Seq(Ascii)
    BY <1>4, <1>5, IsASeq
  <1> QED
    BY <1>6, <1>7

\* The size callers reserve grows by four for every group of the loop
\* (required_encode_size).
LEMMA SizeGrows ==
    ASSUME NEW r \in Nat, r % 3 = 0, NEW d \in 1..3
    PROVE  /\ required_encode_size(r + d) = required_encode_size(r) + 4
           /\ (r + 3) % 3 = 0
  <1>1. PICK q \in Nat : r = 3 * q
    <2>1. r \div 3 \in Nat /\ r = 3 * (r \div 3) + (r % 3)
      OBVIOUS
    <2> QED
      BY <2>1
  <1>2. CASE d = 3
    BY <1>1, <1>2 DEF required_encode_size
  <1>3. CASE d \in 1..2
    BY <1>1, <1>3 DEF required_encode_size
  <1> QED
    BY <1>1, <1>2, <1>3

\* Counting bits bounds the bytes written (max_decode_size).
LEMMA BitsBound ==
    ASSUME NEW r \in Nat, NEW w \in Nat, 8 * w <= 6 * r
    PROVE  w <= max_decode_size(r)
  <1>1. r = 4 * (r \div 4) + (r % 4) /\ r \div 4 \in Nat /\ r % 4 \in 0..3
    OBVIOUS
  <1>2. CASE r % 4 = 0
    BY <1>1, <1>2 DEF max_decode_size
  <1>3. CASE r % 4 # 0
    BY <1>1, <1>3 DEF max_decode_size
  <1> QED
    BY <1>2, <1>3

\* The invariant holds before the first step.
LEMMA BufferInit == Init => BufferInv
  <1> SUFFICES ASSUME Init PROVE BufferInv
    OBVIOUS
  <1>1. Shapes
    <2>1. bytes \in Seq(Octet) /\ text \in Seq(Ascii)
      BY Base64Assumption, EmptySeq DEF Init
    <2> QED
      BY <2>1 DEF Init, Shapes
  <1>2. BitCount /\ Unread
    BY DEF Init, BitCount, Unread
  <1>3. Groups
    BY <1>1 DEF Init, Groups, Shapes, required_encode_size
  <1> QED
    BY <1>1, <1>2, <1>3 DEF BufferInv

\* Every round of the two loops, and what lies between them, preserves it.
LEMMA BufferStep == BufferInv /\ [Next]_vars => BufferInv'
  <1> SUFFICES ASSUME BufferInv, [Next]_vars PROVE BufferInv'
    OBVIOUS
  <1> USE DEF BufferInv
  <1>1. CASE EncodeGroup
    <2> DEFINE end == IF read + 3 <= Len(bytes) THEN read + 3 ELSE Len(bytes)
               g == SubSeq(bytes, read + 1, end)
    <2>1. /\ read < Len(bytes) /\ read % 3 = 0 /\ phase = "encoding" /\ phase' = phase
          /\ text' = text \o Group(coded, g) /\ read' = end
          /\ UNCHANGED <<bytes, write, bits>>
      BY <1>1 DEF EncodeGroup, Groups, Shapes
    <2>2. read \in Nat /\ Len(bytes) \in Nat
      BY LenProperties DEF Shapes
    <2>3. end - read \in 1..3 /\ end \in Nat /\ end <= Len(bytes)
      BY <2>1, <2>2
    <2>4. g \in Seq(Octet) /\ Len(g) = end - read
      <3> HIDE DEF end
      <3> QED
        BY <2>2, <2>3, SubSeqProperties DEF Shapes
    <2>5. Group(coded, g) \in Seq(Ascii) /\ Len(Group(coded, g)) = 4
      <3> HIDE DEF g, end
      <3> QED
        BY <2>3, <2>4, GroupType
    <2>6. text' \in Seq(Ascii) /\ Len(text') = Len(text) + 4
      <3> HIDE DEF g, end
      <3>1. text \in Seq(Ascii)
        BY DEF Shapes
      <3>2. /\ text \o Group(coded, g) \in Seq(Ascii)
            /\ Len(text \o Group(coded, g)) = Len(text) + Len(Group(coded, g))
        BY <3>1, <2>5, ConcatProperties
      <3> QED
        BY <2>1, <2>5, <3>2
    <2>7. required_encode_size(end) = required_encode_size(read) + 4
      <3> HIDE DEF end
      <3>1. required_encode_size(read + (end - read)) = required_encode_size(read) + 4
        BY <2>1, <2>2, <2>3, SizeGrows
      <3>2. read + (end - read) = end
        BY <2>2, <2>3
      <3> QED
        BY <3>1, <3>2
    <2>8. end % 3 = 0 \/ end = Len(bytes)
      <3>1. (read + 3) % 3 = 0
        BY <2>1, <2>2, 1 \in 1..3, SizeGrows
      <3> QED
        BY <3>1
    <2>9. Groups'
      <3> HIDE DEF end
      <3> QED
        BY <2>1, <2>3, <2>6, <2>7, <2>8 DEF Groups
    <2>10. Shapes'
      BY <2>1, <2>3, <2>6 DEF Shapes
    <2> QED
      BY <2>1, <2>9, <2>10 DEF BitCount, Unread
  <1>2. CASE Encoded
    BY <1>2 DEF Encoded, Shapes, BitCount, Unread, Groups
  <1>3. ASSUME NEW a \in Alphabets, NEW b \in Behaviors, Decode(a, b) PROVE BufferInv'
    BY <1>3 DEF Decode, Shapes, BitCount, Unread, Groups
  <1>4. CASE StopDecoding
    BY <1>4 DEF StopDecoding, Shapes, BitCount, Unread, Groups
  <1>5. CASE DecodeCharacter
    <2>1. /\ phase = "decoding" /\ read < Len(text) /\ read' = read + 1
          /\ text' = text /\ bytes' = bytes
      BY <1>5 DEF DecodeCharacter
    <2>2. CASE phase' = "error" /\ UNCHANGED <<buf, write, bits>>
      BY <2>1, <2>2 DEF Shapes, BitCount, Unread, Groups
    <2>3. CASE /\ phase' = phase /\ bits + 6 >= 8 /\ write' = write + 1 /\ bits' = bits - 2
               /\ \E x : buf' = [buf EXCEPT ![write + 1] = x]
      <3>1. Shapes'
        BY <2>1, <2>3 DEF Shapes
      <3>2. BitCount'
        BY <2>1, <2>3 DEF Shapes, BitCount
      <3>3. write + 1 <= read + 1
        BY <2>1 DEF Shapes, BitCount
      <3>4. Unread'
        BY <2>1, <2>3, <3>3 DEF Shapes, Unread
      <3> QED
        BY <2>1, <2>3, <3>1, <3>2, <3>4 DEF Groups
    <2>4. CASE /\ phase' = phase /\ bits + 6 < 8 /\ bits' = bits + 6
               /\ UNCHANGED <<buf, write>>
      BY <2>1, <2>4 DEF Shapes, BitCount, Unread, Groups
    <2> QED
      BY <1>5, <2>2, <2>3, <2>4 DEF DecodeCharacter
  <1>6. CASE CheckPadding
    BY <1>6 DEF CheckPadding, Shapes, BitCount, Unread, Groups
  <1>7. CASE UNCHANGED vars
    BY <1>7 DEF vars, Shapes, BitCount, Unread, Groups
  <1> QED
    BY <1>1, <1>2, <1>3, <1>4, <1>5, <1>6, <1>7 DEF Next

\* For inputs and texts of every length, the encoder fills exactly the
\* reserved size, and the decoder stays within the reserved size and never
\* overwrites what it has yet to read (encode, decode, decode_inplace).
THEOREM BuffersAlwaysSuffice == Spec => []BuffersSuffice
  <1>1. BufferInv => BuffersSuffice
    <2> SUFFICES ASSUME BufferInv PROVE BuffersSuffice
      OBVIOUS
    <2>1. phase \in {"decoding", "padding"} => write <= max_decode_size(read)
      <3> SUFFICES ASSUME phase \in {"decoding", "padding"} PROVE write <= max_decode_size(read)
        OBVIOUS
      <3>1. 8 * write <= 6 * read /\ read \in Nat /\ write \in Nat
        BY DEF BufferInv, BitCount, Shapes
      <3> QED
        BY <3>1, BitsBound
    <2> QED
      BY <2>1 DEF BufferInv, Groups, Unread, BuffersSuffice
  <1> QED
    BY <1>1, BufferInit, BufferStep, PTL DEF Spec

-------------------------------------------------------------------------------
(* What is decoded.                                                         *)

\* What the first loop has read is valid in the present alphabet, what it has
\* written is the reference's, and the pending bits are those of the last sextet.
Scanned ==
    phase = "decoding" =>
        /\ \A i \in 1..read :
             text[i] # Pad /\ \A f \in Fitting(alphabet) : text[i] \in Table(f)
        /\ 8 * write + bits = 6 * read
        /\ read > 0 => last = Place(text[read])
        /\ \A k \in 1..write : buf[k] = ReferenceByte(text, k)

\* The first loop has read the whole body, the second one nothing but padding.
Stopped ==
    phase \in {"padding", "done"} =>
        /\ DOMAIN buf = 1..Len(text)
        /\ Len(Body(text)) \in 0..Len(text) /\ DOMAIN Body(text) = 1..Len(Body(text))
        /\ \A i \in DOMAIN Body(text), f \in Fitting(alphabet) : text[i] \in Table(f)
        /\ 8 * write + bits = 6 * Len(Body(text))
        /\ \A k \in 1..write : buf[k] = ReferenceByte(text, k)
        /\ phase = "padding" \/ behavior # "loose" =>
             \A i \in Len(Body(text)) + 1..read : text[i] = Pad
        /\ phase = "padding" => Len(Body(text)) <= read
        /\ phase = "done" => behavior = "loose" \/ read = Len(text)

Refused == phase = "error" => ~Acceptable(text, alphabet, behavior)

\* The bytes of a round of the encoder's loop.
GroupOf(s, q) == SubSeq(s, 3 * q + 1, IF 3 * q + 3 <= Len(s) THEN 3 * q + 3 ELSE Len(s))

\* Text t consists of the groups of s.
Consists(t, a, s) ==
    \A q \in Nat, j \in 1..4 :
        4 * q + j <= Len(t) => t[4 * q + j] = Group(a, GroupOf(s, q))[j]
Made ==
    coded # "none" =>
        /\ Consists(text, coded, bytes)
        /\ phase # "encoding" => Len(text) = required_encode_size(Len(bytes))

CodecInv == BufferInv /\ TypeOK /\ Scanned /\ Stopped /\ Refused /\ Made

\* The tables are injective, also taken together, and do not contain the padding
\* (alpha in encode).
LEMMA TableOf ==
    ASSUME NEW f \in {"standard", "url"}, NEW v \in 0..63
    PROVE  Character(f, v) # Pad /\ Place(Character(f, v)) = v
  <1>1. /\ Special["standard"][1] = 43 /\ Special["standard"][2] = 47
        /\ Special["url"][1] = 45 /\ Special["url"][2] = 95
    BY DEF Special
  <1>2. ASSUME NEW g \in {"standard", "url"}, NEW w \in 0..63
        PROVE  /\ w < 26 => Character(g, w) = 65 + w
               /\ w \in 26..51 => Character(g, w) = 71 + w
               /\ w \in 52..61 => Character(g, w) = w - 4
               /\ w = 62 => Character(g, w) = IF g = "url" THEN 45 ELSE 43
               /\ w = 63 => Character(g, w) = IF g = "url" THEN 95 ELSE 47
    BY <1>1 DEF Character
  <1>3. Character(f, v) # Pad
    BY <1>2 DEF Pad
  <1>4. ASSUME NEW g \in {"standard", "url"}, NEW w \in 0..63,
               Character(g, w) = Character(f, v)
        PROVE  w = v
    BY <1>2, <1>4
  <1> QED
    BY <1>3, <1>4 DEF Place

\* _base64_value throws for exactly the characters of no fitting table, answers
\* with the place of every other one, and leaves an alphabet that it fits.
LEMMA ValueOf ==
    ASSUME NEW a \in Alphabets, NEW c \in Ascii
    PROVE  /\ _base64_value(a, c) = Invalid => \A f \in Fitting(a) : c \notin Table(f)
           /\ _base64_value(a, c) # Invalid =>
                /\ _base64_value(a, c) \in 0..63 /\ _base64_value(a, c) = Place(c)
                /\ Detected(a, c) \in Alphabets
                /\ Fitting(Detected(a, c)) \subseteq Fitting(a)
                /\ \A f \in Fitting(Detected(a, c)) : c \in Table(f)
  <1>1. /\ Special["standard"][1] = 43 /\ Special["standard"][2] = 47
        /\ Special["url"][1] = 45 /\ Special["url"][2] = 95
        /\ Range(Special["standard"]) = {43, 47} /\ Range(Special["url"]) = {45, 95}
    BY DEF Special, Range
  <1>2. ASSUME NEW g \in {"standard", "url"}, NEW w \in 0..63
        PROVE  /\ w < 26 => Character(g, w) = 65 + w
               /\ w \in 26..51 => Character(g, w) = 71 + w
               /\ w \in 52..61 => Character(g, w) = w - 4
               /\ w = 62 => Character(g, w) = IF g = "url" THEN 45 ELSE 43
               /\ w = 63 => Character(g, w) = IF g = "url" THEN 95 ELSE 47
    BY <1>1 DEF Character
  <1>3. Fitting(a) # {} /\ Fitting(a) \subseteq {"standard", "url"}
    BY DEF Alphabets, Fitting
  <1>4. ASSUME NEW g \in {"standard", "url"}
        PROVE  c \in Table(g) <=> \/ c \in 65..90 \/ c \in 97..122 \/ c \in 48..57
                                 \/ c = (IF g = "url" THEN 45 ELSE 43)
                                 \/ c = (IF g = "url" THEN 95 ELSE 47)
    <2>1. ASSUME c \in Table(g)
          PROVE  \/ c \in 65..90 \/ c \in 97..122 \/ c \in 48..57
                 \/ c = (IF g = "url" THEN 45 ELSE 43)
                 \/ c = (IF g = "url" THEN 95 ELSE 47)
      <3>1. PICK w \in 0..63 : c = Character(g, w)
        BY <2>1 DEF Table
      <3> QED
        BY <1>2, <3>1
    <2>2. ASSUME NEW w \in 0..63, c = Character(g, w) PROVE c \in Table(g)
      BY <2>2 DEF Table
    <2>3. c \in 65..90 => c - 65 \in 0..63 /\ c = Character(g, c - 65)
      BY <1>2
    <2>4. c \in 97..122 => c - 71 \in 0..63 /\ c = Character(g, c - 71)
      BY <1>2
    <2>5. c \in 48..57 => c + 4 \in 0..63 /\ c = Character(g, c + 4)
      BY <1>2
    <2>6. c = (IF g = "url" THEN 45 ELSE 43) => c = Character(g, 62)
      BY <1>2
    <2>7. c = (IF g = "url" THEN 95 ELSE 47) => c = Character(g, 63)
      BY <1>2
    <2> QED
      BY <2>1, <2>2, <2>3, <2>4, <2>5, <2>6, <2>7
  <1>5. ASSUME NEW g \in {"standard", "url"}, NEW w \in 0..63, Character(g, w) = c
        PROVE  Place(c) = w
    BY <1>5, TableOf
  <1> DEFINE val == _base64_value(a, c)
  <1>6. CASE c \in 65..90
    <2>1. val = c - 65 /\ c - 65 \in 0..63
      BY <1>1, <1>3, <1>6 DEF _base64_value
    <2>2. c = Character("url", c - 65)
      BY <1>2, <1>6
    <2> QED
      BY <1>1, <1>3, <1>4, <1>5, <1>6, <2>1, <2>2 DEF Detected, Invalid, Fitting,
         Alphabets
  <1>7. CASE c \in 97..122
    <2>1. val = c - 71 /\ c - 71 \in 0..63
      BY <1>1, <1>3, <1>7 DEF _base64_value
    <2>2. c = Character("url", c - 71)
      BY <1>2, <1>7
    <2> QED
      BY <1>1, <1>3, <1>4, <1>5, <1>7, <2>1, <2>2 DEF Detected, Invalid, Fitting,
         Alphabets
  <1>8. CASE c \in 48..57
    <2>1. val = c + 4 /\ c + 4 \in 0..63
      BY <1>1, <1>3, <1>8 DEF _base64_value
    <2>2. c = Character("url", c + 4)
      BY <1>2, <1>8
    <2> QED
      BY <1>1, <1>3, <1>4, <1>5, <1>8, <2>1, <2>2 DEF Detected, Invalid, Fitting,
         Alphabets
  <1>9. CASE c \in {43, 45, 47, 95}
    <2> DEFINE g == IF c \in {43, 47} THEN "standard" ELSE "url"
               w == IF c \in {43, 45} THEN 62 ELSE 63
    <2>1. Character(g, w) = c /\ g \in {"standard", "url"} /\ w \in 0..63
      BY <1>2, <1>9
    <2>2. \A f \in {"standard", "url"} : c \in Range(Special[f]) <=> f = g
      BY <1>1, <1>9
    <2>3. g \in Fitting(a) => val = w
      BY <1>1, <1>3, <1>9 DEF _base64_value
    <2>4. g \notin Fitting(a) => val = Invalid
      BY <1>1, <1>3, <1>9 DEF _base64_value
    <2>5. \A f \in {"standard", "url"} : c \in Table(f) <=> f = g
      BY <1>4, <1>9
    <2> HIDE DEF g, w, val
    <2>6. g \in Fitting(a) => Fitting(Detected(a, c)) = {g} /\ Detected(a, c) \in Alphabets
      <3>1. CASE a = "auto"
        <4>1. Fitting(a) = {"standard", "url"}
          BY <3>1 DEF Fitting
        <4>2. Detected(a, c) = g
          BY <2>1, <2>2, <3>1, <4>1 DEF Detected
        <4> QED
          BY <2>1, <4>2 DEF Fitting, Alphabets
      <3>2. CASE a # "auto"
        BY <3>2 DEF Fitting, Detected
      <3> QED
        BY <3>1, <3>2
    <2> QED
      BY <1>3, <1>5, <2>1, <2>3, <2>4, <2>5, <2>6 DEF val, Invalid
  <1>10. CASE c \notin 65..90 \cup 97..122 \cup 48..57 \cup {43, 45, 47, 95}
    <2>1. val = Invalid
      BY <1>1, <1>3, <1>10 DEF _base64_value
    <2> QED
      BY <1>3, <1>4, <1>10, <2>1
  <1> QED
    BY <1>6, <1>7, <1>8, <1>9, <1>10

\* The body ends before the first padding character.
LEMMA BodyOf ==
    ASSUME NEW t \in Seq(Ascii), NEW n \in 0..Len(t),
           \A i \in 1..n : t[i] # Pad, n < Len(t) => t[n + 1] = Pad
    PROVE  DOMAIN Body(t) = 1..n /\ Len(Body(t)) = n
  <1>1. Len(t) \in Nat /\ \A i \in 1..Len(t) : t[i] \in Ascii
    OBVIOUS
  <1>2. {k \in 1..Len(t) : \A j \in 1..k : t[j] # Pad} = 1..n
    BY <1>1
  <1>3. Body(t) = [i \in 1..n |-> t[i]]
    BY <1>2 DEF Body
  <1>4. Body(t) \in Seq(Ascii)
    BY <1>1, <1>3, IsASeq
  <1> QED
    BY <1>3, <1>4, LenProperties

\* Eight of the twelve bits of two sextets, from the last b bits of the first on.
Joined(l, b, part) == ((l * 64 + part) \div 2^(b - 2)) % 256

\* The assignment in decode joins two sextets that way.
LEMMA ByteOf ==
    ASSUME NEW l \in 0..63, NEW part \in 0..63, NEW b \in {2, 4, 6}
    PROVE  Byte(l, b, part) = Joined(l, b, part) /\ Joined(l, b, part) \in Octet
  <1> USE DEF Joined, Octet
  <1>1. 2^0 = 1 /\ 2^2 = 4 /\ 2^4 = 16 /\ 2^6 = 64
    OBVIOUS
  <1>2. CASE b = 2
    <2>1. 8 - b = 6 /\ b - 2 = 0
      BY <1>2
    <2>2. ((l * 64) % 256) + (part \div 1) = ((l * 64 + part) \div 1) % 256
          /\ ((l * 64 + part) \div 1) % 256 \in 0..255
      OBVIOUS
    <2> QED
      BY <1>1, <2>1, <2>2 DEF Byte
  <1>3. CASE b = 4
    <2>1. 8 - b = 4 /\ b - 2 = 2
      BY <1>3
    <2>2. ((l * 16) % 256) + (part \div 4) = ((l * 64 + part) \div 4) % 256
          /\ ((l * 64 + part) \div 4) % 256 \in 0..255
      OBVIOUS
    <2> QED
      BY <1>1, <2>1, <2>2 DEF Byte
  <1>4. CASE b = 6
    <2>1. 8 - b = 2 /\ b - 2 = 4
      BY <1>4
    <2>2. ((l * 4) % 256) + (part \div 16) = ((l * 64 + part) \div 16) % 256
          /\ ((l * 64 + part) \div 16) % 256 \in 0..255
      OBVIOUS
    <2> QED
      BY <1>1, <2>1, <2>2 DEF Byte
  <1> QED
    BY <1>2, <1>3, <1>4

\* Where the next byte begins is in the last sextet, by the count of the bits.
LEMMA NextByte ==
    ASSUME NEW t, NEW r \in Nat, NEW w \in Nat, NEW b \in {2, 4, 6}, 8 * w + b = 6 * r,
           Place(t[r]) \in 0..63, Place(t[r + 1]) \in 0..63
    PROVE  ReferenceByte(t, w + 1) = Byte(Place(t[r]), b, Place(t[r + 1]))
  <1>1. 8 * ((w + 1) - 1) = 6 * r - b
    OBVIOUS
  <1>2. (6 * r - b) \div 6 + 1 = r /\ 4 - ((6 * r - b) % 6) = b - 2
    <2>1. CASE b = 2
      BY <2>1
    <2>2. CASE b = 4
      BY <2>2
    <2>3. CASE b = 6
      BY <2>3
    <2> QED
      BY <2>1, <2>2, <2>3
  <1>3. ReferenceByte(t, w + 1) = Joined(Place(t[r]), b, Place(t[r + 1]))
    BY <1>1, <1>2 DEF ReferenceByte, Joined
  <1> QED
    BY <1>3, ByteOf

\* Reading a character keeps what has been decoded right, or refuses the text for
\* good reason.
LEMMA CharacterStep ==
    ASSUME CodecInv, DecodeCharacter
    PROVE  TypeOK' /\ Scanned' /\ Stopped' /\ Refused' /\ Made'
  <1> DEFINE c == buf[read + 1]
             part == _base64_value(alphabet, c)
  <1>1. /\ phase = "decoding" /\ read < Len(text) /\ c # Pad /\ read' = read + 1
        /\ UNCHANGED <<bytes, coded, text, behavior>>
    BY DEF DecodeCharacter
  <1>t. /\ read \in Nat /\ write \in Nat /\ bits \in {0, 2, 4, 6} /\ last \in 0..63
        /\ text \in Seq(Ascii) /\ Len(text) \in Nat /\ buf \in Seq(Octet)
        /\ alphabet \in Alphabets
    BY DEF CodecInv, TypeOK
  <1>2. c = text[read + 1] /\ c \in Ascii /\ read + 1 \in 1..Len(text)
    BY <1>1, <1>t DEF CodecInv, BufferInv, Unread
  <1>3. /\ \A i \in 1..read :
             text[i] # Pad /\ \A f \in Fitting(alphabet) : text[i] \in Table(f)
        /\ 8 * write + bits = 6 * read
        /\ read > 0 => last = Place(text[read])
        /\ \A k \in 1..write : buf[k] = ReferenceByte(text, k)
    BY <1>1 DEF CodecInv, Scanned
  <1>m. Made'
    BY <1>1 DEF CodecInv, Made, DecodeCharacter
  <1> HIDE DEF c
  <1>4. CASE part = Invalid
    <2>1. phase' = "error" /\ UNCHANGED <<buf, alphabet, write, bits, last>>
      BY <1>4 DEF DecodeCharacter, c
    <2>2. \A f \in Fitting(alphabet) : c \notin Table(f)
      BY <1>2, <1>4, <1>t, ValueOf
    <2>3. c \in Range(Body(text))
      <3>1. \A j \in 1..read + 1 : text[j] # Pad
        BY <1>1, <1>2, <1>3, <1>t
      <3> QED
        BY <1>2, <3>1 DEF Body, Range
    <2>4. ~Acceptable(text, alphabet, behavior)
      BY <2>2, <2>3 DEF Acceptable
    <2>5. TypeOK'
      BY <1>1, <1>t, <2>1 DEF CodecInv, TypeOK
    <2> QED
      BY <1>1, <1>m, <2>1, <2>4, <2>5 DEF Scanned, Stopped, Refused
  <1>5. CASE part # Invalid
    <2>1. phase' = phase /\ alphabet' = Detected(alphabet, c) /\ last' = part
      BY <1>5 DEF DecodeCharacter, c
    <2>2. /\ part \in 0..63 /\ part = Place(c) /\ Detected(alphabet, c) \in Alphabets
          /\ Fitting(Detected(alphabet, c)) \subseteq Fitting(alphabet)
          /\ \A f \in Fitting(Detected(alphabet, c)) : c \in Table(f)
      BY <1>2, <1>5, <1>t, ValueOf
    <2> HIDE DEF part
    <2>3. \A i \in 1..read + 1 :
            text[i] # Pad /\ \A f \in Fitting(alphabet') : text[i] \in Table(f)
      <3> SUFFICES ASSUME NEW i \in 1..read + 1
                   PROVE  text[i] # Pad /\ \A f \in Fitting(alphabet') : text[i] \in Table(f)
        OBVIOUS
      <3>1. CASE i = read + 1
        BY <1>1, <1>2, <2>1, <2>2, <3>1
      <3>2. CASE i # read + 1
        <4>1. i \in 1..read
          BY <1>t, <3>2
        <4> QED
          BY <1>3, <2>1, <2>2, <4>1
      <3> QED
        BY <3>1, <3>2
    <2>4. last' = Place(text[read + 1]) /\ read' > 0
      BY <1>1, <1>2, <1>t, <2>1, <2>2
    <2>5. CASE bits + 6 >= 8
      <3>1. /\ buf' = [buf EXCEPT ![write + 1] = Byte(last, bits, part)]
            /\ write' = write + 1 /\ bits' = bits - 2
        BY <1>5, <2>5, <1>t DEF DecodeCharacter, c, part
      <3>2. bits \in {2, 4, 6} /\ read > 0 /\ write + 1 \in 1..Len(text)
        BY <1>1, <1>3, <1>t, <2>5
      <3>3. /\ Place(text[read]) = last /\ Place(text[read + 1]) = part
        BY <1>2, <1>3, <2>2, <3>2
      <3>4. ReferenceByte(text, write + 1) = Byte(last, bits, part)
        <4>1. /\ Place(text[read]) \in 0..63 /\ Place(text[read + 1]) \in 0..63
              /\ read \in Nat /\ write \in Nat /\ 8 * write + bits = 6 * read
          BY <1>3, <1>t, <2>2, <3>3
        <4> QED
          BY <3>2, <3>3, <4>1, NextByte, Zenon
      <3>5. Byte(last, bits, part) \in Octet
        BY <1>t, <2>2, <3>2, ByteOf
      <3>6. DOMAIN buf = 1..Len(text)
        BY <1>1 DEF CodecInv, BufferInv, Unread
      <3>7. buf' \in Seq(Octet)
        <4>1. write + 1 \in 1..Len(buf)
          BY <1>t, <3>2, <3>6, LenProperties
        <4> QED
          BY <1>t, <3>1, <3>5, <4>1, ExceptSeq
      <3>8. \A k \in 1..write + 1 : buf'[k] = ReferenceByte(text, k)
        BY <1>3, <1>t, <3>1, <3>2, <3>4, <3>6
      <3>9. TypeOK'
        BY <1>1, <1>t, <2>1, <2>2, <3>1, <3>2, <3>7 DEF CodecInv, TypeOK
      <3>10. Scanned'
        BY <1>1, <1>3, <1>t, <2>3, <2>4, <3>1, <3>2, <3>8 DEF Scanned
      <3> QED
        BY <1>1, <1>m, <2>1, <3>9, <3>10 DEF Stopped, Refused
    <2>6. CASE bits + 6 < 8
      <3>1. UNCHANGED <<buf, write>> /\ bits' = bits + 6 /\ bits = 0
        BY <1>5, <1>t, <2>6 DEF DecodeCharacter, c, part
      <3>2. TypeOK'
        BY <1>1, <1>t, <2>1, <2>2, <3>1 DEF CodecInv, TypeOK
      <3>3. Scanned'
        BY <1>1, <1>3, <1>t, <2>3, <2>4, <3>1 DEF Scanned
      <3> QED
        BY <1>1, <1>m, <2>1, <3>2, <3>3 DEF Stopped, Refused
    <2> QED
      BY <1>t, <2>5, <2>6
  <1> QED
    BY <1>4, <1>5

\* A round of the encoder's loop adds the next group.
LEMMA GroupStep ==
    ASSUME CodecInv, EncodeGroup
    PROVE  TypeOK' /\ Made'
  <1> DEFINE end == IF read + 3 <= Len(bytes) THEN read + 3 ELSE Len(bytes)
             g == Group(coded, SubSeq(bytes, read + 1, end))
             Q == read \div 3
  <1>1. /\ phase = "encoding" /\ read < Len(bytes) /\ text' = text \o g /\ read' = end
        /\ UNCHANGED <<phase, bytes, coded, buf, alphabet, behavior, write, bits, last>>
    BY DEF EncodeGroup
  <1>2. /\ read \in Nat /\ bytes \in Seq(Octet) /\ Len(bytes) \in Nat
        /\ text \in Seq(Ascii) /\ Len(text) \in Nat
    BY DEF CodecInv, TypeOK
  <1>3. read % 3 = 0 /\ Len(text) = required_encode_size(read)
    BY <1>1, <1>2 DEF CodecInv, BufferInv, Groups
  <1>4. Q \in Nat /\ read = 3 * Q /\ Len(text) = 4 * Q
    BY <1>2, <1>3 DEF required_encode_size
  <1>5. end \in Nat /\ end - read \in 1..3 /\ end <= Len(bytes)
    BY <1>1, <1>2
  <1>6. g = Group(coded, GroupOf(bytes, Q))
    BY <1>2, <1>4 DEF GroupOf
  <1>7. g \in Seq(Ascii) /\ Len(g) = 4
    <2>1. /\ SubSeq(bytes, read + 1, end) \in Seq(Octet)
          /\ Len(SubSeq(bytes, read + 1, end)) = end - read
      <3> HIDE DEF end
      <3> QED
        BY <1>2, <1>5, SubSeqProperties
    <2> HIDE DEF end
    <2> QED
      BY <1>5, <2>1, GroupType
  <1> HIDE DEF g, Q, end
  <1>8. text' \in Seq(Ascii) /\ Len(text') = 4 * Q + 4
    <2>1. text \o g \in Seq(Ascii) /\ Len(text \o g) = Len(text) + Len(g)
      BY <1>2, <1>7, ConcatProperties
    <2> QED
      BY <1>1, <1>4, <1>7, <2>1
  <1>9. \A i \in 1..4 * Q + 4 : text'[i] = IF i <= 4 * Q THEN text[i] ELSE g[i - 4 * Q]
    <2>1. \A i \in 1..Len(text) + Len(g) :
            (text \o g)[i] = IF i <= Len(text) THEN text[i] ELSE g[i - Len(text)]
      BY <1>2, <1>7, ConcatProperties
    <2> QED
      BY <1>1, <1>4, <1>7, <2>1
  <1>10. TypeOK'
    BY <1>1, <1>5, <1>8 DEF CodecInv, TypeOK
  <1>11. ASSUME coded # "none", NEW q \in Nat, NEW j \in 1..4, 4 * q + j <= Len(text')
         PROVE  text'[4 * q + j] = Group(coded, GroupOf(bytes, q))[j]
    <2>1. CASE q < Q
      <3>1. 4 * q + j \in 1..4 * Q + 4 /\ 4 * q + j <= 4 * Q
        BY <1>4, <2>1
      <3>2. text'[4 * q + j] = text[4 * q + j]
        BY <1>9, <3>1
      <3> QED
        BY <1>4, <1>11, <3>1, <3>2 DEF CodecInv, Made, Consists
    <2>2. CASE q = Q
      <3>1. /\ 4 * Q + j \in 1..4 * Q + 4 /\ ~(4 * Q + j <= 4 * Q)
            /\ (4 * Q + j) - 4 * Q = j
        BY <1>4
      <3>2. text'[4 * Q + j] = g[(4 * Q + j) - 4 * Q]
        BY <1>9, <3>1
      <3> QED
        BY <1>6, <2>2, <3>1, <3>2
    <2> QED
      BY <1>4, <1>8, <1>11, <2>1, <2>2
  <1> QED
    BY <1>1, <1>10, <1>11 DEF Made, Consists

\* Before the first step nothing has been encoded or decoded.
LEMMA CodecInit == Init => CodecInv
  <1> SUFFICES ASSUME Init PROVE CodecInv
    OBVIOUS
  <1>1. BufferInv
    BY BufferInit
  <1>2. TypeOK
    BY <1>1, EmptySeq DEF BufferInv, Shapes, Init, TypeOK, Alphabets, Behaviors
  <1>3. Made
    BY DEF Init, Made, Consists
  <1> QED
    BY <1>1, <1>2, <1>3 DEF Init, CodecInv, Scanned, Stopped, Refused

\* The end of the first loop is the end of the body.
LEMMA StopStep ==
    ASSUME CodecInv, StopDecoding
    PROVE  Stopped'
  <1>1. /\ phase = "decoding" /\ phase' = "padding"
        /\ UNCHANGED <<text, buf, alphabet, behavior, write, bits>>
    BY DEF StopDecoding
  <1>2. /\ read \in Nat /\ text \in Seq(Ascii) /\ Len(text) \in Nat
    BY DEF CodecInv, TypeOK
  <1>3. /\ read <= Len(text) /\ read < Len(text) => text[read + 1] = Pad
        /\ \/ read = Len(text) /\ read' = read
           \/ read < Len(text) /\ read' = read + 1
    BY <1>1, <1>2 DEF StopDecoding, CodecInv, BufferInv, Unread
  <1>4. /\ \A i \in 1..read :
             text[i] # Pad /\ \A f \in Fitting(alphabet) : text[i] \in Table(f)
        /\ 8 * write + bits = 6 * read
        /\ \A k \in 1..write : buf[k] = ReferenceByte(text, k)
        /\ DOMAIN buf = 1..Len(text)
    BY <1>1 DEF CodecInv, Scanned, BufferInv, Unread
  <1>5. DOMAIN Body(text) = 1..read /\ Len(Body(text)) = read
    BY <1>2, <1>3, <1>4, BodyOf
  <1>6. \A i \in read + 1..read' : text[i] = Pad
    BY <1>2, <1>3
  <1> QED
    BY <1>1, <1>2, <1>3, <1>4, <1>5, <1>6 DEF Stopped

\* The second loop ends at the end of the text or at a character that is no
\* padding.
LEMMA PaddingStep ==
    ASSUME CodecInv, CheckPadding
    PROVE  Stopped' /\ Refused'
  <1>1. /\ phase = "padding" /\ UNCHANGED <<text, buf, alphabet, behavior, write, bits>>
        /\ \/ phase' = "done" /\ read' = read /\ (behavior = "loose" \/ read = Len(text))
           \/ /\ behavior # "loose" /\ read # Len(text) /\ read' = read + 1
              /\ phase' = IF buf[read + 1] = Pad THEN phase ELSE "error"
    BY DEF CheckPadding
  <1>2. /\ read \in Nat /\ text \in Seq(Ascii) /\ Len(text) \in Nat /\ read <= Len(text)
        /\ read < Len(text) => buf[read + 1] = text[read + 1]
    BY <1>1 DEF CodecInv, TypeOK, BufferInv, Unread
  <1> DEFINE n == Len(Body(text))
  <1>3. /\ n \in 0..Len(text) /\ DOMAIN Body(text) = 1..n /\ n <= read
        /\ \A i \in n + 1..read : text[i] = Pad
    BY <1>1 DEF CodecInv, Stopped
  <1>4. /\ \A i \in DOMAIN Body(text), f \in Fitting(alphabet) : text[i] \in Table(f)
        /\ 8 * write + bits = 6 * n
        /\ \A k \in 1..write : buf[k] = ReferenceByte(text, k)
        /\ DOMAIN buf = 1..Len(text)
    BY <1>1 DEF CodecInv, Stopped
  <1>5. CASE phase' = "done" /\ read' = read /\ (behavior = "loose" \/ read = Len(text))
    BY <1>1, <1>3, <1>4, <1>5 DEF Stopped, Refused
  <1>6. CASE /\ behavior # "loose" /\ read # Len(text) /\ read' = read + 1
             /\ phase' = IF buf[read + 1] = Pad THEN phase ELSE "error"
    <2>1. read < Len(text)
      BY <1>2, <1>6
    <2>2. CASE text[read + 1] = Pad
      <3>1. phase' = "padding"
        BY <1>1, <1>2, <1>6, <2>1, <2>2
      <3> HIDE DEF n
      <3>2. \A i \in n + 1..read + 1 : text[i] = Pad
        BY <1>2, <1>3, <2>2
      <3>3. n <= read + 1
        BY <1>2, <1>3
      <3> QED
        BY <1>1, <1>3, <1>4, <1>6, <3>1, <3>2, <3>3 DEF Stopped, Refused, n
    <2>3. CASE text[read + 1] # Pad
      <3>1. phase' = "error"
        BY <1>1, <1>2, <1>6, <2>1, <2>3
      <3> HIDE DEF n
      <3>2. read + 1 \in 1..Len(text) \ DOMAIN Body(text)
        BY <1>2, <1>3, <2>1
      <3>3. ~Acceptable(text, alphabet, behavior)
        BY <1>6, <2>3, <3>2 DEF Acceptable
      <3> QED
        BY <1>1, <3>1, <3>3 DEF Stopped, Refused
    <2> QED
      BY <2>2, <2>3
  <1> QED
    BY <1>1, <1>5, <1>6

\* Every step keeps text and buffer what the reference says.
LEMMA CodecStep == CodecInv /\ [Next]_vars => CodecInv'
  <1> SUFFICES ASSUME CodecInv, [Next]_vars PROVE CodecInv'
    OBVIOUS
  <1>0. BufferInv'
    BY BufferStep DEF CodecInv
  <1>1. CASE EncodeGroup
    <2>1. phase' = "encoding"
      BY <1>1 DEF EncodeGroup
    <2> QED
      BY <1>0, <1>1, <2>1, GroupStep DEF CodecInv, Scanned, Stopped, Refused
  <1>2. CASE Encoded
    <2>1. /\ phase = "encoding" /\ phase' = "encoded" /\ read = Len(bytes)
          /\ UNCHANGED <<bytes, coded, text, buf, alphabet, behavior, read, write, bits, last>>
      BY <1>2 DEF Encoded
    <2>2. TypeOK'
      BY <2>1 DEF CodecInv, TypeOK
    <2>3. Made'
      BY <2>1 DEF CodecInv, BufferInv, Groups, Made
    <2> QED
      BY <1>0, <2>1, <2>2, <2>3 DEF CodecInv, Scanned, Stopped, Refused
  <1>3. ASSUME NEW a \in Alphabets, NEW b \in Behaviors, Decode(a, b) PROVE CodecInv'
    <2>1. /\ phase = "encoded" /\ phase' = "decoding" /\ buf' = text /\ alphabet' = a
          /\ behavior' = b /\ read' = 0 /\ write' = 0 /\ bits' = 0 /\ last' = 0
          /\ UNCHANGED <<bytes, coded, text>>
      BY <1>3 DEF Decode
    <2>2. text \in Seq(Octet)
      <3>1. text \in Seq(Ascii) /\ Ascii \subseteq Octet
        BY DEF CodecInv, TypeOK, Ascii, Octet
      <3>2. \A i \in 1..Len(text) : text[i] \in Octet
        BY <3>1
      <3> QED
        BY <3>1, <3>2
    <2>3. TypeOK'
      BY <2>1, <2>2 DEF CodecInv, TypeOK
    <2>4. Scanned'
      BY <2>1 DEF Scanned
    <2>5. Made'
      BY <2>1 DEF CodecInv, Made
    <2> QED
      BY <1>0, <2>1, <2>3, <2>4, <2>5 DEF CodecInv, Stopped, Refused
  <1>4. CASE StopDecoding
    <2>1. /\ phase = "decoding" /\ phase' = "padding"
          /\ UNCHANGED <<bytes, coded, text, buf, alphabet, behavior, write, bits, last>>
          /\ read' \in {read, read + 1}
      BY <1>4 DEF StopDecoding
    <2>2. TypeOK'
      BY <2>1 DEF CodecInv, TypeOK
    <2>3. Made'
      BY <2>1 DEF CodecInv, Made
    <2> QED
      BY <1>0, <1>4, <2>1, <2>2, <2>3, StopStep DEF CodecInv, Scanned, Refused
  <1>5. CASE DecodeCharacter
    BY <1>0, <1>5, CharacterStep DEF CodecInv
  <1>6. CASE CheckPadding
    <2>1. /\ phase = "padding" /\ phase' \in {"padding", "done", "error"}
          /\ UNCHANGED <<bytes, coded, text, buf, alphabet, behavior, write, bits, last>>
          /\ read' \in {read, read + 1}
      BY <1>6 DEF CheckPadding
    <2>2. TypeOK'
      BY <2>1 DEF CodecInv, TypeOK
    <2>3. Made'
      BY <2>1 DEF CodecInv, Made
    <2> QED
      BY <1>0, <1>6, <2>1, <2>2, <2>3, PaddingStep DEF CodecInv, Scanned
  <1>7. CASE UNCHANGED vars
    BY <1>0, <1>7 DEF vars, CodecInv, TypeOK, Scanned, Stopped, Refused, Made
  <1> QED
    BY <1>1, <1>2, <1>3, <1>4, <1>5, <1>6, <1>7 DEF Next
\* Text and buffer are what the reference says in every state.
LEMMA CodecInvariant == Spec => []CodecInv
BY CodecInit, CodecStep, PTL DEF Spec

-------------------------------------------------------------------------------
(* The results about decoding.                                              *)

\* The bytes the decoder yields are those of the reference definition, for texts
\* of every length, although it writes over its own input and keeps only one sextet
\* and a count of bits (decode, decode_inplace).
THEOREM AlwaysMatchesReference == Spec => []MatchesReference
  <1>1. ASSUME CodecInv PROVE MatchesReference
    <2> SUFFICES ASSUME phase = "done" PROVE Decoded = ReferenceDecode(text)
      BY DEF MatchesReference
    <2> DEFINE n == Len(Body(text))
    <2>1. /\ DOMAIN buf = 1..Len(text) /\ n \in 0..Len(text) /\ 8 * write + bits = 6 * n
          /\ \A k \in 1..write : buf[k] = ReferenceByte(text, k)
      BY <1>1 DEF CodecInv, Stopped
    <2>2. /\ write \in Nat /\ bits \in {0, 2, 4, 6} /\ buf \in Seq(Octet)
          /\ text \in Seq(Ascii) /\ Len(text) \in Nat
      BY <1>1 DEF CodecInv, TypeOK
    <2> HIDE DEF n
    <2>3. (6 * n) \div 8 = write /\ write <= Len(text)
      BY <2>1, <2>2
    <2>4. SubSeq(buf, 1, write) = [k \in 1..write |-> buf[k]]
      BY <2>1, <2>2, <2>3
    <2> QED
      BY <2>1, <2>3, <2>4 DEF Decoded, ReferenceDecode, n
  <1> QED
    BY <1>1, CodecInvariant, PTL

\* The decoder takes exactly the texts of one alphabet with nothing but padding
\* after the padding (_base64_value and the two loops of decode).
THEOREM AlwaysAcceptsExactly == Spec => []AcceptsExactly
  <1>1. ASSUME CodecInv PROVE AcceptsExactly
    <2> SUFFICES ASSUME phase = "done" PROVE Acceptable(text, alphabet, behavior)
      BY <1>1 DEF AcceptsExactly, CodecInv, Refused
    <2> DEFINE n == Len(Body(text))
    <2>1. /\ n \in 0..Len(text) /\ DOMAIN Body(text) = 1..n
          /\ \A i \in DOMAIN Body(text), f \in Fitting(alphabet) : text[i] \in Table(f)
          /\ behavior # "loose" => \A i \in n + 1..read : text[i] = Pad
          /\ behavior = "loose" \/ read = Len(text)
      BY <1>1 DEF CodecInv, Stopped
    <2>2. text \in Seq(Ascii) /\ Len(text) \in Nat /\ alphabet \in Alphabets
      BY <1>1 DEF CodecInv, TypeOK
    <2>3. PICK f \in Fitting(alphabet) : TRUE
      BY <2>2 DEF Fitting, Alphabets
    <2>4. Range(Body(text)) \subseteq Table(f)
      BY <2>1, <2>3 DEF Range, Body
    <2> HIDE DEF n
    <2>5. behavior = "loose" \/ \A i \in 1..Len(text) \ DOMAIN Body(text) : text[i] = Pad
      BY <2>1, <2>2
    <2> QED
      BY <2>3, <2>4, <2>5 DEF Acceptable
  <1> QED
    BY <1>1, CodecInvariant, PTL

\* Four sextets spell group q of the bytes s: the encoder writes them, or padding
\* for those past the end, and their bits are the bytes of the group.
Spells(v1, v2, v3, v4, s, q, a) ==
    /\ Group(a, GroupOf(s, q))[1] = Character(a, v1)
    /\ Group(a, GroupOf(s, q))[2] = Character(a, v2)
    /\ Group(a, GroupOf(s, q))[3] = IF 3 * q + 2 <= Len(s) THEN Character(a, v3) ELSE Pad
    /\ Group(a, GroupOf(s, q))[4] = IF 3 * q + 3 <= Len(s) THEN Character(a, v4) ELSE Pad
    /\ ((v1 * 64 + v2) \div 16) % 256 = s[3 * q + 1]
    /\ 3 * q + 2 <= Len(s) => ((v2 * 64 + v3) \div 4) % 256 = s[3 * q + 2]
    /\ 3 * q + 3 <= Len(s) => (v3 * 64 + v4) % 256 = s[3 * q + 3]

\* The shifts and masks of encode find such sextets for every group.
LEMMA GroupBits ==
    ASSUME NEW s \in Seq(Octet), NEW q \in Nat, 3 * q < Len(s), NEW a
    PROVE  \E v1, v2, v3, v4 \in 0..63 : Spells(v1, v2, v3, v4, s, q, a)
  <1> DEFINE end == IF 3 * q + 3 <= Len(s) THEN 3 * q + 3 ELSE Len(s)
             g == GroupOf(s, q)
             i(k) == IF k <= Len(g) THEN g[k] ELSE 0
             full == << Character(a, i(1) \div 4),
                        Character(a, (i(1) % 4) * 16 + i(2) \div 16),
                        Character(a, (i(2) % 16) * 4 + i(3) \div 64),
                        Character(a, i(3) % 64) >>
  <1>1. Len(s) \in Nat /\ \A k \in 1..Len(s) : s[k] \in Octet
    OBVIOUS
  <1>2. end \in Nat /\ end <= Len(s) /\ end - 3 * q \in 1..3
    BY <1>1
  <1>3. Len(g) = end - 3 * q /\ \A k \in 1..end - 3 * q : g[k] = s[3 * q + k]
    <2>1. g = SubSeq(s, 3 * q + 1, end)
      BY DEF GroupOf
    <2> HIDE DEF end, g
    <2>2. /\ Len(g) = IF 3 * q + 1 <= end THEN end - (3 * q + 1) + 1 ELSE 0
          /\ \A k \in 1..end - (3 * q + 1) + 1 : g[k] = s[3 * q + 1 + k - 1]
      BY <1>1, <1>2, <2>1, SubSeqProperties
    <2>3. ASSUME NEW k \in 1..end - 3 * q PROVE g[k] = s[3 * q + k]
      <3>1. k \in 1..end - (3 * q + 1) + 1 /\ 3 * q + 1 + k - 1 = 3 * q + k
        BY <1>2
      <3> QED
        BY <2>2, <3>1
    <2> QED
      BY <1>2, <2>2, <2>3
  <1>4. Group(a, g) = [k \in 1..4 |-> IF k <= Len(g) + 1 THEN full[k] ELSE Pad]
    BY DEF Group
  <1>5. /\ i(1) = s[3 * q + 1]
        /\ 3 * q + 2 <= Len(s) => i(2) = s[3 * q + 2]
        /\ 3 * q + 3 <= Len(s) => i(3) = s[3 * q + 3]
        /\ i(1) \in Octet /\ i(2) \in Octet /\ i(3) \in Octet
    <2>1. /\ 1 <= Len(g) /\ 1 \in 1..end - 3 * q /\ 3 * q + 1 \in 1..Len(s)
      BY <1>1, <1>2, <1>3
    <2>2. i(1) = s[3 * q + 1]
      BY <1>3, <2>1
    <2>3. 3 * q + 2 <= Len(s) => /\ 2 <= Len(g) /\ 2 \in 1..end - 3 * q
                                 /\ 3 * q + 2 \in 1..Len(s)
      BY <1>1, <1>2, <1>3
    <2>4. 3 * q + 2 <= Len(s) => i(2) = s[3 * q + 2]
      BY <1>3, <2>3
    <2>5. 3 * q + 3 <= Len(s) => /\ 3 <= Len(g) /\ 3 \in 1..end - 3 * q
                                 /\ 3 * q + 3 \in 1..Len(s)
      BY <1>1, <1>2, <1>3
    <2>6. 3 * q + 3 <= Len(s) => i(3) = s[3 * q + 3]
      BY <1>3, <2>5
    <2>7. ASSUME NEW k \in 1..3 PROVE i(k) \in Octet
      <3>1. CASE k <= Len(g)
        <4>1. k \in 1..end - 3 * q /\ 3 * q + k \in 1..Len(s)
          BY <1>1, <1>2, <1>3, <3>1
        <4> QED
          BY <1>1, <1>3, <3>1, <4>1
      <3>2. CASE ~(k <= Len(g))
        BY <3>2 DEF Octet
      <3> QED
        BY <3>1, <3>2
    <2> QED
      BY <2>2, <2>4, <2>6, <2>7
  <1> DEFINE v1 == i(1) \div 4
             v2 == (i(1) % 4) * 16 + i(2) \div 16
             v3 == (i(2) % 16) * 4 + i(3) \div 64
             v4 == i(3) % 64
  <1>6. v1 \in 0..63 /\ v2 \in 0..63 /\ v3 \in 0..63 /\ v4 \in 0..63
    <2> HIDE DEF i
    <2> QED
      BY <1>5, SextetType
  <1>7. /\ ((v1 * 64 + v2) \div 16) % 256 = i(1)
        /\ ((v2 * 64 + v3) \div 4) % 256 = i(2)
        /\ (v3 * 64 + v4) % 256 = i(3)
    <2> HIDE DEF i
    <2> DEFINE x == i(1)
               y == i(2)
               z == i(3)
    <2>1. x \in 0..255 /\ y \in 0..255 /\ z \in 0..255
      BY <1>5 DEF Octet
    <2> HIDE DEF x, y, z
    <2>2. ((x \div 4) * 64 + ((x % 4) * 16 + y \div 16)) \div 16 = x
      BY <2>1
    <2>3. ((((x % 4) * 16 + y \div 16) * 64 + ((y % 16) * 4 + z \div 64)) \div 4) % 256 = y
      BY <2>1
    <2>4. ASSUME NEW e \in Nat, NEW b \in 0..3, NEW d \in 0..63, z = 64 * b + d
          PROVE  ((e * 4 + b) * 64 + d) % 256 = z
      <3>1. (e * 4 + b) * 64 + d = 256 * e + z
        BY <2>4
      <3>2. (256 * e + z) % 256 = z
        BY <2>1
      <3> QED
        BY <3>1, <3>2
    <2>5. x % 256 = x
      BY <2>1
    <2>6. /\ ((v1 * 64 + v2) \div 16) % 256 = x
          /\ ((v2 * 64 + v3) \div 4) % 256 = y
          /\ (v3 * 64 + v4) % 256 = z
      <3>1. /\ v1 = x \div 4 /\ v2 = (x % 4) * 16 + y \div 16
            /\ v3 = (y % 16) * 4 + z \div 64 /\ v4 = z % 64
        BY DEF x, y, z
      <3> HIDE DEF v1, v2, v3, v4
      <3>2. ((v1 * 64 + v2) \div 16) % 256 = x
        BY <2>2, <2>5, <3>1
      <3>3. ((v2 * 64 + v3) \div 4) % 256 = y
        BY <2>3, <3>1
      <3>4. (v3 * 64 + v4) % 256 = z
        <4> DEFINE e == y % 16
                   b == z \div 64
        <4>1. e \in Nat /\ b \in 0..3 /\ v4 \in 0..63 /\ z = 64 * b + v4
          BY <2>1, <3>1
        <4>2. v3 = e * 4 + b
          BY <3>1
        <4> HIDE DEF e, b
        <4> QED
          BY <2>4, <4>1, <4>2
      <3> QED
        BY <3>2, <3>3, <3>4
    <2> QED
      BY <2>6 DEF x, y, z
  <1>8. /\ Group(a, g)[1] = Character(a, v1)
        /\ Group(a, g)[2] = Character(a, v2)
        /\ Group(a, g)[3] = IF 3 * q + 2 <= Len(s) THEN Character(a, v3) ELSE Pad
        /\ Group(a, g)[4] = IF 3 * q + 3 <= Len(s) THEN Character(a, v4) ELSE Pad
    <2>1. /\ full[1] = Character(a, v1) /\ full[2] = Character(a, v2)
          /\ full[3] = Character(a, v3) /\ full[4] = Character(a, v4)
      OBVIOUS
    <2>2. /\ 1 <= Len(g) + 1 /\ 2 <= Len(g) + 1
          /\ 3 <= Len(g) + 1 <=> 3 * q + 2 <= Len(s)
          /\ 4 <= Len(g) + 1 <=> 3 * q + 3 <= Len(s)
      <3>1. Len(g) = end - 3 * q
        BY <1>3
      <3> HIDE DEF g
      <3> QED
        BY <1>1, <3>1
    <2> HIDE DEF full, v1, v2, v3, v4, g, i
    <2> QED
      BY <1>4, <2>1, <2>2
  <1> HIDE DEF v1, v2, v3, v4, i, end, full
  <1>9. /\ ((v1 * 64 + v2) \div 16) % 256 = s[3 * q + 1]
        /\ 3 * q + 2 <= Len(s) => ((v2 * 64 + v3) \div 4) % 256 = s[3 * q + 2]
        /\ 3 * q + 3 <= Len(s) => (v3 * 64 + v4) % 256 = s[3 * q + 3]
    BY <1>5, <1>7
  <1>10. Spells(v1, v2, v3, v4, s, q, a)
    BY <1>8, <1>9 DEF Spells
  <1> QED
    BY <1>6, <1>10

\* Text t has that group of s.
Shows(v1, v2, v3, v4, t, s, q, a) ==
    /\ Spells(v1, v2, v3, v4, s, q, a)
    /\ t[4 * q + 1] = Character(a, v1) /\ t[4 * q + 2] = Character(a, v2)
    /\ t[4 * q + 3] = IF 3 * q + 2 <= Len(s) THEN Character(a, v3) ELSE Pad
    /\ t[4 * q + 4] = IF 3 * q + 3 <= Len(s) THEN Character(a, v4) ELSE Pad

\* A text of the encoder has one body, in its alphabet, that stands for the bytes,
\* and nothing but padding after it (encode).
LEMMA EncodedText ==
    ASSUME NEW s \in Seq(Octet), NEW t \in Seq(Ascii), NEW a \in {"standard", "url"},
           Consists(t, a, s), Len(t) = required_encode_size(Len(s))
    PROVE  /\ Range(Body(t)) \subseteq Table(a)
           /\ \A i \in 1..Len(t) \ DOMAIN Body(t) : t[i] = Pad
           /\ ReferenceDecode(t) = s
  <1> DEFINE n == Len(s)
             m == (8 * n + 5) \div 6
  <1>1. n \in Nat /\ Len(t) \in Nat /\ DOMAIN s = 1..n
    OBVIOUS
  <1>2. PICK Q \in Nat, R \in 0..2 : n = 3 * Q + R
    <2>1. ASSUME NEW k \in Nat PROVE \E q \in Nat, r \in 0..2 : k = 3 * q + r
      <3>1. k \div 3 \in Nat /\ k % 3 \in 0..2 /\ k = 3 * (k \div 3) + (k % 3)
        OBVIOUS
      <3> QED
        BY <3>1
    <2> QED
      BY <1>1, <2>1
  <1>3. /\ Len(t) = IF R = 0 THEN 4 * Q ELSE 4 * Q + 4
        /\ m = IF R = 0 THEN 4 * Q ELSE 4 * Q + R + 1
        /\ (6 * m) \div 8 = n
    <2> HIDE DEF n
    <2>1. CASE R = 0
      BY <1>2, <2>1 DEF required_encode_size, n
    <2>2. CASE R = 1
      BY <1>2, <2>2 DEF required_encode_size, n
    <2>3. CASE R = 2
      BY <1>2, <2>3 DEF required_encode_size, n
    <2> QED
      BY <1>2, <2>1, <2>2, <2>3
  <1> HIDE DEF n, m
  <1>4. ASSUME NEW q \in Nat, 3 * q < n
        PROVE  \E v1, v2, v3, v4 \in 0..63 : Shows(v1, v2, v3, v4, t, s, q, a)
    <2>1. PICK v1, v2, v3, v4 \in 0..63 : Spells(v1, v2, v3, v4, s, q, a)
      BY <1>4, GroupBits DEF n
    <2>2. 4 * q + 4 <= Len(t)
      BY <1>2, <1>3, <1>4
    <2>3. /\ t[4 * q + 1] = Group(a, GroupOf(s, q))[1]
          /\ t[4 * q + 2] = Group(a, GroupOf(s, q))[2]
          /\ t[4 * q + 3] = Group(a, GroupOf(s, q))[3]
          /\ t[4 * q + 4] = Group(a, GroupOf(s, q))[4]
      <3>1. \A j \in 1..4 : 4 * q + j <= Len(t)
        BY <1>1, <2>2
      <3>2. \A j \in 1..4 : t[4 * q + j] = Group(a, GroupOf(s, q))[j]
        BY <3>1 DEF Consists
      <3> QED
        BY <3>2
    <2> QED
      <3>1. Shows(v1, v2, v3, v4, t, s, q, a)
        BY <2>1, <2>3 DEF Spells, Shows
      <3> QED
        BY <3>1
  <1>5. ASSUME NEW i \in 1..Len(t)
        PROVE  IF i <= m THEN t[i] # Pad /\ t[i] \in Table(a) ELSE t[i] = Pad
    <2>1. PICK q \in Nat, j \in 1..4 : i = 4 * q + j
      <3>1. (i - 1) \div 4 \in Nat /\ ((i - 1) % 4) + 1 \in 1..4
            /\ i = 4 * ((i - 1) \div 4) + (((i - 1) % 4) + 1)
        BY <1>1
      <3> QED
        BY <3>1
    <2>2. 3 * q < n
      BY <1>2, <1>3, <2>1
    <2>s. PICK v1, v2, v3, v4 \in 0..63 : Shows(v1, v2, v3, v4, t, s, q, a)
      BY <1>4, <2>2
    <2>3. /\ t[4 * q + 1] = Character(a, v1) /\ t[4 * q + 2] = Character(a, v2)
          /\ t[4 * q + 3] = IF 3 * q + 2 <= n THEN Character(a, v3) ELSE Pad
          /\ t[4 * q + 4] = IF 3 * q + 3 <= n THEN Character(a, v4) ELSE Pad
          /\ Spells(v1, v2, v3, v4, s, q, a)
      BY <2>s DEF Shows, n
    <2>4. \A v \in 0..63 : Character(a, v) # Pad /\ Character(a, v) \in Table(a)
      BY TableOf DEF Table
    <2>5. /\ 4 * q + 1 <= m /\ 4 * q + 2 <= m
          /\ 4 * q + 3 <= m <=> 3 * q + 2 <= n
          /\ 4 * q + 4 <= m <=> 3 * q + 3 <= n
      BY <1>2, <1>3, <2>2
    <2>6. CASE j = 1
      BY <2>1, <2>3, <2>4, <2>5, <2>6
    <2>7. CASE j = 2
      BY <2>1, <2>3, <2>4, <2>5, <2>7
    <2>8. CASE j = 3
      BY <2>1, <2>3, <2>4, <2>5, <2>8
    <2>9. CASE j = 4
      BY <2>1, <2>3, <2>4, <2>5, <2>9
    <2> QED
      BY <2>6, <2>7, <2>8, <2>9
  <1>6. m \in 0..Len(t)
    BY <1>2, <1>3
  <1>7. DOMAIN Body(t) = 1..m /\ Len(Body(t)) = m
    <2>1. (\A i \in 1..m : t[i] # Pad) /\ (m < Len(t) => t[m + 1] = Pad)
      BY <1>1, <1>5, <1>6
    <2> QED
      BY <1>6, <2>1, BodyOf
  <1>8. Range(Body(t)) \subseteq Table(a)
    <2>1. \A i \in DOMAIN Body(t) : Body(t)[i] = t[i]
      BY DEF Body
    <2> QED
      BY <1>1, <1>5, <1>6, <1>7, <2>1 DEF Range
  <1>9. \A i \in 1..Len(t) \ DOMAIN Body(t) : t[i] = Pad
    BY <1>1, <1>5, <1>6, <1>7
  <1>10. ASSUME NEW k \in 1..n PROVE ReferenceByte(t, k) = s[k]
    <2>1. PICK q \in Nat, r \in 1..3 : k = 3 * q + r
      <3>1. (k - 1) \div 3 \in Nat /\ ((k - 1) % 3) + 1 \in 1..3
            /\ k = 3 * ((k - 1) \div 3) + (((k - 1) % 3) + 1)
        BY <1>1
      <3> QED
        BY <3>1
    <2>2. 3 * q < n /\ 3 * q + r <= n
      BY <1>1, <2>1
    <2>s. PICK v1, v2, v3, v4 \in 0..63 : Shows(v1, v2, v3, v4, t, s, q, a)
      BY <1>4, <2>2
    <2>3. /\ t[4 * q + 1] = Character(a, v1) /\ t[4 * q + 2] = Character(a, v2)
          /\ t[4 * q + 3] = IF 3 * q + 2 <= n THEN Character(a, v3) ELSE Pad
          /\ t[4 * q + 4] = IF 3 * q + 3 <= n THEN Character(a, v4) ELSE Pad
          /\ Spells(v1, v2, v3, v4, s, q, a)
      BY <2>s DEF Shows, n
    <2>4. \A v \in 0..63 : Place(Character(a, v)) = v
      BY TableOf
    <2>5. 2^0 = 1 /\ 2^2 = 4 /\ 2^4 = 16
      OBVIOUS
    <2>6. CASE r = 1
      <3>1. (8 * (k - 1)) \div 6 + 1 = 4 * q + 1 /\ 4 - ((8 * (k - 1)) % 6) = 4
        BY <2>1, <2>6
      <3>2. (4 * q + 1) + 1 = 4 * q + 2
        OBVIOUS
      <3>3. Place(t[4 * q + 1]) = v1 /\ Place(t[4 * q + 2]) = v2
        BY <2>3, <2>4
      <3>4. ReferenceByte(t, k) = ((v1 * 64 + v2) \div 16) % 256
        BY <2>5, <3>1, <3>2, <3>3 DEF ReferenceByte
      <3> QED
        BY <2>1, <2>3, <2>6, <3>4 DEF Spells
    <2>7. CASE r = 2
      <3>1. (8 * (k - 1)) \div 6 + 1 = 4 * q + 2 /\ 4 - ((8 * (k - 1)) % 6) = 2
        BY <2>1, <2>7
      <3>2. (4 * q + 2) + 1 = 4 * q + 3
        OBVIOUS
      <3>3. Place(t[4 * q + 2]) = v2 /\ Place(t[4 * q + 3]) = v3
        BY <2>2, <2>3, <2>4, <2>7
      <3>4. ReferenceByte(t, k) = ((v2 * 64 + v3) \div 4) % 256
        BY <2>5, <3>1, <3>2, <3>3 DEF ReferenceByte
      <3> QED
        BY <2>1, <2>2, <2>3, <2>7, <3>4 DEF Spells, n
    <2>8. CASE r = 3
      <3>1. (8 * (k - 1)) \div 6 + 1 = 4 * q + 3 /\ 4 - ((8 * (k - 1)) % 6) = 0
        BY <2>1, <2>8
      <3>2. (4 * q + 3) + 1 = 4 * q + 4
        OBVIOUS
      <3>3. Place(t[4 * q + 3]) = v3 /\ Place(t[4 * q + 4]) = v4
        <4>1. 3 * q + 2 <= n /\ 3 * q + 3 <= n
          BY <1>1, <2>2, <2>8
        <4> QED
          BY <2>3, <2>4, <4>1
      <3>4. ReferenceByte(t, k) = (v3 * 64 + v4) % 256
        <4>1. (v3 * 64 + v4) \div 1 = v3 * 64 + v4
          OBVIOUS
        <4> QED
          BY <2>5, <3>1, <3>2, <3>3, <4>1 DEF ReferenceByte
      <3> QED
        BY <2>1, <2>2, <2>3, <2>8, <3>4 DEF Spells, n
    <2> QED
      BY <2>6, <2>7, <2>8
  <1>11. ReferenceDecode(t) = [k \in 1..n |-> s[k]]
    BY <1>3, <1>7, <1>10 DEF ReferenceDecode
  <1> QED
    BY <1>1, <1>8, <1>9, <1>11

\* Whatever has been encoded, with whichever alphabet, is decoded to the same bytes,
\* and is refused only by a decoder that was told the other alphabet (encode and
\* decode).
THEOREM AlwaysRoundTrips == Spec => []RoundTrip
  <1>1. ASSUME CodecInv, MatchesReference PROVE RoundTrip
    <2> SUFFICES ASSUME coded # "none", phase \in {"done", "error"}
                 PROVE  /\ phase = "done" => Decoded = bytes
                        /\ phase = "error" => alphabet \notin {coded, "auto"}
      BY DEF RoundTrip
    <2>1. /\ bytes \in Seq(Octet) /\ text \in Seq(Ascii) /\ coded \in {"standard", "url"}
          /\ Consists(text, coded, bytes) /\ Len(text) = required_encode_size(Len(bytes))
      BY <1>1 DEF CodecInv, TypeOK, Made
    <2>2. /\ Range(Body(text)) \subseteq Table(coded)
          /\ \A i \in 1..Len(text) \ DOMAIN Body(text) : text[i] = Pad
          /\ ReferenceDecode(text) = bytes
      BY <2>1, EncodedText
    <2>3. ASSUME alphabet \in {coded, "auto"} PROVE Acceptable(text, alphabet, behavior)
      <3>1. coded \in Fitting(alphabet)
        BY <2>1, <2>3 DEF Fitting
      <3> QED
        BY <2>2, <3>1 DEF Acceptable
    <2> QED
      BY <1>1, <2>2, <2>3 DEF CodecInv, Refused, MatchesReference
  <1> QED
    BY <1>1, CodecInvariant, AlwaysMatchesReference, PTL
===============================================================================
