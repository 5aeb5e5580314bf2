-------------------------------- MODULE Base64 --------------------------------
(***************************************************************************)
(* The base64 codec (base64.hpp).  A behaviour encodes a byte sequence,    *)
(* one group of the encoder's loop at a time, and decodes the text in      *)
(* place, one character at a time; or it decodes a text from elsewhere.    *)
(* Characters are ASCII codes, an array starts at index 1, and read and    *)
(* write count the elements the two iterators have passed.                 *)
(***************************************************************************)
EXTENDS Integers, Sequences, SequencesExt

CONSTANTS
    Inputs,     \* byte sequences to encode
    Texts       \* texts from elsewhere to decode

Octet == 0..255

Ascii == 0..127

ASSUME Base64Assumption ==
    /\ \A s \in Inputs : s \in Seq(Octet)
    /\ \A t \in Texts : t \in Seq(Ascii)

VARIABLES
    phase,      \* "encoding", "encoded", "decoding", "padding", "done", "error"
    bytes,      \* the input of the encoder
    coded,      \* the alphabet of the encoder, "none" for a text from elsewhere
    text,       \* the output of the encoder and input of the decoder
    buf,        \* the array the decoder reads from and writes to
    alphabet,   \* the decoder's alphabet, replaced once it is detected
    behavior,   \* the decoder's behaviour on padding
    read, write,
    bits, last  \* bits of the last sextet not yet written, and the sextet

vars == <<phase, bytes, coded, text, buf, alphabet, behavior, read, write, bits, last>>

Alphabets == {"auto", "standard", "url"}

Behaviors == {"moderate", "loose"}

Pad == 61       \* =

Special == [standard |-> <<43, 47>>, url |-> <<45, 95>>]    \* + /  and  - _

\* alpha[v], in the encoder's choice of the two tables.
Character(a, v) ==
    CASE v < 26 -> 65 + v
      [] v \in 26..51 -> 97 + (v - 26)
      [] v \in 52..61 -> 48 + (v - 52)
      [] OTHER -> Special[IF a = "url" THEN "url" ELSE "standard"][v - 61]

Invalid == -1

Fitting(a) == IF a = "auto" THEN {"standard", "url"} ELSE {a}

\* _base64_value: the sextet of a character, Invalid if it throws.
_base64_value(a, c) ==
    CASE c \in 65..90 -> c - 65
      [] c \in 97..122 -> c - 97 + 26
      [] c \in 48..57 -> c - 48 + 52
      [] \E f \in Fitting(a) : c = Special[f][1] -> 62
      [] \E f \in Fitting(a) : c = Special[f][2] -> 63
      [] OTHER -> Invalid

Detected_Never(a, c) == a

\* The alphabet that _base64_value leaves behind: the first special
\* character settles an alphabet that is to be detected.
Detected(a, c) ==
    IF a = "auto" /\ \E f \in Fitting(a) : c \in Range(Special[f])
    THEN CHOOSE f \in Fitting(a) : c \in Range(Special[f])
    ELSE a

required_encode_size(n) == (n \div 3 + (IF n % 3 # 0 THEN 1 ELSE 0)) * 4

max_decode_size_Floor(n) == (n \div 4) * 3

max_decode_size(n) == (n \div 4 + (IF n % 4 # 0 THEN 1 ELSE 0)) * 3

Group_DropsLowBits(a, g) ==
    LET Sextet(v) == Character(a, v)
        i(k) == IF k <= Len(g) THEN g[k] ELSE 0
        full == << Sextet(i(1) \div 4), Sextet((i(1) % 4) * 16 + i(2) \div 16),
                   Sextet((i(2) % 16) * 4), Sextet(i(3) % 64) >>
    IN  [k \in 1..4 |-> IF k <= Len(g) + 1 THEN full[k] ELSE Pad]

\* One round of the encoder's loop, on a group of one, two or three bytes.
Group(a, g) ==
    LET Sextet(v) == Character(a, v)
        i(k) == IF k <= Len(g) THEN g[k] ELSE 0
        full == << Sextet(i(1) \div 4), Sextet((i(1) % 4) * 16 + i(2) \div 16),
                   Sextet((i(2) % 16) * 4 + i(3) \div 64), Sextet(i(3) % 64) >>
    IN  [k \in 1..4 |-> IF k <= Len(g) + 1 THEN full[k] ELSE Pad]

Byte_WrongShift(l, b, part) == ((l * 2^(8 - b)) % 256) + (part \div 2^b)

\* The byte made of the bits left of one sextet and the first of the next,
\* cut to 8 bits by the assignment.
Byte(l, b, part) == ((l * 2^(8 - b)) % 256) + (part \div 2^(b - 2))

-------------------------------------------------------------------------------

Init ==
    /\ \/ /\ phase = "encoding"
          /\ bytes \in Inputs
          /\ coded \in {"standard", "url"}
          /\ text = <<>>
       \/ /\ phase = "encoded"
          /\ bytes = <<>>
          /\ coded = "none"
          /\ text \in Texts
    /\ buf = <<>>
    /\ alphabet = "auto"
    /\ behavior = "moderate"
    /\ read = 0
    /\ write = 0
    /\ bits = 0
    /\ last = 0

EncodeGroup ==
    /\ phase = "encoding"
    /\ read < Len(bytes)
    /\ LET end == IF read + 3 <= Len(bytes) THEN read + 3 ELSE Len(bytes)
       IN  /\ text' = text \o Group(coded, SubSeq(bytes, read + 1, end))
           /\ read' = end
    /\ UNCHANGED <<phase, bytes, coded, buf, alphabet, behavior, write, bits, last>>

Encoded ==
    /\ phase = "encoding"
    /\ read = Len(bytes)
    /\ phase' = "encoded"
    /\ UNCHANGED <<bytes, coded, text, buf, alphabet, behavior, read, write, bits, last>>

\* decode_inplace: the input is also the output.
Decode(a, b) ==
    /\ phase = "encoded"
    /\ phase' = "decoding"
    /\ buf' = text
    /\ alphabet' = a
    /\ behavior' = b
    /\ read' = 0
    /\ write' = 0
    /\ bits' = 0
    /\ last' = 0
    /\ UNCHANGED <<bytes, coded, text>>

\* A padding character or the end of the text leaves the first loop.
StopDecoding ==
    /\ phase = "decoding"
    /\ \/ /\ read = Len(text)
          /\ read' = read
       \/ /\ read < Len(text)
          /\ buf[read + 1] = Pad
          /\ read' = read + 1
    /\ phase' = "padding"
    /\ UNCHANGED <<bytes, coded, text, buf, alphabet, behavior, write, bits, last>>

DecodeCharacter ==
    /\ phase = "decoding"
    /\ read < Len(text)
    /\ buf[read + 1] # Pad
    /\ read' = read + 1
    /\ LET part == _base64_value(alphabet, buf[read + 1])
       IN  IF part = Invalid
           THEN /\ phase' = "error"
                /\ UNCHANGED <<buf, alphabet, write, bits, last>>
           ELSE /\ alphabet' = Detected(alphabet, buf[read + 1])
                /\ last' = part
                /\ \/ /\ bits + 6 >= 8
                      /\ buf' = [buf EXCEPT ![write + 1] = Byte(last, bits, part)]
                      /\ write' = write + 1
                      /\ bits' = bits - 2
                   \/ /\ bits + 6 < 8
                      /\ bits' = bits + 6
                      /\ UNCHANGED <<buf, write>>
                /\ UNCHANGED phase
    /\ UNCHANGED <<bytes, coded, text, behavior>>

CheckPadding ==
    /\ phase = "padding"
    /\ IF behavior = "loose" \/ read = Len(text)
       THEN /\ phase' = "done"
            /\ UNCHANGED read
       ELSE /\ read' = read + 1
            /\ phase' = IF buf[read + 1] = Pad THEN phase ELSE "error"
    /\ UNCHANGED <<bytes, coded, text, buf, alphabet, behavior, write, bits, last>>

Next ==
    \/ EncodeGroup
    \/ Encoded
    \/ \E a \in Alphabets, b \in Behaviors : Decode(a, b)
    \/ StopDecoding
    \/ DecodeCharacter
    \/ CheckPadding

Spec == Init /\ [][Next]_vars

-------------------------------------------------------------------------------

TypeOK ==
    /\ phase \in {"encoding", "encoded", "decoding", "padding", "done", "error"}
    /\ bytes \in Seq(Octet)
    /\ coded \in {"standard", "url", "none"}
    /\ text \in Seq(Ascii)
    /\ buf \in Seq(Octet)
    /\ alphabet \in Alphabets
    /\ behavior \in Behaviors
    /\ read \in Nat
    /\ write \in Nat
    /\ bits \in {0, 2, 4, 6}
    /\ last \in 0..63

Decoded == SubSeq(buf, 1, write)

\* A text of the encoder decodes to the bytes it was made from, and is
\* rejected only by a decoder that was told the other alphabet (encode and
\* decode, base64.hpp:79 and :199).
RoundTrip ==
    coded # "none" =>
        /\ phase = "done" => Decoded = bytes
        /\ phase = "error" => alphabet \notin {coded, "auto"}

\* The sextets of a text: what stands before the first padding character.
Body(t) == [i \in {k \in 1..Len(t) : \A j \in 1..k : t[j] # Pad} |-> t[i]]

\* The characters an encoder uses, and the place of a character in a table.
Table(f) == {Character(f, v) : v \in 0..63}
Place(c) == CHOOSE v \in 0..63 : \E f \in {"standard", "url"} : Character(f, v) = c

\* The reference definition of decoding: the text is one string of bits, six
\* of each character (its place in an encoder's table), cut into bytes.
ReferenceByte(t, k) ==
    LET i == (8 * (k - 1)) \div 6 + 1
        pair == Place(t[i]) * 64 + Place(t[i + 1])
    IN  (pair \div 2^(4 - ((8 * (k - 1)) % 6))) % 256
ReferenceDecode(t) == [k \in 1..((6 * Len(Body(t))) \div 8) |-> ReferenceByte(t, k)]

\* What the decoder yields is the reference's result, although it keeps only
\* one sextet and a bit count and writes over its own input (decode and
\* decode_inplace, base64.hpp:199 and :294).
MatchesReference == phase = "done" => Decoded = ReferenceDecode(text)

\* Texts the decoder should take: one alphabet only, the required one if it
\* is given, and, unless loose, nothing but padding after padding.
Acceptable(t, a, b) ==
    /\ \E f \in Fitting(a) : Range(Body(t)) \subseteq Table(f)
    /\ b = "loose" \/ \A i \in 1..Len(t) \ DOMAIN Body(t) : t[i] = Pad

\* The decoder accepts exactly the acceptable texts: with a detected alphabet
\* too, no text mixes the characters of both (_base64_value, base64.hpp:344).
AcceptsExactly ==
    /\ phase = "done" => Acceptable(text, alphabet, behavior)
    /\ phase = "error" => ~Acceptable(text, alphabet, behavior)

\* The sizes callers reserve are enough at every moment, exactly so for the
\* encoder, and decoding in place never overwrites a character it has yet to
\* read (required_encode_size, max_decode_size, decode_inplace).
BuffersSuffice ==
    /\ phase = "encoding" => Len(text) = required_encode_size(read)
    /\ phase \in {"decoding", "padding"} =>
        /\ write <= max_decode_size(read)
        /\ \A i \in read + 1..Len(text) : buf[i] = text[i]

===============================================================================
