------------------------------- MODULE MCBase64 -------------------------------
(* Bounded instance of Base64.                                              *)
EXTENDS Base64

\* Bytes at both ends of every sextet; 251 and 255 encode to the characters
\* in which the alphabets differ.
MCInputs == UNION {[1..n -> {0, 1, 64, 251, 255}] : n \in 0..4}

\* A  z  9  +  /  -  _  =  and a character of neither alphabet.
MCTexts == UNION {[1..n -> {65, 122, 57, 43, 47, 45, 95, 61, 63}] : n \in 0..4}
===============================================================================
