------------------------------ MODULE MCCryptDb ------------------------------
(***************************************************************************)
(* CryptDb on small instances: two or three pages, two keys, one cipher    *)
(* and two contents, databases with and without a reserve.                 *)
(***************************************************************************)
EXTENDS CryptDbProps

CONSTANTS k0, k1, aes, null, v1, v2

MCKey == {k0, k1}
MCCipher == {aes}
MCValue == {v1, v2}
MCValue1 == {v1}
MCPage2 == 1..2
MCPage3 == 1..3
MCReserve == {0, 32}

MCSetup(spill, rekey, blind) == [spill |-> spill, rekey |-> rekey, blind |-> blind]
\* A spilling cache or re-encryption, not both; both; re-encryption.
OneOfBoth == {MCSetup(TRUE, FALSE, TRUE), MCSetup(FALSE, TRUE, TRUE)}
Both == {MCSetup(TRUE, TRUE, TRUE)}
RekeyOnly == {MCSetup(FALSE, TRUE, blind) : blind \in BOOLEAN}
=============================================================================
