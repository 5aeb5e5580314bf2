-------------------------------- MODULE MCRows --------------------------------
(* Regexp and Rows on a small instance: two parameters, two columns, two     *)
(* regular expressions and a malformed one.                                  *)
EXTENDS Regexp

MCValue == {"a", "b", "("}
MCMalformed == {"("}
===============================================================================
