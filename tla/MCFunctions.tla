----------------------------- MODULE MCFunctions -----------------------------
(***************************************************************************)
(* The functions over every abbreviation of the words of the commands,     *)
(* all strings of at most three chosen bytes and their continuations up to *)
(* the 25 bytes of an address, and all scripts of at most five tokens.     *)
(***************************************************************************)
EXTENDS FunctionsProperties

MCLetters ==
  {"a", "b", "c", "d", "e", "f", "g", "h", "i", "j", "k", "l", "m", "n", "o",
   "p", "q", "r", "s", "t", "u", "v", "w", "x", "y", "z", "-", "_"}
MCBytes == {0, 1, 57, 58, 252, 253, 254, 255}
MCTokens == DOMAIN TokenBytes
MCLastTokens == {"checkSig", "checkMultiSig"}
MCAfters == {<<>>, <<116, 172>>, <<1, 0, 8, 0>>, <<174, 174>>}
=============================================================================
