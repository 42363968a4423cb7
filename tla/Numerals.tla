------------------------------ MODULE Numerals ------------------------------
(***************************************************************************)
(* The conversions between bytes and text (util.cpp, crypto/base58.cpp).   *)
(* A byte is a number below 256, and a character of a text is the number   *)
(* of the digit it stands for: 0..15 in hexadecimal, 0..57 in base 58,     *)
(* where digit 0 is written '1', and Space stands for a blank.             *)
(***************************************************************************)
EXTENDS Integers, Sequences, SequencesExt

Space == -1

\* The number of leading zeroes of b, and b without them
Zeroes(b) ==
  CHOOSE n \in 0..Len(b) : /\ \A i \in 1..n : b[i] = 0
                           /\ n < Len(b) => b[n + 1] # 0
Stripped(b) == SubSeq(b, Zeroes(b) + 1, Len(b))

Zero(n) == [i \in 1..n |-> 0]

\* b := b * factor + c in a buffer of fixed length, the last carry forgotten
MulAdd(b, base, factor, c) ==
  LET x[i \in 1..Len(b)] ==
        factor * b[i] + (IF i = Len(b) THEN c ELSE x[i + 1] \div base)
  IN  [i \in 1..Len(b) |-> x[i] % base]

\* The digits of text, whose leading zeroes are kept as such, in a buffer of
\* size digits of base to
Convert(text, from, to, size) ==
  LET digits == FoldLeft(LAMBDA b, c : MulAdd(b, to, from, c),
                         Zero(size), Stripped(text))
  IN  Zero(Zeroes(text)) \o Stripped(digits)

\* mutant: the buffer is sized by the whole part of 138 / 100 alone
EncodeBase58Short(vch) ==
  Convert(vch, 256, 58, Len(Stripped(vch)))

EncodeBase58(vch) ==
  Convert(vch, 256, 58, (Len(Stripped(vch)) * 138) \div 100 + 1)

Fails == <<"not a number in base 58">>

\* Blanks around the text are skipped, one inside it is an error.
DecodeBase58(psz) ==
  LET last  == {i \in 1..Len(psz) : psz[i] # Space}
      blank == last = {}
      from  == CHOOSE i \in last : \A j \in last : i <= j
      to    == CHOOSE i \in last : \A j \in last : j <= i
      text  == IF blank THEN <<>> ELSE SubSeq(psz, from, to)
      rest  == IF blank THEN 0 ELSE Len(psz) - (from - 1) - Zeroes(text)
  IN  IF Space \in ToSet(text) THEN Fails
      ELSE Convert(text, 58, 256, (rest * 733) \div 1000 + 1)

\* Two digits a byte; hashes are written from their last byte to their first.
toHex(src, rev) ==
  LET p == IF rev THEN Reverse(src) ELSE src
  IN  [i \in 1..2 * Len(src) |->
         LET byte == p[(i + 1) \div 2]
         IN  IF i % 2 = 1 THEN byte \div 16 ELSE byte % 16]

fromHex(src, dstSize, rev) ==
  [i \in 1..dstSize |->
     LET at == 2 * (IF rev THEN dstSize - i ELSE i - 1)
     IN  16 * src[at + 1] + src[at + 2]]

\* Decimal digits, with the 0 that ends the loop dropped unless it is alone
pr128(y) ==
  LET result[x \in 0..y] ==
        IF x = 0 THEN <<0>> ELSE Append(result[x \div 10], x % 10)
      p == result[y]
  IN  IF p[1] # 0 \/ Len(p) = 1 THEN p ELSE Tail(p)

\* A number of one byte, or of two or four after a byte that says so, with
\* what follows it (eight bytes are beyond the integers used here)
LittleEndian(p, n) ==
  FoldLeft(LAMBDA v, i : v * 256 + p[n + 1 - i], 0, [i \in 1..n |-> i])

loadVarInt(p) ==
  LET r == Head(p)
      load(n) == [v |-> LittleEndian(Tail(p), n), p |-> SubSeq(p, n + 2, Len(p))]
  IN  CASE r < 253 -> [v |-> r, p |-> Tail(p)]
        [] r = 253 -> load(2)
        [] r = 254 -> load(4)
=============================================================================
