---------------------------- MODULE OutputScripts ----------------------------
(***************************************************************************)
(* What an output pays, read off its script (util.cpp).  A script is a     *)
(* sequence of bytes that lies in memory before other bytes, after, which  *)
(* some of the tests reach.  The two digests of a public key are left as   *)
(* the key itself.                                                         *)
(***************************************************************************)
EXTENDS Integers, Sequences, SequencesExt

kRIPEMD160ByteSize == 20
kMaxPushData == 512 * 1024

\* The byte at p[i] of a script and what follows it
Byte(script, after, i) ==
  CASE i <= Len(script)              -> script[i]
    [] i <= Len(script) + Len(after) -> after[i - Len(script)]
    [] OTHER                         -> 0

\* The push at p: how many bytes of size follow the opcode, the size, and
\* where the next opcode is.  Nothing is skipped when the opcode is no push,
\* and only the size is when it is too large.
PushHeader(c) ==
  CASE c = 76 -> 1 [] c = 77 -> 2 [] c = 78 -> 4 [] OTHER -> 0

getOpPushData(script, after, p) ==
  LET c    == Byte(script, after, p)
      n    == PushHeader(c)
      b(i) == Byte(script, after, p + i)
      size == CASE n = 0 -> c
                [] n = 1 -> b(1)
                [] n = 2 -> b(1) + 256 * b(2)
                [] n = 4 -> IF b(4) # 0 THEN kMaxPushData + 1
                            ELSE b(1) + 256 * b(2) + 65536 * b(3)
  IN  CASE ~(0 < c /\ c < 79)    -> [ok |-> FALSE, p |-> p]
        [] size > kMaxPushData   -> [ok |-> FALSE, p |-> p + 1 + n]
        [] OTHER                 -> [ok |-> TRUE, p |-> p + 1 + n + size]

\* Pushes and OP_RETURN only
isCommentScript(script, after) ==
  LET from[p \in Nat] ==
        \/ p > Len(script)
        \/ IF 0 < script[p] /\ script[p] < 79
           THEN \E push \in {getOpPushData(script, after, p)} :
                  push.ok /\ from[push.p]
           ELSE script[p] = 106 /\ from[p + 1]
  IN  from[1]

\* The last 20 bytes of every push from p on, and where the pushes end; end
\* is 0 when they reach the end of the script
KeyEndingAt(script, p) ==
  SubSeq(script, p - kRIPEMD160ByteSize, p - 1)

Keys(script, after, first) ==
  LET from[p \in Nat] ==
        LET push == getOpPushData(script, after, p)
        IN  CASE push.p > Len(script) -> [end |-> 0, addresses |-> <<>>]
              [] push.p <= Len(script) /\ ~push.ok
                   -> [end |-> push.p, addresses |-> <<>>]
              [] OTHER -> [from[push.p] EXCEPT
                             !.addresses = <<KeyEndingAt(script, push.p)>> \o @]
  IN  from[first]

\* m, a number of pushes, their number n, and OP_CHECKMULTISIG at the end.
\* The keys are not looked at when m is wrong.
isMultiSig(script, after) ==
  LET m    == Byte(script, after, 1) - 80
      keys == IF Len(script) > 5 /\ 1 <= m /\ m <= 16
              THEN Keys(script, after, 2)
              ELSE [end |-> 0, addresses |-> <<>>]
      n    == IF keys.end = 0 THEN 0 ELSE Byte(script, after, keys.end) - 80
      ok   == /\ 1 <= n /\ n <= 16 /\ n = Len(keys.addresses)
              /\ Byte(script, after, keys.end + 1) = 174
              /\ m <= n
              /\ keys.end + 1 = Len(script)
  IN  [ok |-> ok, m |-> m, n |-> n, addresses |-> keys.addresses]

\* Compare160: the first byte that differs decides; equal keys precede each
\* other, too.
Precedes(a, b) ==
  \/ a = b
  \/ \E i \in 1..kRIPEMD160ByteSize : /\ a[i] < b[i]
                                      /\ \A j \in 1..(i - 1) : a[j] = b[j]

\* mutant: the keys are packed in the order of the script
packMultiSigAsFound(addresses, m, n) == <<m, n>> \o FlattenSeq(addresses)

packMultiSig(addresses, m, n) ==
  <<m, n>> \o FlattenSeq(SortSeq(addresses, Precedes))

\* The first bytes in memory, the script's own or not
HasBytes(script, after, bytes) ==
  \A i \in 1..Len(bytes) : Byte(script, after, i) = bytes[i]

\* The value returned, and the two results; addrType is the kind of address,
\* and is left as it was when nothing is paid.
Solved(type, addrType, pubKeyHash) ==
  [type |-> type, addrType |-> addrType, pubKeyHash |-> pubKeyHash]

LeftAlone == -1
Lost(type) == Solved(type, LeftAlone, <<>>)

solveOutputScript(script, after) ==
  LET size     == Len(script)
      last(n)  == IF n <= size THEN SubSeq(script, size - n + 1, size) ELSE <<>>
      multi    == isMultiSig(script, after)
  IN  CASE /\ size = 25 /\ HasBytes(script, after, <<118, 169, 20>>)
           /\ last(2) = <<136, 172>>
             -> Solved(0, 0, SubSeq(script, 4, 23))
        [] size = 67 /\ script[1] = 65 /\ last(1) = <<172>>
             -> Solved(1, 0, SubSeq(script, 2, 66))
        [] size = 35 /\ script[1] = 33 /\ last(1) = <<172>>
             -> Solved(2, 0, SubSeq(script, 2, 34))
        [] /\ size = 23 /\ HasBytes(script, after, <<169, 20>>)
           /\ last(1) = <<135>>
             -> Solved(3, 5, SubSeq(script, 3, 22))
        [] OTHER ->
             IF multi.ok
             THEN Solved(4, 8, packMultiSig(multi.addresses, multi.m, multi.n))
             ELSE IF HasBytes(script, after, <<115, 99, 114, 105, 112, 116>>)
             THEN Lost(-2)
             ELSE IF isCommentScript(script, after) THEN Lost(-3)
             ELSE IF HasBytes(script, after, <<118, 169, 0, 136, 172>>)
             THEN Lost(-4)
             ELSE Lost(-1)
=============================================================================
