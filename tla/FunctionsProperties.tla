------------------------- MODULE FunctionsProperties -------------------------
(***************************************************************************)
(* What the functions without state promise.  One input grows: a word      *)
(* letter by letter, a string of bytes byte by byte, or an output script   *)
(* token by token.                                                         *)
(***************************************************************************)
EXTENDS Registry, Numerals, OutputScripts

CONSTANTS
  Letters,          \* what can be typed
  Bytes,            \* the bytes of short strings
  MaxShort,         \* their greatest length
  MaxLong,          \* the greatest length of a string of bytes
  Tokens,           \* the names of the tokens of a script
  LastTokens,       \* those that may come last of a longest script
  MaxTokens,        \* the number of tokens of a longest script
  Afters            \* the bytes that may follow a script

VARIABLE input

Input(kind, v) == [kind |-> kind, v |-> v]

InputInit ==
  input \in {Input("word", ""), Input("bytes", <<>>), Input("script", <<>>)}

\* One more letter of a name, or a wrong one
TypeLetter ==
  /\ input.kind = "word"
  /\ \E c \in callbacks : \E nm \in Names[c] :
       /\ Len(nm) >= Len(input.v)
       /\ Agree(nm, input.v)
  /\ \E letter \in Letters : input' = Input("word", input.v \o letter)

\* Short strings have any bytes, long ones end in the greatest one.
ReadByte ==
  /\ input.kind = "bytes"
  /\ \E byte \in IF Len(input.v) < MaxShort THEN Bytes ELSE {255} :
       input' = Input("bytes", Append(input.v, byte))
  /\ Len(input.v) < MaxLong

OpN(n) == <<80 + n>>
OP_DUP == <<118>>
OP_EQUAL == <<135>>
OP_HASH160 == <<169>>
OP_EQUALVERIFY == <<136>>
OP_CHECKSIG == <<172>>
OP_CHECKMULTISIG == <<174>>
Push(n, byte) == <<n>> \o [i \in 1..n |-> byte]
PushData1(n, byte) == <<76>> \o Push(n, byte)

\* The tokens of scripts; the two halves of what p2pool made among them, a
\* push of 512 Kb and one byte, and one cut before its size.
TokenBytes ==
  [op1 |-> OpN(1), op2 |-> OpN(2), dup |-> OP_DUP, hash160 |-> OP_HASH160,
   equal |-> OP_EQUAL, equalVerify |-> OP_EQUALVERIFY, checkSig |-> OP_CHECKSIG,
   checkMultiSig |-> OP_CHECKMULTISIG, op0 |-> <<0>>, return |-> <<106>>,
   p2pool |-> <<115, 99, 114, 105, 112>>, depth |-> <<116>>,
   hash |-> Push(20, 1), key |-> Push(33, 2), wideKey |-> PushData1(33, 3),
   longKey |-> Push(65, 4), huge |-> <<78, 1, 0, 8, 0>>, cut |-> <<78>>]

\* A cut push would swallow what comes after it, so it comes last.
ReadToken ==
  /\ input.kind = "script"
  /\ input.v # <<>> => Last(input.v) # "cut"
  /\ \/ /\ Len(input.v) < MaxTokens - 1
        /\ \E token \in Tokens : input' = Input("script", Append(input.v, token))
     \/ /\ Len(input.v) = MaxTokens - 1
        /\ \E token \in LastTokens : input' = Input("script", Append(input.v, token))

InputNext == TypeLetter \/ ReadByte \/ ReadToken

InputSpec == InputInit /\ [][InputNext]_input

-----------------------------------------------------------------------------
(* Once the word typed so far names a command (Callback::find,             *)
(* callback.cpp:41), typing on never starts another one and never becomes  *)
(* ambiguous: it is that command still, or an error.                       *)
TypingOnKeepsTheCommand ==
  [][input.kind = "word" /\ find(input.v) \in callbacks
       => find(input'.v) \in {find(input.v), Unknown}]_input

\* The number of up to three bytes, and how a block would hold it
Number(b) == LittleEndian(b, Len(b))
VarInt(n) ==
  LET bytes(k) == [i \in 1..k |-> (n \div 256^(i - 1)) % 256]
  IN  CASE n < 253   -> <<n>>
        [] n >= 253 /\ n < 65536 -> <<253>> \o bytes(2)
        [] OTHER     -> <<254>> \o bytes(3) \o <<0>>

DecimalValue(digits) == FoldLeft(LAMBDA v, d : 10 * v + d, 0, digits)

(* Bytes survive the text they are written as: in base 58 (whatever the    *)
(* leading zeroes, the blanks around it and the rounding of the sizes of   *)
(* the buffers, base58.cpp:30 and 71) and in hexadecimal both ways round   *)
(* (util.cpp:55, 101); a number survives its decimal digits (util.cpp:962) *)
(* and the form blocks hold it in, leaving what follows it (util.h:363).   *)
TextKeepsTheBytes ==
  input.kind = "bytes" =>
    LET b == input.v
        n == IF Len(b) <= 3 THEN Number(b) ELSE 0
    IN  /\ DecodeBase58(<<Space>> \o EncodeBase58(b) \o <<Space>>) = b
        /\ \A rev \in BOOLEAN : fromHex(toHex(b, rev), Len(b), rev) = b
        /\ DecimalValue(pr128(n)) = n
        /\ Head(pr128(n)) = 0 => n = 0
        /\ loadVarInt(VarInt(n) \o b) = [v |-> n, p |-> b]

\* The scripts that are paid, as sequences of tokens; a push of more than
\* 512 Kb before the number of keys is passed over.
IsPush(t) == t[1] \in 20..75 \/ t[1] = 76
KeyOf(t) == SubSeq(t, Len(t) - kRIPEMD160ByteSize + 1, Len(t))
WithoutHuge(toks) ==
  LET at == Len(toks) - 2
  IN  IF at > 1 /\ toks[at] = TokenBytes.huge THEN RemoveAt(toks, at) ELSE toks

IsMultiSigOf(toks, m, n) ==
  /\ Len(toks) = n + 3
  /\ m <= n
  /\ toks[1] = OpN(m) /\ toks[n + 2] = OpN(n) /\ toks[n + 3] = OP_CHECKMULTISIG
  /\ \A i \in 2..(n + 1) : IsPush(toks[i])

Payment(toks) ==
  LET n == Len(WithoutHuge(toks)) - 3
      keys == [i \in 1..n |-> KeyOf(WithoutHuge(toks)[i + 1])]
      push(i, len) == i <= Len(toks) /\ toks[i][1] = len
      data(i) == Tail(toks[i])
  IN  CASE /\ push(3, 20)
           /\ toks = <<OP_DUP, OP_HASH160, toks[3], OP_EQUALVERIFY, OP_CHECKSIG>>
             -> Solved(0, 0, data(3))
        [] push(1, 65) /\ toks = <<toks[1], OP_CHECKSIG>> -> Solved(1, 0, data(1))
        [] push(1, 33) /\ toks = <<toks[1], OP_CHECKSIG>> -> Solved(2, 0, data(1))
        [] push(2, 20) /\ toks = <<OP_HASH160, toks[2], OP_EQUAL>>
             -> Solved(3, 5, data(2))
        [] n > 0 /\ \E m \in 1..16 : IsMultiSigOf(WithoutHuge(toks), m, n) ->
             Solved(4, 8, packMultiSig(Reverse(keys), toks[1][1] - 80, n))
        [] OTHER -> Lost(-1)

(* What an output pays (solveOutputScript, util.cpp:393) is what its       *)
(* tokens say, and the order of the keys of a multiple signature does not  *)
(* count.  It never depends on the bytes that follow the script in the     *)
(* block, although the tests read them; nor does the reason why nothing is *)
(* paid, save for a script shorter than six bytes or with a cut push.      *)
ScriptsPayByTheirTokens ==
  input.kind = "script" =>
    \E toks \in {[i \in DOMAIN input.v |-> TokenBytes[input.v[i]]]} :
    \E script \in {FlattenSeq(toks)}, paid \in {Payment(toks)} :
    \E found \in {{solveOutputScript(script, after) : after \in Afters}} :
      /\ IF paid.type >= 0 THEN found = {paid} ELSE \A s \in found : s.type < 0
      /\ Len(script) >= 6 /\ Last(input.v) # "cut" => \E s \in found : found = {s}
=============================================================================
