--------------------------- MODULE SummaryProofs ---------------------------
(***************************************************************************)
(* Proofs about two commands that gather what they print.                  *)
(* closure: an edge joins two addresses that paid for one transaction      *)
(* together, the edges of a transaction join all that did, and so the      *)
(* components of the graph are the clusters of addresses.                  *)
(* rewards: what endBlock prints of a block is what its minted outputs     *)
(* claim, and the full dump stops exactly where it must.                   *)
(***************************************************************************)
EXTENDS ReportProofs

USE MaxTxsAssumption, MaxInputsAssumption, MaxOutputsAssumption,
    MaxRepeatsAssumption
USE DEF gNullHash, NullCell, allVars, cmdVars, command

-----------------------------------------------------------------------------
(* closure: the payers of a transaction as the steps change them.          *)

LEMMA PayersSame ==
  ASSUME NEW i, Parsed(i)' = Parsed(i), Inputs_(i)' = Inputs_(i),
         \A o \in Known(i) : txo'[o] = txo[o]
  PROVE  Known(i)' = Known(i) /\ PaidBy(i)' = PaidBy(i)
<1>1. Known(i)' = Known(i)
  BY DEF Known
<1>2. {o \in Known(i) : txo'[o].type >= 0} = {o \in Known(i) : txo[o].type >= 0}
  OBVIOUS
<1>3. PaidBy(i)' = PaidBy(i)
  BY <1>1, <1>2 DEF PaidBy
<1>4. QED
  BY <1>1, <1>3

LEMMA PayersAtStart ==
  ASSUME IndInv, HistoryInv, TxoInv, InputsAreKnown, Starts, NEW m, m = Len(chain) + 1
  PROVE  /\ \A i \in DOMAIN chain : PaidBy(i)' = PaidBy(i)
         /\ PaidBy(m)' = {} /\ Len(chain') = m
         /\ DOMAIN chain' = DOMAIN chain \union {m} /\ pc' = "inputs"
         /\ Ended = DOMAIN chain /\ Ended' = DOMAIN chain /\ AllPayers' = AllPayers
         /\ InputsAreKnown'
<1>1. PICK hash \in TxHash, ins \in Seq(Outpoint \union {GenInput}) :
          IsStart(hash, ins) /\ (IsNew(hash, ins) \/ IsRepeated(hash, ins))
  BY StartCases DEF HistoryInv, Starts
<1>2. /\ Len(chain) \in Nat /\ DOMAIN chain = 1 .. Len(chain) /\ Len(chain') = m
      /\ DOMAIN chain' = 1 .. m /\ \A i \in DOMAIN chain : chain'[i] = chain[i]
  BY <1>1, ChainAppended DEF HistoryInv
<1>3. Parsed(m)' = 0 /\ \A i \in DOMAIN chain : Parsed(i)' = Parsed(i)
  BY <1>1, ParsedAtStart
<1>4. ASSUME NEW o \in Outpoint, o[1] \in Hashes PROVE txo'[o] = txo[o]
  <2>1. CASE IsRepeated(hash, ins)
    BY <2>1 DEF IsRepeated
  <2>2. CASE IsNew(hash, ins)
    <3>1. o[1] # hash
      BY <1>4, <2>2, HashesAreCounted DEF IsNew, HistoryInv, ChainInv
    <3>2. \A x \in Outpoint : x[1] # hash => txo'[x] = txo[x]
      <4>1. tx'.hash = hash
        BY <1>1 DEF IsStart
      <4>2. QED
        BY <4>1, TxoStart DEF HistoryInv, Starts
    <3>3. QED
      BY <1>4, <3>1, <3>2
  <2>3. QED
    BY <1>1, <2>1, <2>2
<1>5. ASSUME NEW i \in DOMAIN chain
      PROVE  Known(i)' = Known(i) /\ PaidBy(i)' = PaidBy(i)
  <2>1. Inputs_(i)' = Inputs_(i) /\ Parsed(i)' = Parsed(i)
    BY <1>2, <1>3, <1>5 DEF Inputs_
  <2>2. \A o \in Known(i) : txo'[o] = txo[o]
    BY <1>4, <1>5 DEF InputsAreKnown
  <2>3. QED
    BY <2>1, <2>2, PayersSame
<1>6. Known(m)' = {} /\ PaidBy(m)' = {}
  <2>1. Known(m)' = {}
    BY <1>3 DEF Known
  <2>2. QED
    BY <2>1 DEF PaidBy
<1>7. DOMAIN chain' = DOMAIN chain \union {m}
  BY <1>2
<1>8. AllPayers' = AllPayers
  BY <1>5, <1>6, <1>7 DEF AllPayers
<1>9. pc = "tx" /\ pc' = "inputs"
  BY <1>1 DEF IsStart
<1>10. Ended = DOMAIN chain /\ Ended' = DOMAIN chain
  BY <1>2, <1>9 DEF Ended
<1>11. Hashes \subseteq Hashes'
  BY <1>2, <1>7 DEF Hashes
<1>12. InputsAreKnown'
  BY <1>5, <1>6, <1>7, <1>11 DEF InputsAreKnown
<1>13. QED
  BY <1>2, <1>5, <1>6, <1>7, <1>8, <1>9, <1>10, <1>12

LEMMA PayersElsewhere ==
  ASSUME IndInv, HistoryInv, ReadsNone
  PROVE  /\ chain' = chain /\ \A i \in DOMAIN chain : PaidBy(i)' = PaidBy(i)
         /\ AllPayers' = AllPayers
         /\ InputsAreKnown => InputsAreKnown'
<1>1. chain' = chain /\ txo' = txo
  BY DEF ReadsNone, Headers, StartOutputsCalls, OutputCalls, EndTXCalls, EndBlock,
     EndOfChain, Wrapup, WriteToClosedFile, Over
<1>2. ASSUME NEW i \in DOMAIN chain
      PROVE  Known(i)' = Known(i) /\ PaidBy(i)' = PaidBy(i)
  <2>1. Parsed(i)' = Parsed(i)
    BY <1>2, ParsedElsewhere
  <2>2. Inputs_(i)' = Inputs_(i)
    BY <1>1 DEF Inputs_
  <2>3. QED
    BY <1>1, <2>1, <2>2, PayersSame
<1>3. AllPayers' = AllPayers
  BY <1>1, <1>2 DEF AllPayers
<1>4. Hashes' = Hashes
  BY <1>1 DEF Hashes
<1>5. ASSUME InputsAreKnown PROVE InputsAreKnown'
  BY <1>1, <1>2, <1>4, <1>5 DEF InputsAreKnown
<1>6. QED
  BY <1>1, <1>2, <1>3, <1>5

(* The input of a coinbase transaction names no payer. *)
LEMMA PayersAtGenInput ==
  ASSUME IndInv, HistoryInv, GenInputCalls
  PROVE  /\ chain' = chain /\ \A i \in DOMAIN chain : PaidBy(i)' = PaidBy(i)
         /\ AllPayers' = AllPayers
         /\ InputsAreKnown => InputsAreKnown'
<1>1. PICK n : n = Len(chain)
  OBVIOUS
<1>2. /\ n \in DOMAIN chain /\ pc = "inputs" /\ pc' = pc /\ chain' = chain
      /\ Parsed(n) \in Nat /\ Parsed(n)' = Parsed(n) + 1
      /\ \A i \in DOMAIN chain \ {n} : Parsed(i)' = Parsed(i)
  BY <1>1, ParsedAtInput
<1>3. txo' = txo /\ upTXHash = gNullHash /\ tx.ins # <<>>
  BY DEF GenInputCalls, ParseGenInput, InputLeft
<1>4. IsMinted(n)
  <2>1. tx.hash \in coinbases /\ tx.hash = chain[n].hash
    <3>1. tx.hash = chain[n].hash /\ (tx.hash \in coinbases \/ upTXHash \in TxHash)
      BY <1>1, <1>2, <1>3, MintedInputs DEF HistoryInv
    <3>2. upTXHash \notin TxHash
      BY <1>3 DEF TxHash
    <3>3. QED
      BY <3>1, <3>2
  <2>2. QED
    BY <1>2, <2>1 DEF HistoryInv, ChainInv
<1>5. Inputs_(n) = <<GenInput>> /\ Len(Inputs_(n)) = 1
  BY <1>4 DEF IsMinted, Inputs_
<1>6. Parsed(n)' = 1
  <2>1. n \notin Read' /\ Inputs_(n)' = Inputs_(n)
    BY <1>1, <1>2 DEF Read, Inputs_
  <2>2. Parsed(n)' = 1 - Len(tx'.ins)
    BY <1>5, <2>1 DEF Parsed
  <2>3. tx.ins \in Seq(Outpoint \union {GenInput}) /\ tx'.ins = Tail(tx.ins)
    BY InputRead DEF GenInputCalls, ParseGenInput
  <2>4. Len(tx'.ins) \in Nat
    BY <1>3, <2>3
  <2>5. PICK p, q, l : p = Parsed(n) /\ q = Parsed(n)' /\ l = Len(tx'.ins)
    OBVIOUS
  <2>6. p \in Nat /\ q = p + 1 /\ q = 1 - l /\ l \in Nat
    BY <1>2, <2>2, <2>4, <2>5
  <2>7. q = 1
    BY ONLY <2>6
  <2>8. QED
    BY <2>5, <2>7
<1>7. Known(n) = {} /\ Known(n)' = {}
  <2>1. \A k \in 1 .. 1 : Inputs_(n)[k] = GenInput
    BY <1>5
  <2>2. Parsed(n) = 0
    BY <1>2, <1>6
  <2>3. Known(n) = {}
    BY <2>2 DEF Known
  <2>4. Inputs_(n)' = Inputs_(n)
    BY <1>2 DEF Inputs_
  <2>5. Known(n)' = {}
    BY <1>6, <2>1, <2>4 DEF Known
  <2>6. QED
    BY <2>3, <2>5
<1>8. ASSUME NEW i \in DOMAIN chain
      PROVE  Known(i)' = Known(i) /\ PaidBy(i)' = PaidBy(i)
  <2>1. CASE i = n
    BY <1>7, <2>1 DEF PaidBy
  <2>2. CASE i # n
    <3>1. Parsed(i)' = Parsed(i) /\ Inputs_(i)' = Inputs_(i)
      BY <1>2, <1>8, <2>2 DEF Inputs_
    <3>2. QED
      BY <1>3, <3>1, PayersSame
  <2>3. QED
    BY <2>1, <2>2
<1>9. AllPayers' = AllPayers
  BY <1>2, <1>8 DEF AllPayers
<1>10. Hashes' = Hashes
  BY <1>2 DEF Hashes
<1>11. ASSUME InputsAreKnown PROVE InputsAreKnown'
  BY <1>2, <1>8, <1>10, <1>11 DEF InputsAreKnown
<1>12. QED
  BY <1>2, <1>8, <1>9, <1>11

(* Any other input adds the owner of what it spends. *)
LEMMA PayersAtInput ==
  ASSUME IndInv, HistoryInv, InputsAreKnown, InputCalls,
         NEW n, n = Len(chain), NEW o, o = Head(tx.ins),
         NEW A, A = IF txo[o].type >= 0 THEN {txo[o].addr} ELSE {}
  PROVE  /\ chain' = chain /\ n \in DOMAIN chain
         /\ \A i \in DOMAIN chain \ {n} : PaidBy(i)' = PaidBy(i)
         /\ PaidBy(n)' = PaidBy(n) \union A /\ AllPayers' = AllPayers \union A
         /\ InputsAreKnown'
<1>1. /\ o \in Outpoint /\ o = <<upTXHash, upOutputIndex>> /\ n \in DOMAIN chain
      /\ Parsed(n) \in Nat /\ Parsed(n)' = Parsed(n) + 1
      /\ Inputs_(n)[Parsed(n) + 1] = o
      /\ \A i \in DOMAIN chain \ {n} : Parsed(i)' = Parsed(i)
  BY SpentByLast
<1>2. chain' = chain /\ txo' = txo
  BY DEF InputCalls
<1>3. o[1] \in Hashes /\ o # GenInput
  <2>1. upTXHash \in Entries
    BY PlacesAfterInput
  <2>2. upTXHash \in 1 .. NbHashes /\ Hashes = 1 .. NbHashes
    BY <2>1, HashesAreCounted
       DEF HistoryInv, ChainInv, IndInv, ChainIsSound, Entries, TxHash
  <2>3. o[1] = upTXHash
    BY <1>1
  <2>4. o # GenInput
    BY <1>1, GenInputs
  <2>5. QED
    BY <2>2, <2>3, <2>4
<1>4. PICK p : p = Parsed(n) /\ p \in Nat /\ Parsed(n)' = p + 1 /\ Inputs_(n)[p + 1] = o
  BY <1>1
<1>5. Known(n)' = Known(n) \union {o}
  <2>1. Inputs_(n)' = Inputs_(n)
    BY <1>2 DEF Inputs_
  <2>2. 1 .. p + 1 = (1 .. p) \union {p + 1}
    BY <1>4
  <2>3. Known(n)' = {Inputs_(n)[k] : k \in 1 .. p + 1} \ {GenInput}
    BY <1>4, <2>1 DEF Known
  <2>4. Known(n) = {Inputs_(n)[k] : k \in 1 .. p} \ {GenInput}
    BY <1>4 DEF Known
  <2>5. QED
    BY <1>3, <1>4, <2>2, <2>3, <2>4
<1>6. PaidBy(n)' = PaidBy(n) \union A
  <2>1. PICK K : K = Known(n)
    OBVIOUS
  <2>2. PaidBy(n) = {txo[x].addr : x \in {x \in K : txo[x].type >= 0}}
    BY <2>1 DEF PaidBy
  <2>3. PaidBy(n)' = {txo[x].addr : x \in {x \in K \union {o} : txo[x].type >= 0}}
    BY <1>2, <1>5, <2>1 DEF PaidBy
  <2>4. QED
    BY <2>2, <2>3
<1>7. ASSUME NEW i \in DOMAIN chain \ {n}
      PROVE  Known(i)' = Known(i) /\ PaidBy(i)' = PaidBy(i)
  <2>1. Parsed(i)' = Parsed(i) /\ Inputs_(i)' = Inputs_(i)
    BY <1>1, <1>2, <1>7 DEF Inputs_
  <2>2. QED
    BY <1>2, <2>1, PayersSame
<1>8. AllPayers' = AllPayers \union A
  <2>1. AllPayers' = UNION {PaidBy(i)' : i \in DOMAIN chain}
    BY <1>2 DEF AllPayers
  <2>2. \A a : (\E i \in DOMAIN chain : a \in PaidBy(i)')
                <=> (\E i \in DOMAIN chain : a \in PaidBy(i)) \/ a \in A
    BY <1>1, <1>6, <1>7
  <2>3. QED
    BY <2>1, <2>2 DEF AllPayers
<1>9. Hashes' = Hashes
  BY <1>2 DEF Hashes
<1>10. InputsAreKnown'
  BY <1>1, <1>2, <1>3, <1>5, <1>7, <1>9 DEF InputsAreKnown
<1>11. QED
  BY <1>1, <1>2, <1>6, <1>7, <1>8, <1>10

-----------------------------------------------------------------------------
(* closure: its handlers, and the graph as the steps change it.            *)

(* y is x with the number of one more payer, who may be new. *)
EdgeRecorded(x, y, A, addr) ==
  \E s \in Seq(A \union {addr}) : \E v \in 0 .. Len(s) - 1 :
     /\ y = [x EXCEPT !.allAddrs = s, !.vertices = Append(x.vertices, v)]
     /\ s[v + 1] = addr /\ IsInjective(s)
     /\ ToSet(s) = ToSet(x.allAddrs) \union {addr}
     /\ Len(x.allAddrs) <= Len(s)
     /\ \A i \in 1 .. Len(x.allAddrs) : s[i] = x.allAddrs[i]

(* An input adds the number of its owner. *)
LEMMA EdgeRecords ==
  ASSUME NEW x, NEW A, NEW addr,
         x.allAddrs \in Seq(A), IsInjective(x.allAddrs)
  PROVE  EdgeRecorded(x, Closure!edge(x, addr, TRUE), A, addr)
<1>1. PICK r, n : r = x.allAddrs /\ n = Len(r)
  OBVIOUS
<1>2. r \in Seq(A) /\ n \in Nat /\ DOMAIN r = 1 .. n /\ IsInjective(r)
  BY <1>1
<1>3. CASE addr \in ToSet(r)
  <2>1. PICK k \in 1 .. n : r[k] = addr
    BY <1>2, <1>3 DEF ToSet
  <2>2. k - 1 \in 0 .. n - 1 /\ r[(k - 1) + 1] = addr
    BY <1>2, <2>1
  <2>3. \E u \in 0 .. n - 1 : r[u + 1] = addr
    BY <2>2
  <2>4. PICK v \in 0 .. n - 1 : v = Closure!IndexOf(x, addr) /\ r[v + 1] = addr
    BY <1>1, <2>3 DEF Closure!IndexOf
  <2>5. Closure!edge(x, addr, TRUE)
          = [x EXCEPT !.allAddrs = r, !.vertices = Append(x.vertices, v)]
    BY <1>1, <1>3, <2>4 DEF Closure!edge, Closure!ToSet, ToSet
  <2>6. r \in Seq(A \union {addr}) /\ ToSet(r) = ToSet(r) \union {addr}
    BY <1>2, <1>3
  <2>7. v \in 0 .. Len(r) - 1 /\ Len(x.allAddrs) <= Len(r)
    BY <1>1, <1>2, <2>4
  <2>8. r[v + 1] = addr /\ ToSet(r) = ToSet(x.allAddrs) \union {addr}
    BY <1>1, <2>4, <2>6
  <2>9. \A i \in 1 .. Len(x.allAddrs) : r[i] = x.allAddrs[i]
    BY <1>1
  <2>10. QED
    BY <1>2, <2>5, <2>6, <2>7, <2>8, <2>9 DEF EdgeRecorded
<1>4. CASE addr \notin ToSet(r)
  <2>1. PICK s : s = Append(r, addr)
    OBVIOUS
  <2>2. /\ s \in Seq(A \union {addr}) /\ Len(s) = n + 1 /\ s[n + 1] = addr
        /\ DOMAIN s = 1 .. n + 1 /\ \A i \in 1 .. n : s[i] = r[i]
    BY <1>1, <1>2, <2>1
  <2>3. Closure!edge(x, addr, TRUE)
          = [x EXCEPT !.allAddrs = s, !.vertices = Append(x.vertices, n)]
    BY <1>1, <1>4, <2>1 DEF Closure!edge, Closure!ToSet, ToSet
  <2>4. \A i \in 1 .. n : r[i] # addr
    BY <1>2, <1>4 DEF ToSet
  <2>5. IsInjective(s)
    <3>1. \A i, j \in 1 .. n : r[i] = r[j] => i = j
      BY <1>2 DEF IsInjective
    <3>2. ASSUME NEW i \in 1 .. n + 1, NEW j \in 1 .. n + 1, s[i] = s[j] PROVE i = j
      <4>1. CASE i \in 1 .. n /\ j \in 1 .. n
        BY <2>2, <3>1, <3>2, <4>1
      <4>2. CASE ~ (i \in 1 .. n /\ j \in 1 .. n)
        <5>1. i = n + 1 \/ j = n + 1
          BY <1>2, <4>2
        <5>2. \A k \in 1 .. n + 1 : k \in 1 .. n \/ k = n + 1
          BY <1>2
        <5>3. QED
          BY <2>2, <2>4, <3>2, <5>1, <5>2
      <4>3. QED
        BY <4>1, <4>2
    <3>3. QED
      BY <2>2, <3>2 DEF IsInjective
  <2>6. ToSet(s) = ToSet(r) \union {addr}
    <3>1. 1 .. n + 1 = (1 .. n) \union {n + 1}
      BY <1>2
    <3>2. QED
      BY <1>2, <2>2, <3>1 DEF ToSet
  <2>7. n \in 0 .. Len(s) - 1 /\ Len(x.allAddrs) <= Len(s)
    BY <1>1, <1>2, <2>2
  <2>8. ToSet(s) = ToSet(x.allAddrs) \union {addr} /\ s \in Seq(A \union {addr})
    BY <1>1, <2>2, <2>6
  <2>9. /\ s[n + 1] = addr
        /\ \A i \in 1 .. Len(x.allAddrs) : s[i] = x.allAddrs[i]
    BY <1>1, <2>2
  <2>10. QED
    BY <2>3, <2>5, <2>7, <2>8, <2>9 DEF EdgeRecorded
<1>5. QED
  BY <1>3, <1>4

(* As long as addresses keep their numbers, edges link the same ones. *)
LEMMA LinksSame ==
  ASSUME ClosureObject, self'.graph = self.graph,
         \A v \in Numbers : self'.allAddrs[v + 1] = self.allAddrs[v + 1]
  PROVE  Links' = Links
<1>1. \A e \in self.graph : e[1] \in Numbers /\ e[2] \in Numbers
  BY DEF ClosureObject
<1>2. \A e \in self.graph :
          <<AddressOf(e[1]), AddressOf(e[2])>>' = <<AddressOf(e[1]), AddressOf(e[2])>>
  BY <1>1 DEF AddressOf
<1>3. QED
  BY <1>2 DEF Links

LEMMA GraphSame ==
  ASSUME GraphInv, Links' = Links, Ended' = Ended,
         \A i \in Ended : PaidBy(i)' = PaidBy(i), AllPayers \subseteq AllPayers'
  PROVE  GraphInv'
<1>1. \A p \in Links' : \E i \in Ended' : p[1] \in PaidBy(i)' /\ p[2] \in PaidBy(i)'
  BY DEF GraphInv
<1>2. \A i \in Ended : PaidBy(i) \subseteq AllPayers
  BY DEF Ended, AllPayers
<1>3. ASSUME NEW S \in SUBSET AllPayers', NoLinkLeaves(S)', NEW i \in Ended'
      PROVE  PaidBy(i)' \intersect S = {} \/ PaidBy(i)' \subseteq S
  <2>1. PICK T : T = S \intersect AllPayers
    OBVIOUS
  <2>2. \A p \in Links : p[1] \in AllPayers /\ p[2] \in AllPayers
    BY <1>2 DEF GraphInv
  <2>3. NoLinkLeaves(T)
    BY <1>3, <2>1, <2>2 DEF NoLinkLeaves
  <2>4. PaidBy(i) \intersect T = {} \/ PaidBy(i) \subseteq T
    BY <1>3, <2>1, <2>3 DEF GraphInv
  <2>5. QED
    BY <1>2, <1>3, <2>1, <2>4
<1>4. QED
  BY <1>1, <1>3 DEF GraphInv

LEMMA InitClosureInv == CmdInit => ClosureInv
<1> SUFFICES ASSUME CmdInit, command = "closure" PROVE ClosureInv
  BY DEF ClosureInv
<1>1. /\ self = [rootHashes |-> gCallback.addrs, allAddrs |-> <<>>, vertices |-> <<>>,
                 graph |-> {}]
      /\ chain = <<>> /\ pc = "tx"
  BY DEF CmdInit, initObject, Closure!init, Init
<1>2. DOMAIN chain = {} /\ AllPayers = {} /\ Links = {} /\ Ended = {} /\ ToSet(<<>>) = {}
  BY <1>1 DEF AllPayers, Links, Ended, ToSet
<1>3. ClosureObject
  BY <1>1, <1>2 DEF ClosureObject, IsInjective
<1>4. InputsAreKnown /\ VerticesInv /\ GraphInv
  BY <1>1, <1>2 DEF InputsAreKnown, VerticesInv, GraphInv, Parsing
<1>5. QED
  BY <1>3, <1>4 DEF ClosureInv

LEMMA ClosureStartStep ==
  ASSUME IndInv, HistoryInv, TxoInv, ClosureInv, command = "closure", Starts
  PROVE  ClosureInv'
<1>1. ClosureObject /\ InputsAreKnown /\ GraphInv
  BY DEF ClosureInv
<1>2. PICK m : m = Len(chain) + 1
  OBVIOUS
<1>3. /\ \A i \in DOMAIN chain : PaidBy(i)' = PaidBy(i)
      /\ PaidBy(m)' = {} /\ Len(chain') = m
      /\ Ended = DOMAIN chain /\ Ended' = DOMAIN chain /\ AllPayers' = AllPayers
      /\ InputsAreKnown'
  BY <1>1, <1>2, PayersAtStart
<1>4. self' = [self EXCEPT !.vertices = <<>>]
  <2>1. self' = CallStartTX(self)
    BY DEF Starts, StartBlock, StartBlockRepeated, StartOther, startBlock
  <2>2. QED
    BY <2>1 DEF CallStartTX, startInputs, startTX, Closure!startTX
<1>5. /\ self'.allAddrs = self.allAddrs /\ self'.graph = self.graph
      /\ self'.vertices = <<>>
      /\ self' = [rootHashes |-> self'.rootHashes, allAddrs |-> self'.allAddrs,
                  vertices |-> self'.vertices, graph |-> self'.graph]
  BY <1>1, <1>4 DEF ClosureObject
<1>6. ClosureObject'
  <2>1. Numbers' = Numbers
    BY <1>5 DEF Numbers
  <2>2. QED
    BY <1>1, <1>3, <1>5, <2>1 DEF ClosureObject
<1>7. VerticesInv'
  <2>1. ToSet(<<>>) = {}
    BY DEF ToSet
  <2>2. {AddressOf(v)' : v \in ToSet(self'.vertices)} = {}
    BY <1>5, <2>1
  <2>3. PaidBy(Len(chain))' = {}
    <3>1. PaidBy(Len(chain))' = PaidBy(m)'
      BY <1>3 DEF PaidBy, Known, Parsed, Inputs_
    <3>2. QED
      BY <1>3, <3>1
  <2>4. QED
    BY <2>2, <2>3 DEF VerticesInv
<1>8. GraphInv'
  BY <1>1, <1>3, <1>5, LinksSame, GraphSame
<1>9. QED
  BY <1>3, <1>6, <1>7, <1>8 DEF ClosureInv

LEMMA ClosureInputStep ==
  ASSUME IndInv, HistoryInv, TxoInv, ClosureInv, command = "closure", InputCalls
  PROVE  ClosureInv'
<1>1. ClosureObject /\ InputsAreKnown /\ VerticesInv /\ GraphInv
  BY DEF ClosureInv
<1>2. PICK n, o, t, a, A :
          /\ n = Len(chain) /\ o = Head(tx.ins) /\ t = txo[o].type /\ a = txo[o].addr
          /\ A = IF t >= 0 THEN {a} ELSE {}
  OBVIOUS
<1>3. /\ chain' = chain /\ n \in DOMAIN chain
      /\ \A i \in DOMAIN chain \ {n} : PaidBy(i)' = PaidBy(i)
      /\ PaidBy(n)' = PaidBy(n) \union A /\ AllPayers' = AllPayers \union A
      /\ InputsAreKnown'
  BY <1>1, <1>2, PayersAtInput
<1>4. /\ ParseInput /\ pc = "inputs" /\ pc' = pc /\ SpendsHeld
      /\ self' = edgeCall(startInput(self), edge'.shows)
  BY DEF InputCalls, ParseInput, SpendsHeld, InputLeft
<1>5. self' = Closure!edge(self, a, t >= 0)
  <2>1. raw[upSlot] = o
    BY <1>2, <1>4, SpentOutput
  <2>2. edge'.shows = o
    BY <1>4, <2>1 DEF ParseInput
  <2>3. QED
    BY <1>2, <1>4, <2>2 DEF edgeCall, startInput
<1>6. Ended' = Ended /\ n \notin Ended /\ \A i \in Ended : PaidBy(i)' = PaidBy(i)
  BY <1>2, <1>3, <1>4 DEF Ended
<1>7. VerticesInv => {AddressOf(v) : v \in ToSet(self.vertices)} = PaidBy(n)
  BY <1>2, <1>4 DEF VerticesInv, Parsing
<1>8. CASE ~ (t >= 0)
  <2>1. self' = self /\ A = {}
    BY <1>2, <1>5, <1>8 DEF Closure!edge
  <2>2. Links' = Links /\ Numbers' = Numbers /\ AllPayers' = AllPayers
    BY <1>3, <2>1 DEF Links, AddressOf, Numbers
  <2>3. ClosureObject'
    BY <1>1, <2>1, <2>2 DEF ClosureObject
  <2>4. VerticesInv'
    BY <1>1, <1>2, <1>3, <1>7, <2>1 DEF VerticesInv, AddressOf
  <2>5. GraphInv'
    BY <1>1, <1>6, <2>2, GraphSame
  <2>6. QED
    BY <1>3, <2>3, <2>4, <2>5 DEF ClosureInv
<1>9. CASE t >= 0
  <2>1. self.allAddrs \in Seq(AllPayers) /\ IsInjective(self.allAddrs)
    BY <1>1 DEF ClosureObject
  <2>2. EdgeRecorded(self, self', AllPayers, a)
    <3>1. EdgeRecorded(self, Closure!edge(self, a, TRUE), AllPayers, a)
      BY <2>1, EdgeRecords
    <3>2. self' = Closure!edge(self, a, TRUE)
      BY <1>5, <1>9 DEF Closure!edge
    <3>3. QED
      BY <3>1, <3>2
  <2>3. PICK s \in Seq(AllPayers \union {a}) : \E v \in 0 .. Len(s) - 1 :
            /\ self' = [self EXCEPT !.allAddrs = s, !.vertices = Append(self.vertices, v)]
            /\ s[v + 1] = a /\ IsInjective(s)
            /\ ToSet(s) = ToSet(self.allAddrs) \union {a}
            /\ Len(self.allAddrs) <= Len(s)
            /\ \A i \in 1 .. Len(self.allAddrs) : s[i] = self.allAddrs[i]
    BY <2>2 DEF EdgeRecorded
  <2>4. PICK v \in 0 .. Len(s) - 1 :
            /\ self' = [self EXCEPT !.allAddrs = s, !.vertices = Append(self.vertices, v)]
            /\ s[v + 1] = a
    BY <2>3
  <2>5. /\ self'.allAddrs = s /\ self'.vertices = Append(self.vertices, v)
        /\ self'.graph = self.graph
        /\ self' = [rootHashes |-> self'.rootHashes, allAddrs |-> self'.allAddrs,
                    vertices |-> self'.vertices, graph |-> self'.graph]
    BY <1>1, <2>4 DEF ClosureObject
  <2>6. A = {a}
    BY <1>2, <1>9
  <2>7. Numbers \subseteq Numbers' /\ v \in Numbers'
    <3>1. Len(self.allAddrs) \in Nat /\ Len(s) \in Nat /\ Len(self.allAddrs) <= Len(s)
      BY <2>1, <2>3
    <3>2. Numbers' = 0 .. Len(s) - 1
      BY <2>5 DEF Numbers
    <3>3. QED
      BY <3>1, <3>2 DEF Numbers
  <2>8. \A k \in Numbers : self'.allAddrs[k + 1] = self.allAddrs[k + 1]
    <3>1. Len(self.allAddrs) \in Nat
      BY <2>1
    <3>2. \A k \in Numbers : k + 1 \in 1 .. Len(self.allAddrs)
      BY <3>1 DEF Numbers
    <3>3. QED
      BY <2>3, <2>5, <3>2
  <2>9. self.vertices \in Seq(Numbers) /\ self.vertices \in Seq(Numbers')
    <3>1. self.vertices \in Seq(Numbers)
      BY <1>1 DEF ClosureObject
    <3>2. QED
      BY <2>7, <3>1, SeqsGrow
  <2>10. ClosureObject'
    <3>1. self'.vertices \in Seq(Numbers')
      BY <2>5, <2>7, <2>9
    <3>2. self'.graph \subseteq Numbers' \X Numbers'
      BY <1>1, <2>5, <2>7 DEF ClosureObject
    <3>3. self'.allAddrs \in Seq(AllPayers') /\ ToSet(self'.allAddrs) = AllPayers'
      BY <1>1, <1>3, <2>3, <2>5, <2>6 DEF ClosureObject
    <3>4. IsInjective(self'.allAddrs)
      BY <2>3, <2>5
    <3>5. QED
      BY <2>5, <3>1, <3>2, <3>3, <3>4 DEF ClosureObject
  <2>11. Links' = Links
    BY <1>1, <2>5, <2>8, LinksSame
  <2>12. VerticesInv'
    <3>1. ToSet(self'.vertices) = ToSet(self.vertices) \union {v}
      <4>1. PICK w, l : w = self.vertices /\ l = Len(w)
        OBVIOUS
      <4>2. l \in Nat /\ DOMAIN w = 1 .. l /\ w \in Seq(Numbers')
        BY <2>9, <4>1
      <4>3. /\ DOMAIN Append(w, v) = 1 .. l + 1 /\ Append(w, v)[l + 1] = v
            /\ \A k \in 1 .. l : Append(w, v)[k] = w[k]
        BY <2>7, <4>1, <4>2
      <4>4. 1 .. l + 1 = (1 .. l) \union {l + 1}
        BY <4>2
      <4>5. QED
        BY <2>5, <4>1, <4>2, <4>3, <4>4 DEF ToSet
    <3>2. \A k \in ToSet(self.vertices) : k \in Numbers
      BY <2>9 DEF ToSet
    <3>3. \A k \in ToSet(self.vertices) : AddressOf(k)' = AddressOf(k)
      BY <2>8, <3>2 DEF AddressOf
    <3>4. AddressOf(v)' = a
      BY <2>4, <2>5 DEF AddressOf
    <3>5. {AddressOf(k)' : k \in ToSet(self'.vertices)}
            = {AddressOf(k) : k \in ToSet(self.vertices)} \union {a}
      BY <3>1, <3>3, <3>4
    <3>6. {AddressOf(k)' : k \in ToSet(self'.vertices)} = PaidBy(n)'
      BY <1>1, <1>3, <1>7, <2>6, <3>5
    <3>7. Len(chain') = n
      BY <1>2, <1>3
    <3>8. QED
      BY <3>6, <3>7 DEF VerticesInv
  <2>13. GraphInv'
    BY <1>1, <1>3, <1>6, <2>11, GraphSame
  <2>14. QED
    BY <1>3, <2>10, <2>12, <2>13 DEF ClosureInv
<1>10. QED
  BY <1>8, <1>9

LEMMA ClosureQuietStep ==
  ASSUME IndInv, HistoryInv, ClosureInv, command = "closure",
         ReadsNone \/ GenInputCalls, ~ EndTXCalls
  PROVE  ClosureInv'
<1>1. ClosureObject /\ InputsAreKnown /\ VerticesInv /\ GraphInv
  BY DEF ClosureInv
<1>2. /\ chain' = chain /\ \A i \in DOMAIN chain : PaidBy(i)' = PaidBy(i)
      /\ AllPayers' = AllPayers /\ InputsAreKnown'
  BY <1>1, PayersElsewhere, PayersAtGenInput
<1>3. /\ pc' = "tx" <=> pc = "tx"
      /\ Parsing' <=> Parsing
  BY StillParsing DEF ReadsNone, MakesNone
<1>4. self' = self
  <2>1. CASE Headers
    BY <2>1, HeadersCalls DEF HistoryInv, LoopInv
  <2>2. CASE ~ Headers
    BY <2>2 DEF ReadsNone, GenInputCalls, StartOutputsCalls, OutputCalls, EndBlock,
       EndOfChain, Wrapup, WriteToClosedFile, Over, startInput, endInputs, startOutput,
       endOutput, endBlock, wrapup
  <2>3. QED
    BY <2>1, <2>2
<1>5. Ended' = Ended /\ Links' = Links /\ Numbers' = Numbers
  BY <1>2, <1>3, <1>4 DEF Ended, Links, AddressOf, Numbers
<1>6. ClosureObject'
  BY <1>1, <1>2, <1>4, <1>5 DEF ClosureObject
<1>7. VerticesInv'
  <2>1. ASSUME Parsing' PROVE {AddressOf(v)' : v \in ToSet(self.vertices)} = PaidBy(Len(chain))'
    <3>1. PICK n : n = Len(chain)
      OBVIOUS
    <3>2. Parsing /\ n \in DOMAIN chain
      <4>1. nbTxs > 0 /\ nbTxs \in Nat /\ Len(chain) = nbTxs /\ chain \in Seq(Start)
        BY <1>3, <2>1 DEF IndInv, LocalsAreSound, TypeOK, HistoryInv, ChainInv, Parsing
      <4>2. QED
        BY <1>3, <2>1, <3>1, <4>1
    <3>3. PaidBy(n)' = PaidBy(n)
      BY <1>2, <3>2
    <3>4. {AddressOf(v) : v \in ToSet(self.vertices)} = PaidBy(n)
      BY <1>1, <3>1, <3>2 DEF VerticesInv
    <3>5. \A v : AddressOf(v)' = AddressOf(v)
      BY <1>4 DEF AddressOf
    <3>6. Len(chain') = n
      BY <1>2, <3>1
    <3>7. QED
      BY <3>3, <3>4, <3>5, <3>6
  <2>2. QED
    BY <1>4, <2>1 DEF VerticesInv
<1>8. GraphInv'
  <2>1. \A i \in Ended : PaidBy(i)' = PaidBy(i)
    BY <1>2 DEF Ended
  <2>2. QED
    BY <1>1, <1>2, <1>5, <2>1, GraphSame
<1>9. QED
  BY <1>2, <1>6, <1>7, <1>8 DEF ClosureInv

(* What agrees from each number to the next agrees throughout. *)
LEMMA AllAgree ==
  ASSUME NEW l \in Nat, NEW B, \A k \in 2 .. l : k - 1 \in B <=> k \in B
  PROVE  \A j, k \in 1 .. l : j \in B <=> k \in B
<1> DEFINE T == {k \in 1 .. l : ~ (k \in B <=> 1 \in B)}
<1>1. T = {}
  <2> SUFFICES ASSUME T # {} PROVE FALSE
    OBVIOUS
  <2>1. T \in SUBSET Nat
    OBVIOUS
  <2>2. PICK x \in T : \A y \in T : x <= y
    BY <2>1, LeastElement
  <2>3. x \in 1 .. l /\ x # 1
    BY <2>2
  <2>4. x \in 2 .. l /\ x - 1 \in 1 .. l /\ x - 1 < x
    BY <2>3
  <2>5. x - 1 \notin T
    BY <2>2, <2>4
  <2>6. x - 1 \in B <=> x \in B
    BY <2>4
  <2>7. QED
    BY <2>2, <2>4, <2>5, <2>6
<1>2. \A k \in 1 .. l : k \in B <=> 1 \in B
  BY <1>1
<1>3. QED
  BY <1>2

(* The edges of a transaction link all of its payers. *)
LEMMA ClosureEndStep ==
  ASSUME IndInv, HistoryInv, ClosureInv, command = "closure", EndTXCalls
  PROVE  ClosureInv'
<1>1. ClosureObject /\ InputsAreKnown /\ VerticesInv /\ GraphInv
  BY DEF ClosureInv
<1>2. PICK n, w, l : n = Len(chain) /\ w = self.vertices /\ l = Len(w)
  OBVIOUS
<1>3. /\ chain' = chain /\ \A i \in DOMAIN chain : PaidBy(i)' = PaidBy(i)
      /\ AllPayers' = AllPayers /\ InputsAreKnown'
  BY <1>1, PayersElsewhere DEF ReadsNone
<1>4. /\ pc = "outputs" /\ pc' = "tx" /\ loop = "block"
      /\ self' = Closure!endTX(self)
  BY DEF EndTXCalls, EndTX, endTX
<1>5. n \in DOMAIN chain /\ Ended = DOMAIN chain \ {n} /\ Ended' = DOMAIN chain
  <2>1. nbTxs > 0 /\ nbTxs \in Nat /\ Len(chain) = nbTxs /\ chain \in Seq(Start)
    BY <1>4 DEF IndInv, LocalsAreSound, TypeOK, HistoryInv, ChainInv, Parsing
  <2>2. n \in Nat \ {0} /\ DOMAIN chain = 1 .. n
    BY <1>2, <2>1
  <2>3. Ended = 1 .. n - 1 /\ Ended' = 1 .. n
    BY <1>2, <1>3, <1>4, <2>2 DEF Ended
  <2>4. QED
    BY <2>2, <2>3
<1>6. w \in Seq(Numbers) /\ l \in Nat /\ DOMAIN w = 1 .. l
  BY <1>1, <1>2 DEF ClosureObject
<1>7. PICK C : C = Closure!Chained(w) /\ C = {<<w[i - 1], w[i]>> : i \in 2 .. l}
  BY <1>2 DEF Closure!Chained
<1>8. /\ self' = [self EXCEPT !.graph = self.graph \union C]
      /\ self'.graph = self.graph \union C
      /\ self'.allAddrs = self.allAddrs /\ self'.vertices = self.vertices
      /\ self' = [rootHashes |-> self'.rootHashes, allAddrs |-> self'.allAddrs,
                  vertices |-> self'.vertices, graph |-> self'.graph]
  <2>1. self' = [self EXCEPT !.graph = self.graph \union C]
    BY <1>2, <1>4, <1>7 DEF Closure!endTX
  <2>2. QED
    BY <1>1, <2>1 DEF ClosureObject
<1>9. \A i \in 2 .. l : i - 1 \in 1 .. l /\ i \in 1 .. l /\ w[i - 1] \in Numbers /\ w[i] \in Numbers
  BY <1>6
<1>10. ClosureObject'
  <2>1. Numbers' = Numbers
    BY <1>8 DEF Numbers
  <2>2. C \subseteq Numbers \X Numbers
    <3>1. SUFFICES ASSUME NEW i \in 2 .. l
                   PROVE  <<w[i - 1], w[i]>> \in Numbers \X Numbers
      BY <1>7
    <3>2. w[i - 1] \in Numbers /\ w[i] \in Numbers
      BY ONLY <1>9, <3>1
    <3>3. QED
      BY ONLY <3>2
  <2>3. QED
    BY <1>1, <1>3, <1>8, <2>1, <2>2 DEF ClosureObject
<1>11. VerticesInv'
  BY <1>4 DEF VerticesInv, Parsing
<1>12. {AddressOf(w[k]) : k \in 1 .. l} = PaidBy(n)
  <2>1. {AddressOf(v) : v \in ToSet(w)} = PaidBy(n)
    BY <1>1, <1>2, <1>4 DEF VerticesInv, Parsing
  <2>2. ToSet(w) = {w[k] : k \in 1 .. l}
    BY <1>6 DEF ToSet
  <2>3. QED
    BY <2>1, <2>2
<1>13. Links' = Links \union {<<AddressOf(w[i - 1]), AddressOf(w[i])>> : i \in 2 .. l}
  <2>1. \A v : AddressOf(v)' = AddressOf(v)
    BY <1>8 DEF AddressOf
  <2>2. Links' = {<<AddressOf(e[1]), AddressOf(e[2])>> : e \in self.graph \union C}
    BY <1>8, <2>1 DEF Links
  <2>3. {<<AddressOf(e[1]), AddressOf(e[2])>> : e \in C}
          = {<<AddressOf(w[i - 1]), AddressOf(w[i])>> : i \in 2 .. l}
    <3>1. \A i \in 2 .. l : <<w[i - 1], w[i]>> \in C
      BY <1>7
    <3>2. \A e \in C : \E i \in 2 .. l : e[1] = w[i - 1] /\ e[2] = w[i]
      BY <1>7
    <3>3. \A i \in 2 .. l : \E e \in C : e[1] = w[i - 1] /\ e[2] = w[i]
      BY <3>1
    <3>4. QED
      BY <3>2, <3>3
  <2>4. QED
    BY <2>2, <2>3 DEF Links
<1>14. ASSUME NEW p \in Links'
       PROVE  \E i \in Ended' : p[1] \in PaidBy(i)' /\ p[2] \in PaidBy(i)'
  <2>1. CASE p \in Links
    <3>1. PICK i \in Ended : p[1] \in PaidBy(i) /\ p[2] \in PaidBy(i)
      BY <1>1, <2>1 DEF GraphInv
    <3>2. QED
      BY <1>3, <1>5, <3>1
  <2>2. CASE p \notin Links
    <3>1. PICK k \in 2 .. l : p = <<AddressOf(w[k - 1]), AddressOf(w[k])>>
      BY <1>13, <1>14, <2>2
    <3>2. p[1] \in PaidBy(n) /\ p[2] \in PaidBy(n)
      BY <1>9, <1>12, <3>1
    <3>3. QED
      BY <1>3, <1>5, <3>2
  <2>3. QED
    BY <2>1, <2>2
<1>15. ASSUME NEW S \in SUBSET AllPayers', NoLinkLeaves(S)', NEW i \in Ended'
       PROVE  PaidBy(i)' \intersect S = {} \/ PaidBy(i)' \subseteq S
  <2>1. \A p \in Links' : p[1] \in S <=> p[2] \in S
    BY <1>15 DEF NoLinkLeaves
  <2>2. CASE i # n
    <3>1. NoLinkLeaves(S)
      BY <1>13, <2>1 DEF NoLinkLeaves
    <3>2. QED
      BY <1>1, <1>3, <1>5, <1>15, <2>2, <3>1 DEF GraphInv
  <2>3. CASE i = n
    <3>1. PICK B : B = {k \in 1 .. l : AddressOf(w[k]) \in S}
      OBVIOUS
    <3>2. ASSUME NEW k \in 2 .. l PROVE k - 1 \in B <=> k \in B
      <4>1. <<AddressOf(w[k - 1]), AddressOf(w[k])>> \in Links'
        BY <1>13, <3>2
      <4>2. AddressOf(w[k - 1]) \in S <=> AddressOf(w[k]) \in S
        BY <2>1, <4>1
      <4>3. QED
        BY <1>9, <3>1, <4>2
    <3>3. \A j, k \in 1 .. l : j \in B <=> k \in B
      BY <1>6, <3>2, AllAgree
    <3>4. \A j, k \in 1 .. l : AddressOf(w[j]) \in S => AddressOf(w[k]) \in S
      BY <3>1, <3>3
    <3>5. \A a, b \in PaidBy(n) : a \in S => b \in S
      BY <1>12, <3>4
    <3>6. PaidBy(i)' = PaidBy(n)
      BY <1>3, <1>5, <2>3
    <3>7. QED
      BY <3>5, <3>6
  <2>4. QED
    BY <2>2, <2>3
<1>16. GraphInv'
  BY <1>14, <1>15 DEF GraphInv
<1>17. QED
  BY <1>3, <1>10, <1>11, <1>16 DEF ClosureInv

LEMMA NextClosureInv ==
  ASSUME IndInv, HistoryInv, TxoInv, ClosureInv, [CmdNext]_allVars
  PROVE  ClosureInv'
<1>1. gCallback' = gCallback
  BY SameCommand
<1>2. CASE command # "closure"
  BY <1>1, <1>2 DEF ClosureInv
<1>3. CASE command = "closure"
  <2>1. CASE Starts
    BY <1>3, <2>1, ClosureStartStep
  <2>2. CASE InputCalls
    BY <1>3, <2>2, ClosureInputStep
  <2>3. CASE EndTXCalls
    BY <1>3, <2>3, ClosureEndStep
  <2>4. CASE ~ EndTXCalls /\ (ReadsNone \/ GenInputCalls)
    BY <1>3, <2>4, ClosureQuietStep
  <2>5. QED
    BY <2>1, <2>2, <2>3, <2>4, StepCases DEF MakesNone, ReadsNone
<1>4. QED
  BY <1>2, <1>3

LEMMA ClosureHolds == CmdSpec => [](IndInv /\ HistoryInv /\ TxoInv /\ ClosureInv)
<1>1. CmdInit => IndInv /\ HistoryInv /\ TxoInv /\ StatementInv /\ ClosureInv
  BY InitIndInv, InitHistoryInv, InitStatementInv, InitClosureInv DEF CmdInit
<1>2. IndInv /\ HistoryInv /\ TxoInv /\ StatementInv /\ ClosureInv /\ [CmdNext]_allVars
        => (IndInv /\ HistoryInv /\ TxoInv /\ StatementInv /\ ClosureInv)'
  BY NextHistoryInv, NextStatementInv, NextClosureInv
<1>3. QED
  BY <1>1, <1>2, PTL DEF CmdSpec

-----------------------------------------------------------------------------
(* closure: components of numbers are clusters of addresses.               *)

LEMMA PayersAtEnd ==
  ASSUME IndInv, HistoryInv, pc = "tx"
  PROVE  /\ \A i \in DOMAIN chain : PaidBy(i) = Payers(i)
         /\ AllPayers = Spenders /\ Ended = DOMAIN chain
<1>1. ASSUME NEW i \in DOMAIN chain PROVE PaidBy(i) = Payers(i)
  <2>1. Parsed(i) = Len(Inputs_(i))
    BY <1>1 DEF Parsed, Read
  <2>2. Inputs_(i) \in Seq(Outpoint \union {GenInput})
    BY <1>1, MadeType DEF Inputs_
  <2>3. Known(i) = ToSet(Inputs_(i)) \ {GenInput}
    BY <2>1, <2>2 DEF Known, ToSet
  <2>4. QED
    BY <2>3 DEF PaidBy, Payers
<1>2. AllPayers = Spenders
  BY <1>1 DEF AllPayers, Spenders
<1>3. QED
  BY <1>1, <1>2 DEF Ended

(* An address and its number. *)
LEMMA NumbersName ==
  ASSUME ClosureObject
  PROVE  /\ \A v \in Numbers : AddressOf(v) \in AllPayers
         /\ \A v, w \in Numbers : AddressOf(v) = AddressOf(w) => v = w
         /\ \A a \in AllPayers : /\ Closure!IndexOf(self, a) \in Numbers
                                 /\ AddressOf(Closure!IndexOf(self, a)) = a
<1>1. PICK r, n : r = self.allAddrs /\ n = Len(r)
  OBVIOUS
<1>2. /\ r \in Seq(AllPayers) /\ n \in Nat /\ DOMAIN r = 1 .. n /\ Numbers = 0 .. n - 1
      /\ ToSet(r) = AllPayers
  BY <1>1 DEF ClosureObject, Numbers
<1>3. \A i, j \in 1 .. n : r[i] = r[j] => i = j
  BY <1>1, <1>2 DEF ClosureObject, IsInjective
<1>4. \A v \in Numbers : v \in Int /\ v + 1 \in 1 .. n /\ AddressOf(v) = r[v + 1]
  BY <1>1, <1>2 DEF AddressOf
<1>5. \A v \in Numbers : AddressOf(v) \in AllPayers
  BY <1>2, <1>4
<1>6. ASSUME NEW v \in Numbers, NEW w \in Numbers, AddressOf(v) = AddressOf(w) PROVE v = w
  <2>1. v + 1 = w + 1
    BY <1>3, <1>4, <1>6
  <2>2. QED
    BY <1>4, <2>1
<1>7. ASSUME NEW a \in AllPayers
      PROVE  /\ Closure!IndexOf(self, a) \in Numbers
             /\ AddressOf(Closure!IndexOf(self, a)) = a
  <2>1. PICK i \in 1 .. n : r[i] = a
    BY <1>2, <1>7 DEF ToSet
  <2>2. i - 1 \in 0 .. n - 1 /\ r[(i - 1) + 1] = a
    BY <1>2, <2>1
  <2>3. \E v \in 0 .. n - 1 : r[v + 1] = a
    BY <2>2
  <2>4. Closure!IndexOf(self, a) \in 0 .. n - 1 /\ r[Closure!IndexOf(self, a) + 1] = a
    BY <1>1, <2>3 DEF Closure!IndexOf
  <2>5. QED
    BY <1>1, <1>2, <2>4 DEF AddressOf
<1>8. QED
  BY <1>5, <1>6, <1>7

(* The vertices of the graph are the numbers up to the greatest that has   *)
(* an edge.                                                                *)
LEMMA VerticesAreCounted ==
  ASSUME ClosureObject
  PROVE  /\ Closure!NumVertices(self) \in Nat
         /\ 0 .. Closure!NumVertices(self) - 1 \subseteq Numbers
         /\ \A e \in self.graph : /\ e[1] \in 0 .. Closure!NumVertices(self) - 1
                                  /\ e[2] \in 0 .. Closure!NumVertices(self) - 1
<1>1. PICK n : n = Len(self.allAddrs) /\ n \in Nat /\ Numbers = 0 .. n - 1
  BY DEF ClosureObject, Numbers
<1>2. CASE self.graph = {}
  BY <1>1, <1>2 DEF Closure!NumVertices
<1>3. CASE self.graph # {}
  <2>1. PICK U : U = UNION {Closure!ToSet(e) : e \in self.graph}
    OBVIOUS
  <2>2. ASSUME NEW e \in self.graph
        PROVE  Closure!ToSet(e) = {e[1], e[2]} /\ e[1] \in Numbers /\ e[2] \in Numbers
    <3>1. e \in Numbers \X Numbers
      BY <2>2 DEF ClosureObject
    <3>2. PICK v \in Numbers, w \in Numbers : e = <<v, w>>
      BY <3>1
    <3>3. DOMAIN e = {1, 2} /\ e[1] = v /\ e[2] = w
      BY <3>2
    <3>4. QED
      BY <3>2, <3>3 DEF Closure!ToSet
  <2>3. /\ \A e \in self.graph : e[1] \in U /\ e[2] \in U
        /\ U \subseteq Numbers /\ U # {}
    <3>1. \A e \in self.graph : e[1] \in Closure!ToSet(e) /\ e[2] \in Closure!ToSet(e)
      BY <2>2
    <3>2. \A e \in self.graph : e[1] \in U /\ e[2] \in U
      BY <2>1, <3>1
    <3>3. ASSUME NEW x \in U PROVE x \in Numbers
      <4>1. PICK e \in self.graph : x \in Closure!ToSet(e)
        BY <2>1, <3>3
      <4>2. QED
        BY <2>2, <4>1
    <3>4. QED
      BY <1>3, <3>2, <3>3
  <2>4. U \in SUBSET (0 .. n)
    BY <1>1, <2>3
  <2>5. \E x \in U : \A y \in U : x >= y
    BY <1>1, <2>3, <2>4, GreatestElement
  <2>6. PICK x : x = Closure!Max(U) /\ x \in U /\ \A y \in U : x >= y
    BY <2>5 DEF Closure!Max
  <2>7. Closure!NumVertices(self) = 1 + x
    BY <1>3, <2>1, <2>6 DEF Closure!NumVertices
  <2>8. x \in 0 .. n - 1 /\ \A y \in U : y \in 0 .. n - 1 /\ y <= x
    BY <1>1, <2>3, <2>6
  <2>9. PICK m : m = 1 + x /\ m \in Nat /\ m <= n /\ \A y \in U : y \in 0 .. m - 1
    BY <1>1, <2>8
  <2>10. Closure!NumVertices(self) = m
    BY <2>7, <2>9
  <2>11. 0 .. m - 1 \subseteq Numbers
    BY <1>1, <2>9
  <2>12. QED
    BY <2>3, <2>9, <2>10, <2>11
<1>4. QED
  BY <1>2, <1>3

LEMMA ClustersShow ==
  ASSUME IndInv, HistoryInv, ClosureInv, command = "closure", pc = "tx"
  PROVE  ClustersAreComponents
<1>1. ClosureObject /\ GraphInv
  BY DEF ClosureInv
<1>2. PICK m, V : m = Closure!NumVertices(self) /\ V = 0 .. m - 1
  OBVIOUS
<1>3. /\ m \in Nat /\ V \subseteq Numbers
      /\ \A e \in self.graph : e[1] \in V /\ e[2] \in V
  BY <1>1, <1>2, VerticesAreCounted
<1>4. /\ \A i \in DOMAIN chain : PaidBy(i) = Payers(i)
      /\ AllPayers = Spenders /\ Ended = DOMAIN chain
  BY PayersAtEnd
<1>5. /\ \A v \in Numbers : AddressOf(v) \in Spenders
      /\ \A v, w \in Numbers : AddressOf(v) = AddressOf(w) => v = w
      /\ \A a \in Spenders : /\ Closure!IndexOf(self, a) \in Numbers
                             /\ AddressOf(Closure!IndexOf(self, a)) = a
  BY <1>1, <1>4, NumbersName
<1>6. ASSUME NEW S \in SUBSET Spenders
      PROVE  IsClosed(S) <=> NoLinkLeaves(S)
  <2>1. ASSUME IsClosed(S), NEW p \in Links PROVE p[1] \in S <=> p[2] \in S
    <3>1. PICK i \in DOMAIN chain : p[1] \in Payers(i) /\ p[2] \in Payers(i)
      BY <1>1, <1>4, <2>1 DEF GraphInv
    <3>2. QED
      BY <2>1, <3>1 DEF IsClosed
  <2>2. ASSUME NoLinkLeaves(S) PROVE IsClosed(S)
    BY <1>1, <1>4, <1>6, <2>2 DEF GraphInv, IsClosed
  <2>3. QED
    BY <2>1, <2>2 DEF NoLinkLeaves
<1>7. ASSUME NEW S \in SUBSET V, Closure!NoEdgeLeaves(self, S), NEW T,
             T = {AddressOf(v) : v \in S}
      PROVE  T \in SUBSET Spenders /\ IsClosed(T)
  <2>1. T \in SUBSET Spenders
    BY <1>3, <1>5, <1>7
  <2>2. \A v \in V : AddressOf(v) \in T <=> v \in S
    BY <1>3, <1>5, <1>7
  <2>3. ASSUME NEW e \in self.graph PROVE AddressOf(e[1]) \in T <=> AddressOf(e[2]) \in T
    BY <1>3, <1>7, <2>2, <2>3 DEF Closure!NoEdgeLeaves
  <2>4. NoLinkLeaves(T)
    BY <2>3 DEF NoLinkLeaves, Links
  <2>5. QED
    BY <1>6, <2>1, <2>4
<1>8. ASSUME NEW S \in SUBSET Spenders, IsClosed(S), NEW T, T = {v \in V : AddressOf(v) \in S}
      PROVE  T \in SUBSET V /\ Closure!NoEdgeLeaves(self, T)
  <2>1. NoLinkLeaves(S)
    BY <1>6, <1>8
  <2>2. ASSUME NEW e \in self.graph PROVE e[1] \in T <=> e[2] \in T
    <3>1. <<AddressOf(e[1]), AddressOf(e[2])>> \in Links
      BY <2>2 DEF Links
    <3>2. AddressOf(e[1]) \in S <=> AddressOf(e[2]) \in S
      BY <2>1, <3>1 DEF NoLinkLeaves
    <3>3. QED
      BY <1>3, <1>8, <2>2, <3>2
  <2>3. QED
    BY <1>8, <2>2 DEF Closure!NoEdgeLeaves
<1>9. ASSUME NEW a \in Spenders, NEW v, v = Closure!IndexOf(self, a), v \in V, NEW C,
             C = {w \in V : \A S \in SUBSET V : v \in S /\ Closure!NoEdgeLeaves(self, S) => w \in S}
      PROVE  {AddressOf(w) : w \in C} = Cluster(a)
  <2>1. v \in Numbers /\ AddressOf(v) = a
    BY <1>5, <1>9
  <2>2. ASSUME NEW b \in Cluster(a) PROVE b \in {AddressOf(w) : w \in C}
    <3>1. b \in Spenders /\ \A S \in SUBSET Spenders : a \in S /\ IsClosed(S) => b \in S
      BY <2>2 DEF Cluster
    <3>2. PICK w \in Numbers : AddressOf(w) = b
      BY <1>5, <3>1
    <3>3. ASSUME NEW S \in SUBSET V, v \in S, Closure!NoEdgeLeaves(self, S) PROVE w \in S
      <4>1. PICK T : T = {AddressOf(u) : u \in S}
        OBVIOUS
      <4>2. T \in SUBSET Spenders /\ IsClosed(T) /\ a \in T
        BY <1>7, <2>1, <3>3, <4>1
      <4>3. PICK u \in S : AddressOf(u) = b
        BY <3>1, <4>1, <4>2
      <4>4. QED
        BY <1>3, <1>5, <3>2, <4>3
    <3>4. Closure!NoEdgeLeaves(self, V)
      BY <1>3 DEF Closure!NoEdgeLeaves
    <3>5. w \in V
      BY <1>9, <3>3, <3>4
    <3>6. QED
      BY <1>9, <3>2, <3>3, <3>5
  <2>3. ASSUME NEW w \in C PROVE AddressOf(w) \in Cluster(a)
    <3>1. w \in V /\ AddressOf(w) \in Spenders
      BY <1>3, <1>5, <1>9, <2>3
    <3>2. ASSUME NEW S \in SUBSET Spenders, a \in S, IsClosed(S) PROVE AddressOf(w) \in S
      <4>1. PICK T : T = {u \in V : AddressOf(u) \in S}
        OBVIOUS
      <4>2. T \in SUBSET V /\ Closure!NoEdgeLeaves(self, T) /\ v \in T
        BY <1>8, <1>9, <2>1, <3>2, <4>1
      <4>3. w \in T
        BY <1>9, <2>3, <4>2
      <4>4. QED
        BY <4>1, <4>3
    <3>3. QED
      BY <3>1, <3>2 DEF Cluster
  <2>4. QED
    BY <2>2, <2>3
<1>10. ASSUME NEW a \in Spenders, NEW v, v = Closure!IndexOf(self, a), v \notin V
       PROVE  Cluster(a) = {a}
  <2>1. v \in Numbers /\ AddressOf(v) = a
    BY <1>5, <1>10
  <2>2. NoLinkLeaves({a})
    <3>1. ASSUME NEW e \in self.graph PROVE AddressOf(e[1]) # a /\ AddressOf(e[2]) # a
      BY <1>3, <1>5, <1>10, <2>1, <3>1
    <3>2. QED
      BY <3>1 DEF NoLinkLeaves, Links
  <2>3. IsClosed({a}) /\ {a} \in SUBSET Spenders
    BY <1>6, <1>10, <2>2
  <2>4. Cluster(a) \subseteq {a}
    BY <2>3 DEF Cluster
  <2>5. a \in Cluster(a)
    BY <1>10 DEF Cluster
  <2>6. QED
    BY <2>4, <2>5
<1>11. ASSUME NEW a \in Spenders
       PROVE  IF Closure!InGraph(self, a) THEN Closure!Listings(self, a) = {Cluster(a)}
              ELSE Cluster(a) = {a}
  <2>1. PICK v : v = Closure!IndexOf(self, a) /\ v \in Numbers
    BY <1>5, <1>11
  <2>2. v \in Nat /\ (v \in V <=> v < m)
    BY <1>2, <1>3, <2>1 DEF Numbers
  <2>3. Closure!InGraph(self, a) <=> v \in V
    BY <1>2, <2>1, <2>2 DEF Closure!InGraph
  <2>4. CASE v \in V
    <3>1. PICK C : C = Closure!Component(self, v)
      OBVIOUS
    <3>2. C = {w \in V : \A S \in SUBSET V :
                            v \in S /\ Closure!NoEdgeLeaves(self, S) => w \in S}
      BY <1>2, <3>1 DEF Closure!Component
    <3>3. {AddressOf(w) : w \in C} = Cluster(a)
      BY <1>9, <1>11, <2>1, <2>4, <3>2
    <3>4. Closure!Listings(self, a) = {{AddressOf(w) : w \in C}}
      BY <2>1, <2>3, <2>4, <3>1 DEF Closure!Listings, AddressOf
    <3>5. QED
      BY <2>3, <2>4, <3>3, <3>4
  <2>5. CASE v \notin V
    BY <1>10, <1>11, <2>1, <2>3, <2>5
  <2>6. QED
    BY <2>4, <2>5
<1>12. ToSet(self.allAddrs) = Spenders
  BY <1>1, <1>4 DEF ClosureObject
<1>13. QED
  BY <1>11, <1>12 DEF ClustersAreComponents

(* Whatever the chain, an address that the graph of closure has is listed  *)
(* with the addresses it pays together with, directly or through others,   *)
(* and no others; one that the graph does not have pays with no other.     *)
THEOREM ClustersAreRight == CmdSpec => []ClustersAreComponents
<1>1. IndInv /\ HistoryInv /\ ClosureInv => ClustersAreComponents
  BY ClustersShow DEF ClustersAreComponents, Runs
<1>2. QED
  BY <1>1, ClosureHolds, PTL
-----------------------------------------------------------------------------
(* rewards: halvings as shifts, and shares that add up.                    *)

LEMMA PowersOfTwo ==
  /\ 2^0 = 1
  /\ \A k \in Nat : 2^k \in Nat \ {0} /\ 2^(k + 1) = 2 * 2^k
<1>1. ASSUME NEW k \in Nat
      PROVE  /\ IsFiniteSet(SUBSET (1 .. k)) /\ Cardinality(SUBSET (1 .. k)) = 2^k
             /\ 2^k \in Nat
  <2>1. IsFiniteSet(1 .. k) /\ Cardinality(1 .. k) = k
    BY FS_Interval
  <2>2. QED
    BY <2>1, FS_SUBSET, FS_CardinalityType
<1>2. ASSUME NEW k \in Nat PROVE 2^k \in Nat \ {0}
  <2>1. {} \in SUBSET (1 .. k)
    OBVIOUS
  <2>2. QED
    BY <1>1, <2>1, FS_EmptySet
<1>3. ASSUME NEW k \in Nat PROVE 2^(k + 1) = 2 * 2^k
  <2> DEFINE A == SUBSET (1 .. k)
             B == {s \in SUBSET (1 .. k + 1) : k + 1 \in s}
             f == [s \in A |-> s \union {k + 1}]
  <2>1. \A s \in A : k + 1 \notin s /\ s \union {k + 1} \in B
    <3> TAKE s \in A
    <3>1. k + 1 \notin 1 .. k /\ k + 1 \in 1 .. k + 1 /\ 1 .. k \subseteq 1 .. k + 1
      OBVIOUS
    <3>2. QED
      BY <3>1
  <2>2. \A t \in B : t \ {k + 1} \in A /\ t = (t \ {k + 1}) \union {k + 1}
    OBVIOUS
  <2>3. f \in Bijection(A, B)
    <3>1. f \in Injection(A, B)
      <4>1. f \in [A -> B]
        BY <2>1
      <4>2. \A s \in A : s = f[s] \ {k + 1}
        BY <2>1
      <4>3. IsInjective(f)
        BY <4>2 DEF IsInjective
      <4>4. QED
        BY <4>1, <4>3 DEF Injection
    <3>2. f \in Surjection(A, B)
      BY <2>1, <2>2 DEF Surjection
    <3>3. QED
      BY <3>1, <3>2 DEF Bijection
  <2>4. SUBSET (1 .. k + 1) = A \union B /\ A \intersect B = {}
    <3>1. A \intersect B = {}
      BY <2>1
    <3>2. \A t \in SUBSET (1 .. k + 1) : t \in A \/ t \in B
      <4> TAKE t \in SUBSET (1 .. k + 1)
      <4>1. \A i \in 1 .. k + 1 : i # k + 1 => i \in 1 .. k
        OBVIOUS
      <4>2. CASE k + 1 \notin t
        BY <4>1, <4>2
      <4>3. QED
        BY <4>2
    <3>3. A \subseteq SUBSET (1 .. k + 1) /\ B \subseteq SUBSET (1 .. k + 1)
      <4>1. 1 .. k \subseteq 1 .. k + 1
        OBVIOUS
      <4>2. QED
        BY <4>1
    <3>4. QED
      BY <3>1, <3>2, <3>3
  <2> HIDE DEF B
  <2>5. IsFiniteSet(A) /\ Cardinality(A) = 2^k
    BY <1>1
  <2>6. k + 1 \in Nat /\ Cardinality(SUBSET (1 .. k + 1)) = 2^(k + 1)
    <3>1. k + 1 \in Nat
      OBVIOUS
    <3>2. QED
      BY <1>1, <3>1
  <2> HIDE DEF A
  <2>7. IsFiniteSet(B) /\ Cardinality(B) = Cardinality(A)
    BY <2>3, <2>5, FS_Bijection DEF ExistsBijection
  <2>8. Cardinality({}) = 0
    BY FS_EmptySet
  <2>9. Cardinality(A \union B) = Cardinality(A) + Cardinality(B) - Cardinality(A \intersect B)
    BY <2>5, <2>7, FS_Union
  <2>10. PICK p, q, c : p = 2^k /\ q = 2^(k + 1) /\ c = Cardinality(B)
    OBVIOUS
  <2>11. p \in Nat /\ c = p /\ q = p + c - 0
    BY <1>2, <2>4, <2>5, <2>6, <2>7, <2>8, <2>9, <2>10
  <2>12. q = 2 * p
    BY ONLY <2>11
  <2>13. QED
    BY <2>10, <2>12
<1>4. 2^0 = 1
  OBVIOUS
<1>5. QED
  BY <1>2, <1>3, <1>4

(* Halving a number k times is dividing it by the k-th power of two. *)
LEMMA HalvedIsShifted ==
  ASSUME NEW k \in Nat
  PROVE  Halved[k] = BaseReward \div 2^k
<1> DEFINE is(h) == h = [j \in Nat |-> IF j = 0 THEN BaseReward ELSE h[j - 1] \div 2]
           shifted == [j \in Nat |-> BaseReward \div 2^j]
<1>1. Halved = CHOOSE h : is(h)
  BY DEF Halved
<1>2. ASSUME NEW j \in Nat \ {0}
      PROVE  BaseReward \div 2^j = (BaseReward \div 2^(j - 1)) \div 2
  <2>1. j - 1 \in Nat /\ (j - 1) + 1 = j
    OBVIOUS
  <2>2. 2^(j - 1) \in Nat \ {0} /\ 2^((j - 1) + 1) = 2 * 2^(j - 1)
    BY <2>1, PowersOfTwo
  <2>3. PICK b \in Nat \ {0} : b = 2^(j - 1)
    BY <2>2
  <2>4. 2^j = 2 * b
    BY <2>1, <2>2, <2>3
  <2>5. (BaseReward \div b) \div 2 = BaseReward \div (2 * b)
    BY BaseRewardAssumption
  <2>6. QED
    BY <2>3, <2>4, <2>5
<1>3. BaseReward \div 2^0 = BaseReward
  BY BaseRewardAssumption, PowersOfTwo
<1>4. is(shifted)
  <2>1. ASSUME NEW j \in Nat
        PROVE  shifted[j] = IF j = 0 THEN BaseReward ELSE shifted[j - 1] \div 2
    <3>1. CASE j = 0
      BY <1>3, <3>1
    <3>2. CASE j # 0
      <4>1. j \in Nat \ {0} /\ j - 1 \in Nat
        BY <3>2
      <4>2. QED
        BY <1>2, <3>2, <4>1
    <3>3. QED
      BY <3>1, <3>2
  <2> HIDE DEF shifted
  <2>2. shifted = [j \in Nat |-> shifted[j]]
    BY DEF shifted
  <2>3. QED
    BY <2>1, <2>2
<1>5. is(Halved)
  BY <1>1, <1>4
<1> DEFINE T == {j \in Nat : Halved[j] # shifted[j]}
<1>6. T = {}
  <2> SUFFICES ASSUME T # {} PROVE FALSE
    OBVIOUS
  <2>1. PICK j \in T : \A i \in T : j <= i
    <3>1. T \in SUBSET Nat
      OBVIOUS
    <3> HIDE DEF T
    <3>2. QED
      BY <3>1, LeastElement
  <2>2. j \in Nat /\ Halved[j] = IF j = 0 THEN BaseReward ELSE Halved[j - 1] \div 2
    BY <1>5
  <2>3. j # 0
    BY <1>3, <2>2, <2>1
  <2>4. j - 1 \in Nat /\ j - 1 \notin T
    BY <2>1, <2>2, <2>3
  <2>5. Halved[j - 1] = BaseReward \div 2^(j - 1)
    BY <2>4
  <2>6. QED
    BY <1>2, <2>1, <2>2, <2>3, <2>5
<1>7. QED
  BY <1>6

(* The shares of a value are the value. *)
SharesOf(hash, m) == {<<hash, k>> : k \in 1 .. m}

LEMMA SharesAddUp ==
  ASSUME NEW total \in Nat, NEW n \in Nat \ {0}, NEW hash, NEW g,
         \A k \in 1 .. n : g[<<hash, k>>] = Share(total, n, k)
  PROVE  Total(g, SharesOf(hash, n)) = total
<1>1. PICK q : q = total \div n
  OBVIOUS
<1>2. q \in Nat
  BY <1>1
<1>3. \A k \in 1 .. n : <<hash, k>> \notin SharesOf(hash, k - 1) /\ g[<<hash, k>>] \in Nat
      /\ SharesOf(hash, k) = SharesOf(hash, k - 1) \union {<<hash, k>>}
  <2> TAKE k \in 1 .. n
  <2>1. 1 .. k = (1 .. k - 1) \union {k} /\ k \notin 1 .. k - 1
    OBVIOUS
  <2>2. SharesOf(hash, k) = SharesOf(hash, k - 1) \union {<<hash, k>>}
    BY <2>1 DEF SharesOf
  <2>3. <<hash, k>> \notin SharesOf(hash, k - 1)
    BY <2>1 DEF SharesOf
  <2>4. g[<<hash, k>>] \in Nat
    BY ShareType
  <2>5. QED
    BY <2>2, <2>3, <2>4
<1> DEFINE Sums(m) == IsSummable(g, SharesOf(hash, m)) /\ Total(g, SharesOf(hash, m)) = m * q
           T == {m \in Nat : m < n /\ ~ Sums(m)}
<1>4. T = {}
  <2> SUFFICES ASSUME T # {} PROVE FALSE
    OBVIOUS
  <2>1. PICK m \in T : \A i \in T : m <= i
    <3>1. T \in SUBSET Nat
      OBVIOUS
    <3> HIDE DEF T
    <3>2. QED
      BY <3>1, LeastElement
  <2>2. m \in Nat /\ m < n /\ ~ Sums(m)
    BY <2>1
  <2>3. m # 0
    <3>1. SharesOf(hash, 0) = {}
      BY DEF SharesOf
    <3>2. Total(g, SharesOf(hash, 0)) = 0
      BY <3>1, TotalOfNone
    <3>3. IsSummable(g, SharesOf(hash, 0))
      BY <3>1, FS_EmptySet DEF IsSummable
    <3>4. 0 * q = 0
      BY <1>2
    <3>5. QED
      BY <2>2, <3>2, <3>3, <3>4
  <2>4. m - 1 \in Nat /\ m - 1 < n /\ m - 1 \notin T /\ m \in 1 .. n /\ m < n
    BY <2>1, <2>2, <2>3
  <2>5. Sums(m - 1)
    BY <2>4
  <2>6. g[<<hash, m>>] = q
    BY <1>1, <2>4 DEF Share
  <2>7. /\ IsSummable(g, SharesOf(hash, m))
        /\ Total(g, SharesOf(hash, m)) = Total(g, SharesOf(hash, m - 1)) + g[<<hash, m>>]
    BY <1>3, <2>4, <2>5, TotalAdd
  <2>8. ((m - 1) + 1) * q = (m - 1) * q + q /\ (m - 1) + 1 = m
    BY <1>2, <2>4, ProductIsMonotonic
  <2>9. QED
    BY <2>2, <2>5, <2>6, <2>7, <2>8
<1>5. Sums(n - 1)
  <2>1. n - 1 \in Nat /\ n - 1 < n
    OBVIOUS
  <2>2. QED
    BY <1>4, <2>1
<1>6. Total(g, SharesOf(hash, n)) = (n - 1) * q + g[<<hash, n>>]
  <2>1. n \in 1 .. n
    OBVIOUS
  <2>2. Total(g, SharesOf(hash, n - 1) \union {<<hash, n>>})
            = Total(g, SharesOf(hash, n - 1)) + g[<<hash, n>>]
    BY <1>3, <1>5, <2>1, TotalAdd
  <2>3. QED
    BY <1>3, <1>5, <2>1, <2>2
<1>7. g[<<hash, n>>] = total - (n - 1) * q
  BY <1>1 DEF Share
<1>8. (n - 1) * q \in Nat
  BY <1>2, ProductIsMonotonic
<1>9. QED
  BY <1>6, <1>7, <1>8

-----------------------------------------------------------------------------
(* rewards: the outputs that the coinbase transaction of a block has made, *)
(* as the steps change them, and what they are worth.                      *)

MintedTotal(b) == Total(Worths, MintedMade(b))
AllOf(i)       == SharesOf(chain[i].hash, nbOutputs[chain[i].hash])

IsMintedMade(o, b) ==
  \E i \in DOMAIN chain : \E k \in 1 .. NbMade(i) :
    /\ chain[i].block = b /\ IsMinted(i)
    /\ o = <<chain[i].hash, k>> /\ txo[o].type # -2

LEMMA MintedMadeIs ==
  /\ \A b, o : o \in MintedMade(b) <=> IsMintedMade(o, b)
  /\ \A b, o : o \in MintedMade(b)' <=> IsMintedMade(o, b)'
BY DEF MintedMade, MadeOf, IsMintedMade

LEMMA MintedMadeType ==
  ASSUME IndInv, HistoryInv, NEW b
  PROVE  /\ MintedMade(b) \in SUBSET Outpoint
         /\ \A i \in DOMAIN chain : AllOf(i) \in SUBSET Outpoint
<1>1. ASSUME NEW i \in DOMAIN chain
      PROVE  /\ chain[i].hash \in TxHash /\ NbMade(i) \in 0 .. MaxOutputs
             /\ nbOutputs[chain[i].hash] \in 0 .. MaxOutputs
  BY <1>1, MadeType DEF IndInv, TypeOK
<1>2. ASSUME NEW i \in DOMAIN chain, NEW k \in 1 .. MaxOutputs
      PROVE  <<chain[i].hash, k>> \in Outpoint
  BY <1>1, <1>2 DEF Outpoint
<1>3. \A i \in DOMAIN chain : AllOf(i) \in SUBSET Outpoint
  BY <1>1, <1>2 DEF AllOf, SharesOf
<1>4. ASSUME NEW o \in MintedMade(b)
      PROVE  o \in Outpoint
  <2>1. PICK i \in DOMAIN chain : \E k \in 1 .. NbMade(i) : o = <<chain[i].hash, k>>
    BY <1>4, MintedMadeIs DEF IsMintedMade
  <2>2. \A k \in 1 .. NbMade(i) : k \in 1 .. MaxOutputs
    BY <1>1
  <2>3. QED
    BY <1>2, <2>1, <2>2
<1>5. QED
  BY <1>3, <1>4

(* Steps that make no output. *)
LEMMA MintedKept ==
  ASSUME IndInv, HistoryInv, TxoInv, Starts \/ MakesNone, NEW b
  PROVE  MintedMade(b)' = MintedMade(b) /\ \A o \in MintedMade(b) : txo'[o] = txo[o]
<1>1. CASE MakesNone
  <2>1. /\ UNCHANGED <<chain, txo>>
        /\ \A i \in DOMAIN chain : NbMade(i)' = NbMade(i)
    BY <1>1, MadeElsewhere
  <2>2. \A o : IsMintedMade(o, b)' <=> IsMintedMade(o, b)
    BY <2>1 DEF IsMintedMade, IsMinted
  <2>3. QED
    BY <2>1, <2>2, MintedMadeIs
<1>2. CASE Starts
  <2>1. PICK hash \in TxHash, ins \in Seq(Outpoint \union {GenInput}) :
            IsStart(hash, ins) /\ (IsNew(hash, ins) \/ IsRepeated(hash, ins))
    BY <1>2, StartCases DEF HistoryInv, Starts
  <2>2. PICK n : n = Len(chain)
    OBVIOUS
  <2>3. /\ n \in Nat /\ DOMAIN chain = 1 .. n /\ DOMAIN chain' = 1 .. n + 1
        /\ \A i \in 1 .. n : chain'[i] = chain[i]
    BY <2>1, <2>2, ChainAppended DEF HistoryInv
  <2>4. /\ \A i \in DOMAIN chain :
              /\ NbMade(i)' = NbMade(i)
              /\ \A k \in 1 .. MaxOutputs :
                      txo'[<<chain[i].hash, k>>] = txo[<<chain[i].hash, k>>]
        /\ NbMade(n + 1)' = 0
    BY <1>2, <2>1, <2>2, MadeAtStart
  <2>5. ASSUME NEW i \in DOMAIN chain, NEW k \in 1 .. NbMade(i)
        PROVE  txo'[<<chain[i].hash, k>>] = txo[<<chain[i].hash, k>>]
    <3>1. NbMade(i) \in 0 .. MaxOutputs
      BY MadeType
    <3>2. k \in 1 .. MaxOutputs
      BY <3>1
    <3>3. QED
      BY <2>4, <3>2
  <2>6. \A o : IsMintedMade(o, b) => IsMintedMade(o, b)' /\ txo'[o] = txo[o]
    <3> TAKE o
    <3> HAVE IsMintedMade(o, b)
    <3>0. PICK i \in DOMAIN chain : \E k \in 1 .. NbMade(i) :
              /\ chain[i].block = b /\ IsMinted(i)
              /\ o = <<chain[i].hash, k>> /\ txo[o].type # -2
      BY DEF IsMintedMade
    <3>1. PICK k \in 1 .. NbMade(i) :
              /\ chain[i].block = b /\ IsMinted(i)
              /\ o = <<chain[i].hash, k>> /\ txo[o].type # -2
      BY <3>0
    <3>2. txo'[o] = txo[o] /\ i \in DOMAIN chain' /\ chain'[i] = chain[i] /\ k \in 1 .. NbMade(i)'
      BY <2>3, <2>4, <2>5, <3>1
    <3>3. QED
      BY <3>1, <3>2 DEF IsMintedMade, IsMinted
  <2>7. \A o : IsMintedMade(o, b)' => IsMintedMade(o, b)
    <3> TAKE o
    <3> HAVE IsMintedMade(o, b)'
    <3>1. PICK i \in DOMAIN chain' : \E k \in 1 .. NbMade(i)' :
              /\ chain'[i].block = b /\ IsMinted(i)'
              /\ o = <<chain'[i].hash, k>> /\ txo'[o].type # -2
      BY DEF IsMintedMade
    <3>2. i \in DOMAIN chain
      <4>1. i # n + 1
        BY <2>4, <3>1
      <4>2. QED
        BY <2>3, <4>1
    <3>3. chain'[i] = chain[i] /\ NbMade(i)' = NbMade(i)
      BY <2>3, <2>4, <3>2
    <3>4. PICK k \in 1 .. NbMade(i) :
              /\ chain[i].block = b /\ IsMinted(i)
              /\ o = <<chain[i].hash, k>> /\ txo'[o].type # -2
      BY <3>1, <3>3 DEF IsMinted
    <3>5. txo'[o] = txo[o]
      BY <2>5, <3>2, <3>4
    <3>6. QED
      BY <3>2, <3>4, <3>5 DEF IsMintedMade
  <2>8. \A o : o \in MintedMade(b)' <=> o \in MintedMade(b)
    BY <2>6, <2>7, MintedMadeIs
  <2>9. \A o \in MintedMade(b) : txo'[o] = txo[o]
    BY <2>6, MintedMadeIs
  <2>10. QED
    BY <2>8, <2>9
<1>3. QED
  BY <1>1, <1>2

(* Each block has one coinbase transaction. *)
OneCoinbaseEach ==
  \A i, j \in DOMAIN chain : IsMinted(i) /\ IsMinted(j) /\ i < j =>
        chain[i].block < chain[j].block

LEMMA CoinbaseIsMinted ==
  ASSUME HistoryInv, NEW i \in DOMAIN chain
  PROVE  IsMinted(i) <=> chain[i].hash \in coinbases
<1> DEFINE InsOf(j) == IF chain[j].hash \in coinbases THEN IsMinted(j)
                       ELSE chain[j].ins \in Seq(Outpoint) /\ chain[j].ins # <<>>
<1>0. InsOf(i)
  BY DEF HistoryInv, ChainInv
<1>1. CASE chain[i].hash \in coinbases
  BY <1>0, <1>1
<1>2. CASE chain[i].hash \notin coinbases
  <2>1. PICK ins : ins = chain[i].ins
    OBVIOUS
  <2>2. ins # <<GenInput>>
    <3>1. ins \in Seq(Outpoint)
      BY <1>0, <1>2, <2>1
    <3>2. <<GenInput>>[1] = GenInput /\ Len(<<GenInput>>) = 1
      OBVIOUS
    <3>3. Len(ins) = 1 => ins[1] \in Outpoint
      BY ONLY <3>1
    <3>4. QED
      BY ONLY <3>2, <3>3, GenInputs
  <2>4. ~ IsMinted(i)
    BY ONLY <2>1, <2>2 DEF IsMinted
  <2>3. QED
    BY <1>2, <2>4
<1>3. QED
  BY <1>1, <1>2

LEMMA MintedAtOutput ==
  ASSUME IndInv, HistoryInv, OneCoinbaseEach, OutputCalls, NEW o, o = <<tx.hash, tx'.outs>>
  PROVE  /\ UNCHANGED txo /\ o \in Outpoint /\ o \notin MintedMade(height)
         /\ \A b : b # height => MintedMade(b)' = MintedMade(b)
         /\ MintedMade(height)' = IF tx.hash \in coinbases /\ txo[o].type # -2
                                  THEN MintedMade(height) \union {o} ELSE MintedMade(height)
<1>1. PICK n : n = Len(chain)
  OBVIOUS
<1>2. PICK c : c = NbMade(n)
  OBVIOUS
<1>3. /\ n \in DOMAIN chain /\ tx.hash = chain[n].hash /\ chain[n].block = height
      /\ c + 1 \in 1 .. MaxOutputs /\ NbMade(n)' = c + 1 /\ tx'.outs = c + 1
      /\ \A i \in DOMAIN chain \ {n} : NbMade(i)' = NbMade(i)
      /\ UNCHANGED <<chain, txo, height>>
  BY <1>1, <1>2, MadeAtOutput
<1>4. c \in Nat /\ chain[n].hash \in TxHash
  BY <1>2, <1>3, MadeType
<1>5. o = <<chain[n].hash, c + 1>> /\ o \in Outpoint
  BY <1>3, <1>4 DEF Outpoint
<1>6. IsMinted(n) <=> tx.hash \in coinbases
  BY <1>3, CoinbaseIsMinted
<1>7. \A i \in DOMAIN chain : i \in Nat /\ n \in Nat
  BY <1>3 DEF HistoryInv, ChainInv
<1>8. o \notin MintedMade(height)
  <2> SUFFICES ASSUME IsMintedMade(o, height) PROVE FALSE
    BY MintedMadeIs
  <2>0. PICK i \in DOMAIN chain : \E k \in 1 .. NbMade(i) :
            chain[i].block = height /\ IsMinted(i) /\ o = <<chain[i].hash, k>>
    BY DEF IsMintedMade
  <2>1. PICK k \in 1 .. NbMade(i) :
            chain[i].block = height /\ IsMinted(i) /\ o = <<chain[i].hash, k>>
    BY <2>0
  <2>2. k = c + 1 /\ chain[i].hash = chain[n].hash
    BY <1>5, <2>1
  <2>3. i # n
    BY <1>2, <1>4, <2>1, <2>2
  <2>4. IsMinted(n)
    BY <1>3, <2>1, <2>2, CoinbaseIsMinted
  <2>5. i < n \/ n < i
    BY <1>7, <2>3
  <2>6. height < height
    BY <1>3, <2>1, <2>4, <2>5 DEF OneCoinbaseEach
  <2>7. height \in Nat
    BY SessionTypes DEF HistoryInv, LoopInv
  <2>8. QED
    BY <2>6, <2>7
<1>9. \A b, p : IsMintedMade(p, b) => IsMintedMade(p, b)'
  <2> TAKE b, p
  <2> HAVE IsMintedMade(p, b)
  <2>0. PICK i \in DOMAIN chain : \E k \in 1 .. NbMade(i) :
            /\ chain[i].block = b /\ IsMinted(i)
            /\ p = <<chain[i].hash, k>> /\ txo[p].type # -2
    BY DEF IsMintedMade
  <2>1. PICK k \in 1 .. NbMade(i) :
            /\ chain[i].block = b /\ IsMinted(i)
            /\ p = <<chain[i].hash, k>> /\ txo[p].type # -2
    BY <2>0
  <2>2. k \in 1 .. NbMade(i)'
    BY <1>2, <1>3, <1>4, <2>1
  <2>3. QED
    BY <1>3, <2>1, <2>2 DEF IsMintedMade, IsMinted
<1>10. \A b, p : IsMintedMade(p, b)' =>
          \/ IsMintedMade(p, b)
          \/ p = o /\ b = height /\ IsMinted(n) /\ txo[o].type # -2
  <2> TAKE b, p
  <2> HAVE IsMintedMade(p, b)'
  <2>1. PICK i \in DOMAIN chain : \E k \in 1 .. NbMade(i)' :
            /\ chain[i].block = b /\ IsMinted(i)
            /\ p = <<chain[i].hash, k>> /\ txo[p].type # -2
    BY <1>3 DEF IsMintedMade, IsMinted
  <2>2. PICK k \in 1 .. NbMade(i)' :
            /\ chain[i].block = b /\ IsMinted(i)
            /\ p = <<chain[i].hash, k>> /\ txo[p].type # -2
    BY <2>1
  <2>3. CASE k \in 1 .. NbMade(i)
    BY <2>2, <2>3 DEF IsMintedMade
  <2>4. CASE k \notin 1 .. NbMade(i)
    <3>1. i = n
      BY <1>3, <2>4
    <3>2. k = c + 1
      BY <1>2, <1>3, <1>4, <2>4, <3>1
    <3>3. QED
      BY <1>3, <1>5, <2>2, <3>1, <3>2
  <2>5. QED
    BY <2>3, <2>4
<1>11. IsMinted(n) /\ txo[o].type # -2 => IsMintedMade(o, height)'
  <2> HAVE IsMinted(n) /\ txo[o].type # -2
  <2>1. c + 1 \in 1 .. NbMade(n)'
    BY <1>3, <1>4
  <2>2. IsMinted(n)' /\ txo'[o].type # -2 /\ n \in DOMAIN chain' /\ chain' = chain
    BY <1>3 DEF IsMinted
  <2>3. QED
    BY <1>3, <1>5, <2>1, <2>2 DEF IsMintedMade
<1>12. \A b : b # height => MintedMade(b)' = MintedMade(b)
  BY <1>9, <1>10, MintedMadeIs
<1>13. IF tx.hash \in coinbases /\ txo[o].type # -2
       THEN \A p : p \in MintedMade(height)' <=> p \in MintedMade(height) \union {o}
       ELSE \A p : p \in MintedMade(height)' <=> p \in MintedMade(height)
  <2>1. PICK h : h = height
    OBVIOUS
  <2>2. h' = h /\ height' = h
    BY <1>3, <2>1
  <2>3. \A p : p \in MintedMade(height)' <=> IsMintedMade(p, height)'
    BY DEF MintedMade, MadeOf, IsMintedMade
  <2>4. QED
    BY <1>3, <1>6, <1>9, <1>10, <1>11, <2>3, MintedMadeIs
<1>14. QED
  BY <1>3, <1>5, <1>8, <1>12, <1>13

LEMMA MintedTotalSame ==
  ASSUME TxoInv, TxoInv', NEW b, MintedMade(b) \in SUBSET Outpoint,
         MintedMade(b)' = MintedMade(b), \A o \in MintedMade(b) : txo'[o] = txo[o]
  PROVE  MintedTotal(b)' = MintedTotal(b)
<1>1. \A o \in MintedMade(b) : Worths[o] = Worths'[o]
  BY DEF Worths, ValueOf
<1>2. Total(Worths, MintedMade(b)) = Total(Worths', MintedMade(b))
  BY <1>1, TotalAgrees
<1>3. QED
  BY <1>2 DEF MintedTotal

(* A coinbase transaction hands out what a uint64_t can hold. *)
CoinbasesFit == \A i \in DOMAIN chain : IsMinted(i) => Total(Worths, AllOf(i)) < Word

LEMMA MintedFits ==
  ASSUME IndInv, HistoryInv, NEW scripts \in Scripts, StartBlock(scripts)
  PROVE  Total(Worths', SharesOf(tx'.hash, nbOutputs'[tx'.hash])) < Word
<1>1. PICK total, hash : total = gCallback.minted[height + 1] /\ hash = NbHashes + 1
  OBVIOUS
<1>2. /\ StartCoinbase(Len(scripts)) /\ nbTxs < MaxTxs /\ height < gCallback.records
      /\ txo' = Made(tx'.hash, total, scripts)
  BY <1>1 DEF StartBlock, StartCoinbase
<1>3. hash \in TxHash
  BY <1>1, <1>2, NewHash
<1>4. total \in 0 .. Word - 1
  <2>1. height + 1 \in 1 .. gCallback.records
    BY <1>2, SessionTypes DEF HistoryInv, LoopInv
  <2>2. gCallback.minted \in [1 .. gCallback.records -> 0 .. Word - 1]
    BY SessionsAssumption DEF HistoryInv, LoopInv
  <2>3. QED
    BY <1>1, <2>1, <2>2
<1>5. PICK n \in 1 .. MaxOutputs : scripts \in [1 .. n -> gCallback.scripts]
  BY DEF Scripts
<1>6. Len(scripts) = n /\ DOMAIN scripts = 1 .. n /\ n \in Nat \ {0}
  BY <1>5
<1>7. tx'.hash = hash /\ nbOutputs'[hash] = n
  BY <1>1, <1>2, <1>3, <1>6 DEF StartCoinbase, StartTX, IndInv, TypeOK
<1>8. \A k \in 1 .. n : Worths'[<<hash, k>>] = Share(total, n, k)
  <2> TAKE k \in 1 .. n
  <2>1. <<hash, k>> \in Outpoint
    BY <1>3 DEF Outpoint
  <2>2. txo'[<<hash, k>>].value = Share(total, n, k)
    BY <1>2, <1>6, <1>7, <2>1 DEF Made
  <2>3. QED
    BY <2>1, <2>2 DEF Worths, ValueOf
<1>9. total \in Nat /\ total < Word
  BY <1>4, WordAssumption
<1>10. Total(Worths', SharesOf(hash, n)) = total
  BY <1>6, <1>8, <1>9, SharesAddUp
<1>11. QED
  BY <1>7, <1>9, <1>10

LEMMA CoinbasesAtStart ==
  ASSUME IndInv, HistoryInv, HistoryInv', TxoInv, OneCoinbaseEach, CoinbasesFit, Starts
  PROVE  OneCoinbaseEach' /\ CoinbasesFit'
<1>1. PICK hash \in TxHash, ins \in Seq(Outpoint \union {GenInput}) :
          IsStart(hash, ins) /\ (IsNew(hash, ins) \/ IsRepeated(hash, ins))
  BY StartCases DEF HistoryInv, Starts
<1>2. PICK n : n = Len(chain)
  OBVIOUS
<1>3. /\ n \in Nat /\ DOMAIN chain = 1 .. n /\ DOMAIN chain' = 1 .. n + 1
      /\ chain'[n + 1].hash = hash /\ chain'[n + 1].ins = ins
      /\ chain'[n + 1].block = height'
      /\ \A i \in 1 .. n : chain'[i] = chain[i]
  BY <1>1, <1>2, ChainAppended DEF HistoryInv
<1>4. tx'.hash = hash
  BY <1>1 DEF IsStart
<1>5. \A i \in DOMAIN chain : IsMinted(i)' <=> IsMinted(i)
  BY <1>3 DEF IsMinted
<1>6. ASSUME NEW i \in DOMAIN chain
      PROVE  /\ hash # chain[i].hash \/ IsRepeated(hash, ins)
             /\ nbOutputs'[chain[i].hash] = nbOutputs[chain[i].hash]
             /\ AllOf(i) \in SUBSET Outpoint
             /\ \A o \in AllOf(i) : Worths'[o] = Worths[o]
  <2>1. chain[i].hash \in TxHash /\ AllOf(i) \in SUBSET Outpoint
    BY <1>6, MadeType, MintedMadeType
  <2>2. chain[i].hash \in Hashes
    BY <1>6 DEF Hashes
  <2>3. hash # chain[i].hash \/ IsRepeated(hash, ins)
    BY <1>1, <2>2, HashesAreCounted DEF HistoryInv, ChainInv, IsNew
  <2>4. nbOutputs'[chain[i].hash] = nbOutputs[chain[i].hash]
    BY <1>1, <2>1, <2>3 DEF IsStart, IsRepeated
  <2>5. ASSUME NEW o \in AllOf(i) PROVE txo'[o] = txo[o]
    <3>1. CASE IsRepeated(hash, ins)
      BY <3>1 DEF IsRepeated
    <3>2. CASE hash # chain[i].hash
      <4>1. o \in Outpoint /\ o[1] = chain[i].hash
        BY <2>1, <2>5 DEF AllOf, SharesOf
      <4>2. \A p \in Outpoint : p[1] # hash => txo'[p] = txo[p]
        BY <1>4, TxoStart DEF HistoryInv, Starts
      <4>3. QED
        BY <3>2, <4>1, <4>2
    <3>3. QED
      BY <2>3, <3>1, <3>2
  <2>6. \A o \in AllOf(i) : Worths'[o] = Worths[o]
    BY <2>1, <2>5 DEF Worths, ValueOf
  <2>7. QED
    BY <2>1, <2>3, <2>4, <2>6
<1>7. ASSUME NEW i \in DOMAIN chain, IsMinted(i)
      PROVE  Total(Worths', AllOf(i)) < Word
  <2>1. Total(Worths', AllOf(i)) = Total(Worths, AllOf(i))
    BY <1>6, TotalAgrees
  <2>2. QED
    BY <1>7, <2>1 DEF CoinbasesFit
<1>8. \A i \in DOMAIN chain : IsMinted(i)' => (Total(Worths, AllOf(i)) < Word)'
  <2> TAKE i \in DOMAIN chain
  <2> HAVE IsMinted(i)'
  <2>1. AllOf(i)' = AllOf(i)
    BY <1>3, <1>6 DEF AllOf
  <2>2. QED
    BY <1>5, <1>7, <2>1
<1>9. IsMinted(n + 1)' =>
          height' > height /\ (Total(Worths, AllOf(n + 1)) < Word)'
  <2> HAVE IsMinted(n + 1)'
  <2>1. ins = <<GenInput>>
    BY <1>3 DEF IsMinted
  <2>2. height \in Nat
    BY SessionTypes DEF HistoryInv, LoopInv
  <2>3. CASE \E scripts \in Scripts : StartBlock(scripts)
    <3>1. height' = height + 1
      BY <2>3 DEF StartBlock
    <3>2. Total(Worths', SharesOf(tx'.hash, nbOutputs'[tx'.hash])) < Word
      BY <2>3, MintedFits
    <3>3. QED
      BY <1>3, <1>4, <2>2, <3>1, <3>2 DEF AllOf
  <2>4. CASE \E h \in coinbases : StartBlockRepeated(h)
    <3>1. height' = height + 1 /\ hash \in coinbases /\ UNCHANGED <<nbOutputs, txo>>
      BY <1>4, <2>4 DEF StartBlockRepeated, RepeatCoinbase, StartTX
    <3>2. PICK i \in DOMAIN chain : chain[i].hash = hash
      <4>1. hash \in Hashes
        <5>1. hash \in 1 .. NbHashes
          BY <3>1 DEF IndInv, ChainIsSound, TypeOK, TxHash
        <5>2. QED
          BY <5>1 DEF HistoryInv, ChainInv
      <4>2. QED
        BY <4>1 DEF Hashes
    <3>3. IsMinted(i)
      BY <3>1, <3>2, CoinbaseIsMinted
    <3>4. AllOf(n + 1)' = AllOf(i)
      BY <1>3, <3>1, <3>2 DEF AllOf
    <3>5. QED
      BY <1>7, <2>2, <3>1, <3>3, <3>4
  <2>5. CASE \E s \in {s \in SeqOf(coins, MaxInputs) : s # <<>>}, scripts \in Scripts :
                StartOther(s, scripts)
    <3>1. tx'.hash = NbHashes + 1 /\ coinbases' = coinbases /\ nbTxs < MaxTxs
      BY <2>5 DEF StartOther, StartSpend, StartTX
    <3>2. hash \notin coinbases'
      BY <1>4, <3>1, NewHash
    <3>3. chain'[n + 1].ins \in Seq(Outpoint)
      BY <1>3, <3>2 DEF HistoryInv, ChainInv
    <3>4. <<GenInput>>[1] = GenInput /\ 1 \in DOMAIN <<GenInput>>
      OBVIOUS
    <3>5. QED
      BY <1>3, <2>1, <3>3, <3>4, GenInputs
  <2>6. QED
    BY <2>3, <2>4, <2>5 DEF Starts
<1>10. CoinbasesFit'
  BY <1>3, <1>8, <1>9 DEF CoinbasesFit
<1>11. OneCoinbaseEach'
  <2> SUFFICES ASSUME NEW i \in DOMAIN chain', NEW j \in DOMAIN chain',
                      IsMinted(i)', IsMinted(j)', i < j
               PROVE  chain'[i].block < chain'[j].block
    BY DEF OneCoinbaseEach
  <2>1. i \in 1 .. n
    BY <1>3
  <2>2. CASE j \in 1 .. n
    BY <1>3, <1>5, <2>1, <2>2 DEF OneCoinbaseEach
  <2>3. CASE j = n + 1
    <3>1. chain[i].block <= height /\ chain[i].block \in Nat
      BY <1>3, <2>1, MadeType DEF HistoryInv, ChainInv
    <3>2. height \in Nat /\ height' \in Nat /\ height' > height
      BY <1>1, <1>9, <2>3, SessionTypes DEF HistoryInv, LoopInv, IsStart
    <3>3. QED
      BY <1>3, <2>1, <2>3, <3>1, <3>2
  <2>4. QED
    BY <1>3, <2>2, <2>3
<1>12. QED
  BY <1>10, <1>11

LEMMA CoinbasesElsewhere ==
  ASSUME OneCoinbaseEach, CoinbasesFit, UNCHANGED <<chain, txo, nbOutputs>>
  PROVE  OneCoinbaseEach' /\ CoinbasesFit'
BY DEF OneCoinbaseEach, CoinbasesFit, IsMinted, AllOf, Worths, ValueOf

-----------------------------------------------------------------------------
(* rewards: what its handlers do to the object, and the invariant.         *)

ClaimOf(b, total) ==
  LET base == Halved[(b - 1) \div HalvingInterval]
  IN  [block |-> b - 1, base |-> base, total |-> total,
       fees |-> IF total >= base THEN total - base ELSE Word - (base - total)]

RewardsSums ==
  /\ loop = "block" => self.currBlock = height - 1 /\ self.reward = MintedTotal(height)
  /\ self.summary = [b \in 1 .. EndedBlocks |-> ClaimOf(b, MintedTotal(b))]

RewardsGen ==
  /\ pc = "inputs" => (self.hasGenInput <=> tx.hash \in coinbases /\ tx.ins = <<>>)
  /\ pc = "outputs" => (self.hasGenInput <=> tx.hash \in coinbases)

RewardsSound ==
  /\ RewardsObject(self) /\ RewardsSums /\ RewardsGen /\ RewardsEnd
  /\ OneCoinbaseEach /\ CoinbasesFit

RewardsTally == command = "rewards" => RewardsSound

(* Of a block that has not begun there is nothing. *)
LEMMA NothingAhead ==
  ASSUME IndInv, HistoryInv
  PROVE  height \in Nat /\ MintedMade(height + 1) = {}
<1>1. height \in Nat
  BY SessionTypes DEF HistoryInv, LoopInv
<1>2. \A i \in DOMAIN chain : chain[i].block # height + 1
  <2> TAKE i \in DOMAIN chain
  <2>1. chain[i].block \in Nat /\ chain[i].block <= height
    BY MadeType DEF HistoryInv, ChainInv
  <2>2. QED
    BY <1>1, <2>1
<1>3. \A o : ~ IsMintedMade(o, height + 1)
  BY <1>2 DEF IsMintedMade
<1>4. QED
  BY <1>1, <1>3, MintedMadeIs

MintedSame ==
  \A b : MintedMade(b)' = MintedMade(b) /\ \A o \in MintedMade(b) : txo'[o] = txo[o]

(* The lines printed stay right when the outputs and the blocks ended do.  *)
LEMMA SummaryKept ==
  ASSUME IndInv, HistoryInv, TxoInv, TxoInv', RewardsSums,
         MintedSame,
         self'.summary = self.summary, EndedBlocks' = EndedBlocks
  PROVE  /\ \A b : MintedTotal(b)' = MintedTotal(b)
         /\ self'.summary = [b \in 1 .. EndedBlocks' |-> ClaimOf(b, MintedTotal(b)')]
<1>1. ASSUME NEW b PROVE MintedTotal(b)' = MintedTotal(b)
  BY MintedMadeType, MintedTotalSame DEF MintedSame
<1>2. QED
  BY <1>1 DEF RewardsSums

(* What is known of the outputs of the blocks before stays known. *)
LEMMA RewardsEndKept ==
  ASSUME RewardsEnd, loop # "fatal", loop' # "fatal",
         NEW h \in Nat, h = height, height' = h \/ (height' = h + 1 /\ MintedMade(h + 1) = {}),
         MintedSame,
         self'.fatal = self.fatal, self'.fullDump = self.fullDump
  PROVE  RewardsEnd'
<1>1. ASSUME self'.fullDump, NEW b \in 1 .. height', NEW o \in MintedMade(b)
      PROVE  ~ (txo'[o].type < 0 /\ txo'[o].value > 0)
  <2>1. txo'[o] = txo[o]
    BY <1>1 DEF MintedSame
  <2>2. b \in 1 .. height
    BY <1>1
  <2>3. ~ PaysNobody(o)
    BY <1>1, <2>2 DEF RewardsEnd
  <2>4. QED
    BY <2>1, <2>3 DEF PaysNobody
<1>2. ~ self'.fatal
  BY DEF RewardsEnd
<1>3. QED
  BY <1>1, <1>2 DEF RewardsEnd, PaysNobody, MintedSame

LEMMA RewardsStarts ==
  ASSUME command = "rewards", RewardsObject(self), Starts, NEW h \in Nat, h = height
  PROVE  /\ RewardsObject(self') /\ ~ self'.hasGenInput
         /\ self'.summary = self.summary /\ self'.fullDump = self.fullDump
         /\ self'.fatal = self.fatal
         /\ \/ height' = h + 1 /\ self'.currBlock = h /\ self'.reward = 0 /\ loop = "between"
            \/ /\ height' = h /\ loop = "block"
               /\ self'.currBlock = self.currBlock /\ self'.reward = self.reward
<1>1. PICK c : c = (h + 1) - 1
  OBVIOUS
<1>2. c = h /\ c \in Int
  BY <1>1
<1> DEFINE x == [self EXCEPT !.currBlock = c, !.reward = 0]
           y == [x EXCEPT !.hasGenInput = FALSE, !.nbInputs = 0]
           z == [self EXCEPT !.hasGenInput = FALSE, !.nbInputs = 0]
<1>3. \/ self' = y /\ height' = h + 1 /\ loop = "between"
      \/ self' = z /\ height' = h /\ loop = "block"
  BY <1>1 DEF Starts, StartBlock, StartBlockRepeated, StartOther, CallStartTX, startInputs,
     startTX, startBlock, Rewards!startInputs, Rewards!startBlock
<1>4. /\ RewardsObject(y) /\ ~ y.hasGenInput /\ y.summary = self.summary
      /\ y.fullDump = self.fullDump /\ y.fatal = self.fatal
      /\ y.currBlock = h /\ y.reward = 0
  <2>1. /\ RewardsObject(x) /\ x.summary = self.summary
        /\ x.fullDump = self.fullDump /\ x.fatal = self.fatal
        /\ x.currBlock = h /\ x.reward = 0
    BY <1>2 DEF RewardsObject
  <2> HIDE DEF x
  <2>2. /\ RewardsObject(y) /\ ~ y.hasGenInput /\ y.summary = x.summary
        /\ y.fullDump = x.fullDump /\ y.fatal = x.fatal
        /\ y.currBlock = x.currBlock /\ y.reward = x.reward
    BY <2>1 DEF RewardsObject
  <2>3. QED
    BY <2>1, <2>2
<1>5. /\ RewardsObject(z) /\ ~ z.hasGenInput /\ z.summary = self.summary
      /\ z.fullDump = self.fullDump /\ z.fatal = self.fatal
      /\ z.currBlock = self.currBlock /\ z.reward = self.reward
  BY DEF RewardsObject
<1> HIDE DEF y, z
<1>6. CASE self' = y /\ height' = h + 1 /\ loop = "between"
  BY <1>4, <1>6
<1>7. CASE self' = z /\ height' = h /\ loop = "block"
  BY <1>5, <1>7
<1>8. QED
  BY <1>3, <1>6, <1>7

LEMMA RewardsInputs ==
  ASSUME command = "rewards", RewardsObject(self), ~ self.fatal, GenInputCalls \/ InputCalls
  PROVE  /\ RewardsObject(self')
         /\ self'.hasGenInput <=> self.hasGenInput \/ upTXHash = gNullHash
         /\ self'.summary = self.summary /\ self'.fullDump = self.fullDump
         /\ self'.fatal = self.fatal /\ self'.currBlock = self.currBlock
         /\ self'.reward = self.reward /\ loop = "block" /\ loop' = "block"
<1> DEFINE b == self.hasGenInput \/ upTXHash = gNullHash
           w == [self EXCEPT !.hasGenInput = b]
           y == [w EXCEPT !.nbInputs = self.nbInputs + 1]
<1>1. self' = [self EXCEPT !.hasGenInput = self.hasGenInput \/ upTXHash = gNullHash,
                           !.nbInputs = self.nbInputs + 1]
  BY DEF GenInputCalls, InputCalls, startInput, edgeCall, Rewards!startInput
<1>2. b \in BOOLEAN /\ (b <=> self.hasGenInput \/ upTXHash = gNullHash)
  BY Zenon
<1>3. self' = y
  BY <1>1
<1> HIDE DEF b, y
<1>4. RewardsObject(w) /\ w.hasGenInput = b /\ self.nbInputs + 1 \in Nat
      /\ w.summary = self.summary /\ w.fullDump = self.fullDump /\ w.fatal = self.fatal
      /\ w.currBlock = self.currBlock /\ w.reward = self.reward
  BY <1>2 DEF RewardsObject
<1> HIDE DEF w
<1>5. RewardsObject(y) /\ y.hasGenInput = b
      /\ y.summary = w.summary /\ y.fullDump = w.fullDump /\ y.fatal = w.fatal
      /\ y.currBlock = w.currBlock /\ y.reward = w.reward
  BY <1>4 DEF RewardsObject, y
<1>6. loop = "block" /\ loop' = "block"
  BY <1>3, <1>4, <1>5 DEF GenInputCalls, InputCalls, Unless, isFatal
<1>7. self'.hasGenInput <=> self.hasGenInput \/ upTXHash = gNullHash
  BY <1>2, <1>3, <1>5, Zenon
<1>8. QED
  BY <1>3, <1>4, <1>5, <1>6, <1>7

LEMMA RewardsStartStep ==
  ASSUME IndInv, HistoryInv, HistoryInv', TxoInv, TxoInv', command = "rewards",
         gCallback' = gCallback, RewardsSound, Starts
  PROVE  RewardsSound'
<1>1. PICK h : h = height
  OBVIOUS
<1>2. h \in Nat /\ MintedMade(h + 1) = {}
  BY <1>1, NothingAhead
<1>3. /\ RewardsObject(self) /\ RewardsSums /\ RewardsEnd /\ OneCoinbaseEach /\ CoinbasesFit
  BY DEF RewardsSound
<1>4. /\ RewardsObject(self') /\ ~ self'.hasGenInput
      /\ self'.summary = self.summary /\ self'.fullDump = self.fullDump
      /\ self'.fatal = self.fatal
      /\ \/ height' = h + 1 /\ self'.currBlock = h /\ self'.reward = 0 /\ loop = "between"
         \/ /\ height' = h /\ loop = "block"
            /\ self'.currBlock = self.currBlock /\ self'.reward = self.reward
  BY <1>1, <1>2, <1>3, RewardsStarts
<1>5. /\ pc' = "inputs" /\ loop' = "block" /\ tx'.ins # <<>>
  <2>1. PICK hash \in TxHash, ins \in Seq(Outpoint \union {GenInput}) :
            IsStart(hash, ins) /\ (IsNew(hash, ins) \/ IsRepeated(hash, ins))
    BY StartCases DEF HistoryInv, Starts
  <2>2. <<GenInput>> # <<>>
    OBVIOUS
  <2>3. QED
    BY <2>1, <2>2 DEF IsStart, IsNew, IsRepeated
<1>6. MintedSame
  BY MintedKept DEF MintedSame
<1>7. EndedBlocks' = EndedBlocks
  BY <1>1, <1>2, <1>4, <1>5 DEF EndedBlocks
<1>8. /\ \A b : MintedTotal(b)' = MintedTotal(b)
      /\ self'.summary = [b \in 1 .. EndedBlocks' |-> ClaimOf(b, MintedTotal(b)')]
  BY <1>3, <1>4, <1>6, <1>7, SummaryKept
<1>9. self'.currBlock = height' - 1 /\ self'.reward = MintedTotal(height)'
  <2>1. CASE height' = h + 1 /\ self'.currBlock = h /\ self'.reward = 0
    <3>1. MintedTotal(h + 1) = 0
      BY <1>2, TotalOfNone DEF MintedTotal
    <3>2. MintedTotal(height)' = MintedTotal(h + 1)'
      BY <2>1 DEF MintedTotal, MintedMade, MadeOf
    <3>3. QED
      BY <1>2, <1>8, <2>1, <3>1, <3>2
  <2>2. CASE /\ height' = h /\ loop = "block"
             /\ self'.currBlock = self.currBlock /\ self'.reward = self.reward
    <3>1. self.currBlock = h - 1 /\ self.reward = MintedTotal(h)
      BY <1>1, <1>3, <2>2 DEF RewardsSums
    <3>2. MintedTotal(height)' = MintedTotal(h)'
      BY <2>2 DEF MintedTotal, MintedMade, MadeOf
    <3>3. QED
      BY <1>8, <2>2, <3>1, <3>2
  <2>3. QED
    BY <1>4, <2>1, <2>2
<1>10. RewardsSums'
  <2>1. [b \in 1 .. EndedBlocks |-> ClaimOf(b, MintedTotal(b))]' =
            [b \in 1 .. EndedBlocks' |-> ClaimOf(b, MintedTotal(b)')]
    BY DEF ClaimOf
  <2>2. QED
    BY <1>8, <1>9, <2>1 DEF RewardsSums
<1>11. RewardsGen'
  BY <1>4, <1>5 DEF RewardsGen
<1>12. RewardsEnd'
  <2>1. loop # "fatal" /\ loop' # "fatal"
    BY <1>4, <1>5
  <2>2. height' = h \/ (height' = h + 1 /\ MintedMade(h + 1) = {})
    BY <1>2, <1>4
  <2>3. QED
    BY <1>1, <1>2, <1>3, <1>4, <1>6, <2>1, <2>2, RewardsEndKept
<1>13. OneCoinbaseEach' /\ CoinbasesFit'
  BY <1>3, CoinbasesAtStart
<1>14. RewardsObject(self)'
  BY <1>4 DEF RewardsObject
<1>15. QED
  BY <1>10, <1>11, <1>12, <1>13, <1>14 DEF RewardsSound

LEMMA RewardsEndLeft ==
  ASSUME IndInv, HistoryInv, TxoInv, RewardsEnd, MakesNone, loop # "fatal", loop' # "fatal",
         self'.fatal = self.fatal, self'.fullDump = self.fullDump
  PROVE  RewardsEnd'
<1>1. PICK h : h = height
  OBVIOUS
<1>2. h \in Nat /\ height' = h
  BY <1>1, NothingAhead, MadeElsewhere
<1>3. MintedSame
  BY MintedKept DEF MintedSame
<1>4. height' = h \/ (height' = h + 1 /\ MintedMade(h + 1) = {})
  BY <1>2
<1>5. QED
  BY <1>1, <1>2, <1>3, <1>4, RewardsEndKept

(* Steps that start nothing and make no output leave the sums alone. *)
LEMMA RewardsLeft ==
  ASSUME IndInv, HistoryInv, TxoInv, TxoInv', command = "rewards",
         RewardsSound, MakesNone, ~ EndBlock, ~ WriteToClosedFile,
         RewardsObject(self'), RewardsGen', RewardsEnd', self'.summary = self.summary,
         self'.currBlock = self.currBlock, self'.reward = self.reward,
         loop' = "fatal" <=> loop = "fatal", loop' = "block" <=> loop = "block"
  PROVE  RewardsSound'
<1>1. PICK h : h = height
  OBVIOUS
<1>2. h \in Nat
  BY <1>1, NothingAhead
<1>3. RewardsObject(self) /\ RewardsSums /\ OneCoinbaseEach /\ CoinbasesFit
  BY DEF RewardsSound
<1>4. UNCHANGED <<chain, txo, height, nbOutputs>>
  BY MadeElsewhere
<1>5. MintedSame
  BY MintedKept DEF MintedSame
<1>6. EndedBlocks' = EndedBlocks
  BY <1>4 DEF EndedBlocks
<1>7. /\ \A b : MintedTotal(b)' = MintedTotal(b)
      /\ self'.summary = [b \in 1 .. EndedBlocks' |-> ClaimOf(b, MintedTotal(b)')]
  BY <1>3, <1>5, <1>6, SummaryKept
<1>8. loop' = "block" => self'.currBlock = height' - 1 /\ self'.reward = MintedTotal(height)'
  <2> HAVE loop' = "block"
  <2>1. self.currBlock = h - 1 /\ self.reward = MintedTotal(h)
    BY <1>1, <1>3 DEF RewardsSums
  <2>2. height' = h /\ MintedTotal(height)' = MintedTotal(h)'
    BY <1>1, <1>4 DEF MintedTotal, MintedMade, MadeOf
  <2>3. QED
    BY <1>7, <2>1, <2>2
<1>9. RewardsSums'
  <2>1. [b \in 1 .. EndedBlocks |-> ClaimOf(b, MintedTotal(b))]' =
            [b \in 1 .. EndedBlocks' |-> ClaimOf(b, MintedTotal(b)')]
    BY DEF ClaimOf
  <2>2. QED
    BY <1>7, <1>8, <2>1 DEF RewardsSums
<1>10. OneCoinbaseEach' /\ CoinbasesFit'
  BY <1>3, <1>4, CoinbasesElsewhere
<1>11. RewardsObject(self)'
  BY DEF RewardsObject
<1>12. QED
  BY <1>9, <1>10, <1>11 DEF RewardsSound

LEMMA RewardsInputStep ==
  ASSUME IndInv, HistoryInv, TxoInv, TxoInv', command = "rewards",
         gCallback' = gCallback, RewardsSound, GenInputCalls \/ InputCalls
  PROVE  RewardsSound'
<1>1. /\ InputLeft /\ InputDone /\ pc = "inputs" /\ pc' = pc /\ tx.ins # <<>>
      /\ coinbases' = coinbases /\ loop = "block"
  BY DEF GenInputCalls, InputCalls, ParseGenInput, ParseInput, InputLeft, chainVars
<1>2. RewardsObject(self) /\ ~ self.fatal /\ RewardsGen
  BY <1>1 DEF RewardsSound, RewardsEnd
<1>3. /\ RewardsObject(self')
      /\ self'.hasGenInput <=> self.hasGenInput \/ upTXHash = gNullHash
      /\ self'.summary = self.summary /\ self'.fullDump = self.fullDump
      /\ self'.fatal = self.fatal /\ self'.currBlock = self.currBlock
      /\ self'.reward = self.reward /\ loop = "block" /\ loop' = "block"
  BY <1>2, RewardsInputs
<1>4. tx'.ins = Tail(tx.ins) /\ tx'.hash = tx.hash
      /\ tx.ins \in Seq(Outpoint \union {GenInput})
  BY <1>1, InputRead
<1>5. /\ Len(chain) \in DOMAIN chain /\ tx.hash = chain[Len(chain)].hash
      /\ IF tx.hash \in coinbases THEN upTXHash = gNullHash
         ELSE Head(tx.ins) \in Outpoint /\ upTXHash \in TxHash
  BY <1>1, MintedInputs DEF HistoryInv
<1>6. self'.hasGenInput <=> tx'.hash \in coinbases' /\ tx'.ins = <<>>
  <2>1. CASE tx.hash \in coinbases
    <3>1. chain[Len(chain)].ins = <<GenInput>>
      BY <1>5, <2>1 DEF HistoryInv, ChainInv, IsMinted
    <3>2. Len(tx.ins) <= 1
      <4>1. Len(<<GenInput>>) = 1
        OBVIOUS
      <4>2. QED
        BY <1>1, <3>1, <4>1 DEF HistoryInv, LastInv, Last
    <3>3. tx'.ins = <<>>
      BY <1>1, <1>4, <3>2, TailOfOne
    <3>4. QED
      BY <1>1, <1>3, <1>4, <1>5, <2>1, <3>3
  <2>2. CASE tx.hash \notin coinbases
    <3>1. upTXHash # gNullHash /\ ~ self.hasGenInput
      BY <1>1, <1>2, <1>5, <2>2 DEF RewardsGen, TxHash
    <3>2. QED
      BY <1>1, <1>3, <1>4, <2>2, <3>1
  <2>3. QED
    BY <2>1, <2>2
<1>7. RewardsGen'
  BY <1>1, <1>6 DEF RewardsGen
<1>8. MakesNone /\ ~ EndBlock /\ ~ WriteToClosedFile
  BY <1>1 DEF MakesNone, EndBlock, WriteToClosedFile
<1>9. RewardsEnd'
  BY <1>3, <1>8, RewardsEndLeft DEF RewardsSound
<1>10. QED
  BY <1>3, <1>7, <1>8, <1>9, RewardsLeft

LEMMA RewardsQuietStep ==
  ASSUME IndInv, HistoryInv, TxoInv, TxoInv', command = "rewards",
         gCallback' = gCallback, RewardsSound,
         \/ Headers \/ StartOutputsCalls \/ EndTXCalls \/ EndOfChain \/ Wrapup
         \/ WriteToClosedFile \/ Over \/ UNCHANGED allVars
  PROVE  RewardsSound'
<1>1. self' = self
  <2>1. CASE Headers
    BY <2>1, HeadersCalls DEF HistoryInv, LoopInv
  <2>2. CASE ~ Headers
    BY <2>2 DEF StartOutputsCalls, EndTXCalls, EndOfChain, Wrapup, WriteToClosedFile, Over,
       endInputs, endTX, wrapup
  <2>3. QED
    BY <2>1, <2>2
<1>2. RewardsObject(self) /\ RewardsGen /\ RewardsEnd
  BY DEF RewardsSound
<1>3. ~ WriteToClosedFile
  BY DEF WriteToClosedFile
<1>4. RewardsGen'
  BY <1>1, <1>2 DEF RewardsGen, Headers, StartOutputsCalls, StartOutputs, EndTXCalls, EndTX,
     EndOfChain, Wrapup, WriteToClosedFile, Over, vars, chainVars
<1>5. (loop' = "fatal" <=> loop = "fatal") /\ (loop' = "block" <=> loop = "block")
  BY <1>3 DEF Headers, StartOutputsCalls, EndTXCalls, EndOfChain, Wrapup, Over, done
<1>6. MakesNone /\ ~ EndBlock
  <2>1. MakesNone
    BY DEF MakesNone
  <2>2. EndBlock => loop = "block" /\ loop' = "between"
    BY DEF EndBlock, done
  <2>3. QED
    BY <1>5, <2>1, <2>2
<1>7. RewardsEnd'
  <2>1. CASE loop = "fatal"
    <3>1. UNCHANGED allVars
      BY <1>3, <2>1 DEF Headers, StartOutputsCalls, EndTXCalls, EndOfChain, Wrapup, Over
    <3>2. QED
      BY <1>2, <2>1, <3>1 DEF RewardsEnd, MintedIn, PaysNobody, Outputs, IsMinted, vars,
         chainVars
  <2>2. CASE loop # "fatal"
    BY <1>1, <1>2, <1>5, <1>6, <2>2, RewardsEndLeft
  <2>3. QED
    BY <2>1, <2>2
<1>8. QED
  BY <1>1, <1>2, <1>3, <1>4, <1>5, <1>6, <1>7, RewardsLeft

(* What endOutput makes of the object. *)
LEMMA RewardsOutputs ==
  ASSUME command = "rewards", RewardsObject(self), ~ self.fatal, OutputCalls,
         NEW v \in Nat, NEW t, NEW o, o = <<tx.hash, tx'.outs>>,
         v = txo[o].value, t = txo[o].type
  PROVE  /\ RewardsObject(self') /\ self'.hasGenInput = self.hasGenInput
         /\ self'.summary = self.summary /\ self'.fullDump = self.fullDump
         /\ self'.currBlock = self.currBlock
         /\ \/ /\ ~ self.hasGenInput \/ t = -2
               /\ ~ self'.fatal /\ self'.reward = self.reward /\ loop' = "block"
            \/ /\ self.hasGenInput /\ t # -2 /\ t < 0 /\ v # 0
               /\ loop' = "fatal"
            \/ /\ self.hasGenInput /\ t # -2 /\ ~ (t < 0 /\ v # 0 /\ self.fullDump)
               /\ ~ self'.fatal /\ self'.reward = self.reward + v /\ loop' = "block"
<1> DEFINE d == IF self.fullDump
                THEN Append(self.details, [block |-> self.currBlock, value |-> v])
                ELSE self.details
           x == [self EXCEPT !.fatal = TRUE]
           y == [self EXCEPT !.reward = self.reward + v, !.details = d]
<1>1. /\ self' = Rewards!endOutput(self, v, t)
      /\ loop' = IF self'.fatal THEN "fatal" ELSE "block"
  BY DEF OutputCalls, endOutput, startOutput, Unless, isFatal
<1>2. self.reward + v \in Nat /\ self.fatal \in BOOLEAN
  BY DEF RewardsObject
<1> HIDE DEF d
<1>3. /\ RewardsObject(x) /\ x.hasGenInput = self.hasGenInput /\ x.summary = self.summary
      /\ x.fullDump = self.fullDump /\ x.currBlock = self.currBlock /\ x.fatal = TRUE
  BY DEF RewardsObject
<1>4. /\ RewardsObject(y) /\ y.hasGenInput = self.hasGenInput /\ y.summary = self.summary
      /\ y.fullDump = self.fullDump /\ y.currBlock = self.currBlock
      /\ y.fatal = self.fatal /\ y.reward = self.reward + v
  BY <1>2 DEF RewardsObject
<1>5. CASE ~ self.hasGenInput \/ t = -2
  <2>1. self' = self
    BY <1>1, <1>5 DEF Rewards!endOutput
  <2>2. QED
    BY <1>1, <1>5, <2>1
<1>6. CASE ~ (~ self.hasGenInput \/ t = -2) /\ t < 0 /\ v # 0 /\ self.fullDump
  <2>1. self' = x
    BY <1>1, <1>6 DEF Rewards!endOutput
  <2> HIDE DEF x
  <2>2. QED
    BY <1>1, <1>3, <1>6, <2>1
<1>7. CASE ~ (~ self.hasGenInput \/ t = -2) /\ ~ (t < 0 /\ v # 0 /\ self.fullDump)
  <2>1. self' = y
    BY <1>1, <1>7 DEF Rewards!endOutput, d
  <2> HIDE DEF y
  <2>2. QED
    BY <1>1, <1>4, <1>7, <2>1
<1>8. QED
  BY <1>5, <1>6, <1>7

LEMMA RewardsOutputStep ==
  ASSUME IndInv, HistoryInv, TxoInv, TxoInv', command = "rewards",
         gCallback' = gCallback, RewardsSound, OutputCalls
  PROVE  RewardsSound'
<1>1. PICK h, o : h = height /\ o = <<tx.hash, tx'.outs>>
  OBVIOUS
<1>2. PICK v, t : v = txo[o].value /\ t = txo[o].type
  OBVIOUS
<1>3. /\ h \in Nat /\ h > 0 /\ loop = "block" /\ pc = "outputs" /\ pc' = pc
      /\ tx'.hash = tx.hash
      /\ UNCHANGED <<chain, txo, height, nbOutputs>>
  BY <1>1, MadeAtOutput, NothingAhead
<1>4. /\ RewardsObject(self) /\ RewardsSums /\ RewardsGen /\ RewardsEnd
      /\ OneCoinbaseEach /\ CoinbasesFit /\ ~ self.fatal
  BY <1>3 DEF RewardsSound, RewardsEnd
<1>5. /\ o \in Outpoint /\ o \notin MintedMade(height)
      /\ \A b : b # height => MintedMade(b)' = MintedMade(b)
      /\ MintedMade(height)' = IF tx.hash \in coinbases /\ txo[o].type # -2
                               THEN MintedMade(height) \union {o} ELSE MintedMade(height)
  BY <1>1, <1>4, MintedAtOutput
<1>6. v \in Nat
  BY <1>2, <1>5 DEF TxoInv, ValueOf
<1>7. self.hasGenInput <=> tx.hash \in coinbases
  BY <1>3, <1>4 DEF RewardsGen
<1>8. /\ RewardsObject(self') /\ self'.hasGenInput = self.hasGenInput
      /\ self'.summary = self.summary /\ self'.fullDump = self.fullDump
      /\ self'.currBlock = self.currBlock
      /\ \/ /\ ~ self.hasGenInput \/ t = -2
            /\ ~ self'.fatal /\ self'.reward = self.reward /\ loop' = "block"
         \/ /\ self.hasGenInput /\ t # -2 /\ t < 0 /\ v # 0
            /\ loop' = "fatal"
         \/ /\ self.hasGenInput /\ t # -2 /\ ~ (t < 0 /\ v # 0 /\ self.fullDump)
            /\ ~ self'.fatal /\ self'.reward = self.reward + v /\ loop' = "block"
  BY <1>1, <1>2, <1>4, <1>6, RewardsOutputs
<1>9. MintedMade(height)' = MintedMade(h)' /\ MintedTotal(height)' = MintedTotal(h)'
  BY <1>1, <1>3 DEF MintedTotal, MintedMade, MadeOf
<1>10. Worths' = Worths
  BY <1>3 DEF Worths, ValueOf
<1>11. \A b : b # h => MintedTotal(b)' = MintedTotal(b)
  BY <1>1, <1>5, <1>10 DEF MintedTotal
<1>12. /\ MintedTotal(h) \in Nat
       /\ MintedMade(h)' = MintedMade(h) => MintedTotal(h)' = MintedTotal(h)
       /\ MintedMade(h)' = MintedMade(h) \union {o} => MintedTotal(h)' = MintedTotal(h) + v
  <2>1. IsSummable(Worths, MintedMade(h))
    BY MintedMadeType, PartIsSummable
  <2>2. Worths[o] = v
    BY <1>2, <1>5 DEF Worths, ValueOf
  <2>3. Total(Worths, MintedMade(h)) \in Nat
    BY <2>1, TotalType
  <2>4. Total(Worths, MintedMade(h) \union {o}) = Total(Worths, MintedMade(h)) + v
    BY <1>1, <1>5, <1>6, <2>1, <2>2, TotalAdd
  <2>5. QED
    BY <1>10, <2>3, <2>4 DEF MintedTotal
<1>13. self.currBlock = h - 1 /\ self.reward = MintedTotal(h)
  BY <1>1, <1>3, <1>4 DEF RewardsSums
<1>14. MintedMade(h)' = IF self.hasGenInput /\ t # -2
                        THEN MintedMade(h) \union {o} ELSE MintedMade(h)
  BY <1>1, <1>2, <1>5, <1>7, <1>9
<1>15. loop' = "block" => self'.reward = MintedTotal(h)'
  BY <1>8, <1>12, <1>13, <1>14
<1>16. self'.summary = [b \in 1 .. EndedBlocks' |-> ClaimOf(b, MintedTotal(b)')]
  <2>1. EndedBlocks = h - 1 /\ EndedBlocks' = h - 1
    BY <1>1, <1>3, <1>8 DEF EndedBlocks
  <2>2. \A b \in 1 .. h - 1 : MintedTotal(b)' = MintedTotal(b)
    <3>1. \A b \in 1 .. h - 1 : b # h
      BY <1>3
    <3>2. QED
      BY <1>11, <3>1
  <2>3. QED
    BY <1>4, <1>8, <2>1, <2>2 DEF RewardsSums
<1>17. RewardsSums'
  <2>1. [b \in 1 .. EndedBlocks |-> ClaimOf(b, MintedTotal(b))]' =
            [b \in 1 .. EndedBlocks' |-> ClaimOf(b, MintedTotal(b)')]
    BY DEF ClaimOf
  <2>2. QED
    BY <1>1, <1>3, <1>8, <1>9, <1>13, <1>15, <1>16, <2>1 DEF RewardsSums
<1>18. RewardsGen'
  <2>1. coinbases' = coinbases
    BY DEF OutputCalls, ParseOutput
  <2>2. QED
    BY <1>3, <1>7, <1>8, <2>1 DEF RewardsGen
<1>19. \A p : PaysNobody(p)' <=> PaysNobody(p)
  BY <1>3 DEF PaysNobody
<1>20. loop' = "fatal" => \E p \in MintedIn(h) : PaysNobody(p)
  <2> HAVE loop' = "fatal"
  <2>1. self.hasGenInput /\ t # -2 /\ t < 0 /\ v # 0
    BY <1>8
  <2>2. PaysNobody(o)
    BY <1>2, <1>6, <2>1 DEF PaysNobody
  <2>3. PICK n, k : n = Len(chain) /\ k = tx'.outs
    OBVIOUS
  <2>4. /\ n \in DOMAIN chain /\ tx.hash = chain[n].hash /\ chain[n].block = h
        /\ k \in 1 .. nbOutputs[chain[n].hash]
    <3>1. /\ n \in DOMAIN chain /\ tx.hash = chain[n].hash /\ chain[n].block = h
          /\ NbMade(n) = tx.outs /\ k = tx.outs + 1 /\ k \in 1 .. MaxOutputs
      BY <1>1, <2>3, MadeAtOutput
    <3>2. tx.outs < nbOutputs[tx.hash]
      BY DEF OutputCalls, ParseOutput
    <3>3. nbOutputs[tx.hash] \in Nat /\ tx.outs \in Nat
      <4>1. tx.hash \in TxHash
        BY <3>1, MadeType
      <4>2. QED
        BY <4>1 DEF IndInv, TypeOK
    <3>4. PICK m, j : m = nbOutputs[tx.hash] /\ j = tx.outs
      OBVIOUS
    <3>5. k \in 1 .. m
      BY <3>1, <3>2, <3>3, <3>4
    <3>6. QED
      BY <3>1, <3>4, <3>5
  <2>5. IsMinted(n)
    BY <1>7, <2>1, <2>4, CoinbaseIsMinted
  <2>6. o \in ToSet(Outputs(n))
    BY <1>1, <2>3, <2>4 DEF Outputs, ToSet
  <2>7. o \in MintedIn(h)
    BY <1>2, <2>1, <2>4, <2>5, <2>6 DEF MintedIn
  <2>8. QED
    BY <2>2, <2>7
<1>21. loop' # "fatal" /\ self'.fullDump =>
          \A b \in 1 .. h : \A p \in MintedMade(b)' : ~ PaysNobody(p)
  <2> SUFFICES ASSUME loop' # "fatal", self'.fullDump,
                      NEW b \in 1 .. h, NEW p \in MintedMade(b)'
               PROVE  ~ PaysNobody(p)
    OBVIOUS
  <2>1. CASE p \in MintedMade(b)
    BY <1>1, <1>3, <1>4, <1>8, <2>1 DEF RewardsEnd
  <2>2. CASE p \notin MintedMade(b)
    <3>1. b = h
      BY <1>1, <1>5, <2>2
    <3>2. self.hasGenInput /\ t # -2 /\ p = o
      BY <1>14, <2>2, <3>1
    <3>3. ~ (t < 0 /\ v # 0)
      BY <1>8, <3>2
    <3>4. QED
      BY <1>2, <1>6, <3>2, <3>3 DEF PaysNobody
  <2>3. QED
    BY <2>1, <2>2
<1>22. RewardsEnd'
  <2>1. loop' # "fatal" => ~ self'.fatal
    BY <1>8
  <2>2. MintedIn(height)' = MintedIn(h)
    BY <1>1, <1>3 DEF MintedIn, Outputs, IsMinted
  <2>3. QED
    BY <1>1, <1>3, <1>19, <1>20, <1>21, <2>1, <2>2 DEF RewardsEnd
<1>23. OneCoinbaseEach' /\ CoinbasesFit'
  BY <1>3, <1>4, CoinbasesElsewhere
<1>24. RewardsObject(self)'
  BY <1>8 DEF RewardsObject
<1>25. QED
  BY <1>17, <1>18, <1>22, <1>23, <1>24 DEF RewardsSound

(* A block that has ended claims what fits into a uint64_t. *)
LEMMA ClaimFits ==
  ASSUME IndInv, HistoryInv, TxoInv, OneCoinbaseEach, CoinbasesFit, NEW b,
         pc = "tx"
  PROVE  MintedTotal(b) \in Nat /\ MintedTotal(b) < Word
<1>1. MintedMade(b) \in SUBSET Outpoint /\ IsSummable(Worths, MintedMade(b))
  BY MintedMadeType, PartIsSummable
<1>2. MintedTotal(b) \in Nat
  BY <1>1, TotalType DEF MintedTotal
<1>3. CASE MintedMade(b) = {}
  BY <1>3, TotalOfNone, WordAssumption DEF MintedTotal
<1>4. CASE MintedMade(b) # {}
  <2>1. PICK p : IsMintedMade(p, b)
    BY <1>4, MintedMadeIs
  <2>2. PICK i \in DOMAIN chain : chain[i].block = b /\ IsMinted(i)
    BY <2>1 DEF IsMintedMade
  <2>3. ASSUME NEW o \in MintedMade(b) PROVE o \in AllOf(i)
    <3>1. IsMintedMade(o, b)
      BY <2>3, MintedMadeIs
    <3>2. PICK j \in DOMAIN chain : \E k \in 1 .. NbMade(j) :
              chain[j].block = b /\ IsMinted(j) /\ o = <<chain[j].hash, k>>
      BY <3>1 DEF IsMintedMade
    <3>3. j = i
      <4>1. j \in Nat /\ i \in Nat /\ chain[i].block \in Nat
        BY MadeType DEF HistoryInv, ChainInv
      <4>2. ~ (i < j) /\ ~ (j < i)
        BY <2>2, <3>2, <4>1 DEF OneCoinbaseEach
      <4>3. QED
        BY <4>1, <4>2
    <3>4. PICK k \in 1 .. NbMade(i) : o = <<chain[i].hash, k>>
      BY <3>2, <3>3
    <3>5. QED
      BY <3>4 DEF NbMade, AllOf, SharesOf
  <2>4. AllOf(i) \in SUBSET Outpoint /\ MintedMade(b) \in SUBSET AllOf(i)
    BY <2>3, MintedMadeType
  <2>5. /\ Total(Worths, MintedMade(b)) <= Total(Worths, AllOf(i))
        /\ Total(Worths, AllOf(i)) \in Nat
    BY <2>4, PartIsSummable, TotalOfPart, TotalType
  <2>6. Total(Worths, AllOf(i)) < Word
    BY <2>2 DEF CoinbasesFit
  <2>7. QED
    BY <1>2, <2>5, <2>6, WordAssumption DEF MintedTotal
<1>5. QED
  BY <1>3, <1>4

(* What endBlock prints is the claim of the block. *)
LEMMA ClaimIsPrinted ==
  ASSUME NEW h \in Nat \ {0}, NEW total \in Nat, total < Word,
         self.currBlock = h - 1, self.reward = total
  PROVE  [block |-> self.currBlock, base |-> Rewards!getBaseReward(self.currBlock),
          fees |-> Rewards!feesEarned(self), total |-> self.reward] = ClaimOf(h, total)
<1>1. PICK k : k = (h - 1) \div HalvingInterval
  OBVIOUS
<1>2. k \in Nat
  BY <1>1, HalvingAssumption
<1>3. PICK base : base = BaseReward \div 2^k
  OBVIOUS
<1>4. Halved[k] = base
  BY <1>2, <1>3, HalvedIsShifted
<1>5. base \in Nat /\ base < Word
  <2>1. PICK d \in Nat \ {0} : d = 2^k
    BY <1>2, PowersOfTwo
  <2>2. BaseReward \div d \in Nat /\ BaseReward \div d <= BaseReward
    BY BaseRewardAssumption, WordAssumption
  <2>3. QED
    BY <1>3, <2>1, <2>2, BaseRewardAssumption, WordAssumption
<1>6. Rewards!getBaseReward(self.currBlock) = base
  BY <1>1, <1>3 DEF Rewards!getBaseReward
<1>7. Rewards!feesEarned(self) = (total - base) % Word
  BY <1>6 DEF Rewards!feesEarned
<1>8. (total - base) % Word = IF total >= base THEN total - base ELSE Word - (base - total)
  BY <1>5, WordAssumption
<1>9. QED
  BY <1>1, <1>4, <1>6, <1>7, <1>8 DEF ClaimOf

LEMMA RewardsEndBlockStep ==
  ASSUME IndInv, HistoryInv, TxoInv, TxoInv', command = "rewards",
         gCallback' = gCallback, RewardsSound, EndBlock
  PROVE  RewardsSound'
<1>1. PICK h, c : h = height /\ c = ClaimOf(h, MintedTotal(h))
  OBVIOUS
<1>2. /\ RewardsObject(self) /\ RewardsSums /\ RewardsGen /\ RewardsEnd
      /\ OneCoinbaseEach /\ CoinbasesFit
  BY DEF RewardsSound
<1>3. /\ loop = "block" /\ loop' = "between" /\ pc = "tx"
      /\ UNCHANGED <<chain, txo, height, nbOutputs, coinbases, pc, tx>>
      /\ self' = Rewards!endBlock(self)
  BY DEF EndBlock, endBlock, done, vars, chainVars
<1>4. h \in Nat \ {0} /\ h - 1 \in Nat
  BY <1>1, <1>3, NothingAhead DEF HistoryInv, LoopInv
<1>5. self.currBlock = h - 1 /\ self.reward = MintedTotal(h)
  BY <1>1, <1>2, <1>3 DEF RewardsSums
<1>6. self' = [self EXCEPT !.summary = Append(self.summary, c)]
  <2>1. MintedTotal(h) \in Nat /\ MintedTotal(h) < Word
    BY <1>2, <1>3, ClaimFits
  <2>2. c = [block |-> self.currBlock, base |-> Rewards!getBaseReward(self.currBlock),
             fees |-> Rewards!feesEarned(self), total |-> self.reward]
    BY <1>1, <1>4, <1>5, <2>1, ClaimIsPrinted
  <2>3. QED
    BY <1>3, <2>2 DEF Rewards!endBlock
<1>7. /\ RewardsObject(self') /\ self'.summary = Append(self.summary, c)
      /\ self'.hasGenInput = self.hasGenInput
      /\ self'.fatal = self.fatal /\ self'.fullDump = self.fullDump
  BY <1>2, <1>6 DEF RewardsObject
<1>8. EndedBlocks = h - 1 /\ EndedBlocks' = h
  BY <1>1, <1>3 DEF EndedBlocks
<1>9. MakesNone
  BY DEF MakesNone
<1>10. MintedSame
  BY <1>9, MintedKept DEF MintedSame
<1>11. \A b : MintedTotal(b)' = MintedTotal(b)
  BY <1>3, <1>10 DEF MintedSame, MintedTotal, Worths, ValueOf
<1>12. self'.summary = [b \in 1 .. h |-> ClaimOf(b, MintedTotal(b)')]
  <2> DEFINE F(b) == ClaimOf(b, MintedTotal(b))
  <2>1. self.summary = [b \in 1 .. h - 1 |-> F(b)] /\ c = F(h)
    BY <1>1, <1>2, <1>8 DEF RewardsSums
  <2>2. \A b : F(b) = ClaimOf(b, MintedTotal(b)')
    BY <1>11
  <2> HIDE DEF F
  <2>3. Append([b \in 1 .. h - 1 |-> F(b)], F(h)) = [b \in 1 .. h |-> F(b)]
    BY <1>4
  <2>4. QED
    BY <1>7, <2>1, <2>2, <2>3
<1>13. RewardsSums'
  <2>1. [b \in 1 .. EndedBlocks |-> ClaimOf(b, MintedTotal(b))]' =
            [b \in 1 .. EndedBlocks' |-> ClaimOf(b, MintedTotal(b)')]
    BY DEF ClaimOf
  <2>2. QED
    BY <1>3, <1>8, <1>12, <2>1 DEF RewardsSums
<1>14. RewardsGen'
  BY <1>2, <1>3, <1>7 DEF RewardsGen
<1>15. RewardsEnd'
  BY <1>2, <1>3, <1>7, <1>9, RewardsEndLeft
<1>16. OneCoinbaseEach' /\ CoinbasesFit'
  BY <1>2, <1>3, CoinbasesElsewhere
<1>17. RewardsObject(self)'
  BY <1>7 DEF RewardsObject
<1>18. QED
  BY <1>13, <1>14, <1>15, <1>16, <1>17 DEF RewardsSound

LEMMA InitRewardsTally == CmdInit => RewardsTally
<1> SUFFICES ASSUME CmdInit, command = "rewards" PROVE RewardsSound
  BY DEF RewardsTally
<1>1. /\ self = Rewards!init(gCallback.full) /\ loop = "headers" /\ height = 0
      /\ chain = <<>> /\ pc = "tx"
  BY DEF CmdInit, Init, initObject
<1>2. /\ RewardsObject(self) /\ ~ self.fatal /\ self.summary = <<>>
  BY <1>1 DEF RewardsObject, Rewards!init
<1>3. EndedBlocks = 0
  BY <1>1 DEF EndedBlocks
<1>4. [b \in 1 .. EndedBlocks |-> ClaimOf(b, MintedTotal(b))] = <<>>
  BY <1>3
<1>5. QED
  BY <1>1, <1>2, <1>4 DEF RewardsSound, RewardsSums, RewardsGen, RewardsEnd,
     OneCoinbaseEach, CoinbasesFit

LEMMA NextRewardsTally ==
  ASSUME IndInv, HistoryInv, HistoryInv', TxoInv, TxoInv', RewardsTally, [CmdNext]_allVars
  PROVE  RewardsTally'
<1>1. gCallback' = gCallback
  BY SameCommand
<1>2. CASE command # "rewards"
  BY <1>1, <1>2 DEF RewardsTally
<1>3. CASE command = "rewards"
  <2>1. RewardsSound
    BY <1>3 DEF RewardsTally
  <2>2. CASE Starts
    BY <1>1, <1>3, <2>1, <2>2, RewardsStartStep DEF RewardsTally
  <2>3. CASE GenInputCalls \/ InputCalls
    BY <1>1, <1>3, <2>1, <2>3, RewardsInputStep DEF RewardsTally
  <2>4. CASE OutputCalls
    BY <1>1, <1>3, <2>1, <2>4, RewardsOutputStep DEF RewardsTally
  <2>5. CASE EndBlock
    BY <1>1, <1>3, <2>1, <2>5, RewardsEndBlockStep DEF RewardsTally
  <2>6. CASE \/ Headers \/ StartOutputsCalls \/ EndTXCalls \/ EndOfChain \/ Wrapup
             \/ WriteToClosedFile \/ Over \/ UNCHANGED allVars
    BY <1>1, <1>3, <2>1, <2>6, RewardsQuietStep DEF RewardsTally
  <2>7. QED
    BY <2>2, <2>3, <2>4, <2>5, <2>6, StepCases DEF MakesNone
<1>4. QED
  BY <1>2, <1>3

(* It is the invariant that TLC checks. *)
LEMMA RewardsTallyIsInv ==
  ASSUME IndInv, HistoryInv, TxoInv
  PROVE  RewardsInv <=> RewardsTally
<1>1. ASSUME NEW b PROVE SumOver(MintedMade(b), ValueOf) = MintedTotal(b)
  BY MintedMadeType, SumIsTotal DEF MintedTotal
<1>2. ASSUME NEW i \in DOMAIN chain
      PROVE  SumOver(ToSet(Outputs(i)), ValueOf) = Total(Worths, AllOf(i))
  <2>1. ToSet(Outputs(i)) = AllOf(i)
    BY DEF ToSet, Outputs, AllOf, SharesOf
  <2>2. QED
    BY <1>2, <2>1, MintedMadeType, SumIsTotal
<1>3. ASSUME NEW b PROVE Claim(b) = ClaimOf(b, MintedTotal(b))
  BY <1>1 DEF Claim, ClaimOf
<1>4. CoinbasesAreBounded <=> OneCoinbaseEach /\ CoinbasesFit
  BY <1>2 DEF CoinbasesAreBounded, OneCoinbaseEach, CoinbasesFit
<1>5. [b \in 1 .. EndedBlocks |-> Claim(b)] =
          [b \in 1 .. EndedBlocks |-> ClaimOf(b, MintedTotal(b))]
  BY <1>3
<1>6. QED
  BY <1>1, <1>4, <1>5 DEF RewardsInv, RewardsTally, RewardsSound, RewardsLocals,
     RewardsSums, RewardsGen

LEMMA RewardsHold == CmdSpec => [](IndInv /\ HistoryInv /\ TxoInv /\ RewardsTally)
<1>1. CmdInit => IndInv /\ HistoryInv /\ TxoInv /\ StatementInv /\ RewardsTally
  BY InitIndInv, InitHistoryInv, InitStatementInv, InitRewardsTally DEF CmdInit
<1>2. IndInv /\ HistoryInv /\ TxoInv /\ StatementInv /\ RewardsTally /\ [CmdNext]_allVars
        => (IndInv /\ HistoryInv /\ TxoInv /\ StatementInv /\ RewardsTally)'
  BY NextHistoryInv, NextStatementInv, NextRewardsTally
<1>3. QED
  BY <1>1, <1>2, PTL DEF CmdSpec

(* Between transactions what was made is what there is. *)
LEMMA MintedInIsMade ==
  ASSUME pc = "tx", NEW b
  PROVE  MintedIn(b) = MintedMade(b)
<1>1. ASSUME NEW i \in DOMAIN chain PROVE ToSet(Outputs(i)) = MadeOf(i)
  BY DEF ToSet, Outputs, MadeOf, NbMade
<1>2. UNION {ToSet(Outputs(i)) : i \in {i \in DOMAIN chain : chain[i].block = b /\ IsMinted(i)}}
        = UNION {MadeOf(i) : i \in {i \in DOMAIN chain : chain[i].block = b /\ IsMinted(i)}}
  BY <1>1
<1>3. QED
  BY <1>2 DEF MintedIn, MintedMade

(* Whatever the heights at which the reward is halved, and whichever       *)
(* coinbase transactions are repeated, the lines of rewards are right: the *)
(* shift by the number of halvings is the base reward, nothing an earlier  *)
(* block claimed is left in the sum, and the unsigned fees of a block that *)
(* claims too little are as the arithmetic of a uint64_t makes them.  The  *)
(* full dump stops exactly at a minted output that pays nobody.            *)
THEOREM RewardsAreRight == CmdSpec => []RewardsAreMinted
<1>1. IndInv /\ HistoryInv /\ TxoInv /\ RewardsTally => RewardsAreMinted
  <2> SUFFICES ASSUME IndInv, HistoryInv, TxoInv, RewardsSound, command = "rewards"
               PROVE  RewardsAreMinted
    BY DEF RewardsTally, RewardsAreMinted, Runs
  <2>1. RewardsSums /\ RewardsEnd
    BY DEF RewardsSound
  <2>2. ASSUME pc = "tx", loop \in {"between", "wrapup", "over"}
        PROVE  /\ self.summary = [b \in 1 .. height |-> SummaryOf(b)]
               /\ self.fullDump =>
                    \A b \in 1 .. height : \A o \in MintedIn(b) : ~ PaysNobody(o)
    <3>1. EndedBlocks = height
      BY <2>2 DEF EndedBlocks
    <3>2. ASSUME NEW b PROVE SummaryOf(b) = ClaimOf(b, MintedTotal(b))
      <4>1. SumOver(MintedIn(b), LAMBDA o : txo[o].value) = SumOver(MintedIn(b), ValueOf)
        BY DEF ValueOf
      <4>2. SumOver(MintedIn(b), ValueOf) = MintedTotal(b)
        BY <2>2, MintedInIsMade, MintedMadeType, SumIsTotal DEF MintedTotal
      <4>3. QED
        BY <4>1, <4>2 DEF SummaryOf, ClaimOf
    <3>3. self.summary = [b \in 1 .. height |-> SummaryOf(b)]
      BY <2>1, <3>1, <3>2 DEF RewardsSums
    <3>4. QED
      BY <2>1, <2>2, <3>3, MintedInIsMade DEF RewardsEnd
  <2>3. loop = "fatal" => \E o \in MintedIn(height) : PaysNobody(o)
    BY <2>1 DEF RewardsEnd
  <2>4. QED
    BY <2>2, <2>3 DEF RewardsAreMinted, Runs
<1>2. QED
  BY <1>1, RewardsHold, PTL
=============================================================================
