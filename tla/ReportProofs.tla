---------------------------- MODULE ReportProofs ----------------------------
(***************************************************************************)
(* Proofs about the commands that report on transactions and outputs one   *)
(* by one: txotype, tx, txInputs and simpleStats.                          *)
(***************************************************************************)
EXTENDS SqlDumpProofs

USE MaxTxsAssumption, MaxInputsAssumption, MaxOutputsAssumption,
    MaxRepeatsAssumption
USE DEF gNullHash, NullCell, allVars, cmdVars, command

-----------------------------------------------------------------------------
(* The outputs made so far, as the steps change them.                      *)

Starts ==
  \/ \E scripts \in Scripts : StartBlock(scripts)
  \/ \E hash \in coinbases : StartBlockRepeated(hash)
  \/ \E ins \in {s \in SeqOf(coins, MaxInputs) : s # <<>>}, scripts \in Scripts :
        StartOther(ins, scripts)

MakesNone ==
  \/ Headers \/ GenInputCalls \/ InputCalls \/ StartOutputsCalls \/ EndTXCalls
  \/ EndBlock \/ EndOfChain \/ Wrapup \/ WriteToClosedFile \/ Over
  \/ UNCHANGED allVars

LEMMA StepCases ==
  ASSUME [CmdNext]_allVars
  PROVE  Starts \/ OutputCalls \/ MakesNone
BY DEF CmdNext, Starts, MakesNone

LEMMA SameCommand ==
  ASSUME [CmdNext]_allVars
  PROVE  gCallback' = gCallback
BY DEF CmdNext, Headers, StartBlock, StartBlockRepeated, StartOther,
   GenInputCalls, InputCalls, StartOutputsCalls, OutputCalls, EndTXCalls, EndBlock,
   EndOfChain, Wrapup, WriteToClosedFile, Over

LEMMA MadeType ==
  ASSUME IndInv, HistoryInv, NEW i \in DOMAIN chain
  PROVE  /\ chain[i].hash \in TxHash /\ chain[i].block \in Nat \ {0}
         /\ chain[i].ins \in Seq(Outpoint \union {GenInput})
         /\ NbMade(i) \in 0 .. MaxOutputs
<1>1. chain[i] \in Start
  BY DEF HistoryInv, ChainInv
<1>2. /\ nbOutputs \in [TxHash -> 0 .. MaxOutputs] /\ tx.outs \in 0 .. MaxOutputs
  BY DEF IndInv, TypeOK
<1>3. QED
  BY <1>1, <1>2 DEF Start, NbMade

LEMMA MadeAtStart ==
  ASSUME IndInv, HistoryInv, TxoInv, Starts,
         NEW hash \in TxHash, NEW ins \in Seq(Outpoint \union {GenInput}),
         IsStart(hash, ins), IsNew(hash, ins) \/ IsRepeated(hash, ins),
         NEW m, m = Len(chain) + 1
  PROVE  /\ \A i \in DOMAIN chain :
                /\ NbMade(i)' = NbMade(i)
                /\ \A k \in 1 .. MaxOutputs :
                        txo'[<<chain[i].hash, k>>] = txo[<<chain[i].hash, k>>]
         /\ NbMade(m)' = 0
<1>1. /\ Len(chain) \in Nat /\ DOMAIN chain = 1 .. Len(chain)
      /\ Len(chain') = Len(chain) + 1
      /\ \A i \in 1 .. Len(chain) : chain'[i] = chain[i]
  BY ChainAppended DEF HistoryInv
<1>2. pc = "tx" /\ pc' = "inputs" /\ tx'.outs = 0 /\ tx'.hash = hash
  BY DEF IsStart
<1>3. NbMade(m)' = 0
  BY <1>1, <1>2 DEF NbMade
<1>4. ASSUME NEW i \in DOMAIN chain
      PROVE  /\ chain[i].hash \in TxHash
             /\ hash = chain[i].hash => IsRepeated(hash, ins)
  <2>1. chain[i].hash \in TxHash
    BY MadeType
  <2>2. chain[i].hash \in Hashes
    BY DEF Hashes
  <2>3. hash # chain[i].hash \/ hash # NbHashes + 1
    BY <2>2, HashesAreCounted DEF HistoryInv, ChainInv
  <2>4. QED
    BY <2>1, <2>3 DEF IsNew
<1>5. ASSUME NEW i \in DOMAIN chain
      PROVE  NbMade(i)' = NbMade(i)
  <2>1. nbOutputs'[chain[i].hash] = nbOutputs[chain[i].hash]
    BY <1>4, <1>5 DEF IsStart, IsRepeated
  <2>2. QED
    BY <1>1, <1>2, <1>5, <2>1 DEF NbMade
<1>6. ASSUME NEW i \in DOMAIN chain, NEW k \in 1 .. MaxOutputs
      PROVE  txo'[<<chain[i].hash, k>>] = txo[<<chain[i].hash, k>>]
  <2>1. CASE hash = chain[i].hash
    BY <1>4, <1>6, <2>1 DEF IsRepeated
  <2>2. CASE hash # chain[i].hash
    <3>1. <<chain[i].hash, k>> \in Outpoint
      BY <1>4, <1>6 DEF Outpoint
    <3>2. \A o \in Outpoint : o[1] # hash => txo'[o] = txo[o]
      BY <1>2, TxoStart DEF HistoryInv, Starts
    <3>3. QED
      BY <2>2, <3>1, <3>2
  <2>3. QED
    BY <2>1, <2>2
<1>7. QED
  BY <1>3, <1>5, <1>6

LEMMA MadeAtOutput ==
  ASSUME IndInv, HistoryInv, OutputCalls, NEW n, n = Len(chain)
  PROVE  /\ n \in DOMAIN chain /\ tx.hash = chain[n].hash /\ chain[n].block = height
         /\ pc = "outputs" /\ pc' = pc
         /\ NbMade(n) = tx.outs /\ NbMade(n) + 1 \in 1 .. MaxOutputs
         /\ NbMade(n)' = NbMade(n) + 1 /\ tx'.outs = NbMade(n) + 1
         /\ tx'.hash = tx.hash /\ tx'.ins = tx.ins
         /\ \A i \in DOMAIN chain \ {n} : NbMade(i)' = NbMade(i)
         /\ UNCHANGED <<chain, txo, height, nbOutputs, gCallback>>
         /\ loop = "block" /\ height > 0 /\ nbTxs' = nbTxs /\ nbRepeats' = nbRepeats
<1>1. /\ pc = "outputs" /\ pc' = pc /\ tx' = [tx EXCEPT !.outs = tx.outs + 1]
      /\ tx.outs < nbOutputs[tx.hash]
      /\ UNCHANGED <<chain, txo, height, nbOutputs, gCallback, nbTxs, nbRepeats>>
      /\ loop = "block"
  BY DEF OutputCalls, ParseOutput
<1>2. /\ tx.hash = chain[n].hash /\ chain[n].block = height /\ Len(chain) = nbTxs
      /\ chain \in Seq(Start) /\ height > 0
  BY <1>1 DEF HistoryInv, LoopInv, ChainInv, LastInv, Parsing, Last
<1>3. tx \in Txs /\ nbTxs > 0 /\ tx.hash \in 1 .. NbHashes /\ nbTxs \in Nat
  BY <1>1 DEF IndInv, Shapes, LocalsAreSound, Parsing, TypeOK
<1>4. n \in DOMAIN chain
  BY <1>2, <1>3
<1>5. nbOutputs[tx.hash] \in 0 .. MaxOutputs /\ tx.outs \in 0 .. MaxOutputs
  <2>1. tx.hash \in TxHash
    BY <1>2, <1>4, MadeType
  <2>2. QED
    BY <1>3, <2>1 DEF IndInv, TypeOK
<1>6. tx'.outs = tx.outs + 1 /\ tx'.hash = tx.hash /\ tx'.ins = tx.ins
  BY <1>1, <1>3 DEF Txs
<1>7. NbMade(n) = tx.outs /\ NbMade(n)' = tx.outs + 1
  BY <1>1, <1>6 DEF NbMade
<1>8. \A i \in DOMAIN chain \ {n} : NbMade(i)' = NbMade(i)
  BY <1>1 DEF NbMade
<1>9. QED
  BY <1>1, <1>2, <1>4, <1>5, <1>6, <1>7, <1>8

LEMMA MadeElsewhere ==
  ASSUME IndInv, HistoryInv, MakesNone
  PROVE  /\ \A i \in DOMAIN chain : NbMade(i)' = NbMade(i)
         /\ UNCHANGED <<chain, txo, height, nbOutputs, gCallback, nbTxs, nbRepeats>>
<1>1. UNCHANGED <<chain, txo, height, nbOutputs, gCallback, nbTxs, nbRepeats>>
  BY DEF MakesNone, Headers, GenInputCalls, InputCalls, StartOutputsCalls, EndTXCalls,
     EndBlock, EndOfChain, Wrapup, WriteToClosedFile, Over, ParseGenInput, ParseInput,
     StartOutputs, EndTX, vars, chainVars
<1>2. tx \in Txs
  BY DEF IndInv, Shapes
<1>3. CASE pc' = "tx" <=> pc = "tx"
  <2>1. tx'.outs = tx.outs
    BY <1>2, <1>3 DEF MakesNone, Headers, GenInputCalls, InputCalls, StartOutputsCalls,
       EndTXCalls, EndBlock, EndOfChain, Wrapup, WriteToClosedFile, Over, ParseGenInput,
       ParseInput, StartOutputs, EndTX, InputLeft, InputDone, vars, Txs
  <2>2. QED
    BY <1>1, <1>3, <2>1 DEF NbMade
<1>4. CASE ~ (pc' = "tx" <=> pc = "tx")
  <2>1. EndTX
    BY <1>4 DEF MakesNone, Headers, GenInputCalls, InputCalls, StartOutputsCalls,
       EndTXCalls, EndBlock, EndOfChain, Wrapup, WriteToClosedFile, Over, ParseGenInput,
       ParseInput, StartOutputs, EndTX, InputLeft, vars
  <2>2. tx.outs = nbOutputs[tx.hash] /\ pc = "outputs" /\ pc' = "tx"
    BY <2>1 DEF EndTX
  <2>3. tx.hash = chain[Len(chain)].hash
    BY <2>2 DEF HistoryInv, LastInv, Parsing, Last
  <2>4. QED
    BY <1>1, <2>2, <2>3 DEF NbMade
<1>5. QED
  BY <1>1, <1>3, <1>4

-----------------------------------------------------------------------------
(* txotype.                                                                *)

(* Steps that make no output. *)
LEMMA PlacesKept ==
  ASSUME IndInv, IndInv', HistoryInv, HistoryInv', TxoInv, Starts \/ MakesNone
  PROVE  Places' = Places /\ \A p \in Places : RowAt(p)' = RowAt(p)
<1>1. CASE Starts
  <2>1. PICK hash \in TxHash, ins \in Seq(Outpoint \union {GenInput}) :
            IsStart(hash, ins) /\ (IsNew(hash, ins) \/ IsRepeated(hash, ins))
    BY <1>1, StartCases DEF HistoryInv, Starts
  <2>2. PICK n, m : n = Len(chain) /\ m = n + 1
    OBVIOUS
  <2>3. /\ n \in Nat /\ DOMAIN chain = 1 .. n /\ DOMAIN chain' = 1 .. m
        /\ \A i \in 1 .. n : chain'[i] = chain[i]
    BY <2>1, <2>2, ChainAppended DEF HistoryInv
  <2>4. /\ \A i \in 1 .. n :
              /\ NbMade(i)' = NbMade(i)
              /\ \A k \in 1 .. MaxOutputs :
                      txo'[<<chain[i].hash, k>>] = txo[<<chain[i].hash, k>>]
        /\ NbMade(m)' = 0
    BY <1>1, <2>1, <2>2, <2>3, MadeAtStart
  <2>5. Places' = Places
    <3>1. ASSUME NEW i \in 1 .. m, NEW k \in 1 .. MaxOutputs
          PROVE  k <= NbMade(i)' <=> i \in 1 .. n /\ k <= NbMade(i)
      BY <2>2, <2>3, <2>4
    <3>2. QED
      BY <2>2, <2>3, <3>1 DEF Places
  <2>6. ASSUME NEW p \in Places PROVE RowAt(p)' = RowAt(p)
    <3>1. PICK i \in 1 .. n, k \in 1 .. MaxOutputs : i = p[1] /\ k = p[2]
      BY <2>3, <2>6 DEF Places
    <3>2. chain'[i] = chain[i] /\ txo'[<<chain[i].hash, k>>] = txo[<<chain[i].hash, k>>]
      BY <2>3, <2>4
    <3>3. QED
      BY <3>1, <3>2 DEF RowAt, OutputAt
  <2>7. QED
    BY <2>5, <2>6
<1>2. CASE MakesNone
  <2>1. /\ \A i \in DOMAIN chain : NbMade(i)' = NbMade(i)
        /\ UNCHANGED <<chain, txo>>
    BY <1>2, MadeElsewhere
  <2>2. Places' = Places
    BY <2>1 DEF Places
  <2>3. \A p \in Places : RowAt(p)' = RowAt(p)
    BY <2>1 DEF RowAt, OutputAt
  <2>4. QED
    BY <2>2, <2>3
<1>3. QED
  BY <1>1, <1>2

LEMMA ShownKept ==
  ASSUME Places' = Places, \A p \in Places : RowAt(p)' = RowAt(p)
  PROVE  /\ Shown' = Shown /\ \A p : Rank(p)' = Rank(p)
         /\ {RowAt(p).type : p \in Places}' = {RowAt(p).type : p \in Places}
         /\ {RowAt(p) : p \in Places}' = {RowAt(p) : p \in Places}
<1>1. Shown' = Shown
  BY DEF Shown, IsShown
<1>2. \A p : Rank(p)' = Rank(p)
  BY <1>1 DEF Rank
<1>3. QED
  BY <1>1, <1>2

LEMMA PlacesAreFinite ==
  ASSUME HistoryInv
  PROVE  /\ IsFiniteSet(Shown) /\ Cardinality(Shown) \in Nat
         /\ \A S \in SUBSET Shown : IsFiniteSet(S)
<1>1. DOMAIN chain = 1 .. Len(chain) /\ Len(chain) \in Nat
  BY DEF HistoryInv, ChainInv
<1>2. IsFiniteSet(DOMAIN chain) /\ IsFiniteSet(1 .. MaxOutputs)
  BY <1>1, FS_Interval
<1>3. IsFiniteSet((DOMAIN chain) \X (1 .. MaxOutputs))
  BY <1>2, FS_Product
<1>4. IsFiniteSet(Shown)
  BY <1>3, FS_Subset DEF Shown, Places
<1>5. QED
  BY <1>4, FS_Subset, FS_CardinalityType

(* An output is made: its place comes after all others. *)
LEMMA ShownGrown ==
  ASSUME IndInv, HistoryInv, OutputCalls,
         NEW n, n = Len(chain), NEW k, k = NbMade(n) + 1, NEW P, P = <<n, k>>
  PROVE  /\ Places' = Places \union {P} /\ \A p : RowAt(p)' = RowAt(p)
         /\ IsShown(P)' <=> \/ RowAt(P).type \notin 0 .. 3
                            \/ RowAt(P).type \notin {RowAt(p).type : p \in Places}
         /\ P \notin Shown /\ Shown' = Shown \union (IF IsShown(P)' THEN {P} ELSE {})
         /\ \A p \in Shown : Rank(p)' = Rank(p)
         /\ IsShown(P)' => Rank(P)' = Cardinality(Shown) + 1
<1>1. /\ n \in DOMAIN chain /\ k \in 1 .. MaxOutputs /\ NbMade(n)' = k
      /\ NbMade(n) + 1 = k
      /\ \A i \in DOMAIN chain \ {n} : NbMade(i)' = NbMade(i)
      /\ UNCHANGED <<chain, txo>>
  BY MadeAtOutput
<1>2. /\ DOMAIN chain = 1 .. n /\ n \in Nat
      /\ \A i \in DOMAIN chain : NbMade(i) \in 0 .. MaxOutputs
  BY MadeType DEF HistoryInv, ChainInv
<1>3. \A p : RowAt(p)' = RowAt(p)
  BY <1>1 DEF RowAt, OutputAt
<1>4. Places' = Places \union {P}
  <2>1. ASSUME NEW i \in 1 .. n, NEW j \in 1 .. MaxOutputs
        PROVE  j <= NbMade(i)' <=> j <= NbMade(i) \/ <<i, j>> = P
    BY <1>1, <1>2
  <2>2. QED
    BY <1>1, <1>2, <2>1 DEF Places
<1>5. \A q \in Places : Precedes(q, P) /\ ~ Precedes(P, q) /\ q # P
  <2> TAKE q \in Places
  <2>1. PICK i \in 1 .. n, j \in 1 .. MaxOutputs : q = <<i, j>> /\ j <= NbMade(i)
    BY <1>2 DEF Places
  <2>2. i < n \/ (i = n /\ j < k)
    BY <1>1, <1>2, <2>1
  <2>3. QED
    BY <1>1, <1>2, <2>1, <2>2 DEF Precedes
<1>6. ~ Precedes(P, P)
  BY <1>1, <1>2 DEF Precedes
<1>7. IsShown(P)' <=> \/ RowAt(P).type \notin 0 .. 3
                      \/ RowAt(P).type \notin {RowAt(p).type : p \in Places}
  BY <1>3, <1>4, <1>5, <1>6 DEF IsShown
<1>8. \A p \in Places : IsShown(p)' <=> IsShown(p)
  BY <1>3, <1>4, <1>5 DEF IsShown
<1>9. Shown' = Shown \union (IF IsShown(P)' THEN {P} ELSE {}) /\ P \notin Shown
  BY <1>4, <1>5, <1>8 DEF Shown
<1>10. ASSUME NEW p \in Shown PROVE Rank(p)' = Rank(p)
  <2>1. {q \in Shown : ~ Precedes(p, q)}' = {q \in Shown : ~ Precedes(p, q)}
    <3>1. Precedes(p, P)
      BY <1>5, <1>10 DEF Shown
    <3>2. QED
      BY <1>9, <3>1
  <2>2. QED
    BY <2>1 DEF Rank
<1>11. ASSUME IsShown(P)' PROVE Rank(P)' = Cardinality(Shown) + 1
  <2>1. {q \in Shown : ~ Precedes(P, q)}' = Shown \union {P}
    <3>1. Shown' = Shown \union {P} /\ Shown \subseteq Places
      BY <1>9, <1>11 DEF Shown
    <3>2. QED
      BY <1>5, <1>6, <3>1
  <2>2. IsFiniteSet(Shown)
    BY PlacesAreFinite
  <2>3. Cardinality(Shown \union {P}) = Cardinality(Shown) + 1
    BY <1>9, <2>2, FS_AddElement
  <2>4. QED
    BY <2>1, <2>3 DEF Rank
<1>12. QED
  BY <1>3, <1>4, <1>7, <1>9, <1>10, <1>11

LEMMA RankType ==
  ASSUME HistoryInv, NEW p \in Shown
  PROVE  Rank(p) \in 1 .. Cardinality(Shown)
<1> DEFINE S == {q \in Shown : ~ Precedes(p, q)}
<1>1. p \in (DOMAIN chain) \X (1 .. MaxOutputs) /\ DOMAIN chain = 1 .. Len(chain)
      /\ Len(chain) \in Nat
  BY DEF Shown, Places, HistoryInv, ChainInv
<1>2. ~ Precedes(p, p)
  BY <1>1 DEF Precedes
<1>3. S \subseteq Shown /\ p \in S
  BY <1>2
<1>4. IsFiniteSet(Shown) /\ IsFiniteSet(S)
  BY <1>3, PlacesAreFinite
<1>5. Cardinality(S) \in Nat /\ Cardinality(S) <= Cardinality(Shown)
      /\ Cardinality(Shown) \in Nat
  BY <1>3, <1>4, FS_Subset, FS_CardinalityType
<1>6. Cardinality(S) # 0
  BY <1>3, <1>4, FS_EmptySet
<1>7. QED
  BY <1>5, <1>6 DEF Rank

TypesObject(x) ==
  x = [seen |-> x.seen, currBlock |-> x.currBlock, printed |-> x.printed]

(* Calls that show nothing. *)
LEMMA TypesSame ==
  ASSUME IndInv, IndInv', HistoryInv, HistoryInv', TxoInv, TypesInv,
         command = "txotype", Starts \/ MakesNone
  PROVE  TypesInv'
<1>1. PICK h : h = height'
  OBVIOUS
<1>2. TypesObject(self) /\ (height > 0 => self.currBlock = height)
  BY DEF TypesInv, TypesObject
<1>3. /\ TypesObject(self') /\ (height' > 0 => self'.currBlock = height')
      /\ self'.seen = self.seen /\ self'.printed = self.printed
  <2>1. CASE Headers
    <3>1. self' = self /\ height' = height
      BY <2>1, HeadersCalls DEF Headers, HistoryInv, LoopInv
    <3>2. QED
      BY <1>2, <3>1 DEF TypesObject
  <2>2. CASE \/ \E scripts \in Scripts : StartBlock(scripts)
             \/ \E hash \in coinbases : StartBlockRepeated(hash)
    <3>1. self' = [self EXCEPT !.currBlock = height + 1] /\ height' = height + 1
      BY <2>2 DEF StartBlock, StartBlockRepeated, CallStartTX, startInputs, startTX,
         startBlock, TxoTypes!startBlock
    <3>2. QED
      BY <1>2, <3>1 DEF TypesObject
  <2>3. CASE \E ins \in {s \in SeqOf(coins, MaxInputs) : s # <<>>}, scripts \in Scripts :
                StartOther(ins, scripts)
    <3>1. self' = self /\ height' = height
      BY <2>3 DEF StartOther, CallStartTX, startInputs, startTX
    <3>2. QED
      BY <1>2, <3>1 DEF TypesObject
  <2>4. CASE MakesNone /\ ~ Headers
    <3>1. self' = self /\ height' = height
      BY <2>4 DEF MakesNone, GenInputCalls, InputCalls, StartOutputsCalls, EndTXCalls,
         EndBlock, EndOfChain, Wrapup, WriteToClosedFile, Over, startInput, edgeCall,
         endInputs, endTX, endBlock, wrapup
    <3>2. QED
      BY <1>2, <3>1 DEF TypesObject
  <2>5. QED
    BY <2>1, <2>2, <2>3, <2>4 DEF Starts
<1>4. Places' = Places /\ \A p \in Places : RowAt(p)' = RowAt(p)
  BY PlacesKept
<1>5. /\ Shown' = Shown /\ \A p : Rank(p)' = Rank(p)
      /\ {RowAt(p).type : p \in Places}' = {RowAt(p).type : p \in Places}
      /\ {RowAt(p) : p \in Places}' = {RowAt(p) : p \in Places}
  BY <1>4, ShownKept
<1>6. \A p \in Shown' : self'.printed[Rank(p)'] = RowAt(p)'
  <2> SUFFICES ASSUME NEW p \in Shown'
               PROVE  self'.printed[Rank(p)'] = RowAt(p)'
    OBVIOUS
  <2>1. p \in Shown /\ p \in Places
    BY <1>5 DEF Shown
  <2>2. self.printed[Rank(p)] = RowAt(p)
    BY <2>1 DEF TypesInv
  <2>3. QED
    BY <1>3, <1>4, <1>5, <2>1, <2>2
<1>7. QED
  BY <1>3, <1>5, <1>6 DEF TypesInv, TypesObject

LEMMA SeqsGrow ==
  ASSUME NEW S, NEW T, S \subseteq T, NEW s \in Seq(S)
  PROVE  s \in Seq(T)
OBVIOUS

(* An output is made: it is printed unless one of its type was, when that  *)
(* is a common one.                                                        *)
LEMMA TypesOutputStep ==
  ASSUME IndInv, IndInv', HistoryInv, HistoryInv', TypesInv, command = "txotype", OutputCalls
  PROVE  TypesInv'
<1>0. PICK n, k, P, o : n = Len(chain) /\ k = NbMade(n) + 1 /\ P = <<n, k>>
                        /\ o = <<tx.hash, tx'.outs>>
  OBVIOUS
<1>1. /\ n \in DOMAIN chain /\ tx.hash = chain[n].hash /\ chain[n].block = height
      /\ tx'.outs = k
      /\ UNCHANGED <<height, gCallback>> /\ height > 0
  BY <1>0, MadeAtOutput
<1>2. RowAt(P) = [type |-> txo[o].type, block |-> self.currBlock, output |-> o]
  BY <1>0, <1>1 DEF RowAt, OutputAt, TypesInv
<1>3. self' = TxoTypes!endOutput(self, txo[o].type, o)
  <2>1. self' = endOutput(startOutput(self), <<tx.hash, tx'.outs>>)
    BY DEF OutputCalls
  <2>2. QED
    BY <1>0, <2>1 DEF startOutput, endOutput
<1>4. PICK t : t = txo[o].type
  OBVIOUS
<1> DEFINE shows == t \notin 0 .. 3 \/ t \notin self.seen
<1>5. /\ TypesObject(self') /\ self'.currBlock = self.currBlock
      /\ self'.seen = IF t \in 0 .. 3 THEN self.seen \union {t} ELSE self.seen
      /\ self'.printed = IF shows THEN Append(self.printed, RowAt(P)) ELSE self.printed
  <2>1. TypesObject(self)
    BY DEF TypesInv, TypesObject
  <2>2. QED
    BY <1>2, <1>3, <1>4, <2>1 DEF TypesObject, TxoTypes!endOutput, TxoTypes!IsCommon
<1>6. /\ Places' = Places \union {P} /\ \A p : RowAt(p)' = RowAt(p)
      /\ IsShown(P)' <=> \/ RowAt(P).type \notin 0 .. 3
                         \/ RowAt(P).type \notin {RowAt(p).type : p \in Places}
      /\ P \notin Shown /\ Shown' = Shown \union (IF IsShown(P)' THEN {P} ELSE {})
      /\ \A p \in Shown : Rank(p)' = Rank(p)
      /\ IsShown(P)' => Rank(P)' = Cardinality(Shown) + 1
  BY <1>0, ShownGrown
<1>7. RowAt(P).type = t
  BY <1>2, <1>4
<1>8. IsShown(P)' <=> shows
  BY <1>6, <1>7 DEF TypesInv
<1>9. {RowAt(p).type : p \in Places}' = {RowAt(p).type : p \in Places} \union {t}
  BY <1>6, <1>7
<1>10. self'.seen = {RowAt(p).type : p \in Places}' \intersect (0 .. 3)
  BY <1>5, <1>9 DEF TypesInv
<1>11. {RowAt(p) : p \in Places}' = {RowAt(p) : p \in Places} \union {RowAt(P)}
  BY <1>6
<1> HIDE DEF shows
<1>12. PICK S, T : S = {RowAt(p) : p \in Places} /\ T = {RowAt(p) : p \in Places}'
  OBVIOUS
<1>13. self.printed \in Seq(S) /\ S \subseteq T /\ RowAt(P) \in T
  BY <1>11, <1>12 DEF TypesInv
<1>14. self.printed \in Seq(T)
  BY <1>13, SeqsGrow
<1>15. /\ self'.printed \in Seq(T)
       /\ Len(self'.printed) = Len(self.printed) + (IF shows THEN 1 ELSE 0)
       /\ \A j \in 1 .. Len(self.printed) : self'.printed[j] = self.printed[j]
       /\ shows => self'.printed[Len(self.printed) + 1] = RowAt(P)
  <2>1. PICK s, u, r : s = self.printed /\ u = self'.printed /\ r = RowAt(P)
    OBVIOUS
  <2>2. s \in Seq(T) /\ r \in T /\ u = IF shows THEN Append(s, r) ELSE s
    BY <1>5, <1>13, <1>14, <2>1
  <2>3. /\ u \in Seq(T) /\ Len(u) = Len(s) + (IF shows THEN 1 ELSE 0)
        /\ \A j \in 1 .. Len(s) : u[j] = s[j]
        /\ shows => u[Len(s) + 1] = r
    BY <2>2
  <2>4. QED
    BY <2>1, <2>3
<1>16. IsFiniteSet(Shown) /\ Cardinality(Shown) \in Nat /\ Len(self.printed) = Cardinality(Shown)
  BY PlacesAreFinite DEF TypesInv
<1>17. Len(self'.printed) = Cardinality(Shown)'
  <2>1. Cardinality(Shown \union {P}) = Cardinality(Shown) + 1
    BY <1>6, <1>16, FS_AddElement
  <2>2. Cardinality(Shown)' = Cardinality(Shown) + (IF shows THEN 1 ELSE 0)
    <3>1. CASE shows
      BY <1>6, <1>8, <2>1, <3>1
    <3>2. CASE ~ shows
      <4>1. Shown' = Shown
        BY <1>6, <1>8, <3>2
      <4>2. QED
        BY <1>16, <3>2, <4>1
    <3>3. QED
      BY <3>1, <3>2
  <2>3. QED
    BY <1>15, <1>16, <2>2
<1>18. ASSUME NEW p \in Shown' PROVE self'.printed[Rank(p)'] = RowAt(p)'
  <2>1. CASE p \in Shown
    <3>1. Rank(p) \in 1 .. Len(self.printed)
      BY <1>16, <2>1, RankType
    <3>2. self.printed[Rank(p)] = RowAt(p)
      BY <2>1 DEF TypesInv
    <3>3. QED
      BY <1>6, <1>15, <2>1, <3>1, <3>2
  <2>2. CASE p \notin Shown
    <3>1. p = P /\ shows /\ IsShown(P)'
      BY <1>6, <1>8, <1>18, <2>2
    <3>2. QED
      BY <1>6, <1>15, <1>16, <3>1
  <2>3. QED
    BY <2>1, <2>2
<1>19. self' = [seen |-> self'.seen, currBlock |-> self'.currBlock, printed |-> self'.printed]
  BY <1>5 DEF TypesObject
<1>20. height' > 0 => self'.currBlock = height'
  BY <1>1, <1>5 DEF TypesInv
<1>21. QED
  BY <1>10, <1>12, <1>15, <1>17, <1>18, <1>19, <1>20 DEF TypesInv

LEMMA InitTypesInv == CmdInit => TypesInv
<1> SUFFICES ASSUME CmdInit, command = "txotype" PROVE TypesInv
  BY DEF TypesInv
<1>1. self = [seen |-> {}, currBlock |-> 0, printed |-> <<>>] /\ chain = <<>> /\ height = 0
  BY DEF CmdInit, initObject, TxoTypes!init
<1>2. Places = {} /\ Shown = {}
  BY <1>1 DEF Places, Shown
<1>3. QED
  BY <1>1, <1>2, FS_EmptySet DEF TypesInv

LEMMA NextTypesInv ==
  ASSUME IndInv, IndInv', HistoryInv, HistoryInv', TxoInv, TypesInv, [CmdNext]_allVars
  PROVE  TypesInv'
<1>1. gCallback' = gCallback
  BY SameCommand
<1>2. CASE command # "txotype"
  BY <1>1, <1>2 DEF TypesInv
<1>3. CASE command = "txotype"
  BY <1>3, StepCases, TypesSame, TypesOutputStep
<1>4. QED
  BY <1>2, <1>3

-----------------------------------------------------------------------------
(* What was parsed of the inputs, as the steps change it.                  *)

ReadsNone ==
  \/ Headers \/ StartOutputsCalls \/ OutputCalls \/ EndTXCalls \/ EndBlock
  \/ EndOfChain \/ Wrapup \/ WriteToClosedFile \/ Over \/ UNCHANGED allVars

LEMMA ParsedAtInput ==
  ASSUME IndInv, HistoryInv, GenInputCalls \/ InputCalls, NEW n, n = Len(chain)
  PROVE  /\ n \in DOMAIN chain /\ pc = "inputs" /\ pc' = pc
         /\ Parsed(n) \in Nat /\ Parsed(n)' = Parsed(n) + 1
         /\ \A i \in DOMAIN chain \ {n} : Parsed(i)' = Parsed(i)
         /\ tx'.hash = tx.hash /\ tx'.outs = tx.outs
         /\ UNCHANGED <<gCallback, chain, height, nbOutputs, nbRepeats>>
         /\ loop = "block" /\ height > 0
<1>1. /\ InputLeft /\ InputDone /\ pc = "inputs" /\ pc' = pc /\ tx.ins # <<>>
      /\ UNCHANGED <<gCallback, chain, height, nbOutputs, nbRepeats>> /\ loop = "block"
  BY DEF GenInputCalls, InputCalls, ParseGenInput, ParseInput, InputLeft, chainVars
<1>2. n \in DOMAIN chain /\ chain \in Seq(Start) /\ height > 0
  BY <1>1, MintedInputs DEF HistoryInv, ChainInv, LoopInv
<1>3. PICK l, t : l = Len(chain[n].ins) /\ t = Len(tx.ins)
  OBVIOUS
<1>4. /\ l \in Nat /\ t \in Nat \ {0} /\ Len(Tail(tx.ins)) = t - 1 /\ t <= l
  <2>1. chain[n] \in Start
    BY <1>2
  <2>2. chain[n].ins \in Seq(Outpoint \union {GenInput})
    BY <2>1 DEF Start
  <2>3. tx.ins \in Seq(Outpoint \union {GenInput})
    BY DEF IndInv, TypeOK
  <2>4. l \in Nat /\ t \in Nat \ {0} /\ Len(Tail(tx.ins)) = t - 1
    BY <1>1, <1>3, <2>2, <2>3
  <2>5. t <= l
    BY <1>1, <1>3 DEF HistoryInv, LastInv, Last
  <2>6. QED
    BY <2>4, <2>5
<1>5. n \notin Read /\ n \notin Read' /\ \A i \in DOMAIN chain \ {n} : i \in Read /\ i \in Read'
  BY <1>1, <1>2 DEF Read
<1>6. tx'.ins = Tail(tx.ins) /\ tx'.hash = tx.hash /\ tx'.outs = tx.outs
  BY <1>1, InputRead
<1>7. Parsed(n) = l - t /\ Parsed(n)' = l - (t - 1)
  <2>1. Len(tx'.ins) = t - 1
    BY <1>4, <1>6
  <2>2. QED
    BY <1>1, <1>3, <1>5, <2>1 DEF Parsed, Inputs_
<1>8. \A i \in DOMAIN chain \ {n} : Parsed(i)' = Parsed(i)
  BY <1>1, <1>5 DEF Parsed, Inputs_
<1>9. PICK p, q : p = Parsed(n) /\ q = Parsed(n)'
  OBVIOUS
<1>10. p = l - t /\ q = l - (t - 1)
  BY <1>7, <1>9
<1>11. p \in Nat /\ q = p + 1
  BY ONLY <1>4, <1>10
<1>12. QED
  BY <1>1, <1>2, <1>6, <1>8, <1>9, <1>11

LEMMA ParsedElsewhere ==
  ASSUME IndInv, HistoryInv, ReadsNone
  PROVE  \A i \in DOMAIN chain : Parsed(i)' = Parsed(i)
<1>1. CASE StartOutputsCalls
  <2>1. pc = "inputs" /\ tx.ins = <<>> /\ chain' = chain /\ pc' = "outputs"
    BY <1>1 DEF StartOutputsCalls, StartOutputs
  <2>2. ASSUME NEW i \in DOMAIN chain PROVE Parsed(i)' = Parsed(i)
    <3>1. i \in Read' /\ Len(tx.ins) = 0
      BY <2>1, <2>2 DEF Read
    <3>2. Len(Inputs_(i)) \in Int
      <4>1. chain[i].ins \in Seq(Outpoint \union {GenInput})
        BY <2>2, MadeType
      <4>2. QED
        BY <4>1 DEF Inputs_
    <3>3. QED
      BY <2>1, <3>1, <3>2 DEF Parsed, Inputs_
  <2>3. QED
    BY <2>2
<1>2. CASE ReadsNone /\ ~ StartOutputsCalls
  <2>1. chain' = chain
    BY <1>2 DEF ReadsNone, Headers, OutputCalls, EndTXCalls, EndBlock, EndOfChain, Wrapup,
       WriteToClosedFile, Over
  <2>2. \/ pc' = pc /\ (pc = "inputs" => tx' = tx)
        \/ pc # "inputs" /\ pc' # "inputs"
    BY <1>2 DEF ReadsNone, Headers, OutputCalls, EndTXCalls, EndBlock, EndOfChain, Wrapup,
       WriteToClosedFile, Over, ParseOutput, EndTX, vars
  <2>3. QED
    BY <2>1, <2>2 DEF Parsed, Read, Inputs_
<1>3. QED
  BY <1>1, <1>2

(* Between the steps that end a transaction pc tells the same of it. *)
LEMMA StillParsing ==
  ASSUME IndInv, HistoryInv, MakesNone \/ OutputCalls, ~ EndTXCalls
  PROVE  /\ pc' = "tx" <=> pc = "tx"
         /\ chain' = chain /\ tx'.hash = tx.hash
         /\ Parsing' <=> Parsing
<1>1. chain' = chain
  BY DEF MakesNone, Headers, GenInputCalls, InputCalls, StartOutputsCalls, OutputCalls,
     EndBlock, EndOfChain, Wrapup, WriteToClosedFile, Over
<1>2. tx \in Txs
  BY DEF IndInv, Shapes
<1>3. tx'.hash = tx.hash
  BY <1>2 DEF MakesNone, Headers, GenInputCalls, InputCalls, StartOutputsCalls,
     OutputCalls, EndBlock, EndOfChain, Wrapup, WriteToClosedFile, Over, ParseGenInput,
     ParseInput, StartOutputs, ParseOutput, InputLeft, InputDone, vars, Txs
<1>4. /\ pc' = "tx" <=> pc = "tx"
      /\ Parsing' <=> Parsing
  BY DEF MakesNone, Headers, GenInputCalls, InputCalls, StartOutputsCalls, OutputCalls,
     EndBlock, EndOfChain, Wrapup, WriteToClosedFile, Over, ParseGenInput,
     ParseInput, StartOutputs, ParseOutput, InputLeft, vars, Parsing
<1>5. QED
  BY <1>1, <1>3, <1>4

(* The cell of the hash of the transaction being parsed. *)
LEMMA CellIsBusy ==
  ASSUME IndInv, Parsing
  PROVE  tx.cell \in 1 .. MaxTxs /\ hashCell[tx.cell] = tx.hash
BY DEF IndInv, TypeOK, Parsing, KeysAreIntact, InUse, Shapes, Pools

-----------------------------------------------------------------------------
(* tx.                                                                     *)

Roots == ToSet(gCallback.roots)

LEMMA RootTypes ==
  ASSUME gCallback \in Sessions, command = "tx"
  PROVE  /\ gCallback.roots \in Seq(Nat \ {0})
         /\ Len(gCallback.roots) \in Nat \ {0}
         /\ IsFiniteSet(Roots) /\ Cardinality(Roots) = Len(gCallback.roots)
<1>1. PICK r : r = gCallback.roots
  OBVIOUS
<1>2. r \in Seq(Nat \ {0}) /\ r # <<>> /\ IsInjective(r)
  BY <1>1, SessionsAssumption
<1>3. Len(r) \in Nat \ {0} /\ DOMAIN r = 1 .. Len(r)
  BY <1>2
<1>4. IsFiniteSet(1 .. Len(r)) /\ Cardinality(1 .. Len(r)) = Len(r)
  BY <1>3, FS_Interval
<1>5. ExistsBijection(1 .. Len(r), Roots)
  <2>1. r \in [1 .. Len(r) -> Roots] /\ \A t \in Roots : \E i \in 1 .. Len(r) : r[i] = t
    BY <1>1, <1>2, <1>3 DEF Roots, ToSet
  <2>2. \A i, j \in DOMAIN r : r[i] = r[j] => i = j
    BY <1>2 DEF IsInjective
  <2>3. r \in Surjection(1 .. Len(r), Roots)
    BY <2>1 DEF Surjection
  <2>4. r \in Injection(1 .. Len(r), Roots)
    BY <2>1, <2>2 DEF Injection, IsInjective
  <2>5. QED
    BY <2>3, <2>4 DEF ExistsBijection, Bijection
<1>6. IsFiniteSet(Roots) /\ Cardinality(Roots) = Cardinality(1 .. Len(r))
  BY <1>4, <1>5, FS_Bijection, FS_CardinalityType
<1>7. QED
  BY <1>1, <1>2, <1>3, <1>4, <1>6

(* The table is searched for what the new hash spells. *)
LEMMA DumpHas ==
  ASSUME gCallback \in Sessions, command = "tx", NEW mem, NEW hash
  PROVE  DumpTX!Has(DumpTX!init(gCallback.roots).txMap, mem, hash) <=> hash \in Roots
<1>1. PICK r, t : r = gCallback.roots /\ t = DumpTX!init(gCallback.roots).txMap
  OBVIOUS
<1>2. r \in Seq(Nat \ {0}) /\ DOMAIN r = 1 .. Len(r)
  BY <1>1, RootTypes
<1>3. t = [i \in DOMAIN r |-> [place |-> r[i], key |-> - r[i], val |-> 1]]
  BY <1>1 DEF DumpTX!init, DumpTX!OwnKey
<1>4. \A i \in DOMAIN r : DumpTX!Spelt(mem, t[i].key) = r[i] /\ t[i].place = r[i]
  <2> TAKE i \in DOMAIN r
  <2>1. r[i] \in Nat \ {0}
    BY <1>2
  <2>2. - r[i] < 0 /\ - (- r[i]) = r[i]
    BY <2>1
  <2>3. QED
    BY <1>3, <2>2 DEF DumpTX!Spelt
<1>5. DumpTX!Hits(t, mem, hash) # {} <=> hash \in Roots
  <2>1. DOMAIN t = DOMAIN r
    BY <1>3
  <2>2. DumpTX!Hits(t, mem, hash) = {i \in DOMAIN r : r[i] = hash}
    BY <1>4, <2>1 DEF DumpTX!Hits
  <2>3. Roots = {r[i] : i \in DOMAIN r}
    BY <1>1 DEF Roots, ToSet
  <2>4. QED
    BY <2>2, <2>3
<1>6. QED
  BY <1>1, <1>5 DEF DumpTX!Has

LEMMA DumpedAreFinite ==
  ASSUME HistoryInv
  PROVE  /\ IsFiniteSet(Dumped) /\ Cardinality(Dumped) \in Nat
         /\ Dumped \subseteq 1 .. Len(chain) /\ Len(chain) \in Nat
         /\ \A i \in Dumped : Cardinality({j \in Dumped : j <= i}) \in 1 .. Cardinality(Dumped)
<1>1. /\ Len(chain) \in Nat /\ DOMAIN chain = 1 .. Len(chain)
      /\ Dumped \subseteq 1 .. Len(chain)
  BY DEF HistoryInv, ChainInv, Dumped, Wanted
<1>2. IsFiniteSet(Dumped) /\ Cardinality(Dumped) \in Nat
  <2>1. IsFiniteSet(1 .. Len(chain))
    BY <1>1, FS_Interval
  <2>2. QED
    BY <1>1, <2>1, FS_Subset, FS_CardinalityType
<1>3. ASSUME NEW i \in Dumped
      PROVE  Cardinality({j \in Dumped : j <= i}) \in 1 .. Cardinality(Dumped)
  <2> DEFINE S == {j \in Dumped : j <= i}
  <2>1. S \subseteq Dumped /\ i \in S
    BY <1>1
  <2>2. IsFiniteSet(S) /\ Cardinality(S) \in Nat /\ Cardinality(S) <= Cardinality(Dumped)
    BY <1>2, <2>1, FS_Subset, FS_CardinalityType
  <2>3. Cardinality(S) # 0
    BY <2>1, <2>2, FS_EmptySet
  <2>4. QED
    BY <1>2, <2>2, <2>3
<1>4. QED
  BY <1>1, <1>2, <1>3

(* Steps that print nothing. *)
LEMMA DumpRowsKept ==
  ASSUME DumpRows, Dumped' = Dumped,
         self'.dumped = self.dumped, self'.nbDumped = self.nbDumped,
         \A i \in Dumped : chain'[i] = chain[i]
                           /\ nbOutputs'[chain[i].hash] = nbOutputs[chain[i].hash]
  PROVE  DumpRows'
<1>1. ASSUME NEW i \in Dumped, NEW d, IsDumped(d, i) PROVE IsDumped(d, i)'
  <2>1. Outputs(i)' = Outputs(i)
    BY <1>1 DEF Outputs
  <2>2. QED
    BY <1>1, <2>1 DEF IsDumped, Inputs_
<1>2. ASSUME NEW i \in Dumped'
      PROVE  IsDumped(self.dumped[Cardinality({j \in Dumped : j <= i})], i)'
  <2>1. PICK k : k = Cardinality({j \in Dumped : j <= i})
    OBVIOUS
  <2>2. IsDumped(self.dumped[k], i)
    BY <1>2, <2>1 DEF DumpRows
  <2>3. IsDumped(self.dumped[k], i)'
    BY <1>1, <1>2, <2>2
  <2>4. Cardinality({j \in Dumped : j <= i})' = k
    BY <2>1
  <2>5. QED
    BY <2>3, <2>4
<1>3. QED
  BY <1>2 DEF DumpRows

(* A transaction starts, and maybe a block. *)
LEMMA DumpStartStep ==
  ASSUME IndInv, IndInv', HistoryInv, HistoryInv', TxoInv, DumpLocals, DumpRows, DumpEnd,
         command = "tx", Starts
  PROVE  DumpLocals' /\ DumpRows' /\ DumpEnd'
<1>1. PICK hash \in TxHash, ins \in Seq(Outpoint \union {GenInput}) :
          IsStart(hash, ins) /\ (IsNew(hash, ins) \/ IsRepeated(hash, ins))
  BY StartCases DEF HistoryInv, Starts
<1>2. PICK n, m : n = Len(chain) /\ m = n + 1
  OBVIOUS
<1>3. /\ n \in Nat /\ DOMAIN chain = 1 .. n /\ DOMAIN chain' = 1 .. m /\ Len(chain') = m
      /\ chain'[m].hash = hash /\ \A i \in 1 .. n : chain'[i] = chain[i]
  BY <1>1, <1>2, ChainAppended DEF HistoryInv
<1>4. \A i \in 1 .. n : NbMade(i)' = NbMade(i)
  BY <1>1, <1>2, <1>3, MadeAtStart
<1>5. /\ pc = "tx" /\ pc' = "inputs" /\ tx'.hash = hash /\ tx'.outs = 0
      /\ gCallback' = gCallback /\ loop \in {"between", "block"} /\ loop' = "block"
      /\ height' > 0
  BY <1>1 DEF IsStart, Starts, StartBlock, StartBlockRepeated, StartOther
<1>6. Wanted' = Wanted \union (IF hash \in Roots THEN {m} ELSE {})
  BY <1>2, <1>3, <1>5 DEF Wanted, Roots
<1>7. Dumped' = Dumped
  <2>1. Dumped = Wanted /\ Wanted \subseteq 1 .. n
    BY <1>3, <1>5 DEF Dumped, Wanted
  <2>2. Dumped' = {i \in Wanted' : i < m}
    BY <1>3, <1>5 DEF Dumped
  <2>3. \A i \in 1 .. n : i < m
    BY <1>2, <1>3
  <2>4. ~ (m < m)
    BY <1>2, <1>3
  <2>5. QED
    BY <1>6, <2>1, <2>2, <2>3, <2>4
<1>8. \A i \in Dumped : chain'[i] = chain[i]
                        /\ nbOutputs'[chain[i].hash] = nbOutputs[chain[i].hash]
  <2> TAKE i \in Dumped
  <2>1. i \in 1 .. n /\ i # m
    BY <1>2, <1>3 DEF Dumped, Wanted
  <2>2. NbMade(i) = nbOutputs[chain[i].hash]
    BY <1>5 DEF NbMade
  <2>3. NbMade(i)' = nbOutputs'[chain'[i].hash]
    BY <1>3, <2>1 DEF NbMade
  <2>4. QED
    BY <1>3, <1>4, <2>1, <2>2, <2>3
<1>9. PICK y : y = (IF height' = height THEN self ELSE [self EXCEPT !.currBlock = height'])
  OBVIOUS
<1>10. DumpObject(self) /\ (height > 0 => self.currBlock = height) /\ ~ self.isDone
  BY <1>5 DEF DumpLocals, DumpEnd
<1>11. self' = DumpTX!startTX(y, hashCell', tx'.cell)
  <2>1. CASE \/ \E scripts \in Scripts : StartBlock(scripts)
             \/ \E h \in coinbases : StartBlockRepeated(h)
    <3>1. height' = height + 1 /\ self' = CallStartTX(startBlock(self, height + 1))
      BY <2>1 DEF StartBlock, StartBlockRepeated
    <3>2. height \in Nat /\ height' # height
      BY <3>1 DEF HistoryInv, LoopInv
    <3>3. startBlock(self, height + 1) = y
      BY <1>9, <3>1, <3>2 DEF startBlock, DumpTX!startBlock
    <3>4. QED
      BY <3>1, <3>3 DEF CallStartTX, startInputs, startTX
  <2>2. CASE \E s \in {s \in SeqOf(coins, MaxInputs) : s # <<>>}, scripts \in Scripts :
                StartOther(s, scripts)
    BY <1>9, <2>2 DEF StartOther, CallStartTX, startInputs, startTX
  <2>3. QED
    BY <2>1, <2>2 DEF Starts
<1>12. DumpObject(y) /\ y.currBlock = height' /\ y.isDone = self.isDone
       /\ y.dumped = self.dumped /\ y.nbDumped = self.nbDumped /\ y.txMap = self.txMap
  <2>1. height' = height => self.currBlock = height'
    BY <1>5, <1>10
  <2>2. CASE height' = height
    BY <1>9, <1>10, <2>1, <2>2
  <2>3. CASE height' # height
    <3>1. height' \in Nat
      BY DEF HistoryInv, LoopInv
    <3>2. QED
      BY <1>9, <1>10, <2>3, <3>1 DEF DumpObject
  <2>4. QED
    BY <2>2, <2>3
<1>13. tx'.cell \in 1 .. MaxTxs /\ hashCell'[tx'.cell] = hash
  <2>1. Parsing'
    BY <1>5 DEF Parsing
  <2>2. (tx.cell \in 1 .. MaxTxs /\ hashCell[tx.cell] = tx.hash)'
    BY <2>1, CellIsBusy, PTL
  <2>3. QED
    BY <1>5, <2>2
<1>14. DumpTX!Spelt(hashCell', tx'.cell) = hash
  BY <1>13 DEF DumpTX!Spelt
<1>15. /\ DumpObject(self') /\ self'.currBlock = height' /\ self'.isDone = self.isDone
       /\ self'.dumped = self.dumped /\ self'.nbDumped = self.nbDumped
       /\ self'.currTX = hash /\ self'.nbInputs = 0 /\ self'.nbOutputs = 0
       /\ self'.dump <=> hash \in Roots
  <2>1. DumpTX!Has(y.txMap, hashCell', hash) <=> hash \in Roots
    <3>1. y.txMap = DumpTX!init(gCallback.roots).txMap
      BY <1>12 DEF DumpObject
    <3>2. QED
      BY <3>1, DumpHas DEF HistoryInv, LoopInv
  <2>2. PICK b : b = DumpTX!Has(y.txMap, hashCell', hash) /\ b \in BOOLEAN
    BY DEF DumpTX!Has
  <2>3. self' = [y EXCEPT !.nbInputs = 0, !.nbOutputs = 0, !.currTX = hash, !.dump = b]
    BY <1>11, <1>14, <2>2 DEF DumpTX!startTX
  <2>4. QED
    <3>1. gCallback' = gCallback /\ hash \in Nat
      BY <1>5 DEF TxHash
    <3>2. QED
      BY <1>12, <2>1, <2>2, <2>3, <3>1 DEF DumpObject
<1>16. DumpRows'
  BY <1>7, <1>8, <1>15, DumpRowsKept
<1>17. DumpEnd'
  BY <1>5, <1>10, <1>15 DEF DumpEnd
<1>18. Parsed(m)' = 0
  BY <1>1, <1>2, ParsedAtStart
<1>19. self'.dump <=> m \in Wanted'
  BY <1>2, <1>3, <1>6, <1>15 DEF Wanted
<1>20. DumpLocals'
  BY <1>3, <1>5, <1>15, <1>18, <1>19 DEF DumpLocals, DumpObject
<1>21. QED
  BY <1>16, <1>17, <1>20

(* What the steps within a transaction and between two keep. *)
LEMMA DumpWithin ==
  ASSUME IndInv, HistoryInv, DumpLocals, DumpRows, DumpEnd,
         MakesNone \/ OutputCalls, ~ EndTXCalls,
         DumpObject(self'), self'.dump = self.dump, self'.currTX = self.currTX,
         self'.currBlock = self.currBlock, self'.isDone = self.isDone,
         self'.dumped = self.dumped, self'.nbDumped = self.nbDumped,
         loop' \in {"headers", "between", "block"} => loop \in {"headers", "between", "block"},
         Parsing /\ self.dump =>
            \A n \in {Len(chain)} : self'.nbInputs = Parsed(n)' /\ self'.nbOutputs = tx'.outs
  PROVE  DumpLocals' /\ DumpRows' /\ DumpEnd'
<1>1. /\ pc' = "tx" <=> pc = "tx"
      /\ chain' = chain /\ tx'.hash = tx.hash
      /\ Parsing' <=> Parsing
  BY StillParsing
<1>2. UNCHANGED <<gCallback, height, nbOutputs>>
  BY MadeElsewhere, MadeAtOutput
<1>3. Wanted' = Wanted /\ Dumped' = Dumped
  BY <1>1, <1>2 DEF Wanted, Dumped
<1>4. DumpRows'
  BY <1>1, <1>2, <1>3, DumpRowsKept
<1>5. DumpEnd'
  BY <1>1, <1>2, <1>3 DEF DumpEnd
<1>6. PICK n : n = Len(chain)
  OBVIOUS
<1>7. Parsing' => /\ self'.currTX = tx'.hash
                  /\ self'.dump <=> n \in Wanted'
                  /\ self'.dump => self'.nbInputs = Parsed(n)' /\ self'.nbOutputs = tx'.outs
  BY <1>1, <1>3, <1>6 DEF DumpLocals
<1>8. Len(chain)' = n
  BY <1>1, <1>6
<1>9. height' > 0 => self'.currBlock = height'
  BY <1>2 DEF DumpLocals
<1>10. DumpLocals'
  <2>1. DumpObject(self)'
    BY <1>2 DEF DumpObject
  <2>2. QED
    BY <1>7, <1>8, <1>9, <2>1 DEF DumpLocals
<1>11. QED
  BY <1>4, <1>5, <1>10

LEMMA DumpInputStep ==
  ASSUME IndInv, HistoryInv, DumpLocals, DumpRows, DumpEnd, command = "tx",
         GenInputCalls \/ InputCalls
  PROVE  DumpLocals' /\ DumpRows' /\ DumpEnd'
<1>1. PICK n, x : n = Len(chain) /\ x = startInput(self)
  OBVIOUS
<1>2. /\ n \in DOMAIN chain /\ pc = "inputs"
      /\ Parsed(n) \in Nat /\ Parsed(n)' = Parsed(n) + 1
      /\ tx'.outs = tx.outs /\ loop = "block" /\ gCallback' = gCallback
  BY <1>1, ParsedAtInput
<1>3. /\ DumpObject(self) /\ (self.dump => self.nbInputs = Parsed(n) /\ self.nbOutputs = tx.outs)
  BY <1>1, <1>2 DEF DumpLocals, Parsing
<1>4. /\ DumpObject(x) /\ x.dump = self.dump /\ x.currTX = self.currTX
      /\ x.currBlock = self.currBlock /\ x.isDone = self.isDone
      /\ x.dumped = self.dumped /\ x.nbDumped = self.nbDumped
      /\ x.nbOutputs = self.nbOutputs
      /\ self.dump => x.nbInputs = self.nbInputs + 1
  <2>1. x = DumpTX!startInput(self, upTXHash = gNullHash)
    BY <1>1 DEF startInput
  <2>2. CASE ~ self.dump
    BY <1>3, <2>1, <2>2 DEF DumpTX!startInput
  <2>3. CASE self.dump
    <3>1. PICK g, v, k : x = [self EXCEPT !.nbInputs = k, !.isGenTX = g, !.valueIn = v]
                         /\ k = self.nbInputs + 1 /\ k \in Nat
      <4>1. DumpObject(self)
        BY <1>3
      <4>2. self.nbInputs + 1 \in Nat
        BY <4>1 DEF DumpObject
      <4>3. \E g, v : x = [self EXCEPT !.nbInputs = self.nbInputs + 1, !.isGenTX = g,
                                      !.valueIn = v]
        BY <2>1, <2>3, <4>1 DEF DumpTX!startInput, DumpObject
      <4>4. QED
        BY <4>2, <4>3
    <3>2. DumpObject(self)
      BY <1>3
    <3>3. QED
      BY <2>3, <3>1, <3>2 DEF DumpObject
  <2>4. QED
    BY <2>2, <2>3
<1>5. /\ DumpObject(self') /\ self'.dump = x.dump /\ self'.currTX = x.currTX
      /\ self'.currBlock = x.currBlock /\ self'.isDone = x.isDone
      /\ self'.dumped = x.dumped /\ self'.nbDumped = x.nbDumped
      /\ self'.nbOutputs = x.nbOutputs /\ self'.nbInputs = x.nbInputs
  <2>1. CASE GenInputCalls
    BY <1>1, <1>4, <2>1 DEF GenInputCalls
  <2>2. CASE InputCalls
    <3>1. self' = DumpTX!edge(x, txo[edge'.shows].value)
      BY <1>1, <2>2 DEF InputCalls, edgeCall
    <3>2. self' = x \/ self' = [x EXCEPT !.valueIn = x.valueIn + txo[edge'.shows].value]
      BY <3>1 DEF DumpTX!edge
    <3>3. QED
      BY <1>4, <3>2 DEF DumpObject
  <2>3. QED
    BY <2>1, <2>2
<1>6. self.dump => self'.nbInputs = Parsed(n)' /\ self'.nbOutputs = tx'.outs
  BY <1>2, <1>3, <1>4, <1>5
<1>7. MakesNone /\ ~ EndTXCalls
  BY <1>2 DEF MakesNone, EndTXCalls, EndTX
<1>8. QED
  BY <1>1, <1>2, <1>4, <1>5, <1>6, <1>7, DumpWithin

LEMMA DumpOutputStep ==
  ASSUME IndInv, HistoryInv, DumpLocals, DumpRows, DumpEnd, command = "tx", OutputCalls
  PROVE  DumpLocals' /\ DumpRows' /\ DumpEnd'
<1>1. PICK n, v : n = Len(chain) /\ v = txo[<<tx.hash, tx'.outs>>].value
  OBVIOUS
<1>2. /\ n \in DOMAIN chain /\ pc = "outputs" /\ NbMade(n) = tx.outs
      /\ tx'.outs = tx.outs + 1 /\ loop = "block" /\ gCallback' = gCallback
      /\ tx.outs \in Nat
  <2>1. tx.outs \in Nat
    BY DEF IndInv, TypeOK
  <2>2. QED
    BY <1>1, <2>1, MadeAtOutput
<1>3. /\ DumpObject(self) /\ (self.dump => self.nbInputs = Parsed(n) /\ self.nbOutputs = tx.outs)
  BY <1>1, <1>2 DEF DumpLocals, Parsing
<1>4. Parsed(n)' = Parsed(n)
  BY <1>2, ParsedElsewhere DEF ReadsNone
<1>5. self' = DumpTX!endOutput(DumpTX!startOutput(self), v)
  BY <1>1 DEF OutputCalls, endOutput, startOutput
<1>6. \/ ~ self.dump /\ self' = self
      \/ self.dump /\ self' = [self EXCEPT !.nbOutputs = self.nbOutputs + 1,
                                           !.valueOut = self.valueOut + v]
  <2>1. CASE ~ self.dump
    BY <1>5, <2>1 DEF DumpTX!endOutput, DumpTX!startOutput
  <2>2. CASE self.dump
    <3>1. PICK x : x = [self EXCEPT !.nbOutputs = self.nbOutputs + 1]
      OBVIOUS
    <3>2. x.dump /\ x.valueOut = self.valueOut
      BY <1>3, <2>2, <3>1 DEF DumpObject
    <3>3. self' = [x EXCEPT !.valueOut = self.valueOut + v]
      BY <1>5, <2>2, <3>1, <3>2 DEF DumpTX!endOutput, DumpTX!startOutput
    <3>4. QED
      BY <1>3, <2>2, <3>1, <3>3 DEF DumpObject
  <2>3. QED
    BY <2>1, <2>2
<1>7. /\ DumpObject(self') /\ self'.dump = self.dump /\ self'.currTX = self.currTX
      /\ self'.currBlock = self.currBlock /\ self'.isDone = self.isDone
      /\ self'.dumped = self.dumped /\ self'.nbDumped = self.nbDumped
      /\ self'.nbInputs = self.nbInputs
      /\ self.dump => self'.nbOutputs = self.nbOutputs + 1
  <2>1. DumpObject(self)
    BY <1>3
  <2>2. PICK k, w : k = self.nbOutputs + 1 /\ k \in Nat /\ w = self.valueOut + v
    BY <2>1 DEF DumpObject
  <2>3. CASE self' = self
    BY <1>2, <1>6, <2>1, <2>2, <2>3 DEF DumpObject
  <2>4. CASE self' = [self EXCEPT !.nbOutputs = k, !.valueOut = w]
    BY <1>2, <2>1, <2>2, <2>4 DEF DumpObject
  <2>5. QED
    BY <1>6, <2>2, <2>3, <2>4
<1>8. self.dump => self'.nbInputs = Parsed(n)' /\ self'.nbOutputs = tx'.outs
  BY <1>2, <1>3, <1>4, <1>7
<1>9. ~ EndTXCalls
  <2>1. pc' = "outputs"
    BY <1>1, MadeAtOutput
  <2>2. QED
    BY <2>1 DEF EndTXCalls, EndTX
<1>10. QED
  BY <1>1, <1>2, <1>7, <1>8, <1>9, DumpWithin

(* A transaction is over: if it was asked for it is printed, and if it is  *)
(* the last of them the program is told to stop.                           *)
LEMMA DumpEndStep ==
  ASSUME IndInv, HistoryInv, HistoryInv', DumpLocals, DumpRows, DumpEnd, command = "tx",
         EndTXCalls
  PROVE  DumpLocals' /\ DumpRows' /\ DumpEnd'
<1>1. PICK n, x : n = Len(chain) /\ x = self
  OBVIOUS
<1>2. /\ pc = "outputs" /\ pc' = "tx" /\ tx.outs = nbOutputs[tx.hash] /\ loop = "block"
      /\ UNCHANGED <<gCallback, height, chain, nbOutputs>>
      /\ self' = DumpTX!endTX(x) /\ loop' = IF self'.isDone THEN "wrapup" ELSE "block"
  BY <1>1 DEF EndTXCalls, EndTX, endTX, done, DumpTX!done, chainVars
<1>3. /\ n \in Nat \ {0} /\ DOMAIN chain = 1 .. n /\ n \in DOMAIN chain
      /\ tx.hash = chain[n].hash /\ chain[n].block = height /\ height > 0
  <2>1. nbTxs > 0 /\ nbTxs = Len(chain) /\ chain \in Seq(Start) /\ nbTxs \in Nat
    BY <1>2 DEF IndInv, LocalsAreSound, Parsing, HistoryInv, ChainInv, TypeOK
  <2>2. QED
    BY <1>1, <1>2, <2>1 DEF HistoryInv, LastInv, LoopInv, Parsing, Last
<1>4. /\ DumpObject(x) /\ ~ x.isDone /\ x.currTX = tx.hash /\ x.currBlock = height
      /\ x.dump <=> n \in Wanted
      /\ x.dump => x.nbInputs = Parsed(n) /\ x.nbOutputs = tx.outs
      /\ x.nbDumped = Cardinality(Dumped) /\ Len(x.dumped) = Cardinality(Dumped)
      /\ x.nbDumped # Len(gCallback.roots)
  BY <1>1, <1>2, <1>3 DEF DumpLocals, DumpEnd, DumpRows, Parsing
<1>5. /\ IsFiniteSet(Dumped) /\ Cardinality(Dumped) \in Nat /\ Dumped \subseteq 1 .. n
      /\ n \notin Dumped
      /\ \A i \in Dumped : Cardinality({j \in Dumped : j <= i}) \in 1 .. Cardinality(Dumped)
  <2>1. n \notin Dumped
    BY <1>1, <1>2, <1>3 DEF Dumped
  <2>2. QED
    BY <1>1, <2>1, DumpedAreFinite
<1>6. Wanted' = Wanted /\ Dumped' = Wanted /\ Wanted = Dumped \union (IF x.dump THEN {n} ELSE {})
  BY <1>1, <1>2, <1>3, <1>4 DEF Wanted, Dumped
<1>7. \A i \in Dumped : \A d : IsDumped(d, i) => IsDumped(d, i)'
  BY <1>2 DEF IsDumped, Inputs_, Outputs
<1>8. CASE ~ x.dump
  <2>1. self' = [x EXCEPT !.isDone = (x.nbDumped = Len(x.txMap))]
    BY <1>2, <1>8 DEF DumpTX!endTX, DumpTX!isDoneNow
  <2>2. Len(x.txMap) = Len(gCallback.roots)
    <3>1. x.txMap = DumpTX!init(gCallback.roots).txMap
      BY <1>4 DEF DumpObject
    <3>2. gCallback.roots \in Seq(Nat \ {0})
      BY RootTypes DEF HistoryInv, LoopInv
    <3>3. QED
      BY <3>1, <3>2 DEF DumpTX!init
  <2>3. self' = x
    BY <1>4, <2>1, <2>2 DEF DumpObject
  <2>4. Dumped' = Dumped
    BY <1>6, <1>8
  <2>5. DumpRows'
    BY <1>1, <1>2, <2>3, <2>4, DumpRowsKept
  <2>6. DumpEnd'
    BY <1>2, <1>4, <2>3 DEF DumpEnd
  <2>7. DumpLocals'
    BY <1>2, <1>4, <2>3 DEF DumpLocals, DumpObject, Parsing
  <2>8. QED
    BY <2>5, <2>6, <2>7
<1>9. CASE x.dump
  <2>1. PICK d, s : d = DumpTX!Printed(x) /\ s = x.dumped
    OBVIOUS
  <2>2. PICK y : y = [x EXCEPT !.dumped = Append(s, d), !.nbDumped = x.nbDumped + 1]
    OBVIOUS
  <2>3. self' = [y EXCEPT !.isDone = (y.nbDumped = Len(y.txMap))]
    BY <1>2, <1>9, <2>1, <2>2 DEF DumpTX!endTX, DumpTX!isDoneNow
  <2>4. PICK S : S = ToSet(s) /\ s \in Seq(S)
    BY <1>4, <2>1 DEF DumpObject
  <2>5. PICK u : u = Append(s, d)
    OBVIOUS
  <2>6. /\ u \in Seq(ToSet(u)) /\ Len(u) = Len(s) + 1 /\ u[Len(s) + 1] = d
        /\ \A k \in 1 .. Len(s) : u[k] = s[k]
    <3>1. s \in Seq(S \union {d})
      BY <2>4, SeqsGrow
    <3>2. u \in Seq(S \union {d}) /\ Len(u) = Len(s) + 1 /\ u[Len(s) + 1] = d
          /\ \A k \in 1 .. Len(s) : u[k] = s[k]
      BY <2>5, <3>1
    <3>3. \A k \in 1 .. Len(u) : u[k] \in ToSet(u)
      BY <3>2 DEF ToSet
    <3>4. QED
      BY <3>2, <3>3
  <2>7. /\ DumpObject(y) /\ y.nbDumped = x.nbDumped + 1 /\ y.dumped = u
        /\ y.currBlock = x.currBlock /\ y.txMap = x.txMap
    <3>1. DumpObject(x)
      BY <1>4
    <3>2. PICK k : k = x.nbDumped + 1 /\ k \in Nat
      BY <3>1 DEF DumpObject
    <3>3. y = [x EXCEPT !.dumped = u, !.nbDumped = k]
      BY <2>2, <2>5, <3>2
    <3>4. u \in Seq(ToSet(u))
      BY <2>6
    <3>5. QED
      BY <3>1, <3>2, <3>3, <3>4 DEF DumpObject
  <2>8. Len(y.txMap) = Len(gCallback.roots)
    <3>1. x.txMap = DumpTX!init(gCallback.roots).txMap
      BY <1>4 DEF DumpObject
    <3>2. gCallback.roots \in Seq(Nat \ {0})
      BY RootTypes DEF HistoryInv, LoopInv
    <3>3. QED
      BY <2>7, <3>1, <3>2 DEF DumpTX!init
  <2>9. /\ DumpObject(self') /\ self'.nbDumped = x.nbDumped + 1 /\ self'.dumped = u
        /\ self'.currBlock = height
        /\ self'.isDone <=> x.nbDumped + 1 = Len(gCallback.roots)
    BY <1>4, <2>3, <2>7, <2>8 DEF DumpObject
  <2>10. Dumped' = Dumped \union {n} /\ Cardinality(Dumped)' = Cardinality(Dumped) + 1
    <3>1. Cardinality(Dumped \union {n}) = Cardinality(Dumped) + 1
      BY <1>5, FS_AddElement
    <3>2. QED
      BY <1>6, <1>9, <3>1
  <2>11. IsDumped(d, n)'
    <3>1. /\ d.hash = x.currTX /\ d.block = x.currBlock - 1
          /\ d.nbInputs = x.nbInputs /\ d.nbOutputs = x.nbOutputs
      BY <2>1 DEF DumpTX!Printed
    <3>2. Parsed(n) = Len(Inputs_(n))
      BY <1>2, <1>3 DEF Parsed, Read
    <3>3. nbOutputs[chain[n].hash] \in Nat
      BY <1>2, <1>3 DEF IndInv, TypeOK
    <3>4. Len(Outputs(n)) = nbOutputs[chain[n].hash]
      BY <3>3 DEF Outputs
    <3>5. IsDumped(d, n)
      BY <1>2, <1>3, <1>4, <1>9, <3>1, <3>2, <3>4 DEF IsDumped
    <3>6. QED
      BY <1>2, <3>5 DEF IsDumped, Inputs_, Outputs
  <2>12. ASSUME NEW i \in Dumped'
         PROVE  IsDumped(self.dumped[Cardinality({j \in Dumped : j <= i})], i)'
    <3>1. CASE i \in Dumped
      <4>1. {j \in Dumped' : j <= i} = {j \in Dumped : j <= i}
        <5>1. PICK A : A = Dumped
          OBVIOUS
        <5>2. A \subseteq 1 .. n /\ n \notin A /\ i \in A /\ Dumped' = A \union {n}
          BY <1>5, <2>10, <3>1, <5>1
        <5>3. \A j \in A \union {n} : j <= i => j \in A
          BY <1>3, <5>2
        <5>4. {j \in A \union {n} : j <= i} = {j \in A : j <= i}
          BY <5>3
        <5>5. QED
          BY <5>1, <5>2, <5>4
      <4>2. PICK k : k = Cardinality({j \in Dumped : j <= i})
        OBVIOUS
      <4>3. IsDumped(s[k], i) /\ k \in 1 .. Len(s)
        BY <1>1, <1>4, <1>5, <2>1, <3>1, <4>2 DEF DumpRows
      <4>4. u[k] = s[k] /\ IsDumped(s[k], i)'
        BY <1>7, <2>6, <3>1, <4>3
      <4>5. QED
        BY <2>9, <4>1, <4>2, <4>4
    <3>2. CASE i = n
      <4>1. {j \in Dumped' : j <= i} = Dumped'
        <5>1. PICK A : A = Dumped
          OBVIOUS
        <5>2. A \subseteq 1 .. n /\ Dumped' = A \union {n}
          BY <1>5, <2>10, <5>1
        <5>3. \A j \in A \union {n} : j <= i
          BY <1>3, <3>2, <5>2
        <5>4. {j \in A \union {n} : j <= i} = A \union {n}
          BY <5>3
        <5>5. QED
          BY <5>2, <5>4
      <4>2. Cardinality({j \in Dumped : j <= i})' = Len(s) + 1
        BY <1>4, <2>1, <2>10, <4>1
      <4>3. QED
        BY <2>6, <2>9, <2>11, <3>2, <4>2
    <3>3. QED
      BY <2>10, <3>1, <3>2
  <2>13. DumpRows'
    BY <1>4, <2>1, <2>6, <2>9, <2>10, <2>12 DEF DumpRows
  <2>14. DumpEnd'
    BY <1>1, <1>2, <2>9, <2>10 DEF DumpEnd
  <2>15. DumpLocals'
    BY <1>2, <1>4, <2>9 DEF DumpLocals, DumpObject, Parsing
  <2>16. QED
    BY <2>13, <2>14, <2>15
<1>10. QED
  BY <1>8, <1>9

(* The other steps, in which nothing is called or nothing happens. *)
LEMMA DumpQuietStep ==
  ASSUME IndInv, HistoryInv, DumpLocals, DumpRows, DumpEnd, command = "tx",
         \/ Headers \/ StartOutputsCalls \/ EndBlock \/ EndOfChain \/ Wrapup
         \/ WriteToClosedFile \/ Over \/ UNCHANGED allVars
  PROVE  DumpLocals' /\ DumpRows' /\ DumpEnd'
<1>1. self' = self
  <2>1. CASE Headers
    BY <2>1, HeadersCalls DEF HistoryInv, LoopInv
  <2>2. CASE ~ Headers
    BY <2>2 DEF StartOutputsCalls, EndBlock, EndOfChain, Wrapup, WriteToClosedFile, Over,
       endInputs, endBlock, wrapup
  <2>3. QED
    BY <2>1, <2>2
<1>2. MakesNone /\ ReadsNone /\ ~ EndTXCalls
  BY DEF MakesNone, ReadsNone, Headers, StartOutputsCalls, StartOutputs, EndBlock,
     EndOfChain, Wrapup, WriteToClosedFile, Over, EndTXCalls, EndTX, vars
<1>3. /\ loop' \in {"headers", "between", "block"} => loop \in {"headers", "between", "block"}
      /\ gCallback' = gCallback /\ (Parsing => tx' = tx)
  BY DEF Headers, StartOutputsCalls, StartOutputs, EndBlock, EndOfChain, Wrapup,
     WriteToClosedFile, Over, vars, Parsing
<1>4. PICK n : n = Len(chain)
  OBVIOUS
<1>5. Parsing => n \in DOMAIN chain
  <2>1. Parsing => nbTxs > 0 /\ nbTxs = Len(chain) /\ chain \in Seq(Start) /\ nbTxs \in Nat
    BY DEF IndInv, LocalsAreSound, HistoryInv, ChainInv, TypeOK
  <2>2. QED
    BY <1>4, <2>1
<1>6. Parsing /\ self.dump => self'.nbInputs = Parsed(n)' /\ self'.nbOutputs = tx'.outs
  BY <1>1, <1>2, <1>3, <1>4, <1>5, ParsedElsewhere DEF DumpLocals
<1>7. DumpObject(self')
  BY <1>1 DEF DumpLocals
<1>8. QED
  BY <1>1, <1>2, <1>3, <1>4, <1>6, <1>7, DumpWithin

LEMMA InitDumpInv == CmdInit => DumpInv
<1> SUFFICES ASSUME CmdInit, command = "tx" PROVE DumpInv
  BY DEF DumpInv
<1>1. PICK r : r = gCallback.roots /\ r \in Seq(Nat \ {0}) /\ r # <<>>
  <2>1. gCallback.roots \in Seq(Nat \ {0}) /\ gCallback.roots # <<>>
    BY RootTypes DEF CmdInit
  <2>2. QED
    BY <2>1
<1>2. self = DumpTX!init(r) /\ chain = <<>> /\ height = 0 /\ pc = "tx" /\ loop = "headers"
  BY <1>1 DEF CmdInit, Init, initObject
<1>3. PICK m : m = DumpTX!init(r).txMap
  OBVIOUS
<1>4. self = [txMap |-> m, dump |-> FALSE, isDone |-> FALSE, isGenTX |-> FALSE,
              valueIn |-> 0, valueOut |-> 0, nbInputs |-> 0, nbOutputs |-> 0,
              currBlock |-> 0, nbDumped |-> 0, currTX |-> 0, dumped |-> <<>>]
  BY <1>2, <1>3 DEF DumpTX!init
<1>5. self.dumped = <<>> /\ <<>> \in Seq(ToSet(<<>>))
  BY <1>4
<1>6. DumpObject(self)
  BY <1>1, <1>3, <1>4, <1>5 DEF DumpObject
<1>7. DumpLocals
  BY <1>2, <1>6 DEF DumpLocals, Parsing
<1>8. Dumped = {} /\ Cardinality(Dumped) = 0
  BY <1>2, FS_EmptySet DEF Dumped, Wanted
<1>9. DumpRows
  BY <1>4, <1>8 DEF DumpRows
<1>10. DumpEnd
  <2>1. Len(r) # 0
    BY <1>1
  <2>2. QED
    BY <1>1, <1>4, <2>1 DEF DumpEnd
<1>11. QED
  BY <1>7, <1>9, <1>10 DEF DumpInv

LEMMA NextDumpInv ==
  ASSUME IndInv, IndInv', HistoryInv, HistoryInv', TxoInv, DumpInv, [CmdNext]_allVars
  PROVE  DumpInv'
<1>1. gCallback' = gCallback
  BY SameCommand
<1>2. CASE command # "tx"
  BY <1>1, <1>2 DEF DumpInv
<1>3. CASE command = "tx"
  <2>1. DumpLocals /\ DumpRows /\ DumpEnd
    BY <1>3 DEF DumpInv
  <2>2. CASE Starts
    BY <1>3, <2>1, <2>2, DumpStartStep DEF DumpInv
  <2>3. CASE GenInputCalls \/ InputCalls
    BY <1>3, <2>1, <2>3, DumpInputStep DEF DumpInv
  <2>4. CASE OutputCalls
    BY <1>3, <2>1, <2>4, DumpOutputStep DEF DumpInv
  <2>5. CASE EndTXCalls
    BY <1>3, <2>1, <2>5, DumpEndStep DEF DumpInv
  <2>6. CASE \/ Headers \/ StartOutputsCalls \/ EndBlock \/ EndOfChain \/ Wrapup
             \/ WriteToClosedFile \/ Over \/ UNCHANGED allVars
    BY <1>3, <2>1, <2>6, DumpQuietStep DEF DumpInv
  <2>7. QED
    BY <2>2, <2>3, <2>4, <2>5, <2>6, StepCases DEF MakesNone
<1>4. QED
  BY <1>2, <1>3

(* Without repetitions the hashes of the chain are all different. *)
LEMMA HashesDiffer ==
  ASSUME HistoryInv, nbRepeats = 0
  PROVE  /\ \A i, j \in DOMAIN chain : chain[i].hash = chain[j].hash => i = j
         /\ IsFiniteSet(Wanted) /\ Cardinality(Wanted) = Cardinality(Roots \intersect Hashes)
<1>1. PICK n : n = Len(chain) /\ n \in Nat /\ DOMAIN chain = 1 .. n /\ Hashes = 1 .. n
  BY DEF HistoryInv, ChainInv, NbHashes
<1>2. PICK f : f = [i \in 1 .. n |-> chain[i].hash]
  OBVIOUS
<1>3. f \in Surjection(1 .. n, 1 .. n)
  BY <1>1, <1>2 DEF Hashes, Surjection
<1>4. IsFiniteSet(1 .. n)
  BY <1>1, FS_Interval
<1>5. f \in Injection(1 .. n, 1 .. n)
  BY <1>3, <1>4, FS_Surjection
<1>6. \A i, j \in 1 .. n : f[i] = f[j] => i = j
  BY <1>5 DEF Injection, IsInjective
<1>7. \A i, j \in DOMAIN chain : chain[i].hash = chain[j].hash => i = j
  BY <1>1, <1>2, <1>6
<1>8. Wanted \subseteq 1 .. n
  BY <1>1 DEF Wanted
<1>9. PICK g : g = [i \in Wanted |-> chain[i].hash]
  OBVIOUS
<1>10. g \in Surjection(Wanted, Roots \intersect Hashes)
  BY <1>9 DEF Wanted, Roots, Hashes, Surjection
<1>11. g \in Injection(Wanted, Roots \intersect Hashes)
  BY <1>1, <1>7, <1>8, <1>9, <1>10 DEF Injection, IsInjective, Surjection
<1>12. IsFiniteSet(Wanted)
  BY <1>4, <1>8, FS_Subset
<1>13. QED
  BY <1>7, <1>10, <1>11, <1>12, FS_Surjection

LEMMA ReportsHold ==
  CmdSpec => [](IndInv /\ HistoryInv /\ TxoInv /\ TypesInv /\ DumpInv)
<1>1. CmdInit => IndInv /\ HistoryInv /\ TxoInv /\ StatementInv /\ TypesInv /\ DumpInv
  BY InitIndInv, InitHistoryInv, InitStatementInv, InitTypesInv, InitDumpInv DEF CmdInit
<1>2. IndInv /\ HistoryInv /\ TxoInv /\ StatementInv /\ TypesInv /\ DumpInv
        /\ [CmdNext]_allVars
        => (IndInv /\ HistoryInv /\ TxoInv /\ StatementInv /\ TypesInv /\ DumpInv)'
  BY NextHistoryInv, NextStatementInv, NextTypesInv, NextDumpInv
<1>3. QED
  BY <1>1, <1>2, PTL DEF CmdSpec

(* Whatever the chain and whatever is repeated, txotype has shown, in the  *)
(* order of the chain, the first output of each of the four types and      *)
(* every output of another.                                                *)
THEOREM TypesAreShownOnce == CmdSpec => []FirstOfEachType
<1>1. TypesInv => FirstOfEachType
  BY DEF TypesInv, FirstOfEachType, Runs
<1>2. QED
  BY <1>1, ReportsHold, PTL

(* As long as no transaction is repeated, tx has printed what was asked    *)
(* for of the chain so far, and stops with the last of it.                 *)
THEOREM DumpEndsWithTheLast == CmdSpec => []DumpIsComplete
<1>1. HistoryInv /\ DumpInv => DumpIsComplete
  <2> SUFFICES ASSUME HistoryInv, DumpInv, command = "tx", pc = "tx", nbRepeats = 0
               PROVE  DumpIsComplete
    BY DEF DumpIsComplete, Runs
  <2>1. DumpLocals /\ DumpRows /\ DumpEnd
    BY DEF DumpInv
  <2>2. Dumped = Wanted
    BY DEF Dumped
  <2>3. done(self) <=> self.isDone
    BY DEF done, DumpTX!done
  <2>4. /\ IsFiniteSet(Roots) /\ Cardinality(Roots) = Len(gCallback.roots)
        /\ Len(gCallback.roots) \in Nat \ {0}
    BY RootTypes DEF HistoryInv, LoopInv
  <2>5. Cardinality(Wanted) = Cardinality(Roots \intersect Hashes)
    BY HashesDiffer
  <2>6. Cardinality(Roots \intersect Hashes) = Cardinality(Roots) <=> Roots \subseteq Hashes
    <3>1. Roots \intersect Hashes = Roots <=> Roots \subseteq Hashes
      OBVIOUS
    <3>2. Roots \intersect Hashes \subseteq Roots
      OBVIOUS
    <3>3. Cardinality(Roots) = Cardinality(Roots \intersect Hashes)
            => Roots = Roots \intersect Hashes
      BY <2>4, <3>2, FS_Subset
    <3>4. QED
      BY <3>1, <3>3
  <2>7. self.isDone <=> Roots \subseteq Hashes
    BY <2>1, <2>2, <2>4, <2>5, <2>6 DEF DumpRows, DumpEnd
  <2>8. loop \in {"between", "block"} => ~ self.isDone
    BY <2>1 DEF DumpEnd
  <2>9. Roots \subseteq Hashes => Last(chain).hash \in Roots
    BY <2>1, <2>7 DEF DumpEnd, Dumped, Wanted, Roots, Last
  <2>10. \A i \in Wanted : IsDumped(self.dumped[Cardinality({j \in Wanted : j <= i})], i)
    BY <2>1, <2>2 DEF DumpRows
  <2>11. Len(self.dumped) = Cardinality(Wanted)
    BY <2>1, <2>2 DEF DumpRows
  <2>12. QED
    BY <2>3, <2>7, <2>8, <2>9, <2>10, <2>11 DEF DumpIsComplete, Roots
<1>2. QED
  BY <1>1, ReportsHold, PTL

-----------------------------------------------------------------------------
(* Sums of functions of naturals, as one of their values changes.          *)

LEMMA SumOfIsTotal ==
  ASSUME NEW g, IsSummable(g, DOMAIN g)
  PROVE  SumOf(g) = Total(g, DOMAIN g) /\ SumOf(g) \in Nat
<1>0. PICK S : S = DOMAIN g
  OBVIOUS
<1> DEFINE pick(s) == CHOOSE x \in s : TRUE
           picks == [s \in SUBSET S |-> pick(s)]
           IsSum(f) == f = [s \in SUBSET S |->
                              IF s = {} THEN 0 ELSE g[pick(s)] + f[s \ {pick(s)}]]
           f0 == CHOOSE f : IsSum(f)
<1>1. SumOf(g) = f0[S]
  BY <1>0 DEF SumOf, SumOver, MapThenSumSet, MapThenFoldSet
<1>2. \A s \in SUBSET S : picks[s] = pick(s) /\ (s # {} => pick(s) \in s)
  OBVIOUS
<1> HIDE DEF pick, picks
<1>3. \A f : SumEquation(f, g, picks, S) <=> IsSum(f)
  BY <1>2 DEF SumEquation
<1> HIDE DEF IsSum
<1>4. \E f : IsSum(f)
  BY <1>0, <1>2, <1>3, TotalIsTheSum
<1>5. IsSum(f0)
  BY <1>4
<1> HIDE DEF f0
<1>6. f0[S] = Total(g, S)
  <2>1. SumEquation(f0, g, picks, S)
    BY <1>3, <1>5
  <2>2. IsSummable(g, S) /\ \A s \in SUBSET S : s # {} => picks[s] \in s
    BY <1>0, <1>2
  <2>3. QED
    BY <2>1, <2>2, TotalIsTheSum
<1>7. Total(g, S) \in Nat
  BY <1>0, TotalType
<1>8. QED
  BY <1>0, <1>1, <1>6, <1>7

LEMMA SumOfGrown ==
  ASSUME NEW g, IsSummable(g, DOMAIN g), NEW x, x \notin DOMAIN g,
         NEW h, DOMAIN h = DOMAIN g \union {x}, \A y \in DOMAIN g : h[y] = g[y],
         h[x] \in Nat
  PROVE  IsSummable(h, DOMAIN h) /\ SumOf(g) \in Nat /\ SumOf(h) = SumOf(g) + h[x]
<1>1. PICK S : S = DOMAIN g
  OBVIOUS
<1>2. IsSummable(h, S) /\ Total(h, S) = Total(g, S)
  BY <1>1, TotalAgrees DEF IsSummable
<1>3. IsSummable(h, S \union {x}) /\ Total(h, S \union {x}) = Total(h, S) + h[x]
  BY <1>1, <1>2, TotalAdd
<1>4. IsSummable(h, DOMAIN h) /\ Total(h, DOMAIN h) = Total(g, S) + h[x]
  BY <1>1, <1>2, <1>3
<1>5. QED
  BY <1>1, <1>4, SumOfIsTotal

LEMMA SumOfBumped ==
  ASSUME NEW g, IsSummable(g, DOMAIN g), NEW x \in DOMAIN g, NEW n \in Nat,
         NEW h, DOMAIN h = DOMAIN g, \A y \in DOMAIN g \ {x} : h[y] = g[y],
         h[x] = g[x] + n
  PROVE  IsSummable(h, DOMAIN h) /\ SumOf(g) \in Nat /\ SumOf(h) = SumOf(g) + n
<1>1. PICK S : S = DOMAIN g \ {x}
  OBVIOUS
<1>0. DOMAIN g = S \union {x} /\ x \notin S
  BY <1>1
<1>2. g[x] \in Nat /\ h[x] \in Nat
  BY DEF IsSummable
<1>3. IsSummable(g, S) /\ IsSummable(h, S)
  BY <1>0, <1>1, FS_Subset DEF IsSummable
<1>4. Total(g, S) = Total(h, S) /\ Total(g, S) \in Nat
  BY <1>1, <1>3, TotalAgrees, TotalType
<1>5. Total(g, S \union {x}) = Total(g, S) + g[x]
  BY <1>0, <1>2, <1>3, TotalAdd
<1>6. IsSummable(h, S \union {x}) /\ Total(h, S \union {x}) = Total(h, S) + h[x]
  BY <1>0, <1>2, <1>3, TotalAdd
<1>7. SumOf(g) = Total(g, S) + g[x]
  BY <1>0, <1>5, SumOfIsTotal
<1>8. SumOf(h) = Total(h, S) + h[x] /\ IsSummable(h, DOMAIN h)
  BY <1>0, <1>6, SumOfIsTotal
<1>9. QED
  BY <1>2, <1>4, <1>7, <1>8

-----------------------------------------------------------------------------
(* What simpleStats and txInputs have in common: the most inputs.          *)

LEMMA InputsAreCounted ==
  ASSUME IndInv, HistoryInv
  PROVE  /\ Len(chain) \in Nat /\ DOMAIN chain = 1 .. Len(chain)
         /\ \A i \in DOMAIN chain : Len(Inputs_(i)) \in Nat /\ Parsed(i) \in Nat
         /\ \A i \in Read : Parsed(i) = Len(Inputs_(i))
         /\ chain = <<>> <=> Len(chain) = 0
<1>1. chain \in Seq(Start) /\ Len(chain) \in Nat /\ DOMAIN chain = 1 .. Len(chain)
  BY DEF HistoryInv, ChainInv
<1>2. ASSUME NEW i \in DOMAIN chain PROVE Len(Inputs_(i)) \in Nat
  <2>1. chain[i].ins \in Seq(Outpoint \union {GenInput})
    BY MadeType
  <2>2. QED
    BY <2>1 DEF Inputs_
<1>3. \A i \in DOMAIN chain : Parsed(i) \in Nat
  BY LengthsAreSummable DEF HistoryInv
<1>4. chain = <<>> <=> Len(chain) = 0
  BY <1>1
<1>5. QED
  BY <1>1, <1>2, <1>3, <1>4 DEF Parsed

LEMMA LargestAtStart ==
  ASSUME IndInv, HistoryInv, LargestInv,
         NEW hash \in TxHash, NEW ins \in Seq(Outpoint \union {GenInput}),
         IsStart(hash, ins), IsNew(hash, ins) \/ IsRepeated(hash, ins),
         self'.maxInputCountInTx = IF self.tmpMaxInputCountInTx > self.maxInputCountInTx
                                   THEN self.tmpMaxInputCountInTx
                                   ELSE self.maxInputCountInTx,
         self'.tmpMaxInputCountInTx = 0
  PROVE  LargestInv'
<1>1. PICK n, m, big, new :
          /\ n = Len(chain) /\ m = n + 1
          /\ big = self.maxInputCountInTx /\ new = self.tmpMaxInputCountInTx
  OBVIOUS
<1>2. /\ n \in Nat /\ m \in Nat \ {0} /\ DOMAIN chain = 1 .. n /\ Len(chain') = m
      /\ \A i \in 1 .. n : chain'[i] = chain[i]
      /\ \A i \in 1 .. n : Len(Inputs_(i)) \in Nat
      /\ chain = <<>> <=> n = 0
  <2>1. /\ Len(chain) \in Nat /\ DOMAIN chain = 1 .. Len(chain)
        /\ \A i \in DOMAIN chain : Len(Inputs_(i)) \in Nat
        /\ chain = <<>> <=> Len(chain) = 0
    BY InputsAreCounted
  <2>2. /\ Len(chain') = Len(chain) + 1
        /\ \A i \in 1 .. Len(chain) : chain'[i] = chain[i]
    BY ChainAppended DEF HistoryInv
  <2>3. QED
    BY <1>1, <2>1, <2>2
<1>3. BeforeLast' = 1 .. n /\ BeforeLast = 1 .. n - 1
  BY <1>1, <1>2 DEF BeforeLast
<1>4. \A i \in 1 .. n : Len(Inputs_(i))' = Len(Inputs_(i))
  BY <1>2 DEF Inputs_
<1>5. IF n = 0 THEN new = 0 ELSE new = Len(Inputs_(n)) /\ n \in 1 .. n
  <2>1. CASE n = 0
    BY <1>1, <1>2, <2>1 DEF LargestInv
  <2>2. CASE n # 0
    <3>1. n \in Read
      BY <1>1, <1>2, <2>2 DEF Read, IsStart
    <3>2. QED
      BY <1>1, <1>2, <2>2, <3>1, InputsAreCounted DEF LargestInv
  <2>3. QED
    BY <2>1, <2>2
<1>6. /\ big \in {0} \union {Len(Inputs_(i)) : i \in 1 .. n - 1}
      /\ \A i \in 1 .. n - 1 : Len(Inputs_(i)) <= big
  BY <1>1, <1>3 DEF LargestInv
<1>7. big \in Nat /\ new \in Nat
  BY <1>2, <1>5, <1>6
<1>8. PICK top : top = self'.maxInputCountInTx /\ top = IF new > big THEN new ELSE big
  BY <1>1
<1>9. top \in {0} \union {Len(Inputs_(i)) : i \in 1 .. n}
  BY <1>2, <1>5, <1>6, <1>7, <1>8
<1>10. \A i \in 1 .. n : Len(Inputs_(i)) <= top
  <2> TAKE i \in 1 .. n
  <2>1. CASE i = n
    BY <1>2, <1>5, <1>7, <1>8, <2>1
  <2>2. CASE i # n
    <3>1. i \in 1 .. n - 1 /\ Len(Inputs_(i)) \in Nat
      BY <1>2, <2>2
    <3>2. QED
      BY <1>6, <1>7, <1>8, <3>1
  <2>3. QED
    BY <2>1, <2>2
<1>11. Parsed(m)' = 0
  BY <1>1, ParsedAtStart
<1>12. chain' # <<>> /\ Len(chain)' = m
  BY <1>2
<1>13. self'.tmpMaxInputCountInTx = IF chain' = <<>> THEN 0 ELSE Parsed(m)'
  BY <1>11
<1>14. {Len(Inputs_(i))' : i \in 1 .. n} = {Len(Inputs_(i)) : i \in 1 .. n}
  BY <1>4
<1>15. QED
  BY <1>3, <1>4, <1>8, <1>9, <1>10, <1>12, <1>13, <1>14 DEF LargestInv

LEMMA LargestAtInput ==
  ASSUME IndInv, HistoryInv, LargestInv, GenInputCalls \/ InputCalls,
         self'.maxInputCountInTx = self.maxInputCountInTx,
         self'.tmpMaxInputCountInTx = self.tmpMaxInputCountInTx + 1
  PROVE  LargestInv'
<1>1. PICK n : n = Len(chain)
  OBVIOUS
<1>2. n \in DOMAIN chain /\ Parsed(n)' = Parsed(n) + 1 /\ chain' = chain
  BY <1>1, ParsedAtInput
<1>3. chain # <<>>
  BY <1>2
<1>4. Len(chain)' = n
  BY <1>1, <1>2
<1>5. self'.tmpMaxInputCountInTx = Parsed(n)'
  BY <1>1, <1>2, <1>3 DEF LargestInv
<1>6. QED
  BY <1>2, <1>3, <1>4, <1>5 DEF LargestInv, BeforeLast, Inputs_

LEMMA LargestElsewhere ==
  ASSUME IndInv, HistoryInv, LargestInv, ReadsNone,
         self'.maxInputCountInTx = self.maxInputCountInTx,
         self'.tmpMaxInputCountInTx = self.tmpMaxInputCountInTx
  PROVE  LargestInv'
<1>1. PICK n : n = Len(chain)
  OBVIOUS
<1>2. chain' = chain
  BY DEF ReadsNone, Headers, StartOutputsCalls, OutputCalls, EndTXCalls, EndBlock,
     EndOfChain, Wrapup, WriteToClosedFile, Over
<1>3. chain # <<>> => n \in DOMAIN chain
  BY <1>1, InputsAreCounted
<1>4. chain # <<>> => Parsed(n)' = Parsed(n)
  BY <1>3, ParsedElsewhere
<1>5. Len(chain)' = n
  BY <1>1, <1>2
<1>6. self'.tmpMaxInputCountInTx = IF chain' = <<>> THEN 0 ELSE Parsed(n)'
  BY <1>1, <1>2, <1>4 DEF LargestInv
<1>7. QED
  BY <1>2, <1>5, <1>6 DEF LargestInv, BeforeLast, Inputs_

(* A greatest number of inputs is the most there are. *)
LEMMA MostIsGreatest ==
  ASSUME NEW S, NEW big, \A i \in S : Len(Inputs_(i)) \in Nat,
         big \in {0} \union {Len(Inputs_(i)) : i \in S},
         \A i \in S : Len(Inputs_(i)) <= big
  PROVE  MostInputs(S) = big
<1>1. PICK T : T = {0} \union {Len(Inputs_(i)) : i \in S}
  OBVIOUS
<1>2. T \subseteq Nat /\ big \in T /\ \A x \in T : big >= x
  BY <1>1
<1>3. \A x \in T : (\A y \in T : x >= y) => x = big
  BY <1>2
<1>4. Max(T) \in T /\ \A y \in T : Max(T) >= y
  BY <1>2 DEF Max
<1>5. MostInputs(S) = Max(T)
  BY <1>1 DEF MostInputs
<1>6. QED
  BY <1>3, <1>4, <1>5

(* What the invariant says after a whole transaction. *)
LEMMA LargestIsReal ==
  ASSUME IndInv, HistoryInv, LargestInv
  PROVE  MaximumIsReal
<1>1. PICK n, big : n = Len(chain) /\ big = self.maxInputCountInTx
  OBVIOUS
<1>2. /\ n \in Nat /\ DOMAIN chain = 1 .. n /\ BeforeLast = 1 .. n - 1
      /\ \A i \in 1 .. n : Len(Inputs_(i)) \in Nat
  BY <1>1, InputsAreCounted DEF BeforeLast
<1>3. /\ big \in {0} \union {Len(Inputs_(i)) : i \in 1 .. n - 1}
      /\ \A i \in 1 .. n - 1 : Len(Inputs_(i)) <= big
  BY <1>1, <1>2 DEF LargestInv
<1>4. big \in Nat
  BY <1>2, <1>3
<1>5. MostInputs(BeforeLast) = big
  <2>1. PICK S : S = 1 .. n - 1
    OBVIOUS
  <2>2. \A i \in S : Len(Inputs_(i)) \in Nat /\ Len(Inputs_(i)) <= big
    <3>1. \A i \in S : i \in 1 .. n
      BY <1>2, <2>1
    <3>2. QED
      BY <1>2, <1>3, <2>1, <3>1
  <2>3. big \in {0} \union {Len(Inputs_(i)) : i \in S}
    BY <1>3, <2>1
  <2>4. MostInputs(S) = big
    BY <2>2, <2>3, MostIsGreatest
  <2>5. QED
    BY <1>2, <2>1, <2>4
<1>6. PICK top : top = IF n = 0 THEN 0
                       ELSE IF Len(Inputs_(n)) > big THEN Len(Inputs_(n)) ELSE big
  OBVIOUS
<1>7. CASE n = 0
  <2>1. big = 0 /\ DOMAIN chain = BeforeLast
    BY <1>2, <1>3, <1>7
  <2>2. QED
    BY <1>1, <1>5, <2>1 DEF MaximumIsReal
<1>8. CASE n # 0
  <2>1. n \in 1 .. n /\ Len(Inputs_(n)) \in Nat /\ top \in Nat /\ top >= big
    BY <1>2, <1>4, <1>6, <1>8
  <2>2. top \in {0} \union {Len(Inputs_(i)) : i \in 1 .. n}
    BY <1>2, <1>3, <1>6, <1>8, <2>1
  <2>3. ASSUME NEW i \in 1 .. n PROVE Len(Inputs_(i)) <= top
    <3>1. CASE i = n
      BY <1>4, <1>6, <1>8, <2>1, <3>1
    <3>2. CASE i # n
      <4>1. i \in 1 .. n - 1 /\ Len(Inputs_(i)) \in Nat
        BY <1>2, <3>2
      <4>2. QED
        BY <1>3, <1>4, <2>1, <4>1
    <3>3. QED
      BY <3>1, <3>2
  <2>4. MostInputs(1 .. n) = top
    BY <1>2, <2>2, <2>3, MostIsGreatest
  <2>5. QED
    BY <1>1, <1>2, <1>4, <1>5, <2>1, <2>4 DEF MaximumIsReal
<1>9. QED
  BY <1>7, <1>8

-----------------------------------------------------------------------------
(* What the outputs made so far are worth.                                 *)

LEMMA SumOfNone ==
  ASSUME NEW g, DOMAIN g = {}
  PROVE  IsSummable(g, DOMAIN g) /\ SumOf(g) = 0
BY SumOfIsTotal, TotalOfNone, FS_EmptySet DEF IsSummable

LEMMA ValuesType ==
  ASSUME IndInv, HistoryInv, TxoInv, NEW i \in DOMAIN chain
  PROVE  /\ IsSummable(Values(i), DOMAIN Values(i)) /\ SumOf(Values(i)) \in Nat
         /\ Values(i) \in [1 .. NbMade(i) -> Nat]
<1>1. NbMade(i) \in 0 .. MaxOutputs /\ chain[i].hash \in TxHash
  BY MadeType
<1>2. IsFiniteSet(1 .. NbMade(i))
  BY <1>1, FS_Interval
<1>3. \A k \in 1 .. NbMade(i) : txo[<<chain[i].hash, k>>].value \in Nat
  <2> TAKE k \in 1 .. NbMade(i)
  <2>1. <<chain[i].hash, k>> \in Outpoint
    BY <1>1 DEF Outpoint
  <2>2. QED
    BY <2>1 DEF TxoInv, ValueOf
<1>4. Values(i) \in [1 .. NbMade(i) -> Nat]
  BY <1>3 DEF Values
<1>5. IsSummable(Values(i), DOMAIN Values(i))
  BY <1>2, <1>4 DEF IsSummable
<1>6. QED
  BY <1>4, <1>5, SumOfIsTotal

LEMMA ValuesAtStart ==
  ASSUME IndInv, HistoryInv, TxoInv, Starts,
         NEW hash \in TxHash, NEW ins \in Seq(Outpoint \union {GenInput}),
         IsStart(hash, ins), IsNew(hash, ins) \/ IsRepeated(hash, ins),
         NEW m, m = Len(chain) + 1
  PROVE  /\ \A i \in DOMAIN chain : Values(i)' = Values(i)
         /\ SumOf(Values(m))' = 0
<1>1. /\ \A i \in DOMAIN chain :
            /\ NbMade(i)' = NbMade(i)
            /\ \A k \in 1 .. MaxOutputs :
                    txo'[<<chain[i].hash, k>>] = txo[<<chain[i].hash, k>>]
      /\ NbMade(m)' = 0
  BY MadeAtStart
<1>2. \A i \in DOMAIN chain : chain'[i] = chain[i]
  BY ChainAppended DEF HistoryInv
<1>3. ASSUME NEW i \in DOMAIN chain PROVE Values(i)' = Values(i)
  <2>1. NbMade(i) \in 0 .. MaxOutputs
    BY MadeType
  <2>2. \A k \in 1 .. NbMade(i) : k \in 1 .. MaxOutputs
    BY <2>1
  <2>3. QED
    BY <1>1, <1>2, <2>2 DEF Values
<1>4. PICK g : g = Values(m)'
  OBVIOUS
<1>5. DOMAIN g = {}
  BY <1>1, <1>4 DEF Values
<1>6. SumOf(g) = 0
  BY <1>5, SumOfNone
<1>7. QED
  BY <1>3, <1>4, <1>6

LEMMA ValuesAtOutput ==
  ASSUME IndInv, IndInv', HistoryInv, HistoryInv', TxoInv, TxoInv', OutputCalls,
         NEW n, n = Len(chain), NEW v, v = txo[<<tx.hash, tx'.outs>>].value
  PROVE  /\ \A i \in DOMAIN chain \ {n} : Values(i)' = Values(i)
         /\ SumOf(Values(n))' = SumOf(Values(n)) + v /\ v \in Nat
<1>1. /\ n \in DOMAIN chain /\ tx.hash = chain[n].hash
      /\ NbMade(n) + 1 \in 1 .. MaxOutputs
      /\ NbMade(n)' = NbMade(n) + 1 /\ tx'.outs = NbMade(n) + 1
      /\ \A i \in DOMAIN chain \ {n} : NbMade(i)' = NbMade(i)
      /\ UNCHANGED <<chain, txo>>
  BY MadeAtOutput
<1>2. \A i \in DOMAIN chain \ {n} : Values(i)' = Values(i)
  BY <1>1 DEF Values
<1>3. PICK g, h, l : g = Values(n) /\ h = Values(n)' /\ l = NbMade(n)
  OBVIOUS
<1>4. l \in Nat
  BY <1>1, <1>3, MadeType
<1>5. g = [k \in 1 .. l |-> txo[<<chain[n].hash, k>>].value]
  BY <1>3 DEF Values
<1>6. h = [k \in 1 .. l + 1 |-> txo[<<chain[n].hash, k>>].value]
  BY <1>1, <1>3 DEF Values
<1>7. DOMAIN g = 1 .. l /\ DOMAIN h = (1 .. l) \union {l + 1} /\ l + 1 \notin 1 .. l
  BY <1>4, <1>5, <1>6
<1>8. (\A k \in 1 .. l : h[k] = g[k]) /\ h[l + 1] = v
  BY <1>1, <1>3, <1>4, <1>5, <1>6
<1>9. v \in Nat
  <2>1. <<tx.hash, tx'.outs>> \in Outpoint
    BY <1>1, MadeType DEF Outpoint
  <2>2. QED
    BY <2>1 DEF TxoInv, ValueOf
<1>10. IsSummable(g, DOMAIN g)
  BY <1>1, <1>3, ValuesType
<1>11. SumOf(h) = SumOf(g) + v
  <2>1. PICK x : x = l + 1
    OBVIOUS
  <2>2. x \notin DOMAIN g /\ DOMAIN h = DOMAIN g \union {x}
    BY <1>7, <2>1
  <2>3. h[x] = v /\ h[x] \in Nat
    BY <1>8, <1>9, <2>1
  <2>4. \A k \in DOMAIN g : h[k] = g[k]
    BY <1>7, <1>8
  <2>5. SumOf(h) = SumOf(g) + h[x]
    BY <1>10, <2>2, <2>3, <2>4, SumOfGrown
  <2>6. QED
    BY <2>3, <2>5
<1>12. QED
  BY <1>2, <1>3, <1>9, <1>11

LEMMA ValuesElsewhere ==
  ASSUME IndInv, HistoryInv, MakesNone
  PROVE  \A i \in DOMAIN chain : Values(i)' = Values(i)
BY MadeElsewhere DEF Values

(* The sums over the transactions. *)
LEMMA SumsTypes ==
  ASSUME IndInv, HistoryInv, TxoInv
  PROVE  /\ DOMAIN Lengths = DOMAIN chain /\ IsSummable(Lengths, DOMAIN Lengths)
         /\ DOMAIN Widths = DOMAIN chain /\ IsSummable(Widths, DOMAIN Widths)
         /\ DOMAIN Volumes = DOMAIN chain /\ IsSummable(Volumes, DOMAIN Volumes)
         /\ SumOf(Lengths) \in Nat /\ SumOf(Widths) \in Nat /\ SumOf(Volumes) \in Nat
<1>1. IsFiniteSet(DOMAIN chain)
  BY InputsAreCounted, FS_Interval
<1>2. \A i \in DOMAIN chain : Parsed(i) \in Nat
  BY InputsAreCounted
<1>3. \A i \in DOMAIN chain : NbMade(i) \in Nat
  BY MadeType
<1>4. \A i \in DOMAIN chain : SumOf(Values(i)) \in Nat
  BY ValuesType
<1>5. DOMAIN Lengths = DOMAIN chain /\ IsSummable(Lengths, DOMAIN Lengths)
  BY <1>1, <1>2 DEF Lengths, IsSummable
<1>6. DOMAIN Widths = DOMAIN chain /\ IsSummable(Widths, DOMAIN Widths)
  BY <1>1, <1>3 DEF Widths, IsSummable
<1>7. DOMAIN Volumes = DOMAIN chain /\ IsSummable(Volumes, DOMAIN Volumes)
  BY <1>1, <1>4 DEF Volumes, IsSummable
<1>8. QED
  BY <1>5, <1>6, <1>7, SumOfIsTotal

LEMMA SumsAtStart ==
  ASSUME IndInv, HistoryInv, TxoInv, Starts,
         NEW hash \in TxHash, NEW ins \in Seq(Outpoint \union {GenInput}),
         IsStart(hash, ins), IsNew(hash, ins) \/ IsRepeated(hash, ins)
  PROVE  /\ SumOf(Lengths)' = SumOf(Lengths) /\ SumOf(Widths)' = SumOf(Widths)
         /\ SumOf(Volumes)' = SumOf(Volumes)
<1>1. PICK n, m : n = Len(chain) /\ m = n + 1
  OBVIOUS
<1>2. /\ n \in Nat /\ DOMAIN chain = 1 .. n /\ DOMAIN chain' = 1 .. m
      /\ m \notin DOMAIN chain /\ DOMAIN chain' = DOMAIN chain \union {m}
  <2>1. Len(chain) \in Nat /\ DOMAIN chain = 1 .. Len(chain)
    BY InputsAreCounted
  <2>2. DOMAIN chain' = 1 .. Len(chain) + 1
    BY ChainAppended DEF HistoryInv
  <2>3. QED
    BY <1>1, <2>1, <2>2
<1>3. Parsed(m)' = 0 /\ \A i \in DOMAIN chain : Parsed(i)' = Parsed(i)
  BY <1>1, ParsedAtStart
<1>4. NbMade(m)' = 0 /\ \A i \in DOMAIN chain : NbMade(i)' = NbMade(i)
  BY <1>1, MadeAtStart
<1>5. SumOf(Values(m))' = 0 /\ \A i \in DOMAIN chain : Values(i)' = Values(i)
  BY <1>1, ValuesAtStart
<1>6. ASSUME NEW g, IsSummable(g, DOMAIN g), DOMAIN g = DOMAIN chain,
             NEW h, DOMAIN h = DOMAIN chain', h[m] = 0,
             \A i \in DOMAIN chain : h[i] = g[i]
      PROVE  SumOf(h) = SumOf(g)
  <2>1. h[m] \in Nat /\ m \notin DOMAIN g /\ DOMAIN h = DOMAIN g \union {m}
    BY <1>2, <1>6
  <2>2. SumOf(g) \in Nat /\ SumOf(h) = SumOf(g) + h[m]
    BY <1>6, <2>1, SumOfGrown
  <2>3. QED
    BY <1>6, <2>2
<1>7. SumOf(Lengths)' = SumOf(Lengths)
  <2>1. PICK h : h = Lengths'
    OBVIOUS
  <2>2. DOMAIN h = DOMAIN chain' /\ h[m] = 0 /\ \A i \in DOMAIN chain : h[i] = Lengths[i]
    BY <1>2, <1>3, <2>1 DEF Lengths
  <2>3. QED
    BY <1>6, <2>1, <2>2, SumsTypes
<1>8. SumOf(Widths)' = SumOf(Widths)
  <2>1. PICK h : h = Widths'
    OBVIOUS
  <2>2. DOMAIN h = DOMAIN chain' /\ h[m] = 0 /\ \A i \in DOMAIN chain : h[i] = Widths[i]
    BY <1>2, <1>4, <2>1 DEF Widths
  <2>3. QED
    BY <1>6, <2>1, <2>2, SumsTypes
<1>9. SumOf(Volumes)' = SumOf(Volumes)
  <2>1. PICK h : h = Volumes'
    OBVIOUS
  <2>2. DOMAIN h = DOMAIN chain' /\ h[m] = 0 /\ \A i \in DOMAIN chain : h[i] = Volumes[i]
    BY <1>2, <1>5, <2>1 DEF Volumes
  <2>3. QED
    BY <1>6, <2>1, <2>2, SumsTypes
<1>10. QED
  BY <1>7, <1>8, <1>9

LEMMA SumsAtInput ==
  ASSUME IndInv, HistoryInv, TxoInv, GenInputCalls \/ InputCalls
  PROVE  /\ SumOf(Lengths)' = SumOf(Lengths) + 1
         /\ SumOf(Widths)' = SumOf(Widths) /\ SumOf(Volumes)' = SumOf(Volumes)
<1>1. PICK n : n = Len(chain)
  OBVIOUS
<1>2. /\ n \in DOMAIN chain /\ Parsed(n)' = Parsed(n) + 1 /\ chain' = chain
      /\ \A i \in DOMAIN chain \ {n} : Parsed(i)' = Parsed(i)
  BY <1>1, ParsedAtInput
<1>3. PICK h : h = Lengths'
  OBVIOUS
<1>4. /\ DOMAIN h = DOMAIN Lengths /\ n \in DOMAIN Lengths /\ h[n] = Lengths[n] + 1
      /\ \A i \in DOMAIN Lengths \ {n} : h[i] = Lengths[i]
  BY <1>2, <1>3 DEF Lengths
<1>5. SumOf(h) = SumOf(Lengths) + 1
  BY <1>4, SumsTypes, SumOfBumped
<1>6. MakesNone
  BY DEF MakesNone
<1>7. Widths' = Widths /\ Volumes' = Volumes
  BY <1>2, <1>6, MadeElsewhere, ValuesElsewhere DEF Widths, Volumes
<1>8. QED
  BY <1>3, <1>5, <1>7

LEMMA SumsAtOutput ==
  ASSUME IndInv, IndInv', HistoryInv, HistoryInv', TxoInv, TxoInv', OutputCalls,
         NEW v, v = txo[<<tx.hash, tx'.outs>>].value
  PROVE  /\ SumOf(Lengths)' = SumOf(Lengths) /\ SumOf(Widths)' = SumOf(Widths) + 1
         /\ SumOf(Volumes)' = SumOf(Volumes) + v /\ v \in Nat
<1>1. PICK n : n = Len(chain)
  OBVIOUS
<1>2. /\ n \in DOMAIN chain /\ NbMade(n)' = NbMade(n) + 1 /\ chain' = chain
      /\ \A i \in DOMAIN chain \ {n} : NbMade(i)' = NbMade(i)
  BY <1>1, MadeAtOutput
<1>3. /\ \A i \in DOMAIN chain \ {n} : Values(i)' = Values(i)
      /\ SumOf(Values(n))' = SumOf(Values(n)) + v /\ v \in Nat
  BY <1>1, ValuesAtOutput
<1>4. Lengths' = Lengths
  BY <1>2, ParsedElsewhere DEF ReadsNone, Lengths
<1>5. SumOf(Widths)' = SumOf(Widths) + 1
  <2>1. PICK h : h = Widths'
    OBVIOUS
  <2>2. /\ DOMAIN h = DOMAIN Widths /\ n \in DOMAIN Widths /\ h[n] = Widths[n] + 1
        /\ \A i \in DOMAIN Widths \ {n} : h[i] = Widths[i]
    BY <1>2, <2>1 DEF Widths
  <2>3. QED
    BY <2>1, <2>2, SumsTypes, SumOfBumped
<1>6. SumOf(Volumes)' = SumOf(Volumes) + v
  <2>1. PICK h : h = Volumes'
    OBVIOUS
  <2>2. /\ DOMAIN h = DOMAIN Volumes /\ n \in DOMAIN Volumes /\ h[n] = Volumes[n] + v
        /\ \A i \in DOMAIN Volumes \ {n} : h[i] = Volumes[i]
    BY <1>2, <1>3, <2>1 DEF Volumes
  <2>3. QED
    BY <1>3, <2>1, <2>2, SumsTypes, SumOfBumped
<1>7. QED
  BY <1>3, <1>4, <1>5, <1>6

LEMMA SumsElsewhere ==
  ASSUME IndInv, HistoryInv, MakesNone, ReadsNone
  PROVE  /\ SumOf(Lengths)' = SumOf(Lengths) /\ SumOf(Widths)' = SumOf(Widths)
         /\ SumOf(Volumes)' = SumOf(Volumes)
<1>1. chain' = chain
  BY MadeElsewhere
<1>2. Lengths' = Lengths
  BY <1>1, ParsedElsewhere DEF Lengths
<1>3. Widths' = Widths
  BY <1>1, MadeElsewhere DEF Widths
<1>4. Volumes' = Volumes
  BY <1>1, ValuesElsewhere DEF Volumes
<1>5. QED
  BY <1>2, <1>3, <1>4

-----------------------------------------------------------------------------
(* simpleStats.                                                            *)

(* A fold whose step adds one to a field. *)
CountEquation(it, x, f, S) ==
  it = [s \in SUBSET S |->
          IF s = {} THEN x
          ELSE [it[s \ {Max(s)}] EXCEPT ![f] = it[s \ {Max(s)}][f] + 1]]

LEMMA CountingFold ==
  ASSUME NEW n \in Nat, NEW D, NEW f \in D, NEW x \in [D -> Nat]
  PROVE  /\ CountEquation([s \in SUBSET (1 .. n) |-> [x EXCEPT ![f] = x[f] + Cardinality(s)]],
                          x, f, 1 .. n)
         /\ \A it : CountEquation(it, x, f, 1 .. n) => it[1 .. n] = [x EXCEPT ![f] = x[f] + n]
<1> DEFINE S == 1 .. n
           more(k) == [x EXCEPT ![f] = x[f] + k]
           sol == [s \in SUBSET S |-> more(Cardinality(s))]
<1>1. IsFiniteSet(S) /\ Cardinality(S) = n
  BY FS_Interval
<1>2. more(0) = x
  OBVIOUS
<1>3. ASSUME NEW k \in Nat
      PROVE  [more(k) EXCEPT ![f] = more(k)[f] + 1] = more(k + 1)
  <2>1. more(k)[f] = x[f] + k /\ x[f] \in Nat
    OBVIOUS
  <2>2. more(k)[f] + 1 = x[f] + (k + 1)
    BY <2>1
  <2>3. [more(k) EXCEPT ![f] = x[f] + (k + 1)] = more(k + 1)
    OBVIOUS
  <2> HIDE DEF more
  <2>4. QED
    BY <2>2, <2>3
<1> HIDE DEF more
<1>4. ASSUME NEW s \in SUBSET S, s # {}
      PROVE  /\ Max(s) \in s /\ s \ {Max(s)} \in SUBSET S
             /\ Cardinality(s) = Cardinality(s \ {Max(s)}) + 1
             /\ Cardinality(s \ {Max(s)}) \in Nat
  <2>1. s \in SUBSET (0 .. n)
    BY <1>4
  <2>2. Max(s) \in s
    BY <1>4, <2>1, MaxIsElement
  <2>3. IsFiniteSet(s)
    BY <1>1, FS_Subset
  <2>4. /\ IsFiniteSet(s \ {Max(s)})
        /\ Cardinality(s \ {Max(s)}) = Cardinality(s) - 1
    BY <2>2, <2>3, FS_RemoveElement
  <2>5. Cardinality(s) \in Nat /\ Cardinality(s \ {Max(s)}) \in Nat
    BY <2>3, <2>4, FS_CardinalityType
  <2>6. Cardinality(s) = Cardinality(s \ {Max(s)}) + 1
    BY <2>4, <2>5
  <2>7. s \ {Max(s)} \in SUBSET S
    OBVIOUS
  <2>8. QED
    BY <2>2, <2>5, <2>6, <2>7
<1>5. CountEquation(sol, x, f, S)
  <2>1. ASSUME NEW s \in SUBSET S
        PROVE  sol[s] = IF s = {} THEN x
                        ELSE [sol[s \ {Max(s)}] EXCEPT ![f] = sol[s \ {Max(s)}][f] + 1]
    <3>1. CASE s = {}
      BY <1>2, <3>1, FS_EmptySet
    <3>2. CASE s # {}
      <4>1. PICK k : k = Cardinality(s \ {Max(s)}) /\ k \in Nat /\ Cardinality(s) = k + 1
        BY <1>4, <3>2
      <4>2. sol[s] = more(k + 1) /\ sol[s \ {Max(s)}] = more(k)
        BY <1>4, <3>2, <4>1
      <4>3. QED
        BY <1>3, <3>2, <4>1, <4>2
    <3>3. QED
      BY <3>1, <3>2
  <2> DEFINE step(g, s) == IF s = {} THEN x
                           ELSE [g[s \ {Max(s)}] EXCEPT ![f] = g[s \ {Max(s)}][f] + 1]
  <2>2. \A s \in SUBSET S : sol[s] = step(sol, s)
    BY <2>1
  <2>3. sol = [s \in SUBSET S |-> sol[s]]
    OBVIOUS
  <2> HIDE DEF sol, step
  <2>4. sol = [s \in SUBSET S |-> step(sol, s)]
    BY <2>2, <2>3
  <2>5. QED
    BY <2>4 DEF CountEquation, step
<1>6. ASSUME NEW it, CountEquation(it, x, f, S)
      PROVE  it[S] = more(n)
  <2>1. \A s \in SUBSET S : it[s] = IF s = {} THEN x
                ELSE [it[s \ {Max(s)}] EXCEPT ![f] = it[s \ {Max(s)}][f] + 1]
    BY <1>6 DEF CountEquation
  <2> DEFINE B == {s \in SUBSET S : it[s] # more(Cardinality(s))}
  <2>2. B = {}
    <3> SUFFICES ASSUME B # {} PROVE FALSE
      OBVIOUS
    <3>1. B \in SUBSET SUBSET S /\ IsFiniteSet(S)
      BY <1>1
    <3> HIDE DEF B
    <3>2. PICK s \in B : \A y \in s : s \ {y} \notin B
      BY <3>1, MinimalSubset
    <3>3. s \in SUBSET S /\ it[s] # more(Cardinality(s))
      BY <3>2 DEF B
    <3>4. s # {}
      BY <1>2, <2>1, <3>3, FS_EmptySet
    <3>5. PICK k : k = Cardinality(s \ {Max(s)}) /\ k \in Nat /\ Cardinality(s) = k + 1
      BY <1>4, <3>3, <3>4
    <3>6. it[s \ {Max(s)}] = more(k)
      BY <1>4, <3>2, <3>3, <3>4, <3>5 DEF B
    <3>7. it[s] = [more(k) EXCEPT ![f] = more(k)[f] + 1]
      BY <2>1, <3>3, <3>4, <3>6
    <3>8. QED
      BY <1>3, <3>3, <3>5, <3>7
  <2>3. QED
    BY <1>1, <2>2
<1>7. QED
  BY <1>5, <1>6 DEF more

LEMMA StatsHeaders ==
  ASSUME gCallback \in Sessions, command = "simpleStats", Headers, self \in StatsObject
  PROVE  self' = [self EXCEPT !.nbBlockFiles = self.nbBlockFiles + gCallback.files,
                              !.nbBlocks = self.nbBlocks + gCallback.records]
<1>1. gCallback.records \in Nat /\ gCallback.files \in Nat
  BY SessionTypes
<1> DEFINE Fields == {"volume", "nbBlocks", "nbInputs", "nbOutputs", "nbBlockFiles",
                      "nbValidBlocks", "nbTransactions", "maxInputCountInTx",
                      "tmpMaxInputCountInTx"}
<1>2. ASSUME NEW x \in [Fields -> Nat], NEW n \in Nat
      PROVE  Times(n, startRecord, x) = [x EXCEPT !.nbBlocks = x.nbBlocks + n]
  <2> DEFINE is(it) == it = [s \in SUBSET DOMAIN [i \in 1 .. n |-> i] |->
                               IF s = {} THEN x ELSE startRecord(it[s \ {Max(s)}])]
             it0 == CHOOSE it : is(it)
  <2>1. Times(n, startRecord, x) = it0[DOMAIN [i \in 1 .. n |-> i]]
    BY DEF Times, FoldLeft, MapThenFoldSet
  <2>2. \A y : startRecord(y) = [y EXCEPT !["nbBlocks"] = y["nbBlocks"] + 1]
    BY DEF startRecord, SimpleStats!startRecord
  <2>3. DOMAIN [i \in 1 .. n |-> i] = 1 .. n
    OBVIOUS
  <2>4. \A it : is(it) <=> CountEquation(it, x, "nbBlocks", 1 .. n)
    BY <2>2, <2>3 DEF CountEquation
  <2>5. "nbBlocks" \in Fields
    OBVIOUS
  <2> HIDE DEF is, Fields
  <2>6. is(it0)
    BY <1>2, <2>4, <2>5, CountingFold
  <2> HIDE DEF it0
  <2>7. it0[1 .. n] = [x EXCEPT !["nbBlocks"] = x["nbBlocks"] + n]
    BY <1>2, <2>4, <2>5, <2>6, CountingFold
  <2>8. QED
    BY <2>1, <2>3, <2>7
<1>3. ASSUME NEW x \in [Fields -> Nat], NEW n \in Nat
      PROVE  Times(n, startBlockFile, x) = [x EXCEPT !.nbBlockFiles = x.nbBlockFiles + n]
  <2> DEFINE is(it) == it = [s \in SUBSET DOMAIN [i \in 1 .. n |-> i] |->
                               IF s = {} THEN x ELSE startBlockFile(it[s \ {Max(s)}])]
             it0 == CHOOSE it : is(it)
  <2>1. Times(n, startBlockFile, x) = it0[DOMAIN [i \in 1 .. n |-> i]]
    BY DEF Times, FoldLeft, MapThenFoldSet
  <2>2. \A y : startBlockFile(y) = [y EXCEPT !["nbBlockFiles"] = y["nbBlockFiles"] + 1]
    BY DEF startBlockFile, SimpleStats!startBlockFile
  <2>3. DOMAIN [i \in 1 .. n |-> i] = 1 .. n
    OBVIOUS
  <2>4. \A it : is(it) <=> CountEquation(it, x, "nbBlockFiles", 1 .. n)
    BY <2>2, <2>3 DEF CountEquation
  <2>5. "nbBlockFiles" \in Fields
    OBVIOUS
  <2> HIDE DEF is, Fields
  <2>6. is(it0)
    BY <1>3, <2>4, <2>5, CountingFold
  <2> HIDE DEF it0
  <2>7. it0[1 .. n] = [x EXCEPT !["nbBlockFiles"] = x["nbBlockFiles"] + n]
    BY <1>3, <2>4, <2>5, <2>6, CountingFold
  <2>8. QED
    BY <2>1, <2>3, <2>7
<1>4. self \in [Fields -> Nat]
  BY DEF StatsObject
<1>5. PICK x, n, k : /\ x = [self EXCEPT !.nbBlockFiles = k]
                     /\ k = self.nbBlockFiles + gCallback.files /\ n = gCallback.records
  OBVIOUS
<1>6. k \in Nat /\ n \in Nat
  BY <1>1, <1>5 DEF StatsObject
<1>7. x \in [Fields -> Nat] /\ x.nbBlocks = self.nbBlocks
  BY <1>4, <1>5, <1>6
<1> HIDE DEF Fields
<1>8. Times(gCallback.files, startBlockFile, self) = x
  BY <1>1, <1>3, <1>4, <1>5
<1>9. self' = Times(n, startRecord, x)
  BY <1>5, <1>8 DEF Headers
<1>10. self' = [x EXCEPT !.nbBlocks = self.nbBlocks + n]
  BY <1>2, <1>6, <1>7, <1>9
<1>11. QED
  BY <1>5, <1>10

LEMMA InitCountsInv == CmdInit => CountsInv
<1> SUFFICES ASSUME CmdInit, command = "simpleStats" PROVE CountsInv
  BY DEF CountsInv
<1>1. /\ self = [volume |-> 0, nbBlocks |-> 0, nbInputs |-> 0, nbOutputs |-> 0,
                 nbBlockFiles |-> 0, nbValidBlocks |-> 0, nbTransactions |-> 0,
                 maxInputCountInTx |-> 0, tmpMaxInputCountInTx |-> 0]
      /\ chain = <<>> /\ height = 0 /\ loop = "headers"
  BY DEF CmdInit, initObject, SimpleStats!init
<1>2. Len(chain) = 0 /\ DOMAIN chain = {} /\ BeforeLast = {}
  BY <1>1 DEF BeforeLast
<1>3. SumOf(Lengths) = 0 /\ SumOf(Widths) = 0 /\ SumOf(Volumes) = 0
  BY <1>2, SumOfNone DEF Lengths, Widths, Volumes
<1>4. self \in StatsObject
  BY <1>1 DEF StatsObject
<1>5. LargestInv
  BY <1>1, <1>2 DEF LargestInv
<1>6. QED
  BY <1>1, <1>2, <1>3, <1>4, <1>5 DEF CountsInv

LEMMA CountsStartStep ==
  ASSUME IndInv, HistoryInv, TxoInv, CountsInv, command = "simpleStats", Starts
  PROVE  CountsInv'
<1>1. PICK hash \in TxHash, ins \in Seq(Outpoint \union {GenInput}) :
          IsStart(hash, ins) /\ (IsNew(hash, ins) \/ IsRepeated(hash, ins))
  BY StartCases DEF HistoryInv, Starts
<1>2. /\ self \in StatsObject /\ LargestInv /\ self.nbValidBlocks = height
      /\ self.nbTransactions = Len(chain)
      /\ loop # "headers" /\ loop' # "headers" /\ gCallback' = gCallback
  BY <1>1 DEF CountsInv, IsStart, Starts, StartBlock, StartBlockRepeated, StartOther
<1>3. PICK h, n, top : /\ h = height' /\ n = self.nbTransactions + 1
                       /\ top = IF self.tmpMaxInputCountInTx > self.maxInputCountInTx
                                THEN self.tmpMaxInputCountInTx ELSE self.maxInputCountInTx
  OBVIOUS
<1>4. h \in Nat /\ n \in Nat /\ top \in Nat
  BY <1>1, <1>2, <1>3, SessionTypes DEF StatsObject, IsStart, HistoryInv, LoopInv
<1>5. self' = [self EXCEPT !.nbValidBlocks = h, !.nbTransactions = n,
                           !.maxInputCountInTx = top, !.tmpMaxInputCountInTx = 0]
  <2>1. PICK y : y = [self EXCEPT !.nbValidBlocks = h]
    OBVIOUS
  <2>2. self' = SimpleStats!startTX(y)
    <3>1. CASE \/ \E scripts \in Scripts : StartBlock(scripts)
               \/ \E x \in coinbases : StartBlockRepeated(x)
      <4>1. h = height + 1 /\ self' = CallStartTX(startBlock(self, height + 1))
        BY <1>3, <3>1 DEF StartBlock, StartBlockRepeated
      <4>2. startBlock(self, height + 1) = y
        BY <1>2, <2>1, <4>1 DEF startBlock, SimpleStats!startBlock
      <4>3. QED
        BY <4>1, <4>2 DEF CallStartTX, startInputs, startTX
    <3>2. CASE \E s \in {s \in SeqOf(coins, MaxInputs) : s # <<>>}, scripts \in Scripts :
                  StartOther(s, scripts)
      <4>1. h = height /\ self' = CallStartTX(self)
        BY <1>3, <3>2 DEF StartOther
      <4>2. self = y
        BY <1>2, <2>1, <4>1 DEF StatsObject
      <4>3. QED
        BY <4>1, <4>2 DEF CallStartTX, startInputs, startTX
    <3>3. QED
      BY <3>1, <3>2 DEF Starts
  <2>3. /\ y.nbTransactions = self.nbTransactions
        /\ y.maxInputCountInTx = self.maxInputCountInTx
        /\ y.tmpMaxInputCountInTx = self.tmpMaxInputCountInTx
    BY <1>2, <2>1 DEF StatsObject
  <2>4. self' = [y EXCEPT !.nbTransactions = n, !.maxInputCountInTx = top,
                          !.tmpMaxInputCountInTx = 0]
    BY <1>3, <2>2, <2>3 DEF SimpleStats!startTX
  <2>5. QED
    BY <2>1, <2>4
<1>6. /\ self' \in StatsObject /\ self'.nbValidBlocks = h /\ self'.nbTransactions = n
      /\ self'.maxInputCountInTx = top /\ self'.tmpMaxInputCountInTx = 0
      /\ self'.nbBlocks = self.nbBlocks /\ self'.nbInputs = self.nbInputs
      /\ self'.nbOutputs = self.nbOutputs /\ self'.volume = self.volume
  BY <1>2, <1>4, <1>5 DEF StatsObject
<1>7. LargestInv'
  BY <1>1, <1>2, <1>3, <1>6, LargestAtStart
<1>8. /\ SumOf(Lengths)' = SumOf(Lengths) /\ SumOf(Widths)' = SumOf(Widths)
      /\ SumOf(Volumes)' = SumOf(Volumes)
  BY <1>1, SumsAtStart
<1>9. Len(chain') = Len(chain) + 1
  BY <1>1, ChainAppended DEF HistoryInv
<1>10. StatsObject' = StatsObject
  BY DEF StatsObject
<1>11. QED
  BY <1>2, <1>3, <1>6, <1>7, <1>8, <1>9, <1>10 DEF CountsInv

LEMMA CountsInputStep ==
  ASSUME IndInv, HistoryInv, TxoInv, CountsInv, command = "simpleStats",
         GenInputCalls \/ InputCalls
  PROVE  CountsInv'
<1>1. self' = SimpleStats!startInput(self)
  BY DEF GenInputCalls, InputCalls, startInput, edgeCall
<1>2. /\ self \in StatsObject /\ LargestInv
      /\ gCallback' = gCallback /\ height' = height /\ chain' = chain
      /\ loop # "headers" /\ loop' # "headers"
  BY DEF CountsInv, GenInputCalls, InputCalls, Unless
<1>3. PICK l, t : /\ l = self.nbInputs + 1 /\ t = self.tmpMaxInputCountInTx + 1
                  /\ l \in Nat /\ t \in Nat
  BY <1>2 DEF StatsObject
<1>4. self' = [self EXCEPT !.nbInputs = l, !.tmpMaxInputCountInTx = t]
  BY <1>1, <1>3 DEF SimpleStats!startInput
<1>5. /\ self' \in StatsObject /\ self'.nbInputs = l /\ self'.tmpMaxInputCountInTx = t
      /\ self'.maxInputCountInTx = self.maxInputCountInTx
      /\ self'.nbValidBlocks = self.nbValidBlocks
      /\ self'.nbTransactions = self.nbTransactions
      /\ self'.nbBlocks = self.nbBlocks
      /\ self'.nbOutputs = self.nbOutputs /\ self'.volume = self.volume
  BY <1>2, <1>3, <1>4 DEF StatsObject
<1>6. LargestInv'
  BY <1>2, <1>3, <1>5, LargestAtInput
<1>7. /\ SumOf(Lengths)' = SumOf(Lengths) + 1
      /\ SumOf(Widths)' = SumOf(Widths) /\ SumOf(Volumes)' = SumOf(Volumes)
  BY SumsAtInput
<1>8. StatsObject' = StatsObject
  BY DEF StatsObject
<1>9. QED
  BY <1>2, <1>3, <1>5, <1>6, <1>7, <1>8 DEF CountsInv

LEMMA CountsOutputStep ==
  ASSUME IndInv, IndInv', HistoryInv, HistoryInv', TxoInv, TxoInv', CountsInv,
         command = "simpleStats", OutputCalls
  PROVE  CountsInv'
<1>1. PICK v : v = txo[<<tx.hash, tx'.outs>>].value
  OBVIOUS
<1>2. /\ SumOf(Lengths)' = SumOf(Lengths) /\ SumOf(Widths)' = SumOf(Widths) + 1
      /\ SumOf(Volumes)' = SumOf(Volumes) + v /\ v \in Nat
  BY <1>1, SumsAtOutput
<1>3. /\ self \in StatsObject /\ LargestInv
      /\ gCallback' = gCallback /\ height' = height /\ chain' = chain
      /\ loop # "headers" /\ loop' # "headers"
  BY DEF CountsInv, OutputCalls, Unless
<1>4. self' = SimpleStats!endOutput(SimpleStats!startOutput(self), v)
  BY <1>1 DEF OutputCalls, endOutput, startOutput
<1>5. PICK l, w : l = self.nbOutputs + 1 /\ w = self.volume + v /\ l \in Nat /\ w \in Nat
  BY <1>2, <1>3 DEF StatsObject
<1>6. self' = [self EXCEPT !.nbOutputs = l, !.volume = w]
  <2>1. PICK x : x = [self EXCEPT !.nbOutputs = l]
    OBVIOUS
  <2>2. x.volume = self.volume
    BY <1>3, <2>1 DEF StatsObject
  <2>3. self' = [x EXCEPT !.volume = w]
    BY <1>4, <1>5, <2>1, <2>2 DEF SimpleStats!endOutput, SimpleStats!startOutput
  <2>4. QED
    BY <2>1, <2>3
<1>7. /\ self' \in StatsObject /\ self'.nbOutputs = l /\ self'.volume = w
      /\ self'.tmpMaxInputCountInTx = self.tmpMaxInputCountInTx
      /\ self'.maxInputCountInTx = self.maxInputCountInTx
      /\ self'.nbValidBlocks = self.nbValidBlocks
      /\ self'.nbTransactions = self.nbTransactions
      /\ self'.nbBlocks = self.nbBlocks /\ self'.nbInputs = self.nbInputs
  BY <1>3, <1>5, <1>6 DEF StatsObject
<1>8. LargestInv'
  BY <1>3, <1>7, LargestElsewhere DEF ReadsNone
<1>9. StatsObject' = StatsObject
  BY DEF StatsObject
<1>10. QED
  BY <1>2, <1>3, <1>5, <1>7, <1>8, <1>9 DEF CountsInv

LEMMA CountsQuietStep ==
  ASSUME IndInv, HistoryInv, TxoInv, CountsInv, command = "simpleStats",
         \/ Headers \/ StartOutputsCalls \/ EndTXCalls \/ EndBlock \/ EndOfChain \/ Wrapup
         \/ WriteToClosedFile \/ Over \/ UNCHANGED allVars
  PROVE  CountsInv'
<1>1. MakesNone /\ ReadsNone
  BY DEF MakesNone, ReadsNone
<1>2. UNCHANGED <<gCallback, height, chain>>
  BY <1>1, MadeElsewhere
<1>3. self \in StatsObject /\ LargestInv /\ gCallback.records \in Nat /\ gCallback.files \in Nat
  BY SessionTypes DEF CountsInv, HistoryInv, LoopInv
<1>4. /\ self' \in StatsObject /\ self'.nbOutputs = self.nbOutputs
      /\ self'.volume = self.volume
      /\ self'.tmpMaxInputCountInTx = self.tmpMaxInputCountInTx
      /\ self'.maxInputCountInTx = self.maxInputCountInTx
      /\ self'.nbValidBlocks = self.nbValidBlocks
      /\ self'.nbTransactions = self.nbTransactions
      /\ self'.nbInputs = self.nbInputs
      /\ self'.nbBlocks = IF loop' = "headers" THEN 0 ELSE gCallback.records
  <2>1. CASE Headers
    <3>1. loop = "headers" /\ loop' = "between"
      BY <2>1 DEF Headers
    <3>2. PICK f, b : /\ f = self.nbBlockFiles + gCallback.files /\ f \in Nat
                      /\ b = self.nbBlocks + gCallback.records /\ b \in Nat
      BY <1>3 DEF StatsObject
    <3>3. self' = [self EXCEPT !.nbBlockFiles = f, !.nbBlocks = b]
      BY <1>3, <2>1, <3>2, StatsHeaders DEF HistoryInv, LoopInv
    <3>4. b = gCallback.records
      BY <1>3, <3>1, <3>2 DEF CountsInv
    <3>5. QED
      BY <1>3, <3>1, <3>2, <3>3, <3>4 DEF StatsObject
  <2>2. CASE ~ Headers
    <3>1. self' = self /\ (loop' = "headers" <=> loop = "headers")
      BY <2>2 DEF StartOutputsCalls, EndTXCalls, EndBlock, EndOfChain, Wrapup,
         WriteToClosedFile, Over, endInputs, endTX, endBlock, wrapup, allVars
    <3>2. QED
      BY <1>3, <3>1 DEF CountsInv
  <2>3. QED
    BY <2>1, <2>2
<1>5. LargestInv'
  BY <1>1, <1>3, <1>4, LargestElsewhere
<1>6. /\ SumOf(Lengths)' = SumOf(Lengths) /\ SumOf(Widths)' = SumOf(Widths)
      /\ SumOf(Volumes)' = SumOf(Volumes)
  BY <1>1, SumsElsewhere
<1>7. StatsObject' = StatsObject
  BY DEF StatsObject
<1>8. QED
  BY <1>2, <1>4, <1>5, <1>6, <1>7 DEF CountsInv

LEMMA NextCountsInv ==
  ASSUME IndInv, IndInv', HistoryInv, HistoryInv', TxoInv, TxoInv', CountsInv,
         [CmdNext]_allVars
  PROVE  CountsInv'
<1>1. gCallback' = gCallback
  BY SameCommand
<1>2. CASE command # "simpleStats"
  BY <1>1, <1>2 DEF CountsInv
<1>3. CASE command = "simpleStats"
  <2>1. CASE Starts
    BY <1>3, <2>1, CountsStartStep
  <2>2. CASE GenInputCalls \/ InputCalls
    BY <1>3, <2>2, CountsInputStep
  <2>3. CASE OutputCalls
    BY <1>3, <2>3, CountsOutputStep
  <2>4. CASE MakesNone /\ ~ (GenInputCalls \/ InputCalls)
    BY <1>3, <2>4, CountsQuietStep DEF MakesNone
  <2>5. QED
    BY <2>1, <2>2, <2>3, <2>4, StepCases
<1>4. QED
  BY <1>2, <1>3

-----------------------------------------------------------------------------
(* txInputs: the rows of the table, as long as no transaction starts.      *)

LEMMA DataOfWhole ==
  ASSUME IndInv, HistoryInv, NEW i \in DOMAIN chain, i # Len(chain) \/ pc = "tx"
  PROVE  /\ Len(Outputs(i)) = NbMade(i)
         /\ DataOf(i) = [nbInputs |-> Len(Inputs_(i)), nbOutputs |-> NbMade(i),
                         volume |-> SumOf(Values(i))]
<1>1. PICK n : n = nbOutputs[chain[i].hash] /\ NbMade(i) = n
  BY DEF NbMade
<1>2. n \in Nat
  BY <1>1, MadeType
<1>3. PICK s : s = Outputs(i) /\ s = [k \in 1 .. n |-> <<chain[i].hash, k>>]
  BY <1>1 DEF Outputs
<1>4. Len(s) = n
  BY <1>2, <1>3
<1>5. QED
  BY <1>1, <1>3, <1>4 DEF DataOf

LEMMA DataKept ==
  ASSUME NEW i, chain'[i] = chain[i], NbMade(i)' = NbMade(i), Values(i)' = Values(i),
         i # Len(chain) \/ pc = "tx", i # Len(chain') \/ pc' = "tx"
  PROVE  DataOf(i)' = DataOf(i)
<1>1. nbOutputs'[chain[i].hash] = nbOutputs[chain[i].hash]
  BY DEF NbMade
<1>2. Len(Outputs(i))' = Len(Outputs(i))
  BY <1>1 DEF Outputs
<1>3. Len(Inputs_(i))' = Len(Inputs_(i))
  BY DEF Inputs_
<1>4. QED
  BY <1>2, <1>3 DEF DataOf

LEMMA RecordStays ==
  ASSUME NEW e, NEW i, IsRecordOf(e, i), chain'[i] = chain[i], DataOf(i)' = DataOf(i),
         NEW h, h = chain[i].hash,
         h \in Entries' => h \in Entries /\ KeyCell(h)' = KeyCell(h)
  PROVE  IsRecordOf(e, i)'
<1>1. e.place = h /\ e.val = DataOf(i) /\ (h \in Entries => e.key = KeyCell(h))
  BY DEF IsRecordOf
<1>2. h \in Entries' => e.key = KeyCell(h)'
  BY <1>1
<1>3. QED
  BY <1>1, <1>2 DEF IsRecordOf

(* The entries keep their keys, and none is made for a hash of H. *)
KeysKept(H) ==
  \A x \in H : x \in Entries' => x \in Entries /\ KeyCell(x)' = KeyCell(x)

LEMMA RecordsTableKept ==
  ASSUME IndInv, HistoryInv, RecordsTable, chain' = chain, self'.txMap = self.txMap,
         \A i \in BeforeLast : NbMade(i)' = NbMade(i) /\ Values(i)' = Values(i),
         NEW H, H = {chain[i].hash : i \in BeforeLast}, KeysKept(H)
  PROVE  RecordsTable'
<1>1. PICK map : map = self.txMap
  OBVIOUS
<1>2. /\ Records' = Records /\ BeforeLast' = BeforeLast
      /\ Records \subseteq BeforeLast
  BY DEF Records, HasMost, BeforeLast, Inputs_
<1>3. ASSUME NEW i \in BeforeLast, NEW e, IsRecordOf(e, i)
      PROVE  IsRecordOf(e, i)'
  <2>1. i # Len(chain) /\ i # Len(chain')
    <3>1. Len(chain) \in Nat /\ i \in 1 .. Len(chain) - 1
      BY <1>3, InputsAreCounted DEF BeforeLast
    <3>2. i # Len(chain)
      BY <3>1
    <3>3. QED
      BY <3>2
  <2>2. DataOf(i)' = DataOf(i)
    BY <1>3, <2>1, DataKept
  <2>3. PICK h : h = chain[i].hash /\ h \in H
    BY <1>3
  <2>4. h \in Entries' => h \in Entries /\ KeyCell(h)' = KeyCell(h)
    BY <2>3 DEF KeysKept
  <2>5. QED
    BY <1>3, <2>2, <2>3, <2>4, RecordStays
<1>4. \A i \in Records : \E k \in DOMAIN map : IsRecordOf(map[k], i)'
  BY <1>1, <1>2, <1>3 DEF RecordsTable
<1>5. \A k \in DOMAIN map : \E i \in Records : IsRecordOf(map[k], i)'
  BY <1>1, <1>2, <1>3 DEF RecordsTable
<1>6. self'.txMap = map
  BY <1>1
<1>7. QED
  BY <1>2, <1>4, <1>5, <1>6 DEF RecordsTable

LEMMA KeysKeptByStep ==
  ASSUME IndInv, HistoryInv, NEW H, H = {chain[i].hash : i \in BeforeLast},
         OutputCalls \/ MakesNone
  PROVE  KeysKept(H)
<1>0. H \subseteq TxHash
  <2>1. BeforeLast \subseteq DOMAIN chain
    BY InputsAreCounted DEF BeforeLast
  <2>2. QED
    BY <2>1, MadeType
<1>1. CASE InputCalls
  <2>1. PICK u : u = upTXHash
    OBVIOUS
  <2>2. /\ u \in Entries
        /\ \A x \in TxHash \ {u} : PlaceKept(x)
        /\ u \in Entries' => KeyCell(u)' = KeyCell(u)
    BY <1>1, <2>1, PlacesAfterInput
  <2>3. QED
    BY <1>0, <2>2 DEF KeysKept, PlaceKept
<1>2. CASE StartOutputsCalls
  <2>1. PICK h : h = tx.hash
    OBVIOUS
  <2>2. /\ \A x \in TxHash \ {h} : PlaceKept(x)
        /\ KeyCell(h)' = IF h \in Entries THEN KeyCell(h) ELSE tx.cell
        /\ h \in Entries <=> \E i \in Read : chain[i].hash = h
    BY <1>2, <2>1, PlacesAtOutputs
  <2>3. h \in H => h \in Entries
    <3>1. BeforeLast \subseteq Read
      BY InputsAreCounted DEF BeforeLast, Read
    <3>2. QED
      BY <2>2, <3>1
  <2>4. QED
    BY <1>0, <2>2, <2>3 DEF KeysKept, PlaceKept
<1>3. CASE ~ InputCalls /\ ~ StartOutputsCalls
  <2>1. gTXOMap' = gTXOMap
    BY <1>3 DEF MakesNone, Headers, GenInputCalls, OutputCalls, EndTXCalls, EndBlock,
       EndOfChain, Wrapup, WriteToClosedFile, Over, ParseGenInput, ParseOutput, EndTX, vars
  <2>2. QED
    BY <2>1 DEF KeysKept, Entries, KeyCell
<1>4. QED
  BY <1>1, <1>2, <1>3

LEMMA InitRecordsInv == CmdInit => RecordsInv
<1> SUFFICES ASSUME CmdInit, command = "txInputs" PROVE RecordsInv
  BY DEF RecordsInv
<1>1. /\ self = [txMap |-> <<>>, maxInputCountInTx |-> 0, tmpTxHash |-> 0,
                 tmpMaxInputCountInTx |-> 0, tmpOutputs |-> 0, tmpVolume |-> 0]
      /\ chain = <<>>
  BY DEF CmdInit, initObject, TxInputs!init
<1>2. DOMAIN chain = {} /\ BeforeLast = {} /\ Records = {}
  BY <1>1 DEF BeforeLast, Records, HasMost
<1>3. self \in RecordsObject
  BY <1>1 DEF RecordsObject
<1>4. LargestInv
  BY <1>1, <1>2 DEF LargestInv
<1>5. RecordsLocals /\ RecordsTable
  BY <1>1, <1>2 DEF RecordsLocals, RecordsTable
<1>6. QED
  BY <1>3, <1>4, <1>5 DEF RecordsInv

(* What the steps that only count leave of the object. *)
RecordsSame ==
  /\ self'.txMap = self.txMap /\ self'.maxInputCountInTx = self.maxInputCountInTx

LEMMA RecordsInputStep ==
  ASSUME IndInv, HistoryInv, RecordsInv, command = "txInputs",
         GenInputCalls \/ InputCalls
  PROVE  RecordsInv'
<1>1. self' = TxInputs!startInput(self)
  BY DEF GenInputCalls, InputCalls, startInput, edgeCall
<1>2. /\ self \in RecordsObject /\ LargestInv /\ RecordsLocals /\ RecordsTable
      /\ gCallback' = gCallback /\ chain' = chain /\ pc' = pc /\ pc = "inputs"
  BY ParsedAtInput DEF RecordsInv
<1>3. PICK t : t = self.tmpMaxInputCountInTx + 1 /\ t \in Nat
  BY <1>2 DEF RecordsObject
<1>4. self' = [self EXCEPT !.tmpMaxInputCountInTx = t]
  BY <1>1, <1>3 DEF TxInputs!startInput
<1>5. /\ self' \in RecordsObject /\ RecordsSame /\ self'.tmpMaxInputCountInTx = t
      /\ self'.tmpOutputs = self.tmpOutputs /\ self'.tmpVolume = self.tmpVolume
  BY <1>2, <1>3, <1>4 DEF RecordsObject, RecordsSame
<1>6. LargestInv'
  BY <1>2, <1>3, <1>5, LargestAtInput DEF RecordsSame
<1>7. MakesNone
  BY DEF MakesNone
<1>8. \A i \in DOMAIN chain : NbMade(i)' = NbMade(i) /\ Values(i)' = Values(i)
  BY <1>7, MadeElsewhere, ValuesElsewhere
<1>9. RecordsTable'
  <2>1. BeforeLast \subseteq DOMAIN chain
    BY InputsAreCounted DEF BeforeLast
  <2>2. KeysKept({chain[i].hash : i \in BeforeLast})
    BY <1>7, KeysKeptByStep
  <2>3. QED
    BY <1>2, <1>5, <1>8, <2>1, <2>2, RecordsTableKept DEF RecordsSame
<1>10. RecordsLocals'
  <2>1. PICK n : n = Len(chain)
    OBVIOUS
  <2>2. n \in DOMAIN chain /\ chain # <<>>
    BY <2>1, ParsedAtInput
  <2>3. self'.tmpOutputs = NbMade(n)' /\ self'.tmpVolume = SumOf(Values(n))'
    BY <1>2, <1>5, <1>8, <2>1, <2>2 DEF RecordsLocals
  <2>4. pc' # "outputs" /\ pc' # "tx"
    BY <1>2
  <2>5. Len(chain') = n /\ chain' # <<>>
    BY <1>2, <2>1, <2>2
  <2>6. QED
    BY <2>3, <2>4, <2>5 DEF RecordsLocals
<1>11. RecordsObject' = RecordsObject
  BY DEF RecordsObject
<1>12. QED
  BY <1>2, <1>5, <1>6, <1>9, <1>10, <1>11 DEF RecordsInv

(* Two transactions of one hash are minted, and have one input each. *)
LEMMA RepeatsAreShort ==
  ASSUME IndInv, HistoryInv, NEW i \in DOMAIN chain, NEW j \in DOMAIN chain, i < j,
         chain[i].hash = chain[j].hash
  PROVE  Len(Inputs_(i)) = 1 /\ Len(Inputs_(j)) = 1
<1>1. chain[i].hash \in coinbases /\ chain[j].hash \in coinbases
  BY DEF HistoryInv, ChainInv
<1>2. IsMinted(i) /\ IsMinted(j)
  BY <1>1 DEF HistoryInv, ChainInv
<1>3. QED
  BY <1>2 DEF IsMinted, Inputs_

LEMMA EveryoneHasInputs ==
  ASSUME IndInv, HistoryInv, NEW i \in DOMAIN chain
  PROVE  Len(Inputs_(i)) \in Nat \ {0}
<1>1. IsMinted(i) \/ (chain[i].ins \in Seq(Outpoint) /\ chain[i].ins # <<>>)
  BY DEF HistoryInv, ChainInv
<1>2. CASE IsMinted(i)
  BY <1>2 DEF IsMinted, Inputs_
<1>3. CASE chain[i].ins \in Seq(Outpoint) /\ chain[i].ins # <<>>
  BY <1>3 DEF Inputs_
<1>4. QED
  BY <1>1, <1>2, <1>3

(* One that would be a record is not a repetition. *)
LEMMA RecordsAreNew ==
  ASSUME IndInv, HistoryInv, LargestInv, NEW n, n = Len(chain), n \in Read,
         self.tmpMaxInputCountInTx > self.maxInputCountInTx,
         NEW i \in BeforeLast
  PROVE  chain[i].hash # chain[n].hash
<1> SUFFICES ASSUME chain[i].hash = chain[n].hash PROVE FALSE
  OBVIOUS
<1>1. i \in DOMAIN chain /\ n \in DOMAIN chain /\ i < n
  BY InputsAreCounted DEF BeforeLast, Read
<1>2. Len(Inputs_(i)) = 1 /\ Len(Inputs_(n)) = 1
  BY <1>1, RepeatsAreShort
<1>3. self.tmpMaxInputCountInTx = 1
  BY <1>1, <1>2, InputsAreCounted DEF LargestInv
<1>4. 1 <= self.maxInputCountInTx
  BY <1>2 DEF LargestInv
<1>5. self.maxInputCountInTx \in Nat
  <2>1. BeforeLast \subseteq DOMAIN chain
    BY InputsAreCounted DEF BeforeLast
  <2>2. QED
    BY <2>1, InputsAreCounted DEF LargestInv
<1>6. QED
  BY <1>3, <1>4, <1>5

LEMMA RecordsOutputStep ==
  ASSUME IndInv, IndInv', HistoryInv, HistoryInv', TxoInv, TxoInv', RecordsInv,
         command = "txInputs", OutputCalls
  PROVE  RecordsInv'
<1>1. PICK v, n : v = txo[<<tx.hash, tx'.outs>>].value /\ n = Len(chain)
  OBVIOUS
<1>2. /\ SumOf(Values(n))' = SumOf(Values(n)) + v /\ v \in Nat
      /\ \A i \in DOMAIN chain \ {n} : Values(i)' = Values(i)
  BY <1>1, ValuesAtOutput
<1>3. /\ n \in DOMAIN chain /\ chain' = chain /\ NbMade(n)' = NbMade(n) + 1
      /\ \A i \in DOMAIN chain \ {n} : NbMade(i)' = NbMade(i)
      /\ pc = "outputs" /\ pc' = pc /\ tx'.hash = tx.hash /\ gCallback' = gCallback
  BY <1>1, MadeAtOutput
<1>4. self \in RecordsObject /\ LargestInv /\ RecordsLocals /\ RecordsTable
  BY DEF RecordsInv
<1>5. self' = TxInputs!endOutput(TxInputs!startOutput(self), tx.cell, v)
  BY <1>1 DEF OutputCalls, endOutput, startOutput
<1>6. PICK l, w, c : /\ l = self.tmpOutputs + 1 /\ w = self.tmpVolume + v /\ c = tx.cell
                     /\ l \in Nat /\ w \in Nat /\ c \in 0 .. MaxTxs
  <2>1. tx.cell \in 0 .. MaxTxs
    BY DEF IndInv, TypeOK
  <2>2. self.tmpOutputs \in Nat /\ self.tmpVolume \in Nat
    BY <1>4 DEF RecordsObject
  <2>3. QED
    BY <1>2, <2>1, <2>2
<1>7. self' = [self EXCEPT !.tmpOutputs = l, !.tmpVolume = w, !.tmpTxHash = c]
  <2>1. PICK x : x = [self EXCEPT !.tmpOutputs = l]
    OBVIOUS
  <2>2. x.tmpVolume = self.tmpVolume
    BY <1>4, <2>1 DEF RecordsObject
  <2>3. self' = [x EXCEPT !.tmpVolume = w, !.tmpTxHash = c]
    BY <1>5, <1>6, <2>1, <2>2 DEF TxInputs!endOutput, TxInputs!startOutput
  <2>4. QED
    BY <2>1, <2>3
<1>8. /\ self' \in RecordsObject /\ RecordsSame
      /\ self'.tmpOutputs = l /\ self'.tmpVolume = w /\ self'.tmpTxHash = c
      /\ self'.tmpMaxInputCountInTx = self.tmpMaxInputCountInTx
  BY <1>4, <1>6, <1>7 DEF RecordsObject, RecordsSame
<1>9. LargestInv'
  BY <1>4, <1>8, LargestElsewhere DEF ReadsNone, RecordsSame
<1>10. RecordsTable'
  <2>1. BeforeLast \subseteq DOMAIN chain \ {n}
    BY <1>1, InputsAreCounted DEF BeforeLast
  <2>2. KeysKept({chain[i].hash : i \in BeforeLast})
    BY KeysKeptByStep
  <2>3. QED
    BY <1>2, <1>3, <1>4, <1>8, <2>1, <2>2, RecordsTableKept DEF RecordsSame
<1>11. RecordsLocals'
  <2>1. chain # <<>> /\ Len(chain') = n /\ chain' # <<>>
    BY <1>1, <1>3
  <2>2. self.tmpOutputs = NbMade(n) /\ self.tmpVolume = SumOf(Values(n))
    BY <1>1, <1>4, <2>1 DEF RecordsLocals
  <2>3. self'.tmpOutputs = NbMade(n)'
    BY <1>3, <1>6, <1>8, <2>2
  <2>4. self'.tmpVolume = SumOf(Values(n))'
    BY <1>2, <1>6, <1>8, <2>2
  <2>5. KeyCell(tx.hash)' = KeyCell(tx.hash) /\ tx'.cell = tx.cell
    <3>1. tx' = [tx EXCEPT !.outs = tx.outs + 1] /\ gTXOMap' = gTXOMap /\ tx \in Txs
      BY DEF OutputCalls, ParseOutput, IndInv, Shapes
    <3>2. QED
      BY <1>3, <3>1 DEF KeyCell, Txs
  <2>6. ASSUME self'.tmpMaxInputCountInTx > self'.maxInputCountInTx
        PROVE  KeyCell(tx.hash)' = tx'.cell /\ self'.tmpTxHash = tx'.cell
    <3>1. self.tmpMaxInputCountInTx > self.maxInputCountInTx
      BY <1>8, <2>6 DEF RecordsSame
    <3>2. KeyCell(tx.hash) = tx.cell
      BY <1>3, <1>4, <3>1 DEF RecordsLocals
    <3>3. QED
      BY <1>6, <1>8, <2>5, <3>2
  <2>7. pc' # "tx"
    BY <1>3
  <2>8. QED
    BY <2>1, <2>3, <2>4, <2>6, <2>7 DEF RecordsLocals
<1>12. RecordsObject' = RecordsObject
  BY DEF RecordsObject
<1>13. QED
  BY <1>3, <1>8, <1>9, <1>10, <1>11, <1>12 DEF RecordsInv

(* The steps in which txInputs does nothing. *)
LEMMA RecordsQuietStep ==
  ASSUME IndInv, HistoryInv, RecordsInv, command = "txInputs",
         \/ Headers \/ StartOutputsCalls \/ EndTXCalls \/ EndBlock \/ EndOfChain \/ Wrapup
         \/ WriteToClosedFile \/ Over \/ UNCHANGED allVars
  PROVE  RecordsInv'
<1>1. MakesNone /\ ReadsNone
  BY DEF MakesNone, ReadsNone
<1>2. UNCHANGED <<gCallback, chain>>
  BY <1>1, MadeElsewhere
<1>3. self \in RecordsObject /\ LargestInv /\ RecordsLocals /\ RecordsTable
  BY DEF RecordsInv
<1>4. self' = self
  <2>1. CASE Headers
    BY <2>1, HeadersCalls DEF HistoryInv, LoopInv
  <2>2. CASE ~ Headers
    BY <2>2 DEF StartOutputsCalls, EndTXCalls, EndBlock, EndOfChain, Wrapup,
       WriteToClosedFile, Over, endInputs, endTX, endBlock, wrapup, allVars
  <2>3. QED
    BY <2>1, <2>2
<1>5. LargestInv'
  BY <1>1, <1>3, <1>4, LargestElsewhere
<1>6. \A i \in DOMAIN chain : NbMade(i)' = NbMade(i) /\ Values(i)' = Values(i)
  BY <1>1, MadeElsewhere, ValuesElsewhere
<1>7. RecordsTable'
  <2>1. BeforeLast \subseteq DOMAIN chain
    BY InputsAreCounted DEF BeforeLast
  <2>2. KeysKept({chain[i].hash : i \in BeforeLast})
    BY <1>1, KeysKeptByStep
  <2>3. QED
    BY <1>2, <1>3, <1>4, <1>6, <2>1, <2>2, RecordsTableKept
<1>8. PICK n : n = Len(chain)
  OBVIOUS
<1>9. chain # <<>> => n \in DOMAIN chain
  BY <1>8, InputsAreCounted
<1>10. /\ self'.tmpOutputs = IF chain' = <<>> THEN 0 ELSE NbMade(n)'
       /\ self'.tmpVolume = IF chain' = <<>> THEN 0 ELSE SumOf(Values(n))'
  BY <1>2, <1>3, <1>4, <1>6, <1>8, <1>9 DEF RecordsLocals
<1>11. ASSUME self.tmpMaxInputCountInTx > self.maxInputCountInTx
       PROVE  /\ pc' = "outputs" => /\ KeyCell(tx.hash)' = tx'.cell
                                    /\ tx'.outs > 0 => self.tmpTxHash = tx'.cell
              /\ pc' = "tx" => /\ Last(chain)'.hash \in Entries'
                               /\ self.tmpTxHash = KeyCell(Last(chain).hash)'
  <2>1. CASE StartOutputsCalls
    <3>1. PICK h : h = tx.hash
      OBVIOUS
    <3>2. /\ pc = "inputs" /\ pc' = "outputs" /\ tx' = tx
          /\ KeyCell(h)' = IF h \in Entries THEN KeyCell(h) ELSE tx.cell
          /\ h \in Entries <=> \E i \in Read : chain[i].hash = h
      BY <2>1, <3>1, PlacesAtOutputs
    <3>3. n \in DOMAIN chain /\ h = chain[n].hash
      <4>1. Len(chain) = nbTxs /\ nbTxs \in Nat /\ nbTxs > 0 /\ Last(chain).hash = h
        BY <3>1, <3>2 DEF HistoryInv, ChainInv, LastInv, IndInv, TypeOK, LocalsAreSound,
           Parsing
      <4>2. QED
        BY <1>8, <4>1, InputsAreCounted DEF Last
    <3>4. h \notin Entries
      <4> SUFFICES ASSUME NEW i \in Read, chain[i].hash = h PROVE FALSE
        BY <3>2
      <4>1. i \in DOMAIN chain /\ i < n
        BY <1>8, <3>2 DEF Read
      <4>2. Len(Inputs_(i)) = 1 /\ Len(Inputs_(n)) = 1
        BY <3>3, <4>1, RepeatsAreShort
      <4>3. Parsed(n)' = Parsed(n) /\ Len(tx.ins) = 0 /\ n \notin Read
        BY <1>1, <1>8, <2>1, <3>2, <3>3, ParsedElsewhere
           DEF StartOutputsCalls, StartOutputs, Read
      <4>4. Parsed(n) = 1
        BY <4>2, <4>3 DEF Parsed
      <4>5. self.tmpMaxInputCountInTx = 1
        BY <1>3, <1>8, <3>3, <4>4 DEF LargestInv
      <4>6. i \in BeforeLast /\ 1 <= self.maxInputCountInTx
        <5>1. i \in BeforeLast
          BY <1>8, <4>1, InputsAreCounted DEF BeforeLast
        <5>2. QED
          BY <1>3, <4>2, <5>1 DEF LargestInv
      <4>7. self.maxInputCountInTx \in Nat
        BY <1>3 DEF RecordsObject
      <4>8. QED
        BY <1>11, <4>5, <4>6, <4>7
    <3>5. KeyCell(tx.hash)' = tx'.cell
      BY <3>1, <3>2, <3>4 DEF KeyCell
    <3>6. tx'.outs = 0
      BY <3>2 DEF IndInv, LocalsAreSound
    <3>7. QED
      BY <3>2, <3>5, <3>6
  <2>2. CASE EndTXCalls
    <3>1. /\ pc = "outputs" /\ pc' = "tx" /\ tx.outs = nbOutputs[tx.hash]
          /\ UNCHANGED <<gTXOMap, chain>>
      BY <2>2 DEF EndTXCalls, EndTX
    <3>2. /\ tx.hash = Last(chain).hash /\ tx.hash \in Entries
          /\ tx.hash \in 1 .. NbHashes /\ tx.hash \in TxHash
      BY <3>1 DEF HistoryInv, LastInv, Parsing, IndInv, LocalsAreSound, Entries
    <3>3. tx.outs > 0
      <4>1. tx.hash <= NbHashes
        BY <3>2, HashesAreCounted
      <4>2. QED
        BY <3>1, <3>2, <4>1 DEF IndInv, ChainIsSound
    <3>4. self.tmpTxHash = KeyCell(tx.hash)
      BY <1>3, <1>11, <3>1, <3>3 DEF RecordsLocals
    <3>5. QED
      BY <3>1, <3>2, <3>4 DEF Entries, KeyCell, Last
  <2>3. CASE ~ StartOutputsCalls /\ ~ EndTXCalls
    <3>1. UNCHANGED <<pc, tx, gTXOMap, chain>>
      BY <2>3 DEF Headers, EndBlock, EndOfChain, Wrapup, WriteToClosedFile, Over, vars
    <3>2. QED
      BY <1>3, <1>11, <3>1 DEF RecordsLocals, Entries, KeyCell, Last
  <2>4. QED
    BY <2>1, <2>2, <2>3
<1>12. RecordsLocals'
  <2>1. Len(chain') = n
    BY <1>2, <1>8
  <2>2. Last(chain') = Last(chain)'
    BY DEF Last
  <2>3. QED
    BY <1>4, <1>10, <1>11, <2>1 DEF RecordsLocals
<1>13. RecordsObject' = RecordsObject
  BY DEF RecordsObject
<1>14. QED
  BY <1>2, <1>3, <1>4, <1>5, <1>7, <1>12, <1>13 DEF RecordsInv

(* A start: the transaction before it is entered if it is a record. *)
LEMMA RecordsPutMisses ==
  ASSUME NEW map, NEW mem, NEW key \in Nat,
         NEW h, mem[key] = h, \A j \in DOMAIN map : map[j].place # h, NEW v
  PROVE  TxInputs!Put(map, mem, key, v) =
            Append(map, [place |-> h, key |-> key, val |-> v])
<1>1. TxInputs!Hits(map, mem, h) = {}
  BY DEF TxInputs!Hits
<1>2. ~ TxInputs!Has(map, mem, h)
  BY <1>1 DEF TxInputs!Has
<1>3. TxInputs!Spelt(mem, key) = h
  BY DEF TxInputs!Spelt
<1>4. QED
  BY <1>2, <1>3 DEF TxInputs!Put

LEMMA RecordsAtStart ==
  ASSUME IndInv, HistoryInv, LargestInv, NEW n, n = Len(chain), pc = "tx",
         Len(chain') = n + 1, \A i \in 1 .. n : chain'[i] = chain[i],
         NEW top, top = self.tmpMaxInputCountInTx, NEW big, big = self.maxInputCountInTx
  PROVE  /\ Records' = IF top > big THEN Records \union {n} ELSE Records
         /\ top > big => n \in DOMAIN chain
<1>1. /\ n \in Nat /\ DOMAIN chain = 1 .. n
      /\ \A i \in 1 .. n : Len(Inputs_(i)) \in Nat \ {0}
      /\ \A i \in 1 .. n : Len(Inputs_(i))' = Len(Inputs_(i))
  BY InputsAreCounted, EveryoneHasInputs DEF Inputs_
<1>2. BeforeLast = 1 .. n - 1 /\ BeforeLast' = 1 .. n
  BY <1>1 DEF BeforeLast
<1>3. n = 0 => top = 0
  BY <1>1, InputsAreCounted DEF LargestInv
<1>4. n # 0 => top = Len(Inputs_(n))
  <2>1. n # 0 => n \in Read /\ chain # <<>>
    BY <1>1 DEF Read
  <2>2. QED
    BY <2>1, InputsAreCounted DEF LargestInv
<1>5. /\ big \in {0} \union {Len(Inputs_(i)) : i \in 1 .. n - 1}
      /\ \A i \in 1 .. n - 1 : Len(Inputs_(i)) <= big
  BY <1>2 DEF LargestInv
<1>6. big \in Nat
  BY <1>1, <1>5
<1>7. PICK l : l = [i \in 1 .. n |-> Len(Inputs_(i))]
  OBVIOUS
<1>8. /\ Records = {i \in 1 .. n - 1 : \A j \in 1 .. i - 1 : l[j] < l[i]}
      /\ Records' = {i \in 1 .. n : \A j \in 1 .. i - 1 : l[j] < l[i]}
  <2>1. \A i \in 1 .. n : \A j \in 1 .. i - 1 : j \in 1 .. n
    BY <1>1
  <2>2. Records' = {i \in 1 .. n : \A j \in 1 .. i - 1 : l[j] < l[i]}
    BY <1>1, <1>2, <1>7, <2>1 DEF Records, HasMost
  <2>3. \A i \in 1 .. n - 1 : i \in 1 .. n
    BY <1>1
  <2>4. Records = {i \in 1 .. n - 1 : \A j \in 1 .. i - 1 : l[j] < l[i]}
    BY <1>1, <1>2, <1>7, <2>1, <2>3 DEF Records, HasMost
  <2>5. QED
    BY <2>2, <2>4
<1>9. CASE n = 0
  <2>1. 1 .. n = {} /\ 1 .. n - 1 = {} /\ ~ (top > big)
    BY <1>3, <1>6, <1>9
  <2>2. QED
    BY <1>8, <2>1
<1>10. CASE n # 0
  <2>1. /\ \A i \in 1 .. n : l[i] \in Nat \ {0}
        /\ top = l[n] /\ n \in 1 .. n /\ 1 .. n = (1 .. n - 1) \union {n}
    BY <1>1, <1>4, <1>7, <1>10
  <2>2. /\ big \in {0} \union {l[i] : i \in 1 .. n - 1}
        /\ \A i \in 1 .. n - 1 : l[i] <= big
    <3>1. \A i \in 1 .. n - 1 : l[i] = Len(Inputs_(i))
      BY <1>1, <1>7
    <3>2. QED
      BY <1>5, <3>1
  <2>3. top > big <=> \A j \in 1 .. n - 1 : l[j] < l[n]
    <3>0. top \in Nat \ {0} /\ \A j \in 1 .. n - 1 : l[j] \in Nat
      BY <2>1
    <3>1. ASSUME top > big, NEW j \in 1 .. n - 1 PROVE l[j] < l[n]
      BY <1>6, <2>1, <2>2, <3>0, <3>1
    <3>2. ASSUME \A j \in 1 .. n - 1 : l[j] < l[n] PROVE top > big
      <4>1. big = 0 \/ \E j \in 1 .. n - 1 : big = l[j]
        BY <2>2
      <4>2. QED
        BY <1>6, <2>1, <3>0, <3>2, <4>1
    <3>3. QED
      BY <3>1, <3>2
  <2>4. Records' = Records \union {i \in {n} : \A j \in 1 .. i - 1 : l[j] < l[i]}
    BY ONLY <1>8, <2>1
  <2>5. QED
    BY <1>1, <2>1, <2>3, <2>4
<1>11. QED
  BY <1>9, <1>10

LEMMA RecordsStartStep ==
  ASSUME IndInv, IndInv', HistoryInv, TxoInv, RecordsInv, command = "txInputs", Starts
  PROVE  RecordsInv'
<1>1. PICK hash \in TxHash, ins \in Seq(Outpoint \union {GenInput}) :
          IsStart(hash, ins) /\ (IsNew(hash, ins) \/ IsRepeated(hash, ins))
  BY StartCases DEF HistoryInv, Starts
<1>2. /\ self \in RecordsObject /\ LargestInv /\ RecordsLocals /\ RecordsTable
      /\ gCallback' = gCallback /\ gTXOMap' = gTXOMap /\ pc = "tx" /\ pc' = "inputs"
  BY <1>1 DEF RecordsInv, IsStart
<1>3. PICK n, m, map, key, top, big :
          /\ n = Len(chain) /\ m = n + 1 /\ map = self.txMap /\ key = self.tmpTxHash
          /\ top = self.tmpMaxInputCountInTx /\ big = self.maxInputCountInTx
  OBVIOUS
<1>4. /\ n \in Nat /\ DOMAIN chain = 1 .. n /\ Len(chain') = m /\ chain' # <<>>
      /\ \A i \in 1 .. n : chain'[i] = chain[i]
  <2>1. /\ Len(chain) \in Nat /\ DOMAIN chain = 1 .. Len(chain)
        /\ Len(chain') = Len(chain) + 1
        /\ \A i \in 1 .. Len(chain) : chain'[i] = chain[i]
    BY <1>1, ChainAppended DEF HistoryInv
  <2>2. chain' # <<>>
    BY <1>1 DEF IsStart, HistoryInv, ChainInv
  <2>3. QED
    BY <1>3, <2>1, <2>2
<1>5. PICK data : data = TxInputs!InputData(self)
  OBVIOUS
<1>6. self' = [self EXCEPT !.maxInputCountInTx = IF top > big THEN top ELSE big,
                           !.txMap = IF top > big
                                     THEN TxInputs!Put(map, hashCell', key, data) ELSE map,
                           !.tmpMaxInputCountInTx = 0,
                           !.tmpOutputs = 0, !.tmpVolume = 0]
  <2>1. self' = CallStartTX(self)
    BY DEF Starts, StartBlock, StartBlockRepeated, StartOther, startBlock
  <2>2. self' = TxInputs!startTX(self, hashCell')
    BY <2>1 DEF CallStartTX, startInputs, startTX
  <2>3. QED
    BY <1>2, <1>3, <1>5, <2>2 DEF TxInputs!startTX, TxInputs!IsRecord, RecordsObject
<1>7. \A i \in 1 .. n : NbMade(i)' = NbMade(i) /\ Values(i)' = Values(i)
  BY <1>1, <1>4, MadeAtStart, ValuesAtStart
<1>8. \A i \in 1 .. n : DataOf(i)' = DataOf(i)
  <2> TAKE i \in 1 .. n
  <2>1. i # Len(chain')
    BY <1>3, <1>4
  <2>2. QED
    BY <1>2, <1>4, <1>7, <2>1, DataKept
<1>9. /\ Records' = IF top > big THEN Records \union {n} ELSE Records
      /\ top > big => n \in DOMAIN chain
  BY <1>2, <1>3, <1>4, RecordsAtStart
<1>10. Records \subseteq 1 .. n - 1 /\ Records \subseteq 1 .. n
  BY <1>3, <1>4 DEF Records, HasMost, BeforeLast
<1>11. ASSUME NEW e, NEW i \in 1 .. n, IsRecordOf(e, i)
       PROVE  IsRecordOf(e, i)'
  <2>1. PICK h : h = chain[i].hash
    OBVIOUS
  <2>2. h \in Entries' => h \in Entries /\ KeyCell(h)' = KeyCell(h)
    BY <1>2 DEF Entries, KeyCell
  <2>3. QED
    BY <1>4, <1>8, <1>11, <2>1, <2>2, RecordStays
<1>12. map \in Seq([place : TxHash, key : 1 .. MaxTxs,
                    val : [nbInputs : Nat, nbOutputs : Nat, volume : Nat]])
  BY <1>2, <1>3 DEF RecordsObject
<1>13. top \in Nat /\ big \in Nat
  BY <1>2, <1>3 DEF RecordsObject
<1>14. ASSUME ~ (top > big) PROVE self' \in RecordsObject /\ RecordsTable'
  <2>1. self' = [self EXCEPT !.maxInputCountInTx = big, !.txMap = map,
                             !.tmpMaxInputCountInTx = 0, !.tmpOutputs = 0, !.tmpVolume = 0]
    BY <1>6, <1>14
  <2>2. self' \in RecordsObject /\ self'.txMap = map
    BY <1>2, <1>3, <1>12, <1>13, <2>1 DEF RecordsObject
  <2>3. RecordsTable'
    <3>1. \A i \in Records : \E k \in DOMAIN map : IsRecordOf(map[k], i)'
      BY <1>2, <1>3, <1>10, <1>11 DEF RecordsTable
    <3>2. \A k \in DOMAIN map : \E i \in Records : IsRecordOf(map[k], i)'
      BY <1>2, <1>3, <1>10, <1>11 DEF RecordsTable
    <3>3. Records' = Records
      BY <1>9, <1>14
    <3>4. QED
      BY <2>2, <3>1, <3>2, <3>3 DEF RecordsTable
  <2>4. QED
    BY <2>2, <2>3
<1>15. ASSUME top > big PROVE self' \in RecordsObject /\ RecordsTable'
  <2>1. PICK h : h = chain[n].hash /\ n \in 1 .. n /\ n \in DOMAIN chain /\ h \in TxHash
    BY <1>4, <1>9, <1>15, MadeType
  <2>2. h \in Entries /\ key = KeyCell(h)
    BY <1>2, <1>3, <1>15, <2>1 DEF RecordsLocals, Last
  <2>3. key \in 1 .. MaxTxs
    <3>1. gTXOMap[h] \in [key : 1 .. MaxTxs, chunk : 1 .. MaxTxs]
      BY <2>1, <2>2 DEF IndInv, TypeOK, Entries
    <3>2. QED
      BY <2>2, <3>1 DEF KeyCell
  <2>4. hashCell'[key] = h
    <3>1. Entries' = Entries /\ KeyCell(h)' = KeyCell(h)
      BY <1>2 DEF Entries, KeyCell
    <3>2. \A x \in Entries' : hashCell'[KeyCell(x)'] = x
      BY DEF IndInv, KeysAreIntact
    <3>3. hashCell'[KeyCell(h)'] = h
      BY <2>2, <3>1, <3>2
    <3>4. QED
      BY <2>2, <3>1, <3>3
  <2>5. \A j \in DOMAIN map : map[j].place # h
    <3> TAKE j \in DOMAIN map
    <3>1. PICK i \in Records : IsRecordOf(map[j], i)
      BY <1>2, <1>3 DEF RecordsTable
    <3>2. n \in Read /\ i \in BeforeLast
      BY <1>2, <2>1 DEF Read, Records, HasMost
    <3>3. chain[i].hash # h
      BY <1>2, <1>3, <1>15, <2>1, <3>2, RecordsAreNew
    <3>4. QED
      BY <3>1, <3>3 DEF IsRecordOf
  <2>6. PICK e : e = [place |-> h, key |-> key, val |-> data]
    OBVIOUS
  <2>7. TxInputs!Put(map, hashCell', key, data) = Append(map, e)
    <3>1. PICK mem : mem = hashCell'
      OBVIOUS
    <3>2. key \in Nat /\ mem[key] = h
      BY <2>3, <2>4, <3>1
    <3>3. TxInputs!Put(map, mem, key, data) =
                Append(map, [place |-> h, key |-> key, val |-> data])
      BY ONLY <2>5, <3>2, RecordsPutMisses, Zenon
    <3>4. QED
      BY <2>6, <3>1, <3>3
  <2>8. data = DataOf(n) /\ data \in [nbInputs : Nat, nbOutputs : Nat, volume : Nat]
    <3>1. DataOf(n) = [nbInputs |-> Len(Inputs_(n)), nbOutputs |-> NbMade(n),
                       volume |-> SumOf(Values(n))]
      BY <1>2, <2>1, DataOfWhole
    <3>2. n \in Read /\ chain # <<>>
      BY <1>2, <1>4, <2>1 DEF Read
    <3>3. /\ self.tmpOutputs = NbMade(n) /\ self.tmpVolume = SumOf(Values(n))
          /\ self.tmpMaxInputCountInTx = Len(Inputs_(n))
      BY <1>2, <1>3, <3>2, InputsAreCounted DEF RecordsLocals, LargestInv
    <3>4. data = [nbInputs |-> Len(Inputs_(n)), nbOutputs |-> NbMade(n),
                  volume |-> SumOf(Values(n))]
      BY <1>5, <3>3 DEF TxInputs!InputData
    <3>5. data \in [nbInputs : Nat, nbOutputs : Nat, volume : Nat]
      BY <1>2, <1>5 DEF TxInputs!InputData, RecordsObject
    <3>6. QED
      BY <3>1, <3>4, <3>5
  <2>9. IsRecordOf(e, n)'
    <3>1. IsRecordOf(e, n)
      BY <2>1, <2>2, <2>6, <2>8 DEF IsRecordOf
    <3>2. QED
      BY <1>11, <2>1, <3>1
  <2>10. PICK mm : mm = Append(map, e)
    OBVIOUS
  <2>11. /\ mm \in Seq([place : TxHash, key : 1 .. MaxTxs,
                        val : [nbInputs : Nat, nbOutputs : Nat, volume : Nat]])
         /\ DOMAIN mm = DOMAIN map \union {Len(map) + 1} /\ mm[Len(map) + 1] = e
         /\ \A j \in DOMAIN map : mm[j] = map[j]
    <3>1. e \in [place : TxHash, key : 1 .. MaxTxs,
                 val : [nbInputs : Nat, nbOutputs : Nat, volume : Nat]]
      BY <2>1, <2>3, <2>6, <2>8
    <3>2. PICK T : T = [place : TxHash, key : 1 .. MaxTxs,
                        val : [nbInputs : Nat, nbOutputs : Nat, volume : Nat]]
      OBVIOUS
    <3>3. map \in Seq(T) /\ e \in T
      BY <1>12, <3>1, <3>2
    <3>4. /\ mm \in Seq(T) /\ DOMAIN mm = DOMAIN map \union {Len(map) + 1}
          /\ mm[Len(map) + 1] = e /\ \A j \in DOMAIN map : mm[j] = map[j]
      BY ONLY <2>10, <3>3
    <3>5. QED
      BY <3>2, <3>4
  <2>12. self' = [self EXCEPT !.maxInputCountInTx = top, !.txMap = mm,
                              !.tmpMaxInputCountInTx = 0, !.tmpOutputs = 0, !.tmpVolume = 0]
    BY <1>6, <1>15, <2>7, <2>10
  <2>13. self' \in RecordsObject /\ self'.txMap = mm
    BY <1>2, <1>13, <2>11, <2>12 DEF RecordsObject
  <2>14. RecordsTable'
    <3>1. Records' = Records \union {n}
      BY <1>9, <1>15
    <3>2. \A i \in Records \union {n} : \E k \in DOMAIN mm : IsRecordOf(mm[k], i)'
      <4>1. \A i \in Records : \E k \in DOMAIN map : IsRecordOf(map[k], i)'
        BY <1>2, <1>3, <1>10, <1>11 DEF RecordsTable
      <4>2. QED
        BY <2>9, <2>11, <4>1
    <3>3. \A k \in DOMAIN mm : \E i \in Records \union {n} : IsRecordOf(mm[k], i)'
      <4>1. \A k \in DOMAIN map : \E i \in Records : IsRecordOf(map[k], i)'
        BY <1>2, <1>3, <1>10, <1>11 DEF RecordsTable
      <4>2. QED
        BY <2>9, <2>11, <4>1
    <3>4. QED
      BY <2>13, <3>1, <3>2, <3>3 DEF RecordsTable
  <2>15. QED
    BY <2>13, <2>14
<1>16. /\ self'.maxInputCountInTx = (IF top > big THEN top ELSE big)
       /\ self'.tmpMaxInputCountInTx = 0 /\ self'.tmpOutputs = 0 /\ self'.tmpVolume = 0
  BY <1>2, <1>6 DEF RecordsObject
<1>17. LargestInv'
  BY <1>1, <1>2, <1>3, <1>16, LargestAtStart
<1>18. RecordsLocals'
  <2>1. NbMade(m)' = 0 /\ SumOf(Values(m))' = 0
    BY <1>1, <1>3, MadeAtStart, ValuesAtStart
  <2>2. ~ (self'.tmpMaxInputCountInTx > self'.maxInputCountInTx)
    BY <1>13, <1>16
  <2>3. QED
    BY <1>4, <1>16, <2>1, <2>2 DEF RecordsLocals
<1>19. RecordsObject' = RecordsObject
  BY DEF RecordsObject
<1>20. QED
  BY <1>2, <1>14, <1>15, <1>17, <1>18, <1>19 DEF RecordsInv

LEMMA NextRecordsInv ==
  ASSUME IndInv, IndInv', HistoryInv, HistoryInv', TxoInv, TxoInv', RecordsInv,
         [CmdNext]_allVars
  PROVE  RecordsInv'
<1>1. gCallback' = gCallback
  BY SameCommand
<1>2. CASE command # "txInputs"
  BY <1>1, <1>2 DEF RecordsInv
<1>3. CASE command = "txInputs"
  <2>1. CASE Starts
    BY <1>3, <2>1, RecordsStartStep
  <2>2. CASE GenInputCalls \/ InputCalls
    BY <1>3, <2>2, RecordsInputStep
  <2>3. CASE OutputCalls
    BY <1>3, <2>3, RecordsOutputStep
  <2>4. CASE MakesNone /\ ~ (GenInputCalls \/ InputCalls)
    BY <1>3, <2>4, RecordsQuietStep DEF MakesNone
  <2>5. QED
    BY <2>1, <2>2, <2>3, <2>4, StepCases
<1>4. QED
  BY <1>2, <1>3

-----------------------------------------------------------------------------
(* What both show after a whole transaction.                               *)

LEMMA CountsHold ==
  CmdSpec => [](IndInv /\ HistoryInv /\ TxoInv /\ CountsInv /\ RecordsInv)
<1>1. CmdInit => IndInv /\ HistoryInv /\ TxoInv /\ StatementInv /\ CountsInv /\ RecordsInv
  BY InitIndInv, InitHistoryInv, InitStatementInv, InitCountsInv, InitRecordsInv
     DEF CmdInit
<1>2. IndInv /\ HistoryInv /\ TxoInv /\ StatementInv /\ CountsInv /\ RecordsInv
        /\ [CmdNext]_allVars
        => (IndInv /\ HistoryInv /\ TxoInv /\ StatementInv /\ CountsInv /\ RecordsInv)'
  BY NextHistoryInv, NextStatementInv, NextCountsInv, NextRecordsInv
<1>3. QED
  BY <1>1, <1>2, PTL DEF CmdSpec

LEMMA CountsShow ==
  ASSUME IndInv, HistoryInv, CountsInv, command = "simpleStats", pc = "tx",
         loop # "headers"
  PROVE  MaximumIsReal /\ CountsAreTrue
<1>1. /\ self \in StatsObject /\ LargestInv
      /\ self.nbBlocks = gCallback.records /\ self.nbValidBlocks = height
      /\ self.nbTransactions = Len(chain)
      /\ self.nbInputs = SumOf(Lengths) /\ self.nbOutputs = SumOf(Widths)
      /\ self.volume = SumOf(Volumes)
  BY DEF CountsInv
<1>2. Lengths = [i \in DOMAIN chain |-> Len(Inputs_(i))]
  <2>1. \A i \in DOMAIN chain : Parsed(i) = Len(Inputs_(i))
    BY InputsAreCounted DEF Read
  <2>2. QED
    BY <2>1 DEF Lengths
<1>3. Widths = [i \in DOMAIN chain |-> Len(Outputs(i))]
  <2>1. \A i \in DOMAIN chain : NbMade(i) = Len(Outputs(i))
    BY DataOfWhole
  <2>2. QED
    BY <2>1 DEF Widths
<1>4. MaximumIsReal
  BY <1>1, LargestIsReal
<1>5. QED
  BY <1>1, <1>2, <1>3, <1>4 DEF CountsAreTrue, Volumes

LEMMA RecordsShow ==
  ASSUME IndInv, HistoryInv, RecordsInv, command = "txInputs", pc = "tx"
  PROVE  MaximumIsReal /\ RowsAreRecords
<1>1. RecordsTable /\ self \in RecordsObject /\ LargestInv
  BY DEF RecordsInv
<1>2. PICK map, rows : map = self.txMap /\ rows = TxInputs!rows(self, hashCell)
  OBVIOUS
<1>3. rows = {[hash |-> TxInputs!Spelt(hashCell, map[k].key), data |-> map[k].val] :
                  k \in DOMAIN map}
  BY <1>2 DEF TxInputs!rows, TxInputs!ToSet
<1>4. \A k \in DOMAIN map : \E i \in Records : IsRecordOf(map[k], i)
  BY <1>1, <1>2 DEF RecordsTable
<1>5. \A i \in Records : \E k \in DOMAIN map : IsRecordOf(map[k], i)
  BY <1>1, <1>2 DEF RecordsTable
<1>6. {r.data : r \in rows} = {DataOf(i) : i \in Records}
  <2>1. {r.data : r \in rows} = {map[k].val : k \in DOMAIN map}
    <3>1. ASSUME NEW r \in rows PROVE \E k \in DOMAIN map : r.data = map[k].val
      BY <1>3
    <3>2. ASSUME NEW k \in DOMAIN map PROVE \E r \in rows : r.data = map[k].val
      <4>1. PICK r : r = [hash |-> TxInputs!Spelt(hashCell, map[k].key),
                          data |-> map[k].val]
        OBVIOUS
      <4>2. r \in rows /\ r.data = map[k].val
        BY <1>3, <4>1
      <4>3. QED
        BY <4>2
    <3>3. QED
      BY <3>1, <3>2
  <2>2. {map[k].val : k \in DOMAIN map} = {DataOf(i) : i \in Records}
    BY <1>4, <1>5 DEF IsRecordOf
  <2>3. QED
    BY <2>1, <2>2
<1>7. ASSUME NEW i \in Records, NEW o \in coins, o[1] = chain[i].hash
      PROVE  [hash |-> chain[i].hash, data |-> DataOf(i)] \in rows
  <2>1. PICK k \in DOMAIN map : IsRecordOf(map[k], i)
    BY <1>5
  <2>2. PICK x : x = chain[i].hash
    OBVIOUS
  <2>3. x \in Entries
    <3>1. o \in Held
      BY BetweenTransactions DEF HistoryInv, LoopInv
    <3>2. QED
      BY <1>7, <2>2, <3>1 DEF Held
  <2>4. map[k].key = KeyCell(x) /\ map[k].val = DataOf(i)
    BY <2>1, <2>2, <2>3 DEF IsRecordOf
  <2>5. KeyCell(x) \in 1 .. MaxTxs /\ hashCell[KeyCell(x)] = x
    <3>1. gTXOMap[x] \in [key : 1 .. MaxTxs, chunk : 1 .. MaxTxs]
      BY <2>3 DEF IndInv, TypeOK, Entries
    <3>2. QED
      BY <2>3, <3>1 DEF KeyCell, IndInv, KeysAreIntact
  <2>6. TxInputs!Spelt(hashCell, map[k].key) = x
    BY <2>4, <2>5 DEF TxInputs!Spelt
  <2>7. QED
    BY <1>3, <2>2, <2>4, <2>6
<1>8. {DataOf(i) : i \in Records} \subseteq {DataOf(i) : i \in AllRecords}
  <2>1. BeforeLast \subseteq DOMAIN chain
    BY InputsAreCounted DEF BeforeLast
  <2>2. Records \subseteq AllRecords
    BY <2>1 DEF Records, AllRecords
  <2>3. QED
    BY <2>2
<1>9. MaximumIsReal
  BY <1>1, LargestIsReal
<1>10. QED
  BY <1>2, <1>6, <1>7, <1>8, <1>9 DEF RowsAreRecords

(* On every clean chain, repetitions included, the counts of simpleStats   *)
(* are those of the chain.  The greatest number of inputs that it and      *)
(* txInputs know is real, and what txInputs has a row for are records; no  *)
(* transaction but the last is left out of either.                         *)
THEOREM RecordsAreReal == CmdSpec => []StatisticsAreTrue
<1>1. IndInv /\ HistoryInv /\ CountsInv /\ RecordsInv => StatisticsAreTrue
  BY CountsShow, RecordsShow DEF StatisticsAreTrue, Runs
<1>2. QED
  BY <1>1, CountsHold, PTL
=============================================================================
