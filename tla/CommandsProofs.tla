--------------------------- MODULE CommandsProofs ---------------------------
(***************************************************************************)
(* Proofs about pass 4 with a command: the index of unspent outputs is     *)
(* sound whatever the command, and what pristine and transactions have     *)
(* gathered is right.                                                      *)
(***************************************************************************)
EXTENDS CommandsProperties, TxoIndexProofs

USE MaxTxsAssumption, MaxInputsAssumption, MaxOutputsAssumption,
    MaxRepeatsAssumption
USE DEF gNullHash, NullCell, allVars, cmdVars, command

-----------------------------------------------------------------------------
(* The index of unspent outputs, below the commands.                       *)

LEMMA ScriptsAreCounted ==
  ASSUME NEW scripts \in Scripts
  PROVE  Len(scripts) \in 1 .. MaxOutputs
BY DEF Scripts

LEMMA CoinsAreSpendable ==
  ASSUME IndInv
  PROVE  coins \subseteq Spendable
BY DEF IndInv, ChainIsSound, Spendable, TypeOK, Outpoint, TxHash, NbHashes

(* Each action of Commands is one of TxoIndex as far as the index goes. *)
LEMMA CmdStepIsTxoStep == IndInv /\ [CmdNext]_allVars => [Next]_vars
<1> SUFFICES ASSUME IndInv, [CmdNext]_allVars PROVE [Next]_vars
  OBVIOUS
<1>1. ASSUME NEW scripts \in Scripts, StartBlock(scripts) PROVE Next
  BY <1>1, ScriptsAreCounted DEF StartBlock, Next
<1>2. ASSUME NEW hash \in coinbases, StartBlockRepeated(hash) PROVE Next
  BY <1>2 DEF StartBlockRepeated, Next
<1>3. ASSUME NEW ins \in {s \in SeqOf(coins, MaxInputs) : s # <<>>},
             NEW scripts \in Scripts, StartOther(ins, scripts)
      PROVE  Next
  <2>1. ins \in Inputs
    BY CoinsAreSpendable DEF Inputs, SeqOf
  <2>2. QED
    BY <1>3, <2>1, ScriptsAreCounted DEF StartOther, Next
<1>4. CASE GenInputCalls \/ InputCalls \/ StartOutputsCalls \/ OutputCalls \/ EndTXCalls
  BY <1>4 DEF GenInputCalls, InputCalls, StartOutputsCalls, OutputCalls, EndTXCalls, Next
<1>5. CASE \/ Headers \/ EndBlock \/ EndOfChain \/ Wrapup \/ WriteToClosedFile
           \/ Over \/ UNCHANGED allVars
  BY <1>5 DEF Headers, EndBlock, EndOfChain, Wrapup, WriteToClosedFile, Over
<1>6. QED
  BY <1>1, <1>2, <1>3, <1>4, <1>5 DEF CmdNext

(* What holds of the index on its own holds with any command. *)
THEOREM IndexIsSound == CmdSpec => []IndInv
<1>1. CmdInit => IndInv
  BY InitIndInv DEF CmdInit
<1>2. IndInv /\ [CmdNext]_allVars => IndInv'
  BY CmdStepIsTxoStep, NextIndInv
<1>3. QED
  BY <1>1, <1>2, PTL DEF CmdSpec

-----------------------------------------------------------------------------
(* The history the properties compare with.                                *)

(* The steps that start a transaction, and what the others leave alone.    *)
Quiet ==
  UNCHANGED <<gCallback, height, txo, chain, nbOutputs, coinbases, nbTxs,
              nbRepeats, clean>>

LEMMA CmdCases ==
  ASSUME [CmdNext]_allVars
  PROVE  \/ \E scripts \in Scripts : StartBlock(scripts)
         \/ \E hash \in coinbases : StartBlockRepeated(hash)
         \/ \E ins \in {s \in SeqOf(coins, MaxInputs) : s # <<>>},
               scripts \in Scripts : StartOther(ins, scripts)
         \/ Quiet
<1> USE DEF Quiet, vars, chainVars
<1>1. CASE Headers \/ EndBlock \/ EndOfChain \/ Wrapup \/ WriteToClosedFile
           \/ Over \/ UNCHANGED allVars
  BY <1>1 DEF Headers, EndBlock, EndOfChain, Wrapup, WriteToClosedFile, Over
<1>2. CASE GenInputCalls \/ InputCalls \/ EndTXCalls
  BY <1>2 DEF GenInputCalls, InputCalls, EndTXCalls, ParseGenInput, ParseInput,
     EndTX
<1>3. CASE StartOutputsCalls \/ OutputCalls
  BY <1>3 DEF StartOutputsCalls, OutputCalls, StartOutputs, ParseOutput
<1>4. QED
  BY <1>1, <1>2, <1>3 DEF CmdNext

LEMMA SessionTypes ==
  ASSUME gCallback \in Sessions
  PROVE  /\ gCallback.records \in Nat /\ gCallback.files \in Nat
         /\ gCallback.minted \in [1 .. gCallback.records -> Nat]
         /\ command = "sqldump" => gCallback.cutoff \in Nat \union {NoCutoff}
BY SessionsAssumption

(* What all starts of a transaction have in common. *)
IsStart(hash, ins) ==
  /\ pc = "tx" /\ pc' = "inputs"
  /\ tx' = [hash |-> hash, cell |-> Cell(hashPool), ins |-> ins, outs |-> 0]
  /\ hashPool' = Alloc(hashPool)
  /\ hashCell' = [hashCell EXCEPT ![Cell(hashPool)] = hash]
  /\ chain' = Append(chain, [hash |-> hash, ins |-> ins, block |-> height'])
  /\ nbTxs' = nbTxs + 1
  /\ clean'
  /\ loop' = "block"
  /\ height' >= height /\ height' \in 1 .. gCallback.records
  /\ \A x \in TxHash \ {hash} : nbOutputs'[x] = nbOutputs[x]
  /\ UNCHANGED <<gTXOMap, chunkMem, ptrsMem, rawMem, edge, gCallback>>

IsNew(hash, ins) ==
  /\ hash = NbHashes + 1
  /\ nbRepeats' = nbRepeats
  /\ \/ coinbases' = coinbases \union {hash} /\ ins = <<GenInput>>
     \/ coinbases' = coinbases /\ ins \in Seq(Outpoint) /\ ins # <<>>

IsRepeated(hash, ins) ==
  /\ hash \in coinbases /\ hash \in Entries
  /\ nbRepeats' = nbRepeats + 1
  /\ ins = <<GenInput>>
  /\ UNCHANGED <<nbOutputs, coinbases, txo>>

LEMMA HashesAreCounted ==
  ASSUME IndInv
  PROVE  NbHashes \in Nat
<1>1. nbTxs \in Nat /\ nbRepeats \in Nat /\ nbRepeats <= nbTxs
  BY DEF IndInv, TypeOK, ChainIsSound
<1>2. QED
  BY <1>1 DEF NbHashes

LEMMA NewHash ==
  ASSUME IndInv, nbTxs < MaxTxs
  PROVE  /\ NbHashes \in 0 .. MaxTxs - 1 /\ NbHashes + 1 \in TxHash
         /\ NbHashes + 1 \notin coinbases
<1>1. /\ nbTxs \in Nat /\ nbRepeats \in Nat /\ nbRepeats <= nbTxs
      /\ \A x \in coinbases : x <= NbHashes
  BY DEF IndInv, TypeOK, ChainIsSound
<1>2. NbHashes \in 0 .. MaxTxs - 1
  BY <1>1 DEF NbHashes
<1>3. QED
  BY <1>1, <1>2 DEF TxHash

LEMMA StartCases ==
  ASSUME IndInv, LoopInv,
         \/ \E scripts \in Scripts : StartBlock(scripts)
         \/ \E hash \in coinbases : StartBlockRepeated(hash)
         \/ \E ins \in {s \in SeqOf(coins, MaxInputs) : s # <<>>},
               scripts \in Scripts : StartOther(ins, scripts)
  PROVE  \E hash \in TxHash, ins \in Seq(Outpoint \union {GenInput}) :
            /\ IsStart(hash, ins)
            /\ IsNew(hash, ins) \/ IsRepeated(hash, ins)
<1>0. /\ height \in Nat /\ gCallback.records \in Nat /\ clean
      /\ nbOutputs \in [TxHash -> 0 .. MaxOutputs] /\ coinbases \subseteq TxHash
  BY SessionTypes DEF LoopInv, IndInv, TypeOK
<1>1. ASSUME NEW scripts \in Scripts, StartBlock(scripts)
      PROVE  /\ IsStart(NbHashes + 1, <<GenInput>>)
             /\ IsNew(NbHashes + 1, <<GenInput>>)
             /\ NbHashes + 1 \in TxHash
  <2>1. /\ StartCoinbase(Len(scripts)) /\ nbTxs < MaxTxs
        /\ NbHashes + 1 \in TxHash
    BY <1>1, NewHash DEF StartBlock, StartCoinbase
  <2>2. QED
    BY <1>0, <1>1, <2>1 DEF StartBlock, StartCoinbase, StartTX, Started, IsStart,
       IsNew
<1>2. ASSUME NEW hash \in coinbases, StartBlockRepeated(hash)
      PROVE  IsStart(hash, <<GenInput>>) /\ IsRepeated(hash, <<GenInput>>)
  <2>1. RepeatCoinbase(hash) /\ pc = "tx" /\ \E o \in coins : o[1] = hash
    BY <1>2 DEF StartBlockRepeated, RepeatCoinbase
  <2>2. hash \in Entries
    BY <1>0, <2>1, BetweenTransactions DEF Held
  <2>3. QED
    BY <1>0, <1>2, <2>1, <2>2 DEF StartBlockRepeated, RepeatCoinbase, StartTX,
       Started, IsStart, IsRepeated
<1>3. ASSUME NEW ins \in {s \in SeqOf(coins, MaxInputs) : s # <<>>},
             NEW scripts \in Scripts, StartOther(ins, scripts)
      PROVE  /\ IsStart(NbHashes + 1, ins) /\ IsNew(NbHashes + 1, ins)
             /\ NbHashes + 1 \in TxHash
             /\ ins \in Seq(Outpoint \union {GenInput})
  <2>1. /\ StartSpend(ins, Len(scripts)) /\ nbTxs < MaxTxs
        /\ ToSet(ins) \subseteq coins /\ IsInjective(ins)
        /\ NbHashes + 1 \in TxHash /\ loop = "block"
    BY <1>3, NewHash DEF StartOther, StartSpend
  <2>2. ins \in Seq(Outpoint) /\ ins # <<>>
    <3>1. PICK m \in 0 .. MaxInputs : ins \in [1 .. m -> coins]
      BY DEF SeqOf
    <3>2. coins \subseteq Outpoint
      BY DEF IndInv, TypeOK
    <3>3. QED
      BY <3>1, <3>2, SeqDef
  <2>3. height \in 1 .. gCallback.records
    BY <2>1 DEF LoopInv
  <2>4. clean'
    BY <1>0, <2>1 DEF StartSpend
  <2>5. QED
    BY <1>0, <1>3, <2>1, <2>2, <2>3, <2>4 DEF StartOther, StartSpend, StartTX, Started,
       IsStart, IsNew
<1>4. <<GenInput>> \in Seq(Outpoint \union {GenInput})
  BY GenInputs
<1>5. QED
  BY <1>0, <1>1, <1>2, <1>3, <1>4

LEMMA InitHistoryInv == CmdInit => HistoryInv
<1> SUFFICES ASSUME CmdInit PROVE HistoryInv
  OBVIOUS
<1>1. /\ Init /\ gCallback \in Sessions /\ loop = "headers" /\ height = 0
      /\ chain = <<>>
  BY DEF CmdInit
<1>2. LoopInv
  BY <1>1, SessionTypes DEF Init, LoopInv
<1>3. ChainInv
  <2>1. DOMAIN chain = {} /\ Len(chain) = 0
    BY <1>1
  <2>2. Hashes = {} /\ NbHashes = 0
    BY <1>1, <2>1 DEF Init, Hashes, NbHashes
  <2>3. QED
    BY <1>1, <2>1, <2>2 DEF Init, ChainInv
<1>4. LastInv
  BY <1>1 DEF Init, LastInv, Parsing
<1>5. QED
  BY <1>2, <1>3, <1>4 DEF HistoryInv

LEMMA LoopStep ==
  ASSUME IndInv, LoopInv, [CmdNext]_allVars
  PROVE  LoopInv'
<1>1. CASE \/ \E scripts \in Scripts : StartBlock(scripts)
           \/ \E hash \in coinbases : StartBlockRepeated(hash)
           \/ \E ins \in {s \in SeqOf(coins, MaxInputs) : s # <<>>},
                 scripts \in Scripts : StartOther(ins, scripts)
  <2>1. PICK hash \in TxHash, ins \in Seq(Outpoint \union {GenInput}) : IsStart(hash, ins)
    BY <1>1, StartCases
  <2>2. gCallback.records \in Nat
    BY SessionTypes DEF LoopInv
  <2>3. QED
    BY <2>1, <2>2 DEF LoopInv, IsStart
<1> USE DEF vars, chainVars
<1>2. CASE Headers \/ EndBlock \/ EndOfChain \/ Wrapup \/ WriteToClosedFile
           \/ Over \/ UNCHANGED allVars
  BY <1>2 DEF LoopInv, Headers, EndBlock, EndOfChain, Wrapup,
     WriteToClosedFile, Over
<1>3. CASE GenInputCalls \/ InputCalls \/ EndTXCalls
  BY <1>3 DEF LoopInv, GenInputCalls, InputCalls, EndTXCalls, ParseGenInput,
     ParseInput, EndTX, InputLeft, Unless
<1>4. CASE StartOutputsCalls \/ OutputCalls
  BY <1>4 DEF LoopInv, StartOutputsCalls, OutputCalls, StartOutputs,
     ParseOutput, Unless
<1>5. QED
  BY <1>1, <1>2, <1>3, <1>4 DEF CmdNext

(* A start appends to the chain. *)
LEMMA ChainAppended ==
  ASSUME ChainInv, NEW hash \in TxHash,
         NEW ins \in Seq(Outpoint \union {GenInput}), IsStart(hash, ins)
  PROVE  LET s == [hash |-> hash, ins |-> ins, block |-> height'] IN
         /\ s \in Start /\ chain' \in Seq(Start)
         /\ Len(chain) \in Nat /\ DOMAIN chain = 1 .. Len(chain)
         /\ Len(chain') = Len(chain) + 1
         /\ DOMAIN chain' = 1 .. Len(chain) + 1
         /\ chain'[Len(chain) + 1] = s /\ Last(chain)' = s
         /\ chain'[Len(chain) + 1].hash = hash /\ chain'[Len(chain) + 1].ins = ins
         /\ chain'[Len(chain) + 1].block = height'
         /\ \A i \in 1 .. Len(chain) : chain'[i] = chain[i]
         /\ Read' = 1 .. Len(chain)
<1> DEFINE s == [hash |-> hash, ins |-> ins, block |-> height']
<1>1. height' \in Nat \ {0}
  BY DEF IsStart
<1>2. s \in Start
  BY <1>1 DEF Start
<1>3. chain \in Seq(Start) /\ chain' = Append(chain, s) /\ pc' = "inputs"
  BY DEF ChainInv, IsStart
<1> HIDE DEF s
<1>4. /\ chain' \in Seq(Start)
      /\ Len(chain) \in Nat /\ DOMAIN chain = 1 .. Len(chain)
      /\ Len(chain') = Len(chain) + 1
      /\ DOMAIN chain' = 1 .. Len(chain) + 1
      /\ chain'[Len(chain) + 1] = s
      /\ \A i \in 1 .. Len(chain) : chain'[i] = chain[i]
  BY <1>2, <1>3
<1>5. Last(chain)' = s
  BY <1>4 DEF Last
<1>6. Read' = 1 .. Len(chain)
  BY <1>3, <1>4 DEF Read
<1>7. QED
  BY <1>2, <1>4, <1>5, <1>6 DEF s

LEMMA ChainStep ==
  ASSUME IndInv, LoopInv, ChainInv, [CmdNext]_allVars
  PROVE  ChainInv'
<1>1. ASSUME NEW hash \in TxHash, NEW ins \in Seq(Outpoint \union {GenInput}),
             IsStart(hash, ins), IsNew(hash, ins) \/ IsRepeated(hash, ins)
      PROVE  ChainInv'
  <2> DEFINE n == Len(chain)
  <2>1. /\ chain' \in Seq(Start) /\ n \in Nat /\ DOMAIN chain = 1 .. n
        /\ Len(chain') = n + 1 /\ DOMAIN chain' = 1 .. n + 1
        /\ chain'[n + 1].hash = hash /\ chain'[n + 1].ins = ins
        /\ chain'[n + 1].block = height'
        /\ \A i \in 1 .. n : chain'[i] = chain[i]
    BY <1>1, ChainAppended
  <2>2. /\ n = nbTxs /\ nbTxs' = nbTxs + 1
        /\ height' \in Nat /\ height \in Nat /\ height' >= height
    BY <1>1 DEF ChainInv, LoopInv, IsStart
  <2> HIDE DEF n
  <2>3. /\ \A i \in 1 .. n : chain[i].hash \in 1 .. NbHashes
        /\ \A x \in 1 .. NbHashes : \E i \in 1 .. n : chain[i].hash = x
    BY <2>1 DEF ChainInv, Hashes
  <2>4. nbTxs \in Nat /\ nbRepeats \in Nat /\ NbHashes \in Int /\ NbHashes >= 0
    BY DEF IndInv, TypeOK, ChainIsSound, NbHashes
  <2>5. IF IsNew(hash, ins) THEN hash = NbHashes + 1 /\ NbHashes' = NbHashes + 1
        ELSE hash \in 1 .. NbHashes /\ hash \in coinbases /\ NbHashes' = NbHashes
    <3>1. CASE IsNew(hash, ins)
      BY <2>2, <2>4, <3>1 DEF IsNew, NbHashes
    <3>2. CASE IsRepeated(hash, ins) /\ ~ IsNew(hash, ins)
      <4>1. hash <= NbHashes /\ hash >= 1
        BY <3>2 DEF IsRepeated, IndInv, ChainIsSound, TxHash
      <4>2. QED
        BY <2>2, <2>4, <3>2, <4>1 DEF IsRepeated, NbHashes, TxHash
    <3>3. QED
      BY <1>1, <3>1, <3>2
  <2>6. Hashes' = 1 .. NbHashes'
    <3>1. Hashes' = Hashes \union {hash}
      BY <2>1 DEF Hashes
    <3>2. QED
      BY <2>4, <2>5, <3>1 DEF ChainInv
  <2>7. IF hash \in coinbases' THEN ins = <<GenInput>>
        ELSE ins \in Seq(Outpoint) /\ ins # <<>>
    <3>1. IsNew(hash, ins) => hash \notin coinbases
      BY <2>4, <2>5 DEF IndInv, ChainIsSound
    <3>2. QED
      BY <1>1, <3>1 DEF IsNew, IsRepeated
  <2>8. \A i \in 1 .. n : chain[i].hash \in coinbases' <=> chain[i].hash \in coinbases
    <3>1. coinbases' = coinbases \/ (IsNew(hash, ins) /\ coinbases' = coinbases \union {hash})
      BY <1>1 DEF IsNew, IsRepeated
    <3>2. QED
      BY <2>3, <2>4, <2>5, <3>1
  <2>9. \A i \in 1 .. n + 1 :
            /\ chain'[i].block <= height'
            /\ IF chain'[i].hash \in coinbases' THEN IsMinted(i)'
               ELSE chain'[i].ins \in Seq(Outpoint) /\ chain'[i].ins # <<>>
    <3>1. ASSUME NEW i \in 1 .. n
          PROVE  /\ chain'[i].block <= height'
                 /\ IF chain'[i].hash \in coinbases' THEN IsMinted(i)'
                    ELSE chain'[i].ins \in Seq(Outpoint) /\ chain'[i].ins # <<>>
      <4>1. /\ chain[i].block <= height
            /\ chain[i] \in Start
            /\ IF chain[i].hash \in coinbases THEN IsMinted(i)
               ELSE chain[i].ins \in Seq(Outpoint) /\ chain[i].ins # <<>>
        BY <2>1 DEF ChainInv
      <4>2. chain[i].block \in Nat
        BY <4>1 DEF Start
      <4>3. QED
        BY <2>1, <2>2, <2>8, <4>1, <4>2 DEF IsMinted
    <3>2. CASE TRUE
      BY <2>1, <2>2, <2>7, <3>1 DEF IsMinted
    <3>3. QED
      BY <3>2
  <2>10. \A i, j \in 1 .. n + 1 : i < j =>
            /\ chain'[i].block <= chain'[j].block
            /\ chain'[i].hash = chain'[j].hash => chain'[i].hash \in coinbases'
    <3> SUFFICES ASSUME NEW i \in 1 .. n + 1, NEW j \in 1 .. n + 1, i < j
                 PROVE  /\ chain'[i].block <= chain'[j].block
                        /\ chain'[i].hash = chain'[j].hash =>
                                chain'[i].hash \in coinbases'
      OBVIOUS
    <3>1. i \in 1 .. n /\ chain'[i] = chain[i]
      BY <2>1
    <3>2. CASE j \in 1 .. n
      BY <2>1, <2>8, <3>1, <3>2 DEF ChainInv
    <3>3. CASE j = n + 1
      <4>1. chain[i].block <= height /\ chain[i] \in Start
        BY <2>1, <3>1 DEF ChainInv
      <4>2. chain'[i].block <= chain'[j].block
        BY <2>1, <2>2, <3>1, <3>3, <4>1 DEF Start
      <4>3. chain[i].hash = hash => chain[i].hash \in coinbases
        BY <2>3, <2>4, <2>5, <3>1
      <4>4. QED
        BY <2>1, <2>8, <3>1, <3>3, <4>2, <4>3
    <3>4. QED
      BY <2>1, <3>2, <3>3
  <2>11. QED
    BY <2>1, <2>2, <2>6, <2>9, <2>10 DEF ChainInv, n
<1>2. CASE Quiet
  BY <1>2 DEF Quiet, ChainInv, Hashes, NbHashes, IsMinted
<1>3. QED
  BY <1>1, <1>2, CmdCases, StartCases

(* An input of a coinbase transaction is none of the outputs. *)
LEMMA MintedInputs ==
  ASSUME IndInv, ChainInv, LastInv, pc = "inputs", tx.ins # <<>>
  PROVE  /\ Len(chain) \in DOMAIN chain /\ tx.hash = chain[Len(chain)].hash
         /\ IF tx.hash \in coinbases THEN upTXHash = gNullHash
            ELSE Head(tx.ins) \in Outpoint /\ upTXHash \in TxHash
<1> DEFINE L == chain[Len(chain)].ins  n == Len(tx.ins)
<1>1. nbTxs > 0 /\ tx.hash = chain[Len(chain)].hash
  BY DEF IndInv, LocalsAreSound, LastInv, Parsing, Last
<1>2. chain \in Seq(Start) /\ Len(chain) \in DOMAIN chain
  <2>1. chain \in Seq(Start) /\ Len(chain) = nbTxs /\ nbTxs \in Nat
    BY DEF ChainInv, IndInv, TypeOK
  <2>2. QED
    BY <1>1, <2>1
<1>3. tx.ins \in Seq(Outpoint \union {GenInput}) /\ tx.ins # <<>>
  BY DEF IndInv, TypeOK
<1>4. L \in Seq(Outpoint \union {GenInput})
  <2>1. chain[Len(chain)] \in Start
    BY <1>2
  <2>2. QED
    BY <2>1 DEF Start
<1>5. n <= Len(L) /\ \A k \in 1 .. n : tx.ins[k] = L[Len(L) - n + k]
  BY DEF LastInv, Last
<1>6. IF tx.hash \in coinbases THEN L = <<GenInput>> ELSE L \in Seq(Outpoint)
  BY <1>1, <1>2 DEF ChainInv, IsMinted
<1> HIDE DEF L
<1>7. n \in Nat \ {0} /\ Head(tx.ins) = tx.ins[1] /\ Len(L) \in Nat
  BY <1>3, <1>4
<1> HIDE DEF n
<1>8. PICK k \in 1 .. Len(L) : Head(tx.ins) = L[k]
  <2>1. 1 \in 1 .. n /\ Len(L) - n + 1 \in 1 .. Len(L)
    BY <1>5, <1>7
  <2>2. QED
    BY <1>5, <1>7, <2>1
<1>9. CASE tx.hash \in coinbases
  <2>1. Head(tx.ins) = GenInput
    BY <1>6, <1>8, <1>9, GenInputs
  <2>2. QED
    BY <1>1, <1>2, <1>9, <2>1 DEF upTXHash, GenInput
<1>10. CASE tx.hash \notin coinbases
  <2>1. Head(tx.ins) \in Outpoint
    BY <1>6, <1>8, <1>10
  <2>2. QED
    BY <1>1, <1>2, <1>10, <2>1 DEF upTXHash, Outpoint
<1>11. QED
  BY <1>9, <1>10

LEMMA InputTaken ==
  ASSUME IndInv, LastInv, InputLeft, InputDone, UNCHANGED <<pc, chain, height>>,
         tx.hash \in Entries' <=> \E i \in Read : chain[i].hash = tx.hash
  PROVE  LastInv'
<1> DEFINE L == Last(chain).ins  n == Len(tx.ins)
<1>1. /\ pc = "inputs" /\ tx'.ins = Tail(tx.ins) /\ tx'.hash = tx.hash
      /\ tx.ins \in Seq(Outpoint \union {GenInput}) /\ tx.ins # <<>>
  BY InputRead DEF InputLeft
<1>2. /\ n \in Nat \ {0} /\ Len(tx'.ins) = n - 1
      /\ \A k \in 1 .. n - 1 : tx'.ins[k] = tx.ins[k + 1]
  BY <1>1
<1>3. n <= Len(L) /\ \A k \in 1 .. n : tx.ins[k] = L[Len(L) - n + k]
  BY <1>1 DEF LastInv
<1>4. Last(chain)' = Last(chain) /\ Read' = Read
  BY DEF Last, Read
<1>5. Len(L) \in Int
  BY <1>1, <1>2, <1>3 DEF LastInv
<1> HIDE DEF L, n
<1>6. /\ n - 1 <= Len(L)
      /\ \A k \in 1 .. n - 1 : tx'.ins[k] = L[Len(L) - (n - 1) + k]
  <2>0. n - 1 <= Len(L)
    BY <1>2, <1>3, <1>5
  <2> SUFFICES ASSUME NEW k \in 1 .. n - 1
               PROVE  tx'.ins[k] = L[Len(L) - (n - 1) + k]
    BY <2>0
  <2>1. k + 1 \in 1 .. n /\ Len(L) - n + (k + 1) = Len(L) - (n - 1) + k
    BY <1>2, <1>5
  <2>2. tx.ins[k + 1] = L[Len(L) - n + (k + 1)]
    BY <1>3, <2>1
  <2>3. QED
    BY <1>2, <1>3, <1>5, <2>1, <2>2
<1>7. QED
  BY <1>1, <1>2, <1>4, <1>6 DEF LastInv, Parsing, L

LEMMA LastStep ==
  ASSUME IndInv, HistoryInv, [CmdNext]_allVars
  PROVE  LastInv'
<1>1. ASSUME NEW hash \in TxHash, NEW ins \in Seq(Outpoint \union {GenInput}),
             IsStart(hash, ins), IsNew(hash, ins) \/ IsRepeated(hash, ins)
      PROVE  LastInv'
  <2>1. /\ Last(chain)' = [hash |-> hash, ins |-> ins, block |-> height']
        /\ Read' = 1 .. Len(chain) /\ DOMAIN chain = 1 .. Len(chain)
        /\ \A i \in 1 .. Len(chain) : chain'[i] = chain[i]
    BY <1>1, ChainAppended DEF HistoryInv
  <2>2. tx'.hash = hash /\ tx'.ins = ins /\ pc' = "inputs" /\ gTXOMap' = gTXOMap
    BY <1>1 DEF IsStart
  <2>3. Len(ins) \in Nat
    OBVIOUS
  <2>4. hash \in Entries' <=> \E i \in Read' : chain'[i].hash = hash
    <3>1. CASE IsNew(hash, ins)
      <4>1. \A i \in DOMAIN chain : chain[i].hash \in 1 .. NbHashes
        BY DEF HistoryInv, ChainInv, Hashes
      <4>2. NbHashes \in Int /\ hash = NbHashes + 1
        BY <3>1 DEF IsNew, NbHashes, IndInv, TypeOK
      <4>3. hash \notin Entries
        BY <4>2 DEF IndInv, ChainIsSound
      <4>4. Entries' = Entries
        BY <2>2 DEF Entries
      <4>5. QED
        BY <2>1, <4>1, <4>2, <4>3, <4>4
    <3>2. CASE IsRepeated(hash, ins)
      <4>1. hash \in Entries' /\ hash \in 1 .. NbHashes
        BY <2>2, <3>2 DEF IsRepeated, Entries, IndInv, ChainIsSound, TxHash
      <4>2. \E i \in DOMAIN chain : chain[i].hash = hash
        BY <4>1 DEF HistoryInv, ChainInv, Hashes
      <4>3. QED
        BY <2>1, <4>1, <4>2
    <3>3. QED
      BY <1>1, <3>1, <3>2
  <2>5. \A k \in 1 .. Len(ins) : ins[k] = ins[Len(ins) - Len(ins) + k]
    BY <2>3
  <2>6. QED
    BY <2>1, <2>2, <2>3, <2>4, <2>5 DEF LastInv, Parsing
<1>2. CASE \/ Headers \/ EndBlock \/ EndOfChain \/ Wrapup \/ WriteToClosedFile
           \/ Over \/ UNCHANGED allVars
  <2>1. UNCHANGED <<vars, chain, height>>
    BY <1>2 DEF Headers, EndBlock, EndOfChain, Wrapup, WriteToClosedFile, Over
  <2>2. UNCHANGED <<pc, tx, gTXOMap, chain, height>>
    BY <2>1 DEF vars
  <2>3. QED
    BY <2>2 DEF HistoryInv, LastInv, Parsing, Last, Read, Entries
<1>3. CASE GenInputCalls
  <2>1. /\ InputLeft /\ InputDone /\ UNCHANGED <<pc, chain, height, gTXOMap>>
    BY <1>3 DEF GenInputCalls, ParseGenInput
  <2>2. tx.hash \in Entries' <=> \E i \in Read : chain[i].hash = tx.hash
    BY <2>1 DEF HistoryInv, LastInv, InputLeft, Entries
  <2>3. QED
    BY <2>1, <2>2, InputTaken DEF HistoryInv
<1>4. CASE InputCalls
  <2>1. /\ ParseInput /\ InputLeft /\ InputDone /\ upTXHash # gNullHash
        /\ UNCHANGED <<pc, chain, height>>
    BY <1>4 DEF InputCalls, ParseInput
  <2>2. ASSUME NEW i \in Read, chain[i].hash = tx.hash
        PROVE  FALSE
    <3>1. tx.hash \notin coinbases /\ Len(chain) \in DOMAIN chain
          /\ tx.hash = chain[Len(chain)].hash
      BY <2>1, MintedInputs DEF HistoryInv, InputLeft
    <3>2. i \in DOMAIN chain /\ i < Len(chain)
      BY <2>1 DEF Read, InputLeft
    <3>3. QED
      BY <2>2, <3>1, <3>2 DEF HistoryInv, ChainInv
  <2>3. tx.hash \notin Entries /\ Entries' \subseteq Entries
    BY <2>1, <2>2, EntriesAfterInput DEF HistoryInv, LastInv, InputLeft
  <2>4. QED
    BY <2>1, <2>2, <2>3, InputTaken DEF HistoryInv
<1>5. CASE StartOutputsCalls
  <2>1. pc = "inputs" /\ pc' = "outputs" /\ UNCHANGED <<tx, chain, height>>
    BY <1>5 DEF StartOutputsCalls, StartOutputs
  <2>2. QED
    BY <2>1 DEF HistoryInv, LastInv, Parsing, Last
<1>6. CASE OutputCalls
  <2>1. /\ pc = "outputs" /\ pc' = pc /\ tx' = [tx EXCEPT !.outs = tx.outs + 1]
        /\ UNCHANGED <<chain, height>> /\ tx \in Txs
    BY <1>6 DEF OutputCalls, ParseOutput, IndInv, Shapes
  <2>2. tx'.hash = tx.hash
    BY <2>1 DEF Txs
  <2>3. QED
    BY <2>1, <2>2 DEF HistoryInv, LastInv, Parsing, Last
<1>7. CASE EndTXCalls
  BY <1>7 DEF EndTXCalls, EndTX, LastInv, Parsing
<1>8. QED
  BY <1>1, <1>2, <1>3, <1>4, <1>5, <1>6, <1>7, StartCases DEF CmdNext, HistoryInv

LEMMA NextHistoryInv ==
  IndInv /\ HistoryInv /\ [CmdNext]_allVars => IndInv' /\ HistoryInv'
<1> SUFFICES ASSUME IndInv, HistoryInv, [CmdNext]_allVars
             PROVE  IndInv' /\ HistoryInv'
  OBVIOUS
<1>1. IndInv'
  BY CmdStepIsTxoStep, NextIndInv
<1>2. LoopInv' /\ ChainInv' /\ LastInv'
  BY LoopStep, ChainStep, LastStep DEF HistoryInv
<1>3. QED
  BY <1>1, <1>2 DEF HistoryInv

-----------------------------------------------------------------------------
(* The calls that pristine takes. *)

LEMMA MaxIsElement ==
  ASSUME NEW n \in Nat, NEW S \in SUBSET (0 .. n), S # {}
  PROVE  Max(S) \in S /\ \A y \in S : Max(S) >= y
<1>1. \E x \in S : \A y \in S : x >= y
  BY GreatestElement
<1>2. QED
  BY <1>1 DEF Max

(* A fold whose step does nothing. *)
IdleEquation(it, x, S) ==
  it = [s \in SUBSET S |-> IF s = {} THEN x ELSE it[s \ {Max(s)}]]

LEMMA IdleFold ==
  ASSUME NEW n \in Nat, NEW x
  PROVE  /\ IdleEquation([s \in SUBSET (1 .. n) |-> x], x, 1 .. n)
         /\ \A it : IdleEquation(it, x, 1 .. n) => it[1 .. n] = x
<1> DEFINE S == 1 .. n
<1>1. IdleEquation([s \in SUBSET S |-> x], x, S)
  BY DEF IdleEquation
<1>2. ASSUME NEW it, IdleEquation(it, x, S)
      PROVE  it[S] = x
  <2>1. \A s \in SUBSET S : it[s] = IF s = {} THEN x ELSE it[s \ {Max(s)}]
    BY <1>2 DEF IdleEquation
  <2> DEFINE B == {s \in SUBSET S : it[s] # x}
  <2>2. B = {}
    <3> SUFFICES ASSUME B # {} PROVE FALSE
      OBVIOUS
    <3>1. B \in SUBSET SUBSET S /\ IsFiniteSet(S)
      BY FS_Interval
    <3> HIDE DEF B
    <3>2. PICK s \in B : \A y \in s : s \ {y} \notin B
      BY <3>1, MinimalSubset
    <3>3. s \in SUBSET S /\ it[s] # x
      BY <3>2 DEF B
    <3>4. s # {} /\ s \in SUBSET (0 .. n)
      <4>1. s # {}
        BY <2>1, <3>3
      <4>2. \A y \in s : y \in 0 .. n
        BY <3>3
      <4>3. QED
        BY <4>1, <4>2
    <3>5. Max(s) \in s
      BY <3>4, MaxIsElement
    <3>6. it[s \ {Max(s)}] = x
      BY <3>2, <3>3, <3>5 DEF B
    <3>7. QED
      BY <2>1, <3>3, <3>4, <3>6
  <2>3. QED
    BY <2>2
<1>3. QED
  BY <1>1, <1>2

(* Passes 1 to 3 call nothing but simpleStats. *)
LEMMA HeadersCalls ==
  ASSUME gCallback \in Sessions, Headers, command # "simpleStats"
  PROVE  self' = self
<1>0. gCallback.records \in Nat /\ gCallback.files \in Nat
  BY SessionTypes
<1>1. ASSUME NEW n \in Nat, NEW x PROVE Times(n, startRecord, x) = x
  <2> DEFINE is(it) == it = [s \in SUBSET DOMAIN [i \in 1 .. n |-> i] |->
                               IF s = {} THEN x ELSE startRecord(it[s \ {Max(s)}])]
             it0 == CHOOSE it : is(it)
  <2>1. Times(n, startRecord, x) = it0[DOMAIN [i \in 1 .. n |-> i]]
    BY DEF Times, FoldLeft, MapThenFoldSet
  <2>2. \A y : startRecord(y) = y
    BY DEF startRecord
  <2>3. DOMAIN [i \in 1 .. n |-> i] = 1 .. n
    OBVIOUS
  <2>4. \A it : is(it) <=> IdleEquation(it, x, 1 .. n)
    BY <2>2, <2>3 DEF IdleEquation
  <2> HIDE DEF is
  <2>5. is(it0)
    BY <2>4, IdleFold
  <2>6. QED
    BY <2>1, <2>3, <2>4, <2>5, IdleFold
<1>2. ASSUME NEW n \in Nat, NEW x PROVE Times(n, startBlockFile, x) = x
  <2> DEFINE is(it) == it = [s \in SUBSET DOMAIN [i \in 1 .. n |-> i] |->
                               IF s = {} THEN x ELSE startBlockFile(it[s \ {Max(s)}])]
             it0 == CHOOSE it : is(it)
  <2>1. Times(n, startBlockFile, x) = it0[DOMAIN [i \in 1 .. n |-> i]]
    BY DEF Times, FoldLeft, MapThenFoldSet
  <2>2. \A y : startBlockFile(y) = y
    BY DEF startBlockFile
  <2>3. DOMAIN [i \in 1 .. n |-> i] = 1 .. n
    OBVIOUS
  <2>4. \A it : is(it) <=> IdleEquation(it, x, 1 .. n)
    BY <2>2, <2>3 DEF IdleEquation
  <2> HIDE DEF is
  <2>5. is(it0)
    BY <2>4, IdleFold
  <2>6. QED
    BY <2>1, <2>3, <2>4, <2>5, IdleFold
<1>3. self' = Times(gCallback.records, startRecord,
                    Times(gCallback.files, startBlockFile, self))
  BY DEF Headers
<1>4. QED
  BY <1>0, <1>1, <1>2, <1>3

(* What the handlers of pristine leave behind, action by action. *)
LEMMA PristineStartBlock ==
  ASSUME command = "pristine", NEW x \in PristineObject, NEW h \in Nat
  PROVE  LET y == startBlock(x, h) IN
         /\ y \in PristineObject /\ y.currBlock = h
         /\ y.txMap = x.txMap /\ y.nbPristine = x.nbPristine
<1>1. startBlock(x, h) = [x EXCEPT !.currBlock = h]
  BY DEF startBlock, Pristine!startBlock
<1>2. QED
  BY <1>1 DEF PristineObject

LEMMA PristineStartTX ==
  ASSUME command = "pristine", NEW x \in PristineObject, tx'.cell \in 0 .. MaxTxs
  PROVE  LET z == CallStartTX(x) IN
         /\ z \in PristineObject /\ z.currBlock = x.currBlock
         /\ z.txMap = x.txMap /\ z.nbPristine = x.nbPristine
         /\ z.currTXHash = tx'.cell /\ ~ z.hasGenInput
<1> DEFINE c == tx'.cell  w == startTX(x, hashCell', c)  z == startInputs(w)
<1>1. w = [x EXCEPT !.currTXHash = c]
  BY DEF startTX, Pristine!startTX
<1> HIDE DEF w, c
<1>2. /\ w \in PristineObject /\ w.currTXHash = c /\ w.currBlock = x.currBlock
      /\ w.txMap = x.txMap /\ w.nbPristine = x.nbPristine
  BY <1>1 DEF PristineObject, c
<1>3. z = [w EXCEPT !.hasGenInput = FALSE, !.nbInputs = 0]
  BY DEF startInputs, Pristine!startInputs
<1> HIDE DEF z
<1>4. /\ z \in PristineObject /\ z.currTXHash = c /\ z.currBlock = w.currBlock
      /\ z.txMap = w.txMap /\ z.nbPristine = w.nbPristine /\ ~ z.hasGenInput
  BY <1>2, <1>3 DEF PristineObject
<1>5. QED
  BY <1>2, <1>4 DEF CallStartTX, z, w, c

LEMMA PristineStart ==
  ASSUME command = "pristine", self \in PristineObject,
         tx'.cell \in 0 .. MaxTxs, height \in Nat,
         \/ \E scripts \in Scripts : StartBlock(scripts)
         \/ \E hash \in coinbases : StartBlockRepeated(hash)
         \/ /\ \E ins \in {s \in SeqOf(coins, MaxInputs) : s # <<>>},
                  scripts \in Scripts : StartOther(ins, scripts)
            /\ self.currBlock = height
  PROVE  /\ self' \in PristineObject
         /\ self'.txMap = self.txMap /\ self'.nbPristine = self.nbPristine
         /\ self'.currBlock = height'
         /\ self'.currTXHash = tx'.cell /\ ~ self'.hasGenInput
<1> DEFINE h == height + 1  y == startBlock(self, h)
<1>0. h \in Nat
  OBVIOUS
<1>1. \/ self' = CallStartTX(y) /\ height' = height + 1
      \/ self' = CallStartTX(self) /\ height' = height /\ self.currBlock = height
  BY DEF StartBlock, StartBlockRepeated, StartOther
<1> HIDE DEF h
<1>2. /\ y \in PristineObject /\ y.currBlock = h
      /\ y.txMap = self.txMap /\ y.nbPristine = self.nbPristine
  BY <1>0, PristineStartBlock
<1> HIDE DEF y
<1>3. CASE self' = CallStartTX(y) /\ height' = h
  BY <1>2, <1>3, PristineStartTX
<1>4. CASE self' = CallStartTX(self) /\ height' = height /\ self.currBlock = height
  BY <1>4, PristineStartTX
<1>5. QED
  BY <1>1, <1>3, <1>4 DEF h

LEMMA PristineInputStarts ==
  ASSUME command = "pristine", NEW x \in PristineObject
  PROVE  LET y == startInput(x) IN
         /\ y \in PristineObject /\ y.currBlock = x.currBlock
         /\ y.txMap = x.txMap /\ y.nbPristine = x.nbPristine
         /\ y.currTXHash = x.currTXHash
         /\ y.hasGenInput <=> x.hasGenInput \/ upTXHash = gNullHash
<1> DEFINE b == x.hasGenInput \/ upTXHash = gNullHash  y == startInput(x)
           w == [x EXCEPT !.hasGenInput = b]
<1>1. y = [w EXCEPT !.nbInputs = x.nbInputs + 1]
  BY DEF startInput, Pristine!startInput
<1>2. b \in BOOLEAN /\ (b <=> x.hasGenInput \/ upTXHash = gNullHash)
  BY Zenon
<1> HIDE DEF b, y
<1>3. w \in PristineObject /\ w.hasGenInput = b
  BY <1>2 DEF PristineObject
<1>4. w.currBlock = x.currBlock /\ w.txMap = x.txMap
      /\ w.nbPristine = x.nbPristine /\ w.currTXHash = x.currTXHash
      /\ x.nbInputs + 1 \in Nat
  BY DEF PristineObject
<1> HIDE DEF w
<1>5. /\ y \in PristineObject /\ y.currBlock = w.currBlock
      /\ y.txMap = w.txMap /\ y.nbPristine = w.nbPristine
      /\ y.currTXHash = w.currTXHash /\ y.hasGenInput = w.hasGenInput
  BY <1>1, <1>3, <1>4 DEF PristineObject
<1>6. y.hasGenInput <=> x.hasGenInput \/ upTXHash = gNullHash
  BY <1>2, <1>3, <1>5, Zenon
<1>7. QED
  BY <1>4, <1>5, <1>6 DEF y

LEMMA PristineInput ==
  ASSUME command = "pristine", self \in PristineObject, InputCalls
  PROVE  LET y == startInput(self)
             m == Pristine!Set(self.txMap, hashCell, upTXHash, 0)
             c == IF /\ Pristine!Has(self.txMap, hashCell, upTXHash)
                     /\ Pristine!Get(self.txMap, hashCell, upTXHash) # 0
                  THEN self.nbPristine - 1 ELSE self.nbPristine
         IN  self' = [y EXCEPT !.txMap = m, !.nbPristine = c]
<1> DEFINE y == startInput(self)
<1>1. y \in PristineObject /\ y.txMap = self.txMap /\ y.nbPristine = self.nbPristine
  BY PristineInputStarts
<1>2. self' = edgeCall(y, edge'.shows)
  BY DEF InputCalls
<1> HIDE DEF y
<1>3. self' = Pristine!edge(y, hashCell, upTXHash)
  BY <1>2 DEF edgeCall
<1>4. QED
  BY <1>1, <1>3 DEF Pristine!edge, Pristine!Spent, y

LEMMA PristineEndInputs ==
  ASSUME command = "pristine", self \in PristineObject, StartOutputsCalls
  PROVE  self' = IF ~ self.hasGenInput THEN self
                 ELSE [self EXCEPT !.txMap = Pristine!Put(self.txMap, hashCell,
                                                self.currTXHash, self.currBlock),
                                   !.nbPristine = self.nbPristine + 1]
<1>1. self' = Pristine!endInputs(self, hashCell)
  BY DEF StartOutputsCalls, endInputs
<1>2. QED
  BY <1>1 DEF Pristine!endInputs

LEMMA PristineOther ==
  ASSUME command = "pristine", self \in PristineObject, gCallback \in Sessions,
         \/ Headers \/ OutputCalls \/ EndTXCalls \/ EndBlock \/ EndOfChain \/ Wrapup
         \/ WriteToClosedFile \/ Over \/ UNCHANGED allVars
  PROVE  self' = self
<1>1. CASE Headers
  BY <1>1, HeadersCalls
<1>2. CASE OutputCalls
  <2>1. self' = endOutput(startOutput(self), <<tx.hash, tx'.outs>>)
    BY <1>2 DEF OutputCalls
  <2>2. QED
    BY <2>1 DEF startOutput, endOutput
<1>3. CASE EndTXCalls
  BY <1>3 DEF EndTXCalls, endTX
<1>4. CASE EndBlock
  BY <1>4 DEF EndBlock, endBlock
<1>5. CASE Wrapup
  BY <1>5 DEF Wrapup, wrapup
<1>6. CASE EndOfChain \/ WriteToClosedFile \/ Over \/ UNCHANGED allVars
  BY <1>6 DEF EndOfChain, WriteToClosedFile, Over
<1>7. QED
  BY <1>1, <1>2, <1>3, <1>4, <1>5, <1>6

-----------------------------------------------------------------------------
(* The table of pristine. *)

TxMapEntry == [place : TxHash, key : 1 .. MaxTxs, val : Nat]

Valued(map, i, v) == [map EXCEPT ![i].val = v]
Updated(x, map, n) == [x EXCEPT !.txMap = map, !.nbPristine = n]

(* What a search finds, and what is done to what it finds. *)
LEMMA SearchHits ==
  ASSUME NEW map \in Seq(TxMapEntry), NEW mem, NEW i \in DOMAIN map,
         \A j \in DOMAIN map : map[j].place = map[i].place => j = i,
         mem[map[i].key] = map[i].place
  PROVE  LET h == map[i].place IN
         /\ Pristine!Has(map, mem, h)
         /\ Pristine!Get(map, mem, h) = map[i].val
         /\ \A v : Pristine!Set(map, mem, h, v) = Valued(map, i, v)
<1> DEFINE h == map[i].place  H == Pristine!Hits(map, mem, h)
<1>1. i \in Nat /\ map[i].key \in Nat
  <2>1. i \in Nat /\ map[i] \in TxMapEntry
    OBVIOUS
  <2>2. QED
    BY <2>1 DEF TxMapEntry
<1>2. H = {i}
  BY <1>1 DEF Pristine!Hits, Pristine!Spelt
<1>3. Pristine!Min({i}) = i
  BY <1>1 DEF Pristine!Min
<1> HIDE DEF H
<1>4. QED
  BY <1>2, <1>3 DEF Pristine!Has, Pristine!Get, Pristine!Set, Valued, H

LEMMA SearchMisses ==
  ASSUME NEW map, NEW mem, NEW h, \A j \in DOMAIN map : map[j].place # h
  PROVE  /\ ~ Pristine!Has(map, mem, h)
         /\ \A v : Pristine!Set(map, mem, h, v) = map
<1>1. Pristine!Hits(map, mem, h) = {}
  BY DEF Pristine!Hits
<1>2. QED
  BY <1>1 DEF Pristine!Has, Pristine!Set

LEMMA EntryChanged ==
  ASSUME NEW map \in Seq(TxMapEntry), NEW i \in DOMAIN map, NEW v \in Nat
  PROVE  LET m == Valued(map, i, v) IN
         /\ m \in Seq(TxMapEntry) /\ DOMAIN m = DOMAIN map
         /\ \A j \in DOMAIN map :
                /\ m[j].place = map[j].place /\ m[j].key = map[j].key
                /\ m[j].val = IF j = i THEN v ELSE map[j].val
<1> DEFINE e == [map[i] EXCEPT !.val = v]  m == [map EXCEPT ![i] = e]
<1>1. map[i] \in TxMapEntry
  OBVIOUS
<1>2. /\ e \in TxMapEntry /\ e.val = v
      /\ e.place = map[i].place /\ e.key = map[i].key
  BY <1>1 DEF TxMapEntry
<1> HIDE DEF e
<1>3. /\ m \in Seq(TxMapEntry) /\ DOMAIN m = DOMAIN map
      /\ \A j \in DOMAIN map : m[j] = IF j = i THEN e ELSE map[j]
  BY <1>2
<1>4. QED
  BY <1>2, <1>3 DEF e, Valued

(* The entries, their keys and what became of the outputs, of the          *)
(* transactions in the table.                                              *)
PlaceKept(x) ==
  /\ x \in Entries' <=> x \in Entries
  /\ x \in Entries => KeyCell(x)' = KeyCell(x)
  /\ Whole(x)' <=> Whole(x)
  /\ Blocks(x)' = Blocks(x)

LEMMA TableKept ==
  ASSUME PristineTable, self'.txMap = self.txMap,
         (coinbases \intersect {chain[i].hash : i \in Read})' =
            coinbases \intersect {chain[i].hash : i \in Read},
         \A x \in coinbases : PlaceKept(x)
  PROVE  PristineTable'
<1> DEFINE m == self.txMap
<1>1. /\ \A i \in DOMAIN m : m[i].place \in coinbases
      /\ \A i, j \in DOMAIN m : m[i].place = m[j].place => i = j
      /\ {m[i].place : i \in DOMAIN m} =
            (coinbases \intersect {chain[i].hash : i \in Read})'
  BY DEF PristineTable
<1>2. ASSUME NEW i \in DOMAIN m
      PROVE  /\ m[i].place \in Entries' => m[i].key = KeyCell(m[i].place)'
             /\ m[i].val = IF Whole(m[i].place)' THEN Max(Blocks(m[i].place)') ELSE 0
  BY <1>1 DEF PristineTable, PlaceKept, Pristine!Spent
<1>3. QED
  BY <1>1, <1>2 DEF PristineTable, Pristine!Spent

LEMMA CountKept ==
  ASSUME PristineCount, self'.nbPristine = self.nbPristine,
         nbRepeats' = 0 => nbRepeats = 0,
         {x \in coinbases' : Whole(x)'} = {x \in coinbases : Whole(x)}
  PROVE  PristineCount'
BY DEF PristineCount

(* What a start leaves of the history, and what there was before. *)
LEMMA HistoryAtStart ==
  ASSUME IndInv, HistoryInv, NEW hash \in TxHash,
         NEW ins \in Seq(Outpoint \union {GenInput}), IsStart(hash, ins)
  PROVE  /\ Read = DOMAIN chain
         /\ {chain'[i].hash : i \in Read'} = Hashes
         /\ \A x : Blocks(x)' = Blocks(x)
<1>1. /\ Read' = 1 .. Len(chain) /\ DOMAIN chain = 1 .. Len(chain)
      /\ \A i \in 1 .. Len(chain) : chain'[i] = chain[i]
  BY ChainAppended DEF HistoryInv
<1>2. Read = DOMAIN chain
  BY DEF Read, IsStart
<1>3. {chain'[i].hash : i \in Read'} = Hashes
  BY <1>1 DEF Hashes
<1>4. ASSUME NEW x PROVE Blocks(x)' = Blocks(x)
  <2>1. {i \in Read : chain[i].hash = x}' = {i \in Read : chain[i].hash = x}
    BY <1>1, <1>2
  <2> DEFINE R == {i \in Read : chain[i].hash = x}
  <2>2. R' = R /\ \A i \in R : chain'[i] = chain[i]
    BY <1>1, <1>2, <2>1
  <2> HIDE DEF R
  <2>3. {chain'[i].block : i \in R'} = {chain[i].block : i \in R}
    BY <2>2
  <2>4. QED
    BY <2>3 DEF Blocks, R
<1>5. QED
  BY <1>2, <1>3, <1>4

LEMMA PristineStartStep ==
  ASSUME IndInv, HistoryInv, PristineInv, command = "pristine", IndInv',
         NEW hash \in TxHash, NEW ins \in Seq(Outpoint \union {GenInput}),
         IsStart(hash, ins), IsNew(hash, ins) \/ IsRepeated(hash, ins),
         \/ \E scripts \in Scripts : StartBlock(scripts)
         \/ \E h \in coinbases : StartBlockRepeated(h)
         \/ \E s \in {s \in SeqOf(coins, MaxInputs) : s # <<>>},
               scripts \in Scripts : StartOther(s, scripts)
  PROVE  PristineInv'
<1>1. /\ PristineLocals /\ PristineTable /\ PristineCount
      /\ self \in PristineObject /\ height \in Nat
  BY DEF PristineInv, PristineLocals, HistoryInv, LoopInv
<1>2. \A s, scripts : StartOther(s, scripts) => self.currBlock = height
  BY <1>1 DEF PristineLocals, HistoryInv, LoopInv, StartOther
<1>3. tx'.cell \in 0 .. MaxTxs
  BY DEF IndInv, TypeOK
<1>4. /\ self' \in PristineObject
      /\ self'.txMap = self.txMap /\ self'.nbPristine = self.nbPristine
      /\ self'.currBlock = height'
      /\ self'.currTXHash = tx'.cell /\ ~ self'.hasGenInput
  BY <1>1, <1>2, <1>3, PristineStart
<1>5. /\ pc = "tx" /\ pc' = "inputs" /\ tx'.ins = ins /\ tx'.hash = hash
      /\ UNCHANGED <<gTXOMap, mRawData, slots>>
      /\ \A x \in TxHash \ {hash} : nbOutputs'[x] = nbOutputs[x]
  BY DEF IsStart, chunkMem, ptrsMem
<1>6. ins # <<>>
  <2>1. <<GenInput>> # <<>>
    OBVIOUS
  <2>2. QED
    BY <2>1 DEF IsNew, IsRepeated
<1>7. PristineLocals'
  BY <1>4, <1>5, <1>6 DEF PristineLocals
<1>8. /\ NbHashes \in Nat /\ Hashes = 1 .. NbHashes
      /\ coinbases \subseteq TxHash /\ \A x \in coinbases : x <= NbHashes
      /\ \A x \in Entries : x <= NbHashes
  <2>1. Hashes = 1 .. NbHashes
    BY DEF HistoryInv, ChainInv
  <2>2. NbHashes \in Nat
    BY HashesAreCounted
  <2>3. /\ coinbases \subseteq TxHash /\ \A x \in coinbases : x <= NbHashes
        /\ \A x \in Entries : x <= NbHashes
    BY DEF IndInv, TypeOK, ChainIsSound
  <2>4. QED
    BY <2>1, <2>2, <2>3
<1>9. /\ Read = DOMAIN chain /\ {chain'[i].hash : i \in Read'} = Hashes
      /\ \A x : Blocks(x)' = Blocks(x)
  BY HistoryAtStart
<1>10. \/ coinbases' = coinbases
       \/ coinbases' = coinbases \union {hash} /\ hash = NbHashes + 1
  BY DEF IsNew, IsRepeated
<1>11. (coinbases \intersect {chain[i].hash : i \in Read})' =
            coinbases \intersect {chain[i].hash : i \in Read}
  <2>1. {chain[i].hash : i \in Read} = Hashes
    BY <1>9 DEF Hashes
  <2>2. coinbases' \intersect Hashes = coinbases \intersect Hashes
    BY <1>8, <1>10
  <2>3. QED
    BY <1>9, <2>1, <2>2
<1>12. ASSUME NEW x \in coinbases' PROVE Whole(x)' <=> x \in coinbases /\ Whole(x)
  <2>1. Entries' = Entries /\ Held' = Held
    BY <1>5, IndexUntouched
  <2>2. CASE x \in coinbases
    <3>1. nbOutputs'[x] = nbOutputs[x]
      <4>1. CASE IsNew(hash, ins)
        BY <1>5, <1>8, <2>2, <4>1 DEF IsNew
      <4>2. CASE IsRepeated(hash, ins)
        BY <4>2 DEF IsRepeated
      <4>3. QED
        BY <4>1, <4>2
    <3>2. QED
      BY <1>5, <2>1, <2>2, <3>1 DEF Whole
  <2>3. CASE x \notin coinbases
    BY <1>8, <1>10, <2>1, <2>3 DEF Whole
  <2>4. QED
    BY <2>2, <2>3
<1>13. \A x \in coinbases : PlaceKept(x)
  <2>1. Entries' = Entries /\ \A x : KeyCell(x)' = KeyCell(x)
    BY <1>5, IndexUntouched
  <2>2. coinbases \subseteq coinbases'
    BY <1>10
  <2>3. QED
    BY <1>9, <1>12, <2>1, <2>2 DEF PlaceKept
<1>14. PristineTable'
  BY <1>1, <1>4, <1>11, <1>13, TableKept
<1>15. {x \in coinbases' : Whole(x)'} = {x \in coinbases : Whole(x)}
  BY <1>10, <1>12
<1>16. nbRepeats' = 0 => nbRepeats = 0
  <2>1. nbRepeats \in Nat
    BY DEF IndInv, TypeOK
  <2>2. QED
    BY <2>1 DEF IsNew, IsRepeated
<1>17. PristineCount'
  BY <1>1, <1>4, <1>15, <1>16, CountKept
<1>18. QED
  BY <1>7, <1>14, <1>17 DEF PristineInv

(* Steps that leave the index and the history as they were. *)
LEMMA PlacesUntouched ==
  ASSUME UNCHANGED <<gTXOMap, mRawData, slots, chain, nbOutputs, pc>>,
         pc = "outputs" => tx' = tx
  PROVE  /\ Read' = Read /\ \A x : PlaceKept(x)
         /\ {chain[i].hash : i \in Read}' = {chain[i].hash : i \in Read}
<1>1. /\ Entries' = Entries /\ Held' = Held /\ Read' = Read
      /\ \A x : KeyCell(x)' = KeyCell(x)
  BY IndexUntouched DEF Read
<1>2. \A x : Blocks(x)' = Blocks(x)
  BY <1>1 DEF Blocks
<1>3. \A x : Whole(x)' <=> Whole(x)
  BY <1>1 DEF Whole
<1>4. QED
  BY <1>1, <1>2, <1>3 DEF PlaceKept

LEMMA PristineQuietStep ==
  ASSUME PristineInv, command = "pristine", self' = self,
         UNCHANGED <<gTXOMap, mRawData, slots, chain, chainVars, pc, height>>,
         tx' = tx
  PROVE  PristineInv'
<1> USE DEF chainVars
<1>1. /\ Read' = Read /\ \A x : PlaceKept(x)
      /\ {chain[i].hash : i \in Read}' = {chain[i].hash : i \in Read}
  BY PlacesUntouched
<1>2. PristineTable'
  BY <1>1, TableKept DEF PristineInv
<1>3. {x \in coinbases' : Whole(x)'} = {x \in coinbases : Whole(x)}
  BY <1>1 DEF PlaceKept
<1>4. PristineCount'
  BY <1>3, CountKept DEF PristineInv
<1>5. PristineLocals'
  BY DEF PristineInv, PristineLocals
<1>6. QED
  BY <1>2, <1>4, <1>5 DEF PristineInv

LEMMA TailOfOne ==
  ASSUME NEW S, NEW s \in Seq(S), s # <<>>, Len(s) <= 1
  PROVE  Tail(s) = <<>>
<1>1. PICK n : n = Len(s)
  OBVIOUS
<1>2. n \in Nat \ {0} /\ n <= 1
  BY <1>1
<1>3. n = 1
  BY ONLY <1>2
<1>4. Tail(s) \in Seq(S) /\ Len(Tail(s)) = Len(s) - 1
  OBVIOUS
<1>5. Len(Tail(s)) = 0
  BY ONLY <1>1, <1>3, <1>4
<1>6. QED
  BY <1>4, <1>5

LEMMA PristineGenInputStep ==
  ASSUME IndInv, HistoryInv, PristineInv, command = "pristine", GenInputCalls
  PROVE  PristineInv'
<1>1. /\ ParseGenInput /\ InputLeft /\ InputDone /\ upTXHash = gNullHash
      /\ UNCHANGED <<gCallback, loop, height, txo, chain>>
      /\ UNCHANGED <<gTXOMap, mRawData, slots, chainVars, pc>>
      /\ pc = "inputs" /\ tx.ins # <<>>
  BY DEF GenInputCalls, ParseGenInput, InputLeft, memVars, chunkMem, ptrsMem
<1> USE DEF chainVars
<1>2. /\ Len(chain) \in DOMAIN chain /\ tx.hash = chain[Len(chain)].hash
      /\ tx.hash \in coinbases
  <2>1. /\ Len(chain) \in DOMAIN chain /\ tx.hash = chain[Len(chain)].hash
        /\ tx.hash \notin coinbases => upTXHash \in TxHash
    BY <1>1, MintedInputs DEF HistoryInv
  <2>2. QED
    BY <1>1, <2>1 DEF TxHash
<1>3. tx'.ins = <<>> /\ tx'.hash = tx.hash /\ tx'.cell = tx.cell
  <2>1. chain[Len(chain)].ins = <<GenInput>>
    BY <1>2 DEF HistoryInv, ChainInv, IsMinted
  <2>2. Len(chain[Len(chain)].ins) = 1
    BY <2>1
  <2>3. Len(tx.ins) <= 1
    BY <1>1, <2>2 DEF HistoryInv, LastInv, Last
  <2>4. /\ tx'.ins = Tail(tx.ins) /\ tx'.hash = tx.hash /\ tx'.cell = tx.cell
        /\ tx.ins \in Seq(Outpoint \union {GenInput})
    BY <1>1, InputRead
  <2>5. Tail(tx.ins) = <<>>
    BY <1>1, <2>3, <2>4, TailOfOne
  <2>6. QED
    BY <2>4, <2>5
<1>4. /\ PristineLocals /\ PristineTable /\ PristineCount /\ self \in PristineObject
  BY DEF PristineInv, PristineLocals
<1>5. /\ self' \in PristineObject
      /\ self'.txMap = self.txMap /\ self'.nbPristine = self.nbPristine
      /\ self'.currBlock = self.currBlock
      /\ self'.currTXHash = self.currTXHash
      /\ self'.hasGenInput
  <2>1. startInput(self) = self'
    BY DEF GenInputCalls
  <2>2. QED
    BY <1>1, <1>4, <2>1, PristineInputStarts
<1>6. PristineLocals'
  BY <1>1, <1>2, <1>3, <1>4, <1>5 DEF PristineLocals
<1>7. /\ Read' = Read /\ \A x : PlaceKept(x)
      /\ {chain[i].hash : i \in Read}' = {chain[i].hash : i \in Read}
  BY <1>1, PlacesUntouched
<1>8. PristineTable'
  BY <1>1, <1>4, <1>5, <1>7, TableKept
<1>9. {x \in coinbases' : Whole(x)'} = {x \in coinbases : Whole(x)}
  BY <1>1, <1>7 DEF PlaceKept
<1>10. PristineCount'
  BY <1>1, <1>4, <1>5, <1>9, CountKept
<1>11. QED
  BY <1>6, <1>8, <1>10 DEF PristineInv

LEMMA BlocksArePositive ==
  ASSUME HistoryInv, NEW x, NEW k \in Read, chain[k].hash = x
  PROVE  /\ Max(Blocks(x)) \in Blocks(x)
         /\ \A b \in Blocks(x) : Max(Blocks(x)) >= b
         /\ Max(Blocks(x)) \in 1 .. height
<1> DEFINE B == Blocks(x)
<1>1. \A i \in Read : chain[i].block \in 1 .. height
  <2> TAKE i \in Read
  <2>1. i \in DOMAIN chain /\ chain \in Seq(Start) /\ height \in Nat
        /\ chain[i].block <= height
    BY DEF Read, HistoryInv, LoopInv, ChainInv
  <2>2. chain[i] \in Start
    BY <2>1
  <2>3. QED
    BY <2>1, <2>2 DEF Start
<1>2. B \subseteq 1 .. height /\ B # {} /\ height \in Nat
  BY <1>1 DEF Blocks, HistoryInv, LoopInv
<1> HIDE DEF B
<1>3. B \in SUBSET (0 .. height)
  BY <1>2
<1>4. Max(B) \in B /\ \A b \in B : Max(B) >= b
  BY <1>2, <1>3, MaxIsElement
<1>5. QED
  BY <1>2, <1>4 DEF B

(* The object after a change of the table and of the count. *)
LEMMA PristineChanged ==
  ASSUME NEW y \in PristineObject, NEW m \in Seq(TxMapEntry), NEW c \in Int
  PROVE  LET z == Updated(y, m, c) IN
         /\ z \in PristineObject /\ z.txMap = m /\ z.nbPristine = c
         /\ z.currBlock = y.currBlock /\ z.currTXHash = y.currTXHash
         /\ z.hasGenInput <=> y.hasGenInput
<1> DEFINE z == Updated(y, m, c)
<1> USE DEF Updated
<1>1. /\ z \in PristineObject /\ z.txMap = m /\ z.nbPristine = c
      /\ z.currBlock = y.currBlock /\ z.currTXHash = y.currTXHash
  BY DEF PristineObject, TxMapEntry
<1>2. z.hasGenInput = y.hasGenInput
  BY DEF PristineObject
<1>3. QED
  BY <1>1, <1>2, Zenon

(* The transaction that an input spends from is no longer whole; those of  *)
(* the others that are stay so.                                            *)
LEMMA PlacesAfterInput ==
  ASSUME IndInv, HistoryInv, InputCalls, NEW u, u = upTXHash
  PROVE  /\ u \in Entries /\ tx.hash \notin coinbases
         /\ hashCell[KeyCell(u)] = u
         /\ \A x \in TxHash \ {u} : PlaceKept(x)
         /\ Blocks(u)' = Blocks(u) /\ ~ Whole(u)'
         /\ u \in Entries' => KeyCell(u)' = KeyCell(u)
         /\ Read' = Read
         /\ u \in coinbases => \E k \in Read : chain[k].hash = u
<1>1. /\ ParseInput /\ InputLeft /\ SpendsHeld /\ upTXHash # gNullHash
      /\ UNCHANGED <<chainVars, pc, chain>> /\ pc = "inputs" /\ tx.ins # <<>>
  BY DEF InputCalls, ParseInput, SpendsHeld, InputLeft
<1>2. /\ Len(chain) \in DOMAIN chain /\ tx.hash = chain[Len(chain)].hash
      /\ tx.hash \notin coinbases
  BY <1>1, MintedInputs DEF HistoryInv
<1>3. /\ upTXHash \in TxHash /\ nbOutputs[upTXHash] \in Nat
      /\ upOutputIndex \in 1 .. MaxOutputs /\ upOutputIndex <= nbOutputs[upTXHash]
  <2>1. /\ upOutputIndex \in 1 .. MaxOutputs /\ upOutputIndex <= nbOutputs[upTXHash]
        /\ upTXHash \in TxHash
    BY <1>1, NamedOutput
  <2>2. nbOutputs[upTXHash] \in Nat
    BY <2>1 DEF IndInv, TypeOK
  <2>3. QED
    BY <2>1, <2>2
<1>4. upTXHash \in Entries /\ Head(tx.ins) = <<upTXHash, upOutputIndex>>
  BY <1>1, SpentOutput
<1>5. PICK n : n = upOutputIndex
  OBVIOUS
<1>6. /\ u \in Entries /\ u \in TxHash /\ n \in 1 .. nbOutputs[u]
      /\ Head(tx.ins) = <<u, n>>
  <2>1. n \in 1 .. nbOutputs[u]
    BY <1>3, <1>5
  <2>2. QED
    BY <1>3, <1>4, <1>5, <2>1
<1>7. /\ Entries' = Entries \ Gone /\ Held' = Held \ {<<u, n>>} /\ Gone \subseteq {u}
      /\ \A y \in Entries' : KeyCell(y)' = KeyCell(y)
  BY <1>1, <1>6, EntriesAfterInput DEF Gone
<1>8. /\ Read' = Read /\ \A x : Blocks(x)' = Blocks(x)
  BY <1>1 DEF Read, Blocks
<1>9. nbOutputs' = nbOutputs /\ pc' = "inputs"
  BY <1>1 DEF chainVars
<1>10. ~ Whole(u)'
  BY <1>6, <1>7, <1>9 DEF Whole
<1>11. \A x \in TxHash \ {u} : PlaceKept(x)
  <2> TAKE x \in TxHash \ {u}
  <2>1. \A k : <<x, k>> \in Held' <=> <<x, k>> \in Held
    BY <1>7
  <2>2. x \in Entries' <=> x \in Entries
    BY <1>7
  <2>3. Whole(x)' <=> Whole(x)
    BY <1>1, <1>9, <2>1, <2>2 DEF Whole
  <2>4. QED
    BY <1>7, <1>8, <2>2, <2>3 DEF PlaceKept
<1>12. hashCell[KeyCell(u)] = u
  BY <1>6 DEF IndInv, KeysAreIntact
<1>13. ASSUME u \in coinbases PROVE \E k \in Read : chain[k].hash = u
  <2>1. u \in 1 .. NbHashes
    BY <1>6 DEF IndInv, ChainIsSound, TxHash
  <2>2. PICK k \in DOMAIN chain : chain[k].hash = u
    BY <2>1 DEF HistoryInv, ChainInv, Hashes
  <2>3. k # Len(chain)
    BY <1>2, <1>13, <2>2
  <2>4. k \in Read
    BY <2>3 DEF Read, HistoryInv, ChainInv
  <2>5. QED
    BY <2>2, <2>4
<1>14. QED
  <2>1. u \in Entries' => KeyCell(u)' = KeyCell(u)
    BY <1>7
  <2>2. Blocks(u)' = Blocks(u)
    BY <1>8
  <2>3. QED
    BY <1>2, <1>6, <1>8, <1>10, <1>11, <1>12, <1>13, <2>1, <2>2

(* The table after a change of the value of one transaction. *)
LEMMA TableUpdated ==
  ASSUME PristineTable, coinbases \subseteq TxHash,
         (coinbases \intersect {chain[i].hash : i \in Read})' =
            coinbases \intersect {chain[i].hash : i \in Read},
         NEW map \in Seq(TxMapEntry), map = self.txMap,
         NEW i \in DOMAIN map, NEW u, map[i].place = u, NEW v \in Nat,
         self'.txMap = Valued(map, i, v),
         \A x \in coinbases \ {u} : PlaceKept(x),
         u \in Entries' => map[i].key = KeyCell(u)',
         v = IF Whole(u)' THEN Max(Blocks(u)') ELSE 0
  PROVE  PristineTable'
<1> DEFINE m == Valued(map, i, v)
<1>1. /\ m \in Seq(TxMapEntry) /\ DOMAIN m = DOMAIN map
      /\ \A j \in DOMAIN map :
              /\ m[j].place = map[j].place /\ m[j].key = map[j].key
              /\ m[j].val = IF j = i THEN v ELSE map[j].val
  <2>1. map \in Seq(TxMapEntry) /\ i \in DOMAIN map /\ v \in Nat
    OBVIOUS
  <2>2. QED
    BY ONLY <2>1, EntryChanged
<1>2. /\ \A j, l \in DOMAIN map : map[j].place = map[l].place => j = l
      /\ {map[j].place : j \in DOMAIN map} =
            coinbases \intersect {chain[j].hash : j \in Read}
      /\ \A j \in DOMAIN map : map[j].place \in coinbases
  <2>1. /\ \A j, l \in DOMAIN map : map[j].place = map[l].place => j = l
        /\ {map[j].place : j \in DOMAIN map} =
              coinbases \intersect {chain[j].hash : j \in Read}
    <3>1. /\ \A j, l \in DOMAIN self.txMap :
                self.txMap[j].place = self.txMap[l].place => j = l
          /\ {self.txMap[j].place : j \in DOMAIN self.txMap} =
                coinbases \intersect {chain[j].hash : j \in Read}
      BY DEF PristineTable
    <3>2. map = self.txMap
      OBVIOUS
    <3>3. QED
      BY ONLY <3>1, <3>2
  <2>2. \A j \in DOMAIN map : map[j].place \in {map[l].place : l \in DOMAIN map}
    OBVIOUS
  <2>3. QED
    BY <2>1, <2>2
<1>3. PICK mm : mm = m
  OBVIOUS
<1>4. self'.txMap = mm
  BY <1>3
<1>5. /\ DOMAIN mm = DOMAIN map
      /\ \A j \in DOMAIN map :
              /\ mm[j].place = map[j].place /\ mm[j].key = map[j].key
              /\ mm[j].val = IF j = i THEN v ELSE map[j].val
  BY <1>1, <1>3
<1> HIDE DEF m
<1>6. \A j, l \in DOMAIN mm : mm[j].place = mm[l].place => j = l
  BY <1>2, <1>5
<1>7. {mm[j].place : j \in DOMAIN mm} =
        (coinbases \intersect {chain[j].hash : j \in Read})'
  <2>1. {mm[j].place : j \in DOMAIN mm} = {map[j].place : j \in DOMAIN map}
    BY ONLY <1>5
  <2>2. QED
    BY <1>2, <2>1
<1>8. ASSUME NEW j \in DOMAIN mm
      PROVE  /\ mm[j].place \in Entries' => mm[j].key = KeyCell(mm[j].place)'
             /\ mm[j].val = IF Whole(mm[j].place)' THEN Max(Blocks(mm[j].place)')
                            ELSE 0
  <2>0. PICK x : x = map[j].place
    OBVIOUS
  <2>1. mm[j].place = x /\ mm[j].key = map[j].key
        /\ mm[j].val = IF j = i THEN v ELSE map[j].val
    BY <1>5, <2>0
  <2>2. CASE j = i
    BY <2>0, <2>1, <2>2
  <2>3. CASE j # i
    <3>1. PlaceKept(x)
      BY <1>2, <1>5, <2>0, <2>3
    <3>2. /\ x \in Entries => map[j].key = KeyCell(x)
          /\ map[j].val = IF Whole(x) THEN Max(Blocks(x)) ELSE 0
      BY <1>5, <2>0 DEF PristineTable, Pristine!Spent
    <3>3. QED
      BY <2>1, <2>3, <3>1, <3>2 DEF PlaceKept
  <2>4. QED
    BY <2>2, <2>3
<1>9. \A j \in DOMAIN mm :
        /\ mm[j].place \in Entries' => mm[j].key = KeyCell(mm[j].place)'
        /\ mm[j].val = IF Whole(mm[j].place)' THEN Max(Blocks(mm[j].place)') ELSE 0
  BY <1>8
<1>10. (\A j \in DOMAIN self.txMap :
        /\ self.txMap[j].place \in Entries =>
                self.txMap[j].key = KeyCell(self.txMap[j].place)
        /\ self.txMap[j].val = IF Whole(self.txMap[j].place)
                               THEN Max(Blocks(self.txMap[j].place)) ELSE 0)'
  BY <1>4, <1>9
<1>11. QED
  <2>1. (\A j, l \in DOMAIN self.txMap :
            self.txMap[j].place = self.txMap[l].place => j = l)'
    BY ONLY <1>4, <1>6
  <2>2. ({self.txMap[j].place : j \in DOMAIN self.txMap} =
            coinbases \intersect {chain[j].hash : j \in Read})'
    BY ONLY <1>4, <1>7
  <2>3. QED
    BY ONLY <1>10, <2>1, <2>2 DEF PristineTable, Pristine!Spent

(* The coinbase transactions are finitely many. *)
LEMMA WholeAreFinite ==
  ASSUME IndInv, NEW S \in SUBSET coinbases
  PROVE  IsFiniteSet(S) /\ Cardinality(S) \in Nat
<1>1. IsFiniteSet(TxHash)
  BY FS_Interval DEF TxHash
<1>2. IsFiniteSet(S)
  BY <1>1, FS_Subset DEF IndInv, TypeOK
<1>3. QED
  BY <1>2, FS_CardinalityType

LEMMA PristineInputStep ==
  ASSUME IndInv, HistoryInv, PristineInv, command = "pristine", InputCalls
  PROVE  PristineInv'
<1> DEFINE y == startInput(self)
           S == {x \in coinbases : Whole(x)}
<1>1. PICK u, map, n : u = upTXHash /\ map = self.txMap /\ n = self.nbPristine
  OBVIOUS
<1> DEFINE m == Pristine!Set(map, hashCell, u, 0)
           c == IF /\ Pristine!Has(map, hashCell, u)
                   /\ Pristine!Get(map, hashCell, u) # 0
                THEN n - 1 ELSE n
<1>2. /\ ParseInput /\ InputLeft /\ InputDone /\ u # gNullHash
      /\ UNCHANGED <<chainVars, pc, chain, height, hashCell>> /\ pc = "inputs"
      /\ tx'.hash = tx.hash /\ tx'.cell = tx.cell
  <2>1. /\ ParseInput /\ InputLeft /\ InputDone /\ u # gNullHash
        /\ UNCHANGED <<chainVars, pc, chain, height, hashCell>>
    BY <1>1 DEF InputCalls, ParseInput
  <2>2. QED
    BY <2>1, InputRead
<1>3. /\ PristineLocals /\ PristineTable /\ PristineCount /\ self \in PristineObject
      /\ map \in Seq(TxMapEntry) /\ n \in Int
  BY <1>1 DEF PristineInv, PristineLocals, PristineObject, TxMapEntry
<1>4. /\ y \in PristineObject /\ y.currBlock = self.currBlock
      /\ y.currTXHash = self.currTXHash
      /\ y.hasGenInput <=> self.hasGenInput
  BY <1>1, <1>2, <1>3, PristineInputStarts
<1>5. self' = Updated(y, m, c)
  BY <1>1, <1>3, PristineInput DEF Updated
<1>6. /\ u \in Entries /\ tx.hash \notin coinbases /\ hashCell[KeyCell(u)] = u
      /\ \A x \in TxHash \ {u} : PlaceKept(x)
      /\ Blocks(u)' = Blocks(u) /\ ~ Whole(u)'
      /\ u \in Entries' => KeyCell(u)' = KeyCell(u)
      /\ Read' = Read
      /\ u \in coinbases => \E k \in Read : chain[k].hash = u
  BY <1>1, PlacesAfterInput
<1>7. /\ coinbases' = coinbases /\ coinbases \subseteq TxHash
      /\ nbRepeats' = nbRepeats
      /\ (coinbases \intersect {chain[i].hash : i \in Read})' =
            coinbases \intersect {chain[i].hash : i \in Read}
  BY <1>2, <1>6 DEF chainVars, IndInv, TypeOK
<1>8. /\ \A i, j \in DOMAIN map : map[i].place = map[j].place => i = j
      /\ {map[i].place : i \in DOMAIN map} =
            coinbases \intersect {chain[i].hash : i \in Read}
  <2>1. /\ \A i, j \in DOMAIN self.txMap :
              self.txMap[i].place = self.txMap[j].place => i = j
        /\ {self.txMap[i].place : i \in DOMAIN self.txMap} =
              coinbases \intersect {chain[i].hash : i \in Read}
    BY <1>3 DEF PristineTable
  <2>2. QED
    BY ONLY <1>1, <2>1
<1>9. \A x \in coinbases \ {u} : PlaceKept(x)
  BY <1>6, <1>7
<1>10. ASSUME m \in Seq(TxMapEntry), c \in Int
       PROVE  PristineLocals' /\ self'.txMap = m /\ self'.nbPristine = c
  <2>1. /\ self' \in PristineObject /\ self'.txMap = m /\ self'.nbPristine = c
        /\ self'.currBlock = y.currBlock /\ self'.currTXHash = y.currTXHash
        /\ self'.hasGenInput <=> y.hasGenInput
    <3> HIDE DEF m, c, y
    <3>1. y \in PristineObject /\ m \in Seq(TxMapEntry) /\ c \in Int
      BY <1>4, <1>10
    <3>2. QED
      BY ONLY <1>5, <3>1, PristineChanged
  <2> HIDE DEF m, c, y
  <2>2. ~ self.hasGenInput
    BY <1>2, <1>3, <1>6 DEF PristineLocals
  <2>3. PristineLocals'
    BY <1>2, <1>3, <1>4, <1>6, <1>7, <2>1, <2>2 DEF PristineLocals
  <2>4. QED
    BY <2>1, <2>3
<1> HIDE DEF y
<1>11. CASE u \in coinbases
  <2>1. PICK k \in Read : chain[k].hash = u
    BY <1>6, <1>11
  <2>2. PICK i \in DOMAIN map : map[i].place = u
    BY <1>8, <1>11, <2>1
  <2>3. /\ map[i].key = KeyCell(u)
        /\ map[i].val = IF Whole(u) THEN Max(Blocks(u)) ELSE 0
    BY <1>1, <1>3, <1>6, <2>2 DEF PristineTable, Pristine!Spent
  <2>4. /\ m = Valued(map, i, 0)
        /\ c = IF map[i].val # 0 THEN n - 1 ELSE n
    <3>1. /\ map \in Seq(TxMapEntry) /\ i \in DOMAIN map
          /\ \A j \in DOMAIN map : map[j].place = map[i].place => j = i
          /\ hashCell[map[i].key] = map[i].place
      BY <1>3, <1>6, <1>8, <2>2, <2>3
    <3>2. /\ Pristine!Has(map, hashCell, map[i].place)
          /\ Pristine!Get(map, hashCell, map[i].place) = map[i].val
          /\ \A v : Pristine!Set(map, hashCell, map[i].place, v)
                    = Valued(map, i, v)
      BY ONLY <3>1, SearchHits
    <3>3. /\ Pristine!Has(map, hashCell, u)
          /\ Pristine!Get(map, hashCell, u) = map[i].val
          /\ \A v : Pristine!Set(map, hashCell, u, v) = Valued(map, i, v)
      BY ONLY <2>2, <3>2
    <3>4. QED
      BY ONLY <3>3
  <2>5. map[i].val # 0 <=> Whole(u)
    BY <2>1, <2>3, BlocksArePositive DEF HistoryInv, LoopInv
  <2>6. m \in Seq(TxMapEntry)
    <3>1. map \in Seq(TxMapEntry) /\ i \in DOMAIN map /\ 0 \in Nat
      BY <1>3
    <3>2. Valued(map, i, 0) \in Seq(TxMapEntry)
      BY ONLY <3>1, EntryChanged
    <3>3. QED
      BY ONLY <2>4, <3>2
  <2>7. c \in Int
    BY <1>3, <2>4
  <2>8. PristineLocals' /\ self'.txMap = m /\ self'.nbPristine = c
    BY <1>10, <2>6, <2>7
  <2> HIDE DEF m, c
  <2>9. PristineTable'
    <3>1. /\ map = self.txMap /\ self'.txMap = Valued(map, i, 0)
          /\ u \in Entries' => map[i].key = KeyCell(u)'
          /\ 0 = IF Whole(u)' THEN Max(Blocks(u)') ELSE 0
      BY <1>1, <1>6, <2>3, <2>4, <2>8
    <3>2. /\ PristineTable /\ map \in Seq(TxMapEntry)
          /\ i \in DOMAIN map /\ map[i].place = u /\ 0 \in Nat
      BY <1>3, <2>2
    <3>3. QED
      BY ONLY <1>7, <1>9, <3>1, <3>2, TableUpdated
  <2>10. {x \in coinbases' : Whole(x)'} = S \ {u}
    BY <1>6, <1>7, <1>9 DEF PlaceKept
  <2>11. IsFiniteSet(S) /\ Cardinality(S) \in Nat
    BY WholeAreFinite
  <2>12. nbRepeats = 0 => n = Cardinality(S)
    BY <1>1, <1>3 DEF PristineCount
  <2>13. u \in S <=> Whole(u)
    BY <1>11
  <2> HIDE DEF S
  <2>14. nbRepeats = 0 => c = Cardinality(S \ {u})
    <3>1. Cardinality(S \ {u}) = IF u \in S THEN Cardinality(S) - 1 ELSE Cardinality(S)
      BY <2>11, FS_RemoveElement
    <3>2. QED
      BY <2>4, <2>5, <2>12, <2>13, <3>1
  <2>15. PristineCount'
    BY <1>7, <2>8, <2>10, <2>14 DEF PristineCount
  <2>16. QED
    BY <2>8, <2>9, <2>15 DEF PristineInv
<1>12. CASE u \notin coinbases
  <2>1. \A j \in DOMAIN map : map[j].place # u
    BY <1>8, <1>12
  <2>2. m = map /\ c = n
    BY <2>1, SearchMisses
  <2>3. PristineLocals' /\ self'.txMap = map /\ self'.nbPristine = n
    BY <1>3, <1>10, <2>2
  <2>4. \A x \in coinbases : PlaceKept(x)
    BY <1>9, <1>12
  <2> HIDE DEF m, c, S
  <2>5. PristineTable'
    BY <1>1, <1>3, <1>7, <2>3, <2>4, TableKept
  <2>6. {x \in coinbases' : Whole(x)'} = {x \in coinbases : Whole(x)}
    BY <1>7, <2>4 DEF PlaceKept
  <2>7. PristineCount'
    BY <1>1, <1>3, <1>7, <2>3, <2>6, CountKept
  <2>8. QED
    BY <2>3, <2>5, <2>7 DEF PristineInv
<1>13. QED
  BY <1>11, <1>12

(* The transaction whose outputs come next is whole, whatever was spent of *)
(* an earlier one it repeats; the others stay as they are.                 *)
LEMMA PlacesAtOutputs ==
  ASSUME IndInv, HistoryInv, StartOutputsCalls, NEW h, h = tx.hash
  PROVE  /\ pc = "inputs" /\ pc' = "outputs" /\ tx.ins = <<>> /\ h \in TxHash
         /\ {chain[i].hash : i \in Read}' = {chain[i].hash : i \in Read} \union {h}
         /\ \A x \in TxHash \ {h} : PlaceKept(x)
         /\ h \in Entries' /\ Whole(h)'
         /\ Max(Blocks(h)') = height /\ height \in Nat \ {0}
         /\ KeyCell(h)' = IF h \in Entries THEN KeyCell(h) ELSE tx.cell
         /\ h \notin Entries => tx.cell \in 1 .. MaxTxs
         /\ hashCell[tx.cell] = h
         /\ h \in Entries => hashCell[KeyCell(h)] = h
         /\ h \in Entries <=> \E i \in Read : chain[i].hash = h
         /\ UNCHANGED <<coinbases, nbRepeats, nbOutputs, height, tx>>
<1>1. /\ StartOutputs /\ pc = "inputs" /\ pc' = "outputs" /\ tx.ins = <<>>
      /\ UNCHANGED <<coinbases, nbRepeats, nbOutputs, height, tx, chain>>
  BY DEF StartOutputsCalls, StartOutputs
<1>2. /\ h \in TxHash
      /\ gTXOMap' \in [TxHash -> [key : 1 .. MaxTxs, chunk : 1 .. MaxTxs]
                                    \union {NoTxo}]
      /\ Entries' = Entries \union {h}
      /\ KeyCell(h)' = IF h \in Entries THEN KeyCell(h) ELSE tx.cell
      /\ \A x \in Entries : x # h => KeyCell(x)' = KeyCell(x)
      /\ Held' = {o \in Held : o[1] # h}
  BY <1>1, EntriesAfterStart
<1>3. KeyCell(h)' \in 1 .. MaxTxs
  <2>1. h \in Entries'
    BY <1>2
  <2>2. gTXOMap'[h] \in [key : 1 .. MaxTxs, chunk : 1 .. MaxTxs]
    BY <1>2, <2>1 DEF Entries
  <2>3. QED
    BY <2>2 DEF KeyCell
<1>4. /\ hashCell[tx.cell] = h
      /\ h \in Entries => hashCell[KeyCell(h)] = h
  BY <1>1 DEF IndInv, KeysAreIntact
<1>5. /\ chain \in Seq(Start) /\ Len(chain) \in DOMAIN chain
      /\ chain[Len(chain)].hash = h /\ chain[Len(chain)].block = height
      /\ h \in Entries <=> \E i \in Read : chain[i].hash = h
  <2>1. chain \in Seq(Start) /\ Len(chain) = nbTxs /\ nbTxs \in Nat /\ nbTxs > 0
    BY <1>1 DEF HistoryInv, ChainInv, IndInv, TypeOK, LocalsAreSound, Parsing
  <2>2. Len(chain) \in DOMAIN chain
    BY <2>1
  <2>3. QED
    BY <1>1, <2>1, <2>2 DEF HistoryInv, LastInv, Parsing, Last
<1>6. height \in Nat \ {0}
  <2>1. chain[Len(chain)] \in Start
    BY <1>5
  <2>2. QED
    BY <1>5, <2>1 DEF Start
<1>7. /\ Read' = DOMAIN chain
      /\ DOMAIN chain = Read \union {Len(chain)} /\ Len(chain) \notin Read
  <2>1. /\ Read' = {i \in DOMAIN chain : i < Len(chain) \/ "outputs" # "inputs"}
        /\ Read = {i \in DOMAIN chain : i < Len(chain)}
    BY <1>1 DEF Read
  <2>2. \A i \in DOMAIN chain : i < Len(chain) \/ i = Len(chain)
    BY <1>5
  <2>3. ~ (Len(chain) < Len(chain))
    BY <1>5
  <2>4. QED
    BY <1>5, <2>1, <2>2, <2>3
<1>8. {chain[i].hash : i \in Read}' = {chain[i].hash : i \in Read} \union {h}
  BY <1>1, <1>5, <1>7
<1>9. \A x : x # h => Blocks(x)' = Blocks(x)
  <2> TAKE x
  <2> HAVE x # h
  <2>1. {i \in Read' : chain[i].hash = x} = {i \in Read : chain[i].hash = x}
    BY <1>5, <1>7
  <2>2. Blocks(x)' = {chain[i].block : i \in {i \in Read' : chain[i].hash = x}}
    BY <1>1 DEF Blocks
  <2>3. QED
    BY <2>1, <2>2 DEF Blocks
<1>10. Max(Blocks(h)') = height
  <2>1. PICK B : B = Blocks(h)'
    OBVIOUS
  <2>2. B = {chain[i].block : i \in {i \in DOMAIN chain : chain[i].hash = h}}
    BY <1>1, <1>7, <2>1 DEF Blocks
  <2>3. height \in B
    BY <1>5, <2>2
  <2>4. B \in SUBSET (0 .. height)
    <3> SUFFICES ASSUME NEW i \in DOMAIN chain PROVE chain[i].block \in 0 .. height
      BY <2>2
    <3>1. chain[i] \in Start /\ chain[i].block <= height
      BY <1>5 DEF HistoryInv, ChainInv
    <3>2. QED
      BY <1>6, <3>1 DEF Start
  <2>5. Max(B) \in 0 .. height /\ Max(B) >= height
    BY <1>6, <2>3, <2>4, MaxIsElement
  <2>6. Max(B) = height
    BY <1>6, <2>5
  <2>7. QED
    BY <2>1, <2>6
<1>11. Whole(h)'
  <2>1. tx'.outs = 0 /\ nbOutputs[h] \in Nat
    BY <1>1, <1>2 DEF IndInv, TypeOK, LocalsAreSound
  <2>2. tx'.hash = h /\ pc' = "outputs" /\ nbOutputs' = nbOutputs /\ h \in Entries'
    BY <1>1, <1>2
  <2>3. QED
    BY <2>1, <2>2 DEF Whole
<1>12. \A x \in TxHash \ {h} : PlaceKept(x)
  <2> TAKE x \in TxHash \ {h}
  <2>1. \A k : <<x, k>> \in Held' <=> <<x, k>> \in Held
    BY <1>2
  <2>2. x \in Entries' <=> x \in Entries
    BY <1>2
  <2>3. Whole(x)' <=> Whole(x)
    BY <1>1, <2>1, <2>2 DEF Whole
  <2>4. QED
    BY <1>2, <1>9, <2>2, <2>3 DEF PlaceKept
<1>13. h \in Entries' /\ (h \notin Entries => tx.cell \in 1 .. MaxTxs)
  BY <1>2, <1>3
<1>14. QED
  <2>1. KeyCell(h)' = IF h \in Entries THEN KeyCell(h) ELSE tx.cell
    BY <1>2
  <2>2. QED
    BY <1>1, <1>2, <1>4, <1>5, <1>6, <1>8, <1>10, <1>11, <1>12, <1>13, <2>1

LEMMA PutHits ==
  ASSUME NEW map \in Seq(TxMapEntry), NEW mem, NEW i \in DOMAIN map,
         \A j \in DOMAIN map : map[j].place = map[i].place => j = i,
         mem[map[i].key] = map[i].place,
         NEW key \in Nat, mem[key] = map[i].place, NEW v
  PROVE  Pristine!Put(map, mem, key, v) = Valued(map, i, v)
<1>1. /\ Pristine!Has(map, mem, map[i].place)
      /\ Pristine!Set(map, mem, map[i].place, v) = Valued(map, i, v)
  BY SearchHits
<1>2. Pristine!Spelt(mem, key) = map[i].place
  BY DEF Pristine!Spelt
<1>3. QED
  BY <1>1, <1>2 DEF Pristine!Put

LEMMA PutMisses ==
  ASSUME NEW map, NEW mem, NEW key \in Nat,
         NEW h, mem[key] = h, \A j \in DOMAIN map : map[j].place # h, NEW v
  PROVE  Pristine!Put(map, mem, key, v) =
            Append(map, [place |-> h, key |-> key, val |-> v])
<1>1. ~ Pristine!Has(map, mem, h)
  BY SearchMisses
<1>2. Pristine!Spelt(mem, key) = h
  BY DEF Pristine!Spelt
<1>3. QED
  BY <1>1, <1>2 DEF Pristine!Put

(* The table with one transaction more. *)
LEMMA TableGrown ==
  ASSUME PristineTable, NEW h, NEW e \in TxMapEntry, e.place = h,
         NEW map \in Seq(TxMapEntry), map = self.txMap, self'.txMap = Append(map, e),
         h \notin coinbases \intersect {chain[i].hash : i \in Read},
         (coinbases \intersect {chain[i].hash : i \in Read})' =
            (coinbases \intersect {chain[i].hash : i \in Read}) \union {h},
         \A x \in coinbases \ {h} : PlaceKept(x),
         h \in Entries' => e.key = KeyCell(h)',
         e.val = IF Whole(h)' THEN Max(Blocks(h)') ELSE 0
  PROVE  PristineTable'
<1>1. PICK mm : mm = Append(map, e)
  OBVIOUS
<1>2. self'.txMap = mm
  BY <1>1
<1>3. /\ Len(map) \in Nat /\ DOMAIN map = 1 .. Len(map)
      /\ DOMAIN mm = 1 .. Len(map) + 1
      /\ \A j \in DOMAIN map : mm[j] = map[j] /\ j # Len(map) + 1
      /\ mm[Len(map) + 1] = e
  BY <1>1
<1>4. PICK n : n = Len(map) + 1
  OBVIOUS
<1>5. /\ DOMAIN mm = DOMAIN map \union {n} /\ n \notin DOMAIN map
      /\ \A j \in DOMAIN map : mm[j] = map[j]
      /\ mm[n].place = h /\ mm[n].key = e.key /\ mm[n].val = e.val
  BY <1>3, <1>4
<1>6. PICK P : P = coinbases \intersect {chain[j].hash : j \in Read}
  OBVIOUS
<1>7. /\ \A j, l \in DOMAIN map : map[j].place = map[l].place => j = l
      /\ {map[j].place : j \in DOMAIN map} = P
  <2>1. /\ \A j, l \in DOMAIN self.txMap :
              self.txMap[j].place = self.txMap[l].place => j = l
        /\ {self.txMap[j].place : j \in DOMAIN self.txMap} =
              coinbases \intersect {chain[j].hash : j \in Read}
    BY DEF PristineTable
  <2>2. map = self.txMap
    OBVIOUS
  <2>3. QED
    BY ONLY <1>6, <2>1, <2>2
<1>8. \A j \in DOMAIN map : map[j].place \in coinbases \ {h}
  <2>1. \A j \in DOMAIN map : map[j].place \in P
    BY <1>7
  <2>2. P \subseteq coinbases /\ h \notin P
    BY <1>6
  <2>3. QED
    BY ONLY <2>1, <2>2
<1>9. \A j, l \in DOMAIN mm : mm[j].place = mm[l].place => j = l
  BY ONLY <1>5, <1>7, <1>8
<1>10. {mm[j].place : j \in DOMAIN mm} = P \union {h}
  BY ONLY <1>5, <1>7
<1>11. \A j \in DOMAIN mm :
        /\ mm[j].place \in Entries' => mm[j].key = KeyCell(mm[j].place)'
        /\ mm[j].val = IF Whole(mm[j].place)' THEN Max(Blocks(mm[j].place)') ELSE 0
  <2> TAKE j \in DOMAIN mm
  <2>1. CASE j = n
    BY <1>5, <2>1
  <2>2. CASE j \in DOMAIN map
    <3>1. PICK x : x = map[j].place
      OBVIOUS
    <3>2. PlaceKept(x)
      BY <1>8, <2>2, <3>1
    <3>3. /\ x \in Entries => map[j].key = KeyCell(x)
          /\ map[j].val = IF Whole(x) THEN Max(Blocks(x)) ELSE 0
      BY <2>2, <3>1 DEF PristineTable, Pristine!Spent
    <3>4. mm[j].place = x /\ mm[j].key = map[j].key /\ mm[j].val = map[j].val
      BY <1>5, <2>2, <3>1
    <3>5. QED
      BY <3>2, <3>3, <3>4 DEF PlaceKept
  <2>3. QED
    BY <1>5, <2>1, <2>2
<1>12. (\A j \in DOMAIN self.txMap :
        /\ self.txMap[j].place \in Entries =>
                self.txMap[j].key = KeyCell(self.txMap[j].place)
        /\ self.txMap[j].val = IF Whole(self.txMap[j].place)
                               THEN Max(Blocks(self.txMap[j].place)) ELSE 0)'
  BY ONLY <1>2, <1>11
<1>13. (\A j, l \in DOMAIN self.txMap :
            self.txMap[j].place = self.txMap[l].place => j = l)'
  BY ONLY <1>2, <1>9
<1>14. ({self.txMap[j].place : j \in DOMAIN self.txMap} =
            coinbases \intersect {chain[j].hash : j \in Read})'
  <2>1. (coinbases \intersect {chain[i].hash : i \in Read})' = P \union {h}
    BY <1>6
  <2>2. QED
    BY ONLY <1>2, <1>10, <2>1
<1>15. QED
  BY ONLY <1>12, <1>13, <1>14 DEF PristineTable, Pristine!Spent

LEMMA PristineStartOutputsStep ==
  ASSUME IndInv, HistoryInv, PristineInv, command = "pristine", StartOutputsCalls
  PROVE  PristineInv'
<1>1. PICK h, map, n : h = tx.hash /\ map = self.txMap /\ n = self.nbPristine
  OBVIOUS
<1>2. /\ PristineLocals /\ PristineTable /\ PristineCount /\ self \in PristineObject
      /\ map \in Seq(TxMapEntry) /\ n \in Int /\ self.currTXHash \in 0 .. MaxTxs
  BY <1>1 DEF PristineInv, PristineLocals, PristineObject, TxMapEntry
<1>3. /\ pc = "inputs" /\ pc' = "outputs" /\ tx.ins = <<>> /\ h \in TxHash
      /\ {chain[i].hash : i \in Read}' = {chain[i].hash : i \in Read} \union {h}
      /\ \A x \in TxHash \ {h} : PlaceKept(x)
      /\ h \in Entries' /\ Whole(h)'
      /\ Max(Blocks(h)') = height /\ height \in Nat \ {0}
      /\ KeyCell(h)' = IF h \in Entries THEN KeyCell(h) ELSE tx.cell
      /\ h \notin Entries => tx.cell \in 1 .. MaxTxs
      /\ hashCell[tx.cell] = h
      /\ h \in Entries => hashCell[KeyCell(h)] = h
      /\ h \in Entries <=> \E i \in Read : chain[i].hash = h
      /\ UNCHANGED <<coinbases, nbRepeats, nbOutputs, height, tx>>
  BY <1>1, PlacesAtOutputs
<1>4. /\ self.currBlock = height /\ self.currTXHash = tx.cell
      /\ self.hasGenInput <=> h \in coinbases
  BY <1>1, <1>2, <1>3 DEF PristineLocals
<1>5. coinbases \subseteq TxHash
  BY DEF IndInv, TypeOK
<1>6. /\ \A i, j \in DOMAIN map : map[i].place = map[j].place => i = j
      /\ {map[i].place : i \in DOMAIN map} =
            coinbases \intersect {chain[i].hash : i \in Read}
  <2>1. /\ \A i, j \in DOMAIN self.txMap :
              self.txMap[i].place = self.txMap[j].place => i = j
        /\ {self.txMap[i].place : i \in DOMAIN self.txMap} =
              coinbases \intersect {chain[i].hash : i \in Read}
    BY <1>2 DEF PristineTable
  <2>2. QED
    BY ONLY <1>1, <2>1
<1>7. \A x \in coinbases \ {h} : PlaceKept(x)
  BY <1>3, <1>5
<1>8. CASE h \notin coinbases
  <2>1. self' = self
    BY <1>2, <1>4, <1>8, PristineEndInputs
  <2>2. PristineLocals'
    BY <1>2, <1>3, <2>1 DEF PristineLocals
  <2>3. (coinbases \intersect {chain[i].hash : i \in Read})' =
            coinbases \intersect {chain[i].hash : i \in Read}
    BY <1>3, <1>8
  <2>4. \A x \in coinbases : PlaceKept(x)
    BY <1>7, <1>8
  <2>5. PristineTable'
    BY <1>2, <2>1, <2>3, <2>4, TableKept
  <2>6. {x \in coinbases' : Whole(x)'} = {x \in coinbases : Whole(x)}
    BY <1>3, <2>4 DEF PlaceKept
  <2>7. PristineCount'
    BY <1>2, <1>3, <2>1, <2>6, CountKept
  <2>8. QED
    BY <2>2, <2>5, <2>7 DEF PristineInv
<1>9. CASE h \in coinbases
  <2> DEFINE m == Pristine!Put(map, hashCell, tx.cell, height)
             c == n + 1
  <2>1. self' = Updated(self, m, c) /\ tx.cell \in Nat
    BY <1>1, <1>2, <1>4, <1>9, PristineEndInputs DEF Updated
  <2>2. ASSUME m \in Seq(TxMapEntry)
        PROVE  PristineLocals' /\ self'.txMap = m /\ self'.nbPristine = c
    <3>1. self \in PristineObject /\ m \in Seq(TxMapEntry) /\ c \in Int
      BY <1>2, <2>2
    <3> HIDE DEF m, c
    <3>2. /\ self' \in PristineObject /\ self'.txMap = m /\ self'.nbPristine = c
          /\ self'.currBlock = self.currBlock
      BY ONLY <2>1, <3>1, PristineChanged
    <3>3. PristineLocals'
      BY <1>3, <1>4, <3>2 DEF PristineLocals
    <3>4. QED
      BY <3>2, <3>3
  <2>3. CASE h \in Entries
    <3>1. PICK i \in DOMAIN map : map[i].place = h
      <4>1. h \in {map[i].place : i \in DOMAIN map}
        BY <1>3, <1>6, <1>9, <2>3
      <4>2. QED
        BY <4>1
    <3>2. map[i].key = KeyCell(h)
      BY <1>1, <1>2, <2>3, <3>1 DEF PristineTable
    <3>3. m = Valued(map, i, height)
      <4>1. /\ map \in Seq(TxMapEntry) /\ i \in DOMAIN map
            /\ \A j \in DOMAIN map : map[j].place = map[i].place => j = i
            /\ hashCell[map[i].key] = map[i].place
            /\ hashCell[tx.cell] = map[i].place
        BY <1>2, <1>3, <1>6, <2>3, <3>1, <3>2
      <4>2. QED
        BY ONLY <2>1, <4>1, PutHits
    <3>4. m \in Seq(TxMapEntry)
      <4>1. map \in Seq(TxMapEntry) /\ i \in DOMAIN map /\ height \in Nat
        BY <1>2, <1>3
      <4>2. QED
        BY ONLY <3>3, <4>1, EntryChanged
    <3>5. PristineLocals' /\ self'.txMap = m
      BY <2>2, <3>4
    <3> HIDE DEF m, c
    <3>6. PristineTable'
      <4>1. /\ PristineTable /\ map \in Seq(TxMapEntry) /\ i \in DOMAIN map
            /\ map[i].place = h /\ height \in Nat /\ map = self.txMap
            /\ self'.txMap = Valued(map, i, height)
            /\ h \in Entries' => map[i].key = KeyCell(h)'
            /\ height = IF Whole(h)' THEN Max(Blocks(h)') ELSE 0
        BY <1>1, <1>2, <1>3, <2>3, <3>1, <3>2, <3>3, <3>5
      <4>2. (coinbases \intersect {chain[j].hash : j \in Read})' =
                coinbases \intersect {chain[j].hash : j \in Read}
        BY <1>3, <2>3
      <4>3. QED
        BY ONLY <1>5, <1>7, <4>1, <4>2, TableUpdated
    <3>7. nbRepeats' # 0
      BY <1>1, <1>3, <2>3 DEF IndInv, LocalsAreSound
    <3>8. PristineCount'
      BY <3>7 DEF PristineCount
    <3>9. QED
      BY <3>5, <3>6, <3>8 DEF PristineInv
  <2>4. CASE h \notin Entries
    <3> DEFINE e == [place |-> h, key |-> tx.cell, val |-> height]
               S == {x \in coinbases : Whole(x)}
    <3>1. h \notin coinbases \intersect {chain[i].hash : i \in Read}
      BY <1>3, <2>4
    <3>2. \A j \in DOMAIN map : map[j].place # h
      BY <1>6, <3>1
    <3>3. m = Append(map, e)
      <4>1. tx.cell \in Nat /\ hashCell[tx.cell] = h
        BY <1>3, <2>1
      <4>2. QED
        BY ONLY <3>2, <4>1, PutMisses
    <3>4. e \in TxMapEntry /\ e.place = h /\ e.key = tx.cell /\ e.val = height
      BY <1>3, <2>4 DEF TxMapEntry
    <3> HIDE DEF e
    <3>5. m \in Seq(TxMapEntry)
      BY <1>2, <3>3, <3>4
    <3>6. PristineLocals' /\ self'.txMap = m /\ self'.nbPristine = c
      BY <2>2, <3>5
    <3> HIDE DEF m
    <3>7. PristineTable'
      <4>1. /\ PristineTable /\ map \in Seq(TxMapEntry) /\ e \in TxMapEntry
            /\ e.place = h /\ map = self.txMap /\ self'.txMap = Append(map, e)
            /\ h \in Entries' => e.key = KeyCell(h)'
            /\ e.val = IF Whole(h)' THEN Max(Blocks(h)') ELSE 0
        BY <1>1, <1>2, <1>3, <2>4, <3>3, <3>4, <3>6
      <4>2. (coinbases \intersect {chain[j].hash : j \in Read})' =
                (coinbases \intersect {chain[j].hash : j \in Read}) \union {h}
        BY <1>3, <1>9
      <4>3. QED
        BY ONLY <1>7, <3>1, <4>1, <4>2, TableGrown
    <3>8. {x \in coinbases' : Whole(x)'} = S \union {h} /\ h \notin S
      BY <1>3, <1>7, <1>9, <2>4 DEF PlaceKept, Whole
    <3>9. IsFiniteSet(S) /\ Cardinality(S) \in Nat
      BY WholeAreFinite
    <3>10. nbRepeats = 0 => n = Cardinality(S)
      BY <1>1, <1>2 DEF PristineCount
    <3> HIDE DEF S
    <3>11. nbRepeats = 0 => c = Cardinality(S \union {h})
      BY <3>8, <3>9, <3>10, FS_AddElement
    <3>12. PristineCount'
      BY <1>3, <3>6, <3>8, <3>11 DEF PristineCount
    <3>13. QED
      BY <3>6, <3>7, <3>12 DEF PristineInv
  <2>5. QED
    BY <2>3, <2>4
<1>10. QED
  BY <1>8, <1>9

(* Steps that keep what pristine has gathered, and what it is about. *)
LEMMA PristineKept ==
  ASSUME IndInv, PristineInv, command = "pristine", self' = self,
         UNCHANGED <<gCallback, coinbases, nbRepeats, height, chain>>,
         pc' # "inputs", Read' = Read, \A x \in TxHash : PlaceKept(x)
  PROVE  PristineInv'
<1>1. \A x \in coinbases : PlaceKept(x)
  BY DEF IndInv, TypeOK
<1>2. PristineTable'
  BY <1>1, TableKept DEF PristineInv
<1>3. {x \in coinbases' : Whole(x)'} = {x \in coinbases : Whole(x)}
  BY <1>1 DEF PlaceKept
<1>4. PristineCount'
  BY <1>3, CountKept DEF PristineInv
<1>5. PristineLocals'
  BY DEF PristineInv, PristineLocals
<1>6. QED
  BY <1>2, <1>4, <1>5 DEF PristineInv

LEMMA PristineOutputStep ==
  ASSUME IndInv, HistoryInv, PristineInv, command = "pristine", OutputCalls
  PROVE  PristineInv'
<1>1. /\ ParseOutput /\ pc = "outputs" /\ pc' = "outputs"
      /\ UNCHANGED <<gCallback, nbOutputs, coinbases, nbRepeats, height, chain>>
  BY DEF OutputCalls, ParseOutput
<1>2. PICK h, k : h = tx.hash /\ k = tx.outs
  OBVIOUS
<1>3. tx'.hash = h /\ tx'.outs = k + 1
  BY <1>1, <1>2 DEF ParseOutput, IndInv, Shapes, Txs
<1>4. k \in Nat /\ h \in TxHash /\ \A x \in TxHash : nbOutputs[x] \in Nat
  BY <1>1, <1>2, MemoryAfterOutput DEF IndInv, TypeOK
<1>5. /\ Entries' = Entries /\ Held' = Held \union {<<h, k + 1>>}
      /\ \A x : KeyCell(x)' = KeyCell(x)
  BY <1>1, <1>2, EntriesAfterOutput DEF NewOutput
<1>6. Read' = Read /\ \A x : Blocks(x)' = Blocks(x)
  BY <1>1 DEF Read, Blocks
<1>7. ASSUME NEW x \in TxHash PROVE PlaceKept(x)
  <2>1. \A n \in 1 .. nbOutputs[x] :
            (<<x, n>> \in Held' \/ (x = h /\ n > k + 1)) <=>
            (<<x, n>> \in Held  \/ (x = h /\ n > k))
    <3> TAKE n \in 1 .. nbOutputs[x]
    <3>1. <<x, n>> \in Held' <=> <<x, n>> \in Held \/ (x = h /\ n = k + 1)
      BY <1>5
    <3>2. n > k <=> n > k + 1 \/ n = k + 1
      BY <1>4
    <3>3. QED
      BY <3>1, <3>2
  <2>2. Whole(x)' <=> Whole(x)
    BY <1>1, <1>2, <1>3, <1>5, <2>1 DEF Whole
  <2>3. QED
    BY <1>5, <1>6, <2>2 DEF PlaceKept
<1>8. self' = self
  BY PristineOther DEF PristineInv, PristineLocals, HistoryInv, LoopInv
<1>9. QED
  BY <1>1, <1>6, <1>7, <1>8, PristineKept

LEMMA PristineEndTXStep ==
  ASSUME IndInv, HistoryInv, PristineInv, command = "pristine", EndTXCalls
  PROVE  PristineInv'
<1>1. /\ EndTX /\ pc = "outputs" /\ pc' = "tx" /\ tx.outs = nbOutputs[tx.hash]
      /\ UNCHANGED <<gTXOMap, mRawData, slots, nbOutputs>>
      /\ UNCHANGED <<gCallback, coinbases, nbRepeats, height, chain>>
  BY DEF EndTXCalls, EndTX, memVars, chunkMem, ptrsMem, chainVars
<1>2. /\ Entries' = Entries /\ Held' = Held /\ \A x : KeyCell(x)' = KeyCell(x)
  BY <1>1, IndexUntouched
<1>3. Read' = Read /\ \A x : Blocks(x)' = Blocks(x)
  BY <1>1 DEF Read, Blocks
<1>4. ASSUME NEW x \in TxHash PROVE PlaceKept(x)
  <2>1. \A n \in 1 .. nbOutputs[x] : ~ (x = tx.hash /\ n > tx.outs)
    BY <1>1 DEF IndInv, TypeOK
  <2>2. Whole(x)' <=> Whole(x)
    BY <1>1, <1>2, <2>1 DEF Whole
  <2>3. QED
    BY <1>2, <1>3, <2>2 DEF PlaceKept
<1>5. self' = self
  BY PristineOther DEF PristineInv, PristineLocals, HistoryInv, LoopInv
<1>6. QED
  BY <1>1, <1>3, <1>4, <1>5, PristineKept

LEMMA InitPristineInv == CmdInit => PristineInv
<1> SUFFICES ASSUME CmdInit, command = "pristine" PROVE PristineInv
  BY DEF PristineInv
<1>1. self = Pristine!init /\ chain = <<>> /\ coinbases = {} /\ pc = "tx" /\ height = 0
  BY DEF CmdInit, Init, initObject
<1>2. self.txMap = <<>> /\ self.nbPristine = 0
  BY <1>1 DEF Pristine!init
<1>3. PristineLocals
  <2>1. self \in PristineObject
    BY <1>1 DEF Pristine!init, PristineObject
  <2>2. QED
    BY <1>1, <2>1 DEF PristineLocals
<1>4. PristineTable
  <2>1. DOMAIN self.txMap = {}
    BY <1>2
  <2>2. QED
    BY <1>1, <2>1 DEF PristineTable
<1>5. PristineCount
  <2>1. {x \in coinbases : Whole(x)} = {}
    BY <1>1
  <2>2. QED
    BY <1>2, <2>1, FS_EmptySet DEF PristineCount
<1>6. QED
  BY <1>3, <1>4, <1>5 DEF PristineInv

LEMMA NextPristineInv ==
  IndInv /\ HistoryInv /\ PristineInv /\ IndInv' /\ [CmdNext]_allVars => PristineInv'
<1> SUFFICES ASSUME IndInv, HistoryInv, PristineInv, IndInv', [CmdNext]_allVars
             PROVE  PristineInv'
  OBVIOUS
<1>1. gCallback \in Sessions /\ gCallback' = gCallback
  <2>1. gCallback \in Sessions
    BY DEF HistoryInv, LoopInv
  <2>2. gCallback' = gCallback
    <3>1. CASE \/ \E scripts \in Scripts : StartBlock(scripts)
               \/ \E hash \in coinbases : StartBlockRepeated(hash)
               \/ \E ins \in {s \in SeqOf(coins, MaxInputs) : s # <<>>},
                     scripts \in Scripts : StartOther(ins, scripts)
      BY <3>1 DEF StartBlock, StartBlockRepeated, StartOther
    <3>2. QED
      BY <3>1, CmdCases DEF Quiet
  <2>3. QED
    BY <2>1, <2>2
<1>2. CASE command # "pristine"
  BY <1>1, <1>2 DEF PristineInv
<1>3. CASE command = "pristine"
  <2>1. CASE \/ \E scripts \in Scripts : StartBlock(scripts)
             \/ \E hash \in coinbases : StartBlockRepeated(hash)
             \/ \E ins \in {s \in SeqOf(coins, MaxInputs) : s # <<>>},
                   scripts \in Scripts : StartOther(ins, scripts)
    <3>1. LoopInv
      BY DEF HistoryInv
    <3>2. PICK hash \in TxHash, ins \in Seq(Outpoint \union {GenInput}) :
              IsStart(hash, ins) /\ (IsNew(hash, ins) \/ IsRepeated(hash, ins))
      BY <2>1, <3>1, StartCases
    <3>3. QED
      BY <1>3, <2>1, <3>2, PristineStartStep
  <2>2. CASE GenInputCalls
    BY <1>3, <2>2, PristineGenInputStep
  <2>3. CASE InputCalls
    BY <1>3, <2>3, PristineInputStep
  <2>4. CASE StartOutputsCalls
    BY <1>3, <2>4, PristineStartOutputsStep
  <2>5. CASE OutputCalls
    BY <1>3, <2>5, PristineOutputStep
  <2>6. CASE EndTXCalls
    BY <1>3, <2>6, PristineEndTXStep
  <2>7. CASE \/ Headers \/ EndBlock \/ EndOfChain \/ Wrapup
             \/ WriteToClosedFile \/ Over \/ UNCHANGED allVars
    <3>1. self \in PristineObject
      BY <1>3 DEF PristineInv, PristineLocals
    <3>2. self' = self
      BY <1>1, <1>3, <2>7, <3>1, PristineOther
    <3>3. UNCHANGED <<vars, height, chain>>
      BY <2>7 DEF Headers, EndBlock, EndOfChain, Wrapup, WriteToClosedFile, Over
    <3>4. /\ UNCHANGED <<gTXOMap, mRawData, slots, chain, chainVars, pc, height>>
          /\ tx' = tx
      BY <3>3 DEF vars, memVars, chunkMem, ptrsMem
    <3>5. QED
      BY <1>3, <3>2, <3>4, PristineQuietStep
  <2>8. QED
    BY <2>1, <2>2, <2>3, <2>4, <2>5, <2>6, <2>7 DEF CmdNext
<1>4. QED
  BY <1>2, <1>3

-----------------------------------------------------------------------------
(* What the rows of pristine show. *)

UntouchedCoinbases ==
  {x \in coinbases : \A n \in 1 .. nbOutputs[x] : <<x, n>> \in coins}

Row(x) == [hash |-> x, block |-> LastBlock(x)]

(* Between two transactions the whole ones are the untouched ones. *)
LEMMA WholeIsUntouched ==
  ASSUME IndInv, HistoryInv, pc = "tx"
  PROVE  /\ {x \in coinbases : Whole(x)} = UntouchedCoinbases
         /\ Read = DOMAIN chain /\ \A x : Blocks(x) = {chain[i].block :
                i \in {i \in DOMAIN chain : chain[i].hash = x}}
         /\ coinbases \intersect {chain[i].hash : i \in Read} = coinbases
<1>1. Held = coins
  BY BetweenTransactions DEF HistoryInv, LoopInv
<1>2. Read = DOMAIN chain
  BY DEF Read
<1>3. ASSUME NEW x \in coinbases, \A n \in 1 .. nbOutputs[x] : <<x, n>> \in coins
      PROVE  x \in Entries
  <2>1. nbOutputs[x] > 0 /\ nbOutputs[x] \in Nat
    BY DEF IndInv, TypeOK, ChainIsSound
  <2>2. <<x, 1>> \in Held
    BY <1>1, <1>3, <2>1
  <2>3. QED
    BY <2>2 DEF Held
<1>4. {x \in coinbases : Whole(x)} = UntouchedCoinbases
  BY <1>1, <1>3 DEF Whole, UntouchedCoinbases
<1>5. coinbases \subseteq Hashes
  <2>1. Hashes = 1 .. NbHashes
    BY DEF HistoryInv, ChainInv
  <2>2. \A x \in coinbases : x \in TxHash /\ x <= NbHashes
    BY DEF IndInv, TypeOK, ChainIsSound
  <2>3. NbHashes \in Nat
    BY HashesAreCounted
  <2>4. QED
    BY <2>1, <2>2, <2>3 DEF TxHash
<1>6. QED
  BY <1>2, <1>4, <1>5 DEF Blocks, Hashes

LEMMA PristineRows ==
  ASSUME IndInv, HistoryInv, PristineInv, command = "pristine", pc = "tx"
  PROVE  Pristine!rows(self, hashCell) = {Row(x) : x \in UntouchedCoinbases}
<1> DEFINE map == self.txMap
<1>1. /\ PristineTable /\ map \in Seq(TxMapEntry)
  BY DEF PristineInv, PristineLocals, PristineObject, TxMapEntry
<1>2. /\ \A x \in coinbases : Whole(x) <=> x \in UntouchedCoinbases
      /\ UntouchedCoinbases \subseteq coinbases
  BY WholeIsUntouched DEF UntouchedCoinbases
<1>3. \A x : Max(Blocks(x)) = LastBlock(x)
  BY WholeIsUntouched DEF LastBlock
<1>4. {map[i].place : i \in DOMAIN map} = coinbases
  BY <1>1, WholeIsUntouched DEF PristineTable
<1>5. ASSUME NEW i \in DOMAIN map
      PROVE  /\ map[i].place \in coinbases
             /\ map[i].val # 0 <=> map[i].place \in UntouchedCoinbases
             /\ map[i].val # 0 =>
                    [block |-> map[i].val, hash |-> Pristine!Spelt(hashCell, map[i].key)]
                        = Row(map[i].place)
  <2>1. PICK x : x = map[i].place
    OBVIOUS
  <2>2. /\ x \in Entries => map[i].key = KeyCell(x)
        /\ map[i].val = IF Whole(x) THEN Max(Blocks(x)) ELSE 0
    BY <1>1, <2>1 DEF PristineTable, Pristine!Spent
  <2>3. x \in coinbases
    BY <1>4, <2>1
  <2>4. PICK k \in Read : chain[k].hash = x
    BY <2>3, WholeIsUntouched
  <2>5. Max(Blocks(x)) # 0
    BY <2>4, BlocksArePositive DEF HistoryInv, LoopInv
  <2>6. map[i].val # 0 <=> Whole(x)
    BY <2>2, <2>5
  <2>7. Whole(x) => hashCell[KeyCell(x)] = x /\ x \in Entries
    BY DEF Whole, IndInv, KeysAreIntact
  <2>8. map[i].key \in Nat
    <3>1. map[i] \in TxMapEntry
      BY <1>1
    <3>2. QED
      BY <3>1 DEF TxMapEntry
  <2>9. Whole(x) => /\ map[i].val = LastBlock(x)
                    /\ Pristine!Spelt(hashCell, map[i].key) = x
    BY <1>3, <2>2, <2>7, <2>8 DEF Pristine!Spelt
  <2>10. QED
    BY <1>2, <2>1, <2>3, <2>6, <2>9 DEF Row
<1>6. Pristine!ToSet(map) = {map[i] : i \in DOMAIN map}
  BY DEF Pristine!ToSet
<1>7. Pristine!rows(self, hashCell) =
        {[block |-> e.val, hash |-> Pristine!Spelt(hashCell, e.key)] :
            e \in {e \in {map[i] : i \in DOMAIN map} : e.val # 0}}
  BY <1>6 DEF Pristine!rows, Pristine!Spent
<1> HIDE DEF map
<1>8. ASSUME NEW r \in Pristine!rows(self, hashCell)
      PROVE  r \in {Row(x) : x \in UntouchedCoinbases}
  <2>1. PICK i \in DOMAIN map : /\ map[i].val # 0
                                /\ r = [block |-> map[i].val,
                                        hash |-> Pristine!Spelt(hashCell, map[i].key)]
    BY <1>7, <1>8
  <2>2. QED
    BY <1>5, <2>1
<1>9. ASSUME NEW x \in UntouchedCoinbases
      PROVE  Row(x) \in Pristine!rows(self, hashCell)
  <2>1. PICK i \in DOMAIN map : map[i].place = x
    BY <1>2, <1>4
  <2>2. map[i].val # 0
        /\ Row(x) = [block |-> map[i].val,
                     hash |-> Pristine!Spelt(hashCell, map[i].key)]
    BY <1>5, <2>1
  <2>3. QED
    BY <1>7, <2>2
<1>10. QED
  BY <1>8, <1>9

LEMMA RowsAreCounted ==
  ASSUME NEW S, IsFiniteSet(S)
  PROVE  Cardinality({Row(x) : x \in S}) = Cardinality(S)
<1> DEFINE T == {Row(x) : x \in S}  f == [x \in S |-> Row(x)]
<1>1. \A x, y : Row(x) = Row(y) => x = y
  <2>1. \A x : Row(x).hash = x
    BY DEF Row
  <2>2. QED
    BY <2>1
<1>2. f \in [S -> T] /\ \A t \in T : \E x \in S : f[x] = t
  OBVIOUS
<1>3. \A x, y \in DOMAIN f : f[x] = f[y] => x = y
  BY <1>1
<1>4. f \in Bijection(S, T)
  BY <1>2, <1>3 DEF Bijection, Injection, Surjection, IsInjective
<1> HIDE DEF f, T
<1>5. ExistsBijection(S, T)
  BY <1>4 DEF ExistsBijection
<1>6. QED
  BY <1>5, FS_Bijection DEF T

LEMMA PristineHolds == CmdSpec => [](IndInv /\ HistoryInv /\ PristineInv)
<1>1. CmdInit => IndInv /\ HistoryInv /\ PristineInv
  BY InitIndInv, InitHistoryInv, InitPristineInv DEF CmdInit
<1>2. IndInv /\ HistoryInv /\ [CmdNext]_allVars => IndInv' /\ HistoryInv'
  BY NextHistoryInv
<1>3. IndInv /\ HistoryInv /\ PristineInv /\ [CmdNext]_allVars => PristineInv'
  BY <1>2, NextPristineInv
<1>4. QED
  BY <1>1, <1>2, <1>3, PTL DEF CmdSpec

(* Whatever the chain and the repetitions in it, pristine lists exactly    *)
(* the coinbase transactions all of whose outputs are unspent, with their  *)
(* own hash and last block; without repetitions it counts them right.      *)
THEOREM PristineIsRight == CmdSpec => []PristineAreUnspent
<1>1. IndInv /\ HistoryInv /\ PristineInv => PristineAreUnspent
  <2> SUFFICES ASSUME IndInv, HistoryInv, PristineInv, command = "pristine", pc = "tx"
               PROVE  LET rows == Pristine!rows(self, hashCell)
                      IN  /\ rows = {Row(x) : x \in UntouchedCoinbases}
                          /\ nbRepeats = 0 => self.nbPristine = Cardinality(rows)
    BY DEF PristineAreUnspent, Runs, Row, UntouchedCoinbases
  <2>1. Pristine!rows(self, hashCell) = {Row(x) : x \in UntouchedCoinbases}
    BY PristineRows
  <2>2. nbRepeats = 0 => self.nbPristine = Cardinality(UntouchedCoinbases)
    BY WholeIsUntouched DEF PristineInv, PristineCount
  <2>3. IsFiniteSet(UntouchedCoinbases)
    BY WholeAreFinite DEF UntouchedCoinbases
  <2>4. Cardinality({Row(x) : x \in UntouchedCoinbases}) =
            Cardinality(UntouchedCoinbases)
    BY <2>3, RowsAreCounted
  <2>5. QED
    BY <2>1, <2>2, <2>4
<1>2. QED
  BY <1>1, PristineHolds, PTL

-----------------------------------------------------------------------------
(* What the outputs are worth. *)

LEMMA TotalOfPart ==
  ASSUME NEW g, NEW S, IsSummable(g, S), NEW T \in SUBSET S
  PROVE  IsSummable(g, T) /\ Total(g, T) <= Total(g, S)
<1>1. IsSummable(g, T)
  BY FS_Subset DEF IsSummable
<1>2. Units(g, T) \subseteq Units(g, S) /\ IsFiniteSet(Units(g, S))
  BY TotalType DEF Units
<1>3. QED
  BY <1>1, <1>2, FS_Subset DEF Total

(* A fold from the left that adds up naturals has natural sums. *)
FoldEquation(it, g, S) ==
  it = [s \in SUBSET S |-> IF s = {} THEN 0 ELSE it[s \ {Max(s)}] + g[Max(s)]]

LEMMA FoldIsNatural ==
  ASSUME NEW n \in Nat, NEW g, \A i \in 1 .. n : g[i] \in Nat
  PROVE  /\ \E it : FoldEquation(it, g, 1 .. n)
         /\ \A it : FoldEquation(it, g, 1 .. n) => it[1 .. n] \in Nat
<1> DEFINE S == 1 .. n
           pick == [s \in SUBSET S |-> Max(s)]
           f == [s \in SUBSET S |-> Total(g, s)]
<1>1. IsSummable(g, S)
  BY FS_Interval DEF IsSummable
<1>2. \A s \in SUBSET S : s # {} => Max(s) \in s /\ Max(s) \in S
  <2> TAKE s \in SUBSET S
  <2> HAVE s # {}
  <2>1. s \in SUBSET (0 .. n)
    OBVIOUS
  <2>2. QED
    BY <2>1, MaxIsElement
<1>3. \A s \in SUBSET S : IsSummable(g, s) /\ Total(g, s) \in Nat
  BY <1>1, TotalOfPart, TotalType
<1>4. FoldEquation(f, g, S)
  <2>1. SumEquation(f, g, pick, S)
    BY <1>1, <1>2, TotalIsTheSum
  <2>2. \A s \in SUBSET S : f[s] = IF s = {} THEN 0 ELSE g[pick[s]] + f[s \ {pick[s]}]
    BY <2>1 DEF SumEquation
  <2>3. ASSUME NEW s \in SUBSET S
        PROVE  Total(g, s) = IF s = {} THEN 0 ELSE f[s \ {Max(s)}] + g[Max(s)]
    <3>1. CASE s = {}
      BY <3>1, TotalOfNone
    <3>2. CASE s # {}
      <4>1. PICK m, t : m = Max(s) /\ t = s \ {m}
        OBVIOUS
      <4>2. pick[s] = m /\ t \in SUBSET S /\ m \in S /\ g[m] \in Nat
        BY <1>2, <3>2, <4>1
      <4>3. Total(g, s) = g[m] + Total(g, t) /\ Total(g, t) \in Nat
        BY <1>3, <2>2, <3>2, <4>1, <4>2
      <4>4. Total(g, s) = Total(g, t) + g[m]
        BY <4>2, <4>3
      <4>5. QED
        BY <3>2, <4>1, <4>2, <4>4
    <3>3. QED
      BY <3>1, <3>2
  <2>4. f = [s \in SUBSET S |-> IF s = {} THEN 0 ELSE f[s \ {Max(s)}] + g[Max(s)]]
    BY <2>3
  <2>5. QED
    BY <2>4 DEF FoldEquation
<1>5. ASSUME NEW it, FoldEquation(it, g, S)
      PROVE  it[S] \in Nat
  <2>1. \A s \in SUBSET S : it[s] = IF s = {} THEN 0 ELSE it[s \ {Max(s)}] + g[Max(s)]
    BY <1>5 DEF FoldEquation
  <2> DEFINE B == {s \in SUBSET S : it[s] \notin Nat}
  <2>2. B = {}
    <3> SUFFICES ASSUME B # {} PROVE FALSE
      OBVIOUS
    <3>1. B \in SUBSET SUBSET S /\ IsFiniteSet(S)
      BY FS_Interval
    <3> HIDE DEF B
    <3>2. PICK s \in B : \A y \in s : s \ {y} \notin B
      BY <3>1, MinimalSubset
    <3>3. s \in SUBSET S /\ it[s] \notin Nat
      BY <3>2 DEF B
    <3>4. s # {}
      BY <2>1, <3>3
    <3>5. Max(s) \in s /\ Max(s) \in S
      BY <1>2, <3>3, <3>4
    <3>6. it[s \ {Max(s)}] \in Nat
      BY <3>2, <3>3, <3>5 DEF B
    <3>7. g[Max(s)] \in Nat
      BY <3>5
    <3>8. it[s] = it[s \ {Max(s)}] + g[Max(s)]
      BY <2>1, <3>3, <3>4
    <3>9. QED
      BY ONLY <3>3, <3>6, <3>7, <3>8
  <2>3. QED
    BY <2>2
<1>6. QED
  BY <1>4, <1>5

LEMMA WorthType ==
  ASSUME TxoInv, NEW ins \in Seq(Outpoint)
  PROVE  Worth(ins) \in Nat
<1> DEFINE n == Len(ins)
           g == [i \in 1 .. n |-> txo[ins[i]].value]
           is(it) == it = [s \in SUBSET DOMAIN ins |->
                             IF s = {} THEN 0
                             ELSE it[s \ {Max(s)}] + txo[ins[Max(s)]].value]
           it0 == CHOOSE it : is(it)
<1>1. DOMAIN ins = 1 .. n /\ n \in Nat
  OBVIOUS
<1>2. \A i \in 1 .. n : g[i] \in Nat
  BY DEF TxoInv, ValueOf
<1>3. Worth(ins) = it0[DOMAIN ins]
  BY DEF Worth, FoldLeft, MapThenFoldSet
<1>4. \A it : is(it) <=> FoldEquation(it, g, 1 .. n)
  <2>1. \A s \in SUBSET (1 .. n) : s # {} => Max(s) \in 1 .. n
    <3> TAKE s \in SUBSET (1 .. n)
    <3> HAVE s # {}
    <3>1. s \in SUBSET (0 .. n)
      OBVIOUS
    <3>2. QED
      BY <1>1, <3>1, MaxIsElement
  <2>2. \A s \in SUBSET (1 .. n) : s # {} => g[Max(s)] = txo[ins[Max(s)]].value
    BY <2>1
  <2>3. QED
    BY <1>1, <2>2 DEF FoldEquation
<1> HIDE DEF is, g
<1>5. is(it0)
  BY <1>1, <1>2, <1>4, FoldIsNatural
<1>6. QED
  BY <1>1, <1>2, <1>3, <1>4, <1>5, FoldIsNatural

LEMMA ShareType ==
  ASSUME NEW total \in Nat, NEW n \in Nat \ {0}, NEW i \in 1 .. n
  PROVE  Share(total, n, i) \in Nat
<1>1. PICK q : q = total \div n
  OBVIOUS
<1>2. q \in Nat /\ n * q <= total
  BY <1>1
<1>3. (n - 1) * q <= n * q /\ (n - 1) * q \in Nat
  BY <1>2, ProductIsMonotonic
<1>4. QED
  BY <1>1, <1>2, <1>3 DEF Share

(* The values of a transaction that starts. *)
LEMMA MadeTypes ==
  ASSUME TxoInv, NEW hash, NEW total \in Nat, NEW scripts \in Scripts,
         txo' = Made(hash, total, scripts)
  PROVE  /\ TxoInv'
         /\ \A o \in Outpoint : o[1] # hash => txo'[o] = txo[o]
<1>1. PICK n \in 1 .. MaxOutputs : scripts \in [1 .. n -> gCallback.scripts]
  BY DEF Scripts
<1>2. Len(scripts) = n /\ DOMAIN scripts = 1 .. n /\ n \in Nat \ {0}
  BY <1>1
<1>3. ASSUME NEW o \in Outpoint PROVE txo'[o].value \in Nat
  <2>1. CASE o[1] = hash /\ o[2] \in 1 .. n
    BY <1>2, <2>1, ShareType DEF Made
  <2>2. CASE ~ (o[1] = hash /\ o[2] \in 1 .. n)
    BY <1>2, <2>2 DEF Made, TxoInv, ValueOf
  <2>3. QED
    BY <2>1, <2>2
<1>4. \A o \in Outpoint : o[1] # hash => txo'[o] = txo[o]
  BY DEF Made
<1>5. QED
  BY <1>3, <1>4 DEF TxoInv, ValueOf

-----------------------------------------------------------------------------
(* transactions: what its handlers do to the object. *)

LEMMA TallyMoved ==
  ASSUME NEW x \in TallyObject, RowsAddUp(x), NEW addr, NEW hash \in TxHash,
         NEW value \in Nat, NEW add \in BOOLEAN
  PROVE  LET y == Transactions!move(x, addr, hash, value, add) IN
         /\ y \in TallyObject /\ RowsAddUp(y)
         /\ y.sum = IF addr \notin gCallback.addrs THEN x.sum
                    ELSE IF add THEN x.sum + value ELSE x.sum - value
<1> DEFINE y == Transactions!move(x, addr, hash, value, add)
           s == Transactions!NewSum(x, value, add)
           r == [time |-> x.bTime, addr |-> addr, tx |-> hash, old |-> x.sum,
                 add |-> add, value |-> value, new |-> s]
           rows == Append(x.rows, r)
           adds == IF add THEN x.adds + value ELSE x.adds
           subs == IF add THEN x.subs ELSE x.subs + value
<1>1. /\ x.addrMap = gCallback.addrs /\ x.sum \in Int /\ x.adds \in Int
      /\ x.subs \in Int /\ x.nbTX \in Nat /\ x.bTime \in Nat
      /\ x.rows \in Seq(TallyRow)
  BY DEF TallyObject
<1>2. CASE addr \notin gCallback.addrs
  <2>1. y = x
    BY <1>1, <1>2 DEF Transactions!move
  <2> HIDE DEF y
  <2>2. QED
    BY <1>2, <2>1 DEF y
<1>3. CASE addr \in gCallback.addrs
  <2>1. /\ s = IF add THEN x.sum + value ELSE x.sum - value
        /\ s \in Int /\ adds \in Int /\ subs \in Int
    BY <1>1 DEF Transactions!NewSum
  <2>2. r \in TallyRow /\ r.old = x.sum /\ r.new = s
    BY <1>1, <1>3, <2>1 DEF TallyRow
  <2>3. y = [x EXCEPT !.rows = rows, !.adds = adds, !.subs = subs, !.sum = s,
                      !.nbTX = x.nbTX + 1]
    BY <1>1, <1>3 DEF Transactions!move
  <2>4. adds - subs = IF add THEN x.adds - x.subs + value ELSE x.adds - x.subs - value
    BY <1>1
  <2> HIDE DEF y, r, s, adds, subs
  <2>5. /\ rows \in Seq(TallyRow) /\ Len(rows) = Len(x.rows) + 1
        /\ Len(x.rows) \in Nat /\ rows # <<>>
        /\ rows[Len(x.rows) + 1] = r
        /\ \A k \in 1 .. Len(x.rows) : rows[k] = x.rows[k]
    BY <1>1, <2>2
  <2> HIDE DEF rows
  <2>6. /\ y \in TallyObject /\ y.rows = rows /\ y.adds = adds /\ y.subs = subs
        /\ y.sum = s /\ y.nbTX = x.nbTX + 1
    <3> DEFINE u == [x EXCEPT !.rows = rows, !.adds = adds]
               v == [u EXCEPT !.subs = subs, !.sum = s]
    <3>1. /\ u \in TallyObject /\ u.rows = rows /\ u.adds = adds
          /\ u.nbTX = x.nbTX
      BY <1>1, <2>1, <2>5 DEF TallyObject
    <3>2. y = [v EXCEPT !.nbTX = x.nbTX + 1]
      BY <2>3
    <3> HIDE DEF u
    <3>3. /\ v \in TallyObject /\ v.rows = rows /\ v.adds = adds /\ v.subs = subs
          /\ v.sum = s
      BY <2>1, <3>1 DEF TallyObject
    <3> HIDE DEF v
    <3>4. x.nbTX + 1 \in Nat
      BY <1>1
    <3>5. QED
      BY <3>2, <3>3, <3>4 DEF TallyObject
  <2>7. \A k \in 2 .. Len(rows) : rows[k].old = rows[k - 1].new
    <3> TAKE k \in 2 .. Len(rows)
    <3>1. CASE k <= Len(x.rows)
      <4>1. /\ k \in 2 .. Len(x.rows) /\ k \in 1 .. Len(x.rows)
            /\ k - 1 \in 1 .. Len(x.rows)
        BY <2>5, <3>1
      <4>2. QED
        BY <2>5, <4>1 DEF RowsAddUp
    <3>2. CASE k = Len(x.rows) + 1
      <4>1. Len(x.rows) \in 1 .. Len(x.rows) /\ k - 1 = Len(x.rows) /\ x.rows # <<>>
        BY <2>5, <3>2
      <4>2. x.sum = x.rows[Len(x.rows)].new
        BY <4>1 DEF RowsAddUp
      <4>3. QED
        BY <2>2, <2>5, <3>2, <4>1, <4>2
    <3>3. QED
      BY <2>5, <3>1, <3>2
  <2>8. y.sum = IF y.rows = <<>> THEN 0 ELSE y.rows[Len(y.rows)].new
    BY <2>2, <2>5, <2>6
  <2>9. y.sum = y.adds - y.subs
    <3>1. x.sum = x.adds - x.subs
      BY DEF RowsAddUp
    <3>2. s = adds - subs
      BY <1>1, <2>1, <2>4, <3>1
    <3>3. QED
      BY <2>6, <3>2
  <2>10. y.nbTX = Len(y.rows)
    BY <2>5, <2>6 DEF RowsAddUp
  <2>11. RowsAddUp(y)
    BY <2>6, <2>7, <2>8, <2>9, <2>10 DEF RowsAddUp
  <2>12. QED
    BY <1>3, <2>1, <2>6, <2>11 DEF y
<1>4. QED
  BY <1>2, <1>3

LEMMA TallyStart ==
  ASSUME command = "transactions", self \in TallyObject, RowsAddUp(self),
         height \in Nat,
         \/ \E scripts \in Scripts : StartBlock(scripts)
         \/ \E hash \in coinbases : StartBlockRepeated(hash)
         \/ \E ins \in {s \in SeqOf(coins, MaxInputs) : s # <<>>},
               scripts \in Scripts : StartOther(ins, scripts)
  PROVE  self' \in TallyObject /\ RowsAddUp(self') /\ self'.sum = self.sum
<1> DEFINE h == height + 1  y == startBlock(self, h)
<1>1. self' = CallStartTX(y) \/ self' = CallStartTX(self)
  BY DEF StartBlock, StartBlockRepeated, StartOther
<1>2. \A x : CallStartTX(x) = x
  BY DEF CallStartTX, startTX, startInputs
<1>3. y = [self EXCEPT !.bTime = h] /\ h \in Nat
  BY DEF startBlock, Transactions!startBlock
<1> HIDE DEF h, y
<1>4. /\ y \in TallyObject /\ y.sum = self.sum /\ y.rows = self.rows
      /\ y.nbTX = self.nbTX /\ y.adds = self.adds /\ y.subs = self.subs
  BY <1>3 DEF TallyObject
<1>5. RowsAddUp(y)
  BY <1>4 DEF RowsAddUp
<1>6. self' = y \/ self' = self
  BY <1>1, <1>2
<1>7. QED
  BY <1>4, <1>5, <1>6

LEMMA TallyOther ==
  ASSUME command = "transactions", gCallback \in Sessions,
         \/ Headers \/ GenInputCalls \/ StartOutputsCalls \/ EndTXCalls \/ EndBlock
         \/ EndOfChain \/ Wrapup \/ WriteToClosedFile \/ Over \/ UNCHANGED allVars
  PROVE  self' = self
<1>1. CASE Headers
  BY <1>1, HeadersCalls
<1>2. CASE GenInputCalls
  BY <1>2 DEF GenInputCalls, startInput
<1>3. CASE StartOutputsCalls
  BY <1>3 DEF StartOutputsCalls, endInputs
<1>4. CASE EndTXCalls
  BY <1>4 DEF EndTXCalls, endTX
<1>5. CASE EndBlock
  BY <1>5 DEF EndBlock, endBlock
<1>6. CASE Wrapup
  BY <1>6 DEF Wrapup, wrapup
<1>7. CASE EndOfChain \/ WriteToClosedFile \/ Over \/ UNCHANGED allVars
  BY <1>7 DEF EndOfChain, WriteToClosedFile, Over
<1>8. QED
  BY <1>1, <1>2, <1>3, <1>4, <1>5, <1>6, <1>7

LEMMA TallyCalls ==
  ASSUME command = "transactions"
  PROVE  /\ InputCalls =>
              LET out == txo[edge'.shows] IN
              self' = Transactions!move(self, out.addr, tx.hash, out.value, FALSE)
         /\ OutputCalls =>
              LET out == txo[<<tx.hash, tx'.outs>>] IN
              self' = Transactions!move(self, out.addr, tx.hash, out.value, TRUE)
<1>1. ASSUME InputCalls
      PROVE  LET out == txo[edge'.shows] IN
             self' = Transactions!move(self, out.addr, tx.hash, out.value, FALSE)
  <2>1. self' = edgeCall(startInput(self), edge'.shows) /\ startInput(self) = self
    BY <1>1 DEF InputCalls, startInput
  <2>2. QED
    BY <2>1 DEF edgeCall, Transactions!edge
<1>2. ASSUME OutputCalls
      PROVE  LET out == txo[<<tx.hash, tx'.outs>>] IN
             self' = Transactions!move(self, out.addr, tx.hash, out.value, TRUE)
  <2>1. /\ self' = endOutput(startOutput(self), <<tx.hash, tx'.outs>>)
        /\ startOutput(self) = self
    BY <1>2 DEF OutputCalls, startOutput
  <2>2. QED
    BY <2>1 DEF endOutput, Transactions!endOutput
<1>3. QED
  BY <1>1, <1>2

-----------------------------------------------------------------------------
(* transactions: the sum against the outputs the index holds. *)

Worths == [o \in Outpoint |-> ValueOf(o)]
Balance == Total(Worths, Owned)

LEMMA OutpointsAreFinite == IsFiniteSet(Outpoint)
<1>1. IsFiniteSet(1 .. MaxTxs) /\ IsFiniteSet(1 .. MaxOutputs)
  BY FS_Interval
<1>2. QED
  BY <1>1, FS_Product DEF Outpoint, TxHash

LEMMA PartIsSummable ==
  ASSUME TxoInv, NEW S \in SUBSET Outpoint
  PROVE  IsSummable(Worths, S)
<1>1. IsFiniteSet(S)
  BY OutpointsAreFinite, FS_Subset
<1>2. QED
  BY <1>1 DEF IsSummable, Worths, TxoInv

LEMMA SumIsTotal ==
  ASSUME TxoInv, NEW S \in SUBSET Outpoint
  PROVE  SumOver(S, ValueOf) = Total(Worths, S)
<1> DEFINE pick(s) == CHOOSE x \in s : TRUE
           picks == [s \in SUBSET S |-> pick(s)]
           IsSum(g) == g = [s \in SUBSET S |->
                              IF s = {} THEN 0
                              ELSE ValueOf(pick(s)) + g[s \ {pick(s)}]]
           g0 == CHOOSE g : IsSum(g)
<1>1. SumOver(S, ValueOf) = g0[S]
  BY DEF SumOver, MapThenSumSet, MapThenFoldSet
<1>2. \A s \in SUBSET S : picks[s] = pick(s) /\ (s # {} => pick(s) \in s)
  OBVIOUS
<1> HIDE DEF pick, picks
<1>3. \A g : SumEquation(g, Worths, picks, S) <=> IsSum(g)
  <2>1. \A s \in SUBSET S : s # {} => Worths[pick(s)] = ValueOf(pick(s))
    BY <1>2 DEF Worths
  <2>2. QED
    BY <1>2, <2>1 DEF SumEquation
<1> HIDE DEF IsSum
<1>4. IsSummable(Worths, S)
  BY PartIsSummable
<1>5. \E g : IsSum(g)
  BY <1>2, <1>3, <1>4, TotalIsTheSum
<1>6. IsSum(g0)
  BY <1>5
<1>7. QED
  BY <1>1, <1>2, <1>3, <1>4, <1>6, TotalIsTheSum

LEMMA OwnedAreOutputs == Owned \in SUBSET Outpoint
BY DEF Owned, Held

LEMMA BalanceType ==
  ASSUME TxoInv
  PROVE  Balance \in Nat
BY OwnedAreOutputs, PartIsSummable, TotalType DEF Balance

(* The invariant, with the sum that the lemmas are about. *)
TallySound ==
  /\ self \in TallyObject /\ RowsAddUp(self)
  /\ self.sum >= Balance
  /\ nbRepeats = 0 => self.sum = Balance

StatementInv == command = "transactions" => TallySound

(* It is the one that TLC checks. *)
LEMMA StatementInvIsTallyInv ==
  ASSUME TxoInv
  PROVE  TallyInv <=> StatementInv
<1>1. SumOver(Owned, ValueOf) = Balance
  BY OwnedAreOutputs, SumIsTotal DEF Balance
<1>2. QED
  BY <1>1 DEF TallyInv, StatementInv, TallySound

(* Coins of other transactions are not touched by a new one. *)
LEMMA BalanceKept ==
  ASSUME TxoInv, Held' = Held, gCallback' = gCallback,
         \A o \in Held : txo'[o] = txo[o]
  PROVE  Balance' = Balance
<1>1. Owned' = Owned
  BY DEF Owned
<1>2. \A o \in Owned : Worths'[o] = Worths[o]
  BY OwnedAreOutputs DEF Worths, ValueOf, Owned
<1>3. Total(Worths', Owned) = Total(Worths, Owned)
  <2>1. PICK g, h, S : g = Worths' /\ h = Worths /\ S = Owned
    OBVIOUS
  <2>2. \A o \in S : g[o] = h[o]
    BY <1>2, <2>1
  <2>3. Total(g, S) = Total(h, S)
    BY <2>2, TotalAgrees
  <2>4. QED
    BY <2>1, <2>3
<1>4. QED
  BY <1>1, <1>3 DEF Balance

LEMMA TallyStartStep ==
  ASSUME IndInv, LoopInv, TxoInv, TxoInv', TallySound, command = "transactions",
         NEW hash \in TxHash, NEW ins \in Seq(Outpoint \union {GenInput}),
         IsStart(hash, ins), IsNew(hash, ins) \/ IsRepeated(hash, ins),
         IsNew(hash, ins) => \A o \in Outpoint : o[1] # hash => txo'[o] = txo[o],
         \/ \E scripts \in Scripts : StartBlock(scripts)
         \/ \E h \in coinbases : StartBlockRepeated(h)
         \/ \E s \in {s \in SeqOf(coins, MaxInputs) : s # <<>>},
               scripts \in Scripts : StartOther(s, scripts)
  PROVE  TallySound'
<1>1. gCallback' = gCallback /\ Held' = Held /\ Entries' = Entries
  BY IndexUntouched DEF IsStart, chunkMem, ptrsMem
<1>2. /\ self' \in TallyObject /\ RowsAddUp(self') /\ self'.sum = self.sum
  <2>1. height \in Nat
    BY DEF LoopInv
  <2>2. QED
    BY <2>1, TallyStart DEF TallySound
<1>3. \A o \in Held : txo'[o] = txo[o]
  <2>1. CASE IsNew(hash, ins)
    <3>1. hash \notin Entries
      <4>1. \A x \in Entries : x <= NbHashes
        BY DEF IndInv, ChainIsSound
      <4>2. hash = NbHashes + 1 /\ NbHashes \in Nat
        BY <2>1, HashesAreCounted DEF IsNew
      <4>3. QED
        BY <4>1, <4>2
    <3>2. QED
      BY <2>1, <3>1 DEF Held
  <2>2. CASE IsRepeated(hash, ins)
    BY <2>2 DEF IsRepeated
  <2>3. QED
    BY <2>1, <2>2
<1>4. Balance' = Balance
  BY <1>1, <1>3, BalanceKept
<1>5. nbRepeats' = 0 => nbRepeats = 0
  <2>1. nbRepeats \in Nat
    BY DEF IndInv, TypeOK
  <2>2. QED
    BY <2>1 DEF IsNew, IsRepeated
<1>6. self' \in TallyObject'
  BY <1>1, <1>2 DEF TallyObject, TallyRow
<1>7. RowsAddUp(self)'
  BY <1>2 DEF RowsAddUp
<1>8. QED
  BY <1>2, <1>4, <1>5, <1>6, <1>7 DEF TallySound

(* A coin less, or one more, and the move that goes with it. *)
LEMMA TallyMoves ==
  ASSUME TxoInv, TallySound, UNCHANGED <<gCallback, txo, nbRepeats>>,
         NEW o \in Outpoint, NEW hash \in TxHash, NEW add \in BOOLEAN,
         self' = Transactions!move(self, txo[o].addr, hash, txo[o].value, add),
         IF add THEN o \notin Held /\ Held' = Held \union {o}
         ELSE o \in Held /\ Held' = Held \ {o}
  PROVE  TallySound'
<1> DEFINE v == txo[o].value  S == Owned  g == Worths
           mine == txo[o].addr \in gCallback.addrs
<1>1. v \in Nat /\ g[o] = v
  BY DEF TxoInv, ValueOf, Worths
<1>2. /\ self' \in TallyObject /\ RowsAddUp(self')
      /\ self'.sum = IF ~ mine THEN self.sum
                     ELSE IF add THEN self.sum + v ELSE self.sum - v
  <2>1. PICK x, a, u, y : x = self /\ a = txo[o].addr /\ u = v /\ y = self'
    OBVIOUS
  <2>2. x \in TallyObject /\ RowsAddUp(x) /\ u \in Nat
    BY <1>1, <2>1 DEF TallySound
  <2>3. y = Transactions!move(x, a, hash, u, add)
    BY <2>1
  <2>4. /\ y \in TallyObject /\ RowsAddUp(y)
        /\ y.sum = IF a \notin gCallback.addrs THEN x.sum
                   ELSE IF add THEN x.sum + u ELSE x.sum - u
    <3>1. add \in BOOLEAN /\ hash \in TxHash
      OBVIOUS
    <3>2. QED
      BY ONLY <2>2, <2>3, <3>1, TallyMoved, Zenon
  <2>5. QED
    BY <2>1, <2>4
<1>3. /\ self.sum \in Int /\ self.sum >= Balance /\ Balance \in Nat
      /\ nbRepeats = 0 => self.sum = Balance
  BY BalanceType DEF TallySound, TallyObject
<1>4. Owned' = IF ~ mine THEN S ELSE IF add THEN S \union {o} ELSE S \ {o}
  BY DEF Owned
<1>5. Worths' = g
  BY DEF Worths, ValueOf
<1>6. IsSummable(g, S)
  BY OwnedAreOutputs, PartIsSummable
<1>7. Balance' = IF ~ mine THEN Balance
                 ELSE IF add THEN Balance + v ELSE Balance - v
  <2>1. Balance' = Total(g, Owned')
    BY <1>5 DEF Balance
  <2>2. ASSUME add, mine PROVE Total(g, S \union {o}) = Balance + v
    <3>1. o \notin S
      BY <2>2 DEF Owned
    <3> HIDE DEF g, S, v
    <3>2. Total(g, S \union {o}) = Total(g, S) + g[o]
      BY <1>1, <1>6, <3>1, TotalAdd
    <3>3. QED
      BY <1>1, <3>2 DEF Balance, g, S
  <2>3. ASSUME ~ add, mine PROVE Total(g, S \ {o}) = Balance - v
    <3>1. o \in S
      BY <2>3 DEF Owned
    <3> HIDE DEF g, S, v
    <3>2. Total(g, S \ {o}) = Total(g, S) - g[o]
      BY <1>1, <1>6, <3>1, TotalRemove
    <3>3. QED
      BY <1>1, <3>2 DEF Balance, g, S
  <2>4. ASSUME ~ mine PROVE Total(g, Owned') = Balance
    BY <1>4, <2>4 DEF Balance
  <2> HIDE DEF g, S, v, mine
  <2>5. QED
    BY <1>4, <2>1, <2>2, <2>3, <2>4
<1>8. self'.sum >= Balance' /\ (nbRepeats' = 0 => self'.sum = Balance')
  <2>1. PICK a, b, c, d : a = self.sum /\ b = Balance /\ c = self'.sum /\ d = Balance'
    OBVIOUS
  <2>2. c >= d /\ (a = b => c = d)
    BY <1>1, <1>2, <1>3, <1>7, <2>1
  <2>3. QED
    BY <1>3, <2>1, <2>2
<1>9. self' \in TallyObject'
  BY <1>2 DEF TallyObject, TallyRow
<1>10. RowsAddUp(self)'
  BY <1>2 DEF RowsAddUp
<1>11. QED
  BY <1>8, <1>9, <1>10 DEF TallySound

LEMMA TallyInputStep ==
  ASSUME IndInv, TxoInv, TallySound, command = "transactions", InputCalls
  PROVE  TallySound'
<1>1. /\ ParseInput /\ UNCHANGED <<gCallback, txo, nbRepeats>>
      /\ SpendsHeld /\ pc = "inputs"
  BY DEF InputCalls, ParseInput, chainVars, SpendsHeld, InputLeft
<1>2. PICK o : o = Head(tx.ins)
  OBVIOUS
<1>3. o \in Held /\ Held' = Held \ {o} /\ raw[upSlot] = o
  BY <1>1, <1>2, SpentOutput, EntriesAfterInput
<1>4. edge'.shows = o
  BY <1>1, <1>3 DEF ParseInput
<1>5. self' = Transactions!move(self, txo[o].addr, tx.hash, txo[o].value, FALSE)
  BY <1>4, TallyCalls
<1>6. o \in Outpoint
  BY <1>3 DEF Held
<1>7. PICK h \in TxHash : h = tx.hash
  BY <1>1 DEF IndInv, LocalsAreSound, Parsing, TypeOK, NbHashes
<1>8. QED
  BY <1>1, <1>3, <1>5, <1>6, <1>7, TallyMoves

LEMMA TallyOutputStep ==
  ASSUME IndInv, TxoInv, TallySound, command = "transactions", OutputCalls
  PROVE  TallySound'
<1>1. ParseOutput /\ UNCHANGED <<gCallback, txo, nbRepeats>>
  BY DEF OutputCalls, ParseOutput
<1>2. PICK o, h : o = NewOutput /\ h = tx.hash
  OBVIOUS
<1>3. o \in Outpoint \ Held /\ Held' = Held \union {o} /\ h \in TxHash
  BY <1>1, <1>2, MemoryAfterOutput, EntriesAfterOutput
<1>4. <<tx.hash, tx'.outs>> = o
  BY <1>1, <1>2 DEF ParseOutput, IndInv, Shapes, Txs, NewOutput
<1>5. self' = Transactions!move(self, txo[o].addr, h, txo[o].value, TRUE)
  BY <1>2, <1>4, TallyCalls
<1>6. QED
  BY <1>1, <1>3, <1>5, TallyMoves

(* The entry of the first of two coinbase transactions goes, and what is   *)
(* left of it is worth less than it was.                                   *)
LEMMA TallyStartOutputsStep ==
  ASSUME IndInv, LoopInv, TxoInv, TallySound, command = "transactions",
         StartOutputsCalls
  PROVE  TallySound'
<1>1. /\ StartOutputs /\ pc = "inputs" /\ UNCHANGED <<gCallback, txo, nbRepeats>>
  BY DEF StartOutputsCalls, StartOutputs
<1>2. self' = self
  BY TallyOther DEF LoopInv
<1>3. PICK h : h = tx.hash
  OBVIOUS
<1>4. Held' = {o \in Held : o[1] # h} /\ (nbRepeats = 0 => h \notin Entries)
  BY <1>1, <1>3, EntriesAfterStart DEF IndInv, LocalsAreSound
<1>5. Owned' \in SUBSET Owned /\ Worths' = Worths
  BY <1>1, <1>4 DEF Owned, Worths, ValueOf
<1>6. nbRepeats = 0 => Owned' = Owned
  BY <1>1, <1>4 DEF Owned, Held
<1>7. Balance' = Total(Worths, Owned')
  BY <1>5 DEF Balance
<1>8. PICK T : T = Owned'
  OBVIOUS
<1>9. IsSummable(Worths, Owned) /\ T \in SUBSET Owned
  BY <1>5, <1>8, OwnedAreOutputs, PartIsSummable
<1>10. Total(Worths, T) <= Balance /\ Total(Worths, T) \in Nat
  BY <1>9, TotalOfPart, TotalType DEF Balance
<1>11. nbRepeats = 0 => Balance' = Balance
  BY <1>6, <1>7 DEF Balance
<1>12. self.sum \in Int /\ Balance \in Nat
  BY BalanceType DEF TallySound, TallyObject
<1>13. self.sum >= Balance'
  BY <1>7, <1>8, <1>10, <1>12 DEF TallySound
<1>14. self' \in TallyObject'
  BY <1>1, <1>2 DEF TallySound, TallyObject, TallyRow
<1>15. QED
  BY <1>1, <1>2, <1>11, <1>13, <1>14 DEF TallySound, RowsAddUp

(* Each transaction that starts makes outputs of natural values.           *)
LEMMA TxoStart ==
  ASSUME IndInv, LoopInv, TxoInv, NEW hash, tx'.hash = hash,
         \/ \E scripts \in Scripts : StartBlock(scripts)
         \/ \E h \in coinbases : StartBlockRepeated(h)
         \/ \E ins \in {s \in SeqOf(coins, MaxInputs) : s # <<>>},
               scripts \in Scripts : StartOther(ins, scripts)
  PROVE  TxoInv' /\ \A o \in Outpoint : o[1] # hash => txo'[o] = txo[o]
<1>1. ASSUME NEW scripts \in Scripts, StartBlock(scripts)
      PROVE  TxoInv' /\ \A o \in Outpoint : o[1] # hash => txo'[o] = txo[o]
  <2>1. PICK total : total = gCallback.minted[height + 1]
    OBVIOUS
  <2>2. total \in Nat
    <3>1. height + 1 \in 1 .. gCallback.records
      BY <1>1, SessionTypes DEF LoopInv, StartBlock
    <3>2. QED
      BY <2>1, <3>1, SessionTypes DEF LoopInv
  <2>3. txo' = Made(hash, total, scripts)
    BY <1>1, <2>1 DEF StartBlock
  <2>4. QED
    BY <2>2, <2>3, MadeTypes
<1>2. ASSUME NEW h \in coinbases, StartBlockRepeated(h)
      PROVE  TxoInv' /\ \A o \in Outpoint : o[1] # hash => txo'[o] = txo[o]
  BY <1>2 DEF StartBlockRepeated, TxoInv, ValueOf
<1>3. ASSUME NEW ins \in {s \in SeqOf(coins, MaxInputs) : s # <<>>},
             NEW scripts \in Scripts, StartOther(ins, scripts)
      PROVE  TxoInv' /\ \A o \in Outpoint : o[1] # hash => txo'[o] = txo[o]
  <2>1. PICK total : total = Worth(ins)
    OBVIOUS
  <2>2. ins \in Seq(Outpoint)
    <3>1. PICK m \in 0 .. MaxInputs : ins \in [1 .. m -> coins]
      BY DEF SeqOf
    <3>2. coins \subseteq Outpoint
      BY DEF IndInv, TypeOK
    <3>3. QED
      BY <3>1, <3>2, SeqDef
  <2>3. total \in Nat
    BY <2>1, <2>2, WorthType
  <2>4. txo' = Made(hash, total, scripts)
    BY <1>3, <2>1 DEF StartOther
  <2>5. QED
    BY <2>3, <2>4, MadeTypes
<1>4. QED
  BY <1>1, <1>2, <1>3

LEMMA NextStatementInv ==
  IndInv /\ HistoryInv /\ TxoInv /\ StatementInv /\ [CmdNext]_allVars
    => TxoInv' /\ StatementInv'
<1> SUFFICES ASSUME IndInv, HistoryInv, TxoInv, StatementInv, [CmdNext]_allVars
             PROVE  TxoInv' /\ StatementInv'
  OBVIOUS
<1> DEFINE Starts == \/ \E scripts \in Scripts : StartBlock(scripts)
                     \/ \E hash \in coinbases : StartBlockRepeated(hash)
                     \/ \E ins \in {s \in SeqOf(coins, MaxInputs) : s # <<>>},
                           scripts \in Scripts : StartOther(ins, scripts)
<1>1. LoopInv /\ gCallback \in Sessions
  BY DEF HistoryInv, LoopInv
<1>2. Starts \/ Quiet
  BY CmdCases
<1>3. ASSUME Starts
      PROVE  \E hash \in TxHash, ins \in Seq(Outpoint \union {GenInput}) :
                /\ IsStart(hash, ins) /\ (IsNew(hash, ins) \/ IsRepeated(hash, ins))
                /\ tx'.hash = hash
                /\ TxoInv' /\ \A o \in Outpoint : o[1] # hash => txo'[o] = txo[o]
  <2>1. PICK hash \in TxHash, ins \in Seq(Outpoint \union {GenInput}) :
            IsStart(hash, ins) /\ (IsNew(hash, ins) \/ IsRepeated(hash, ins))
    BY <1>1, <1>3, StartCases
  <2>2. tx'.hash = hash
    BY <2>1 DEF IsStart
  <2>3. TxoInv' /\ \A o \in Outpoint : o[1] # hash => txo'[o] = txo[o]
    BY <1>1, <1>3, <2>2, TxoStart
  <2>4. QED
    BY <2>1, <2>2, <2>3
<1>4. Quiet => TxoInv'
  BY DEF Quiet, TxoInv, ValueOf
<1>5. TxoInv'
  BY <1>2, <1>3, <1>4
<1>6. gCallback' = gCallback
  BY <1>2, <1>3 DEF Quiet, IsStart
<1>7. command' = command
  BY <1>6
<1>8. ASSUME command = "transactions" PROVE TallySound'
  <2>1. TallySound
    BY <1>8 DEF StatementInv
  <2>2. CASE Starts
    BY <1>1, <1>3, <1>5, <1>8, <2>1, <2>2, TallyStartStep
  <2>3. CASE InputCalls
    BY <1>8, <2>1, <2>3, TallyInputStep
  <2>4. CASE OutputCalls
    BY <1>8, <2>1, <2>4, TallyOutputStep
  <2>5. CASE StartOutputsCalls
    BY <1>1, <1>8, <2>1, <2>5, TallyStartOutputsStep
  <2>6. CASE \/ Headers \/ GenInputCalls \/ EndTXCalls \/ EndBlock \/ EndOfChain
             \/ Wrapup \/ WriteToClosedFile \/ Over \/ UNCHANGED allVars
    <3>1. self' = self
      BY <1>1, <1>8, <2>6, TallyOther
    <3>2. UNCHANGED <<gTXOMap, mRawData, slots, nbRepeats, txo>>
      BY <2>6 DEF Headers, GenInputCalls, EndTXCalls, EndBlock, EndOfChain,
         Wrapup, WriteToClosedFile, Over, ParseGenInput, EndTX, vars, memVars,
         chunkMem, ptrsMem, chainVars
    <3>3. Held' = Held
      BY <3>2, IndexUntouched
    <3>4. Balance' = Balance
      BY <1>6, <3>2, <3>3, BalanceKept
    <3>5. self' \in TallyObject'
      BY <1>6, <2>1, <3>1 DEF TallySound, TallyObject, TallyRow
    <3>6. QED
      BY <2>1, <3>1, <3>2, <3>4, <3>5 DEF TallySound, RowsAddUp
  <2>7. QED
    BY <2>2, <2>3, <2>4, <2>5, <2>6 DEF CmdNext
<1>9. StatementInv'
  BY <1>7, <1>8 DEF StatementInv
<1>10. QED
  BY <1>5, <1>9

LEMMA InitStatementInv == CmdInit => TxoInv /\ StatementInv
<1> SUFFICES ASSUME CmdInit PROVE TxoInv /\ StatementInv
  OBVIOUS
<1>1. TxoInv
  BY DEF CmdInit, TxoInv, ValueOf
<1>2. ASSUME command = "transactions" PROVE TallySound
  <2>1. /\ self = [addrMap |-> gCallback.addrs, sum |-> 0, adds |-> 0, subs |-> 0,
                   nbTX |-> 0, bTime |-> 0, rows |-> <<>>]
    BY <1>2 DEF CmdInit, initObject, Transactions!init
  <2>2. Owned = {}
    BY DEF CmdInit, Init, Owned, Held, Entries
  <2>3. Balance = 0
    BY <2>2, TotalOfNone DEF Balance
  <2>4. QED
    BY <2>1, <2>3 DEF TallySound, TallyObject, RowsAddUp
<1>3. QED
  BY <1>1, <1>2 DEF StatementInv

LEMMA StatementHolds == CmdSpec => [](IndInv /\ TxoInv /\ StatementInv)
<1>1. CmdInit => IndInv /\ HistoryInv /\ TxoInv /\ StatementInv
  BY InitIndInv, InitHistoryInv, InitStatementInv DEF CmdInit
<1>2. IndInv /\ HistoryInv /\ TxoInv /\ StatementInv /\ [CmdNext]_allVars
        => (IndInv /\ HistoryInv /\ TxoInv /\ StatementInv)'
  BY NextHistoryInv, NextStatementInv
<1>3. QED
  BY <1>1, <1>2, PTL DEF CmdSpec

(* However inputs and outputs to the addresses alternate, the statement of *)
(* transactions goes from row to row without a gap, its sum never falls    *)
(* below zero, and is what the addresses own as long as no coinbase        *)
(* transaction was repeated.                                               *)
THEOREM StatementIsRight == CmdSpec => []TallyIsLedger
<1>1. HistoryInv /\ IndInv /\ TxoInv /\ StatementInv => TallyIsLedger
  <2> SUFFICES ASSUME LoopInv, IndInv, TxoInv, StatementInv,
                      command = "transactions", pc = "tx"
               PROVE  Runs("transactions") => TallyIsLedger
    BY DEF HistoryInv, Runs, TallyIsLedger
  <2>1. TallySound /\ self.addrMap = gCallback.addrs
    BY DEF StatementInv, TallySound, TallyObject
  <2>2. Held = coins
    BY BetweenTransactions DEF LoopInv
  <2>3. SumOver({o \in coins : txo[o].addr \in self.addrMap}, ValueOf) = Balance
    <3>1. {o \in coins : txo[o].addr \in self.addrMap} = Owned
      BY <2>1, <2>2 DEF Owned
    <3>2. QED
      BY <3>1, OwnedAreOutputs, SumIsTotal DEF Balance
  <2>4. self.sum >= 0
    BY <2>1, BalanceType DEF TallySound, TallyObject
  <2>5. SumOver({o \in coins : txo[o].addr \in self.addrMap}, ValueOf) =
            SumOver({o \in coins : txo[o].addr \in self.addrMap}, LAMBDA o : txo[o].value)
    BY DEF ValueOf
  <2>6. QED
    BY <2>1, <2>3, <2>4, <2>5 DEF TallyIsLedger, TallySound, RowsAddUp
<1>2. CmdSpec => []HistoryInv
  BY PristineHolds, PTL
<1>3. QED
  BY <1>1, <1>2, StatementHolds, PTL
=============================================================================
