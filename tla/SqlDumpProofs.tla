-------------------------- MODULE SqlDumpProofs --------------------------
(***************************************************************************)
(* Proofs about sqldump: its tables say of the chain what it is, and their *)
(* rows refer to one another as they should, whatever is repeated and      *)
(* wherever the files are cut off.                                         *)
(***************************************************************************)
EXTENDS CommandsProofs

USE MaxTxsAssumption, MaxInputsAssumption, MaxOutputsAssumption,
    MaxRepeatsAssumption
USE DEF gNullHash, NullCell, allVars, cmdVars, command

-----------------------------------------------------------------------------
(* sqldump: what its handlers do to the object. *)

Longer(file, row, closed) == IF closed THEN file ELSE Append(file, row)

LEMMA SqlStartBlock ==
  ASSUME command = "sqldump", NEW x, IsSqlObject(x), NEW h \in Nat
  PROVE  LET y   == startBlock(x, h)
             cut == gCallback.cutoff # NoCutoff /\ gCallback.cutoff < h
         IN  /\ IsSqlObject(y)
             /\ y.closed <=> x.closed \/ cut
             /\ y.blkID = h - 1
             /\ y.blocks = Longer(x.blocks, [id |-> h - 1], x.closed \/ cut)
             /\ y.txID = x.txID /\ y.outputID = x.outputID
             /\ y.inputID = x.inputID /\ y.outputMap = x.outputMap
             /\ y.transactions = x.transactions
             /\ y.inputs = x.inputs /\ y.outputs = x.outputs
<1> DEFINE y   == startBlock(x, h)
           cut == gCallback.cutoff # NoCutoff /\ gCallback.cutoff < h
           f   == IF cut THEN [x EXCEPT !.closed = TRUE] ELSE x
           row == [id |-> h - 1]
           bs  == Longer(f.blocks, row, f.closed)
<1>1. x.cutoffBlock = gCallback.cutoff
  BY DEF IsSqlObject
<1>2. y = [f EXCEPT !.blkID = h - 1, !.blocks = bs]
  BY <1>1 DEF startBlock, SqlDump!startBlock, SqlDump!IsCutOff, SqlDump!wrapup,
     SqlDump!Written, Longer
<1>3. /\ IsSqlObject(f) /\ f.blocks = x.blocks
      /\ f.txID = x.txID /\ f.outputID = x.outputID /\ f.inputID = x.inputID
      /\ f.outputMap = x.outputMap /\ f.transactions = x.transactions
      /\ f.inputs = x.inputs /\ f.outputs = x.outputs
  <2>1. CASE cut
    BY <2>1 DEF IsSqlObject
  <2>2. CASE ~ cut
    BY <2>2 DEF IsSqlObject
  <2>3. QED
    BY <2>1, <2>2
<1>4. f.closed <=> x.closed \/ cut
  <2>1. CASE cut
    <3>1. f.closed = TRUE
      BY <2>1 DEF IsSqlObject
    <3>2. QED
      BY <2>1, <3>1, Zenon
  <2>2. CASE ~ cut
    BY <2>2, Zenon
  <2>3. QED
    BY <2>1, <2>2, Zenon
<1>5. row \in BlockRow /\ h - 1 \in Int
  BY DEF BlockRow
<1> HIDE DEF f, row
<1>6. bs \in Seq(BlockRow)
  BY <1>3, <1>5 DEF IsSqlObject, Longer
<1>7. bs = Longer(x.blocks, row, x.closed \/ cut)
  BY <1>3, <1>4, Zenon DEF Longer
<1> HIDE DEF bs, y
<1>8. /\ IsSqlObject(y) /\ y.blkID = h - 1 /\ y.blocks = bs
      /\ y.txID = f.txID /\ y.outputID = f.outputID /\ y.inputID = f.inputID
      /\ y.outputMap = f.outputMap /\ y.transactions = f.transactions
      /\ y.inputs = f.inputs /\ y.outputs = f.outputs /\ y.closed = f.closed
  BY <1>2, <1>3, <1>5, <1>6 DEF IsSqlObject
<1>9. y.closed <=> x.closed \/ cut
  BY <1>4, <1>8, Zenon
<1>10. QED
  BY <1>3, <1>7, <1>8, <1>9 DEF y, row

LEMMA SqlStartTX ==
  ASSUME command = "sqldump", NEW x, IsSqlObject(x), NEW mem, NEW c,
         mem[c] \in TxHash
  PROVE  LET y == startTX(x, mem, c) IN
         /\ IsSqlObject(y)
         /\ y.txID = x.txID + 1
         /\ y.transactions = Longer(x.transactions,
                [id |-> x.txID + 1, hash |-> mem[c], blockID |-> x.blkID], x.closed)
         /\ y.closed <=> x.closed
         /\ y.blkID = x.blkID /\ y.blocks = x.blocks /\ y.outputID = x.outputID
         /\ y.inputID = x.inputID /\ y.outputMap = x.outputMap
         /\ y.inputs = x.inputs /\ y.outputs = x.outputs
<1> DEFINE y   == startTX(x, mem, c)
           row == [id |-> x.txID + 1, hash |-> mem[c], blockID |-> x.blkID]
           ts  == Longer(x.transactions, row, x.closed)
<1>1. y = [x EXCEPT !.txID = x.txID + 1, !.transactions = ts]
  BY DEF startTX, SqlDump!startTX, SqlDump!Written, Longer
<1>2. row \in TxRow /\ x.txID + 1 \in Int
  BY DEF IsSqlObject, TxRow
<1> HIDE DEF row
<1>3. ts \in Seq(TxRow)
  BY <1>2 DEF IsSqlObject, Longer
<1> HIDE DEF ts, y
<1>4. /\ IsSqlObject(y) /\ y.txID = x.txID + 1 /\ y.transactions = ts
      /\ y.blkID = x.blkID /\ y.blocks = x.blocks /\ y.outputID = x.outputID
      /\ y.inputID = x.inputID /\ y.outputMap = x.outputMap
      /\ y.inputs = x.inputs /\ y.outputs = x.outputs /\ y.closed = x.closed
  BY <1>1, <1>2, <1>3 DEF IsSqlObject
<1>5. y.closed <=> x.closed
  BY <1>4, Zenon
<1>6. QED
  BY <1>4, <1>5 DEF y, ts, row

LEMMA SqlEdge ==
  ASSUME command = "sqldump", NEW x, IsSqlObject(x), NEW o, o \in DOMAIN x.outputMap,
         x.outputMap[o] \in Nat, NEW k \in Int
  PROVE  LET y == SqlDump!edge(x, o, k) IN
         /\ IsSqlObject(y)
         /\ y.inputs = Longer(x.inputs, [id |-> x.inputID, outputID |-> x.outputMap[o],
                                         txID |-> x.txID, offset |-> k], x.closed)
         /\ y.closed <=> x.closed
         /\ y.txID = x.txID /\ y.transactions = x.transactions
         /\ y.blkID = x.blkID /\ y.blocks = x.blocks /\ y.outputID = x.outputID
         /\ y.outputMap = x.outputMap /\ y.outputs = x.outputs
<1> DEFINE y   == SqlDump!edge(x, o, k)
           row == [id |-> x.inputID, outputID |-> x.outputMap[o],
                   txID |-> x.txID, offset |-> k]
           ins == Longer(x.inputs, row, x.closed)
<1>1. y = [x EXCEPT !.inputs = ins, !.inputID = x.inputID + 1]
  BY DEF SqlDump!edge, SqlDump!Written, Longer
<1>2. row \in InputRow /\ x.inputID + 1 \in Nat
  BY DEF IsSqlObject, InputRow
<1> HIDE DEF row
<1>3. ins \in Seq(InputRow)
  BY <1>2 DEF IsSqlObject, Longer
<1> HIDE DEF ins, y
<1>4. /\ IsSqlObject(y) /\ y.inputs = ins
      /\ y.txID = x.txID /\ y.transactions = x.transactions
      /\ y.blkID = x.blkID /\ y.blocks = x.blocks /\ y.outputID = x.outputID
      /\ y.outputMap = x.outputMap /\ y.outputs = x.outputs /\ y.closed = x.closed
  BY <1>1, <1>2, <1>3 DEF IsSqlObject
<1>5. y.closed <=> x.closed
  BY <1>4, Zenon
<1>6. QED
  BY <1>4, <1>5 DEF y, ins, row

LEMMA SqlEndOutput ==
  ASSUME command = "sqldump", NEW x, IsSqlObject(x), NEW o, o[2] \in Nat,
         NEW value \in Nat
  PROVE  LET y == SqlDump!endOutput(x, o, value) IN
         /\ IsSqlObject(y)
         /\ y.outputs = Longer(x.outputs, [id |-> x.outputID, value |-> value,
                                           txID |-> x.txID, offset |-> o[2]], x.closed)
         /\ y.outputMap = SqlDump!LastNumber(x, o)
         /\ y.outputID = x.outputID + 1
         /\ y.closed <=> x.closed
         /\ y.txID = x.txID /\ y.transactions = x.transactions
         /\ y.blkID = x.blkID /\ y.blocks = x.blocks /\ y.inputs = x.inputs
<1> DEFINE y   == SqlDump!endOutput(x, o, value)
           row == [id |-> x.outputID, value |-> value, txID |-> x.txID,
                   offset |-> o[2]]
           out == Longer(x.outputs, row, x.closed)
           m   == SqlDump!LastNumber(x, o)
           z   == [x EXCEPT !.outputs = out, !.outputMap = m]
<1>1. y = [z EXCEPT !.outputID = x.outputID + 1]
  BY DEF SqlDump!endOutput, SqlDump!Written, Longer, IsSqlObject
<1>2. row \in OutputRow /\ x.outputID + 1 \in Nat
  BY DEF IsSqlObject, OutputRow
<1> HIDE DEF row, m
<1>3. out \in Seq(OutputRow)
  BY <1>2 DEF IsSqlObject, Longer
<1> HIDE DEF out
<1>4. /\ IsSqlObject(z) /\ z.outputs = out /\ z.outputMap = m
      /\ z.txID = x.txID /\ z.transactions = x.transactions
      /\ z.blkID = x.blkID /\ z.blocks = x.blocks
      /\ z.inputs = x.inputs /\ z.closed = x.closed
  BY <1>3 DEF IsSqlObject
<1> HIDE DEF z, y
<1>5. /\ IsSqlObject(y) /\ y.outputs = out /\ y.outputMap = m
      /\ y.outputID = x.outputID + 1
      /\ y.txID = x.txID /\ y.transactions = x.transactions
      /\ y.blkID = x.blkID /\ y.blocks = x.blocks
      /\ y.inputs = x.inputs /\ y.closed = x.closed
  BY <1>1, <1>2, <1>4 DEF IsSqlObject
<1>6. y.closed <=> x.closed
  BY <1>5, Zenon
<1>7. QED
  BY <1>5, <1>6 DEF y, out, row, m

(* b is the object of the command once the block was started. *)
InBlock(b) ==
  /\ IsSqlObject(b)
  /\ b.closed <=> IsCut'
  /\ b.blkID = height' - 1
  /\ b.txID = self.txID /\ b.transactions = self.transactions
  /\ b.outputID = self.outputID /\ b.outputMap = self.outputMap
  /\ b.inputs = self.inputs /\ b.outputs = self.outputs
  /\ \A k \in DOMAIN self.blocks :
        k \in DOMAIN b.blocks /\ b.blocks[k] = self.blocks[k]
  /\ ~ IsCut' => \E k \in DOMAIN b.blocks : b.blocks[k].id = height' - 1

LEMMA SqlInBlock ==
  ASSUME command = "sqldump", LoopInv, LoopInv', SqlLocals, gCallback' = gCallback,
         \/ /\ loop = "between" /\ height' = height + 1
            /\ self' = CallStartTX(startBlock(self, height + 1))
         \/ /\ loop = "block" /\ height' = height
            /\ self' = CallStartTX(self)
  PROVE  /\ IsCut => IsCut'
         /\ \E b : InBlock(b) /\ self' = startTX(b, hashCell', tx'.cell)
<1> DEFINE Cut(h) == gCallback.cutoff # NoCutoff /\ gCallback.cutoff < h
<1>1. /\ IsSqlObject(self) /\ height \in Nat
      /\ loop \in {"between", "block"} => (self.closed <=> IsCut)
      /\ gCallback.cutoff \in Nat \union {NoCutoff}
  BY SessionTypes DEF SqlLocals, LoopInv
<1>2. IsCut = Cut(height) /\ IsCut' = Cut(height')
  BY DEF IsCut
<1>3. Cut(height) => Cut(height')
  BY <1>1
<1>4. CASE /\ loop = "between" /\ height' = height + 1
           /\ self' = CallStartTX(startBlock(self, height + 1))
  <2> DEFINE b == startBlock(self, height + 1)
             row == [id |-> height + 1 - 1]
  <2>1. self' = startTX(b, hashCell', tx'.cell)
    BY <1>4 DEF CallStartTX, startInputs
  <2>2. height + 1 \in Nat
    BY <1>1
  <2>3. /\ IsSqlObject(b) /\ (b.closed <=> self.closed \/ Cut(height + 1))
        /\ b.blkID = height + 1 - 1
        /\ b.blocks = Longer(self.blocks, row, self.closed \/ Cut(height + 1))
        /\ b.txID = self.txID /\ b.transactions = self.transactions
        /\ b.outputID = self.outputID /\ b.outputMap = self.outputMap
        /\ b.inputs = self.inputs /\ b.outputs = self.outputs
    BY <1>1, <2>2, SqlStartBlock
  <2> HIDE DEF b
  <2>4. b.closed <=> Cut(height')
    BY <1>1, <1>2, <1>3, <1>4, <2>3, Zenon
  <2>5. b.blocks = Longer(self.blocks, row, Cut(height'))
    BY <1>1, <1>2, <1>3, <1>4, <2>3, Zenon
  <2>6. row.id = height' - 1
    BY <1>1, <1>4
  <2>7. row \in BlockRow /\ self.blocks \in Seq(BlockRow)
    BY <1>1 DEF BlockRow, IsSqlObject
  <2> HIDE DEF row, Cut
  <2>8. /\ \A k \in DOMAIN self.blocks :
              k \in DOMAIN b.blocks /\ b.blocks[k] = self.blocks[k]
        /\ ~ Cut(height') => \E k \in DOMAIN b.blocks : b.blocks[k].id = height' - 1
    <3>1. CASE Cut(height')
      BY <2>5, <3>1 DEF Longer
    <3>2. CASE ~ Cut(height')
      <4>1. b.blocks = Append(self.blocks, row)
        BY <2>5, <3>2 DEF Longer
      <4>2. /\ b.blocks[Len(self.blocks) + 1] = row
            /\ Len(self.blocks) + 1 \in DOMAIN b.blocks
            /\ \A k \in DOMAIN self.blocks :
                    k \in DOMAIN b.blocks /\ b.blocks[k] = self.blocks[k]
        BY <2>7, <4>1
      <4>3. QED
        BY <2>6, <4>2
    <3>3. QED
      BY <3>1, <3>2
  <2>9. b.blkID = height' - 1
    <3>1. b.blkID = height + 1 - 1
      BY <2>3
    <3>2. height' = height + 1 /\ height \in Nat
      BY <1>1, <1>4
    <3>3. QED
      BY ONLY <3>1, <3>2
  <2>10. InBlock(b)
    BY <1>2, <2>3, <2>4, <2>8, <2>9, Zenon DEF InBlock
  <2>11. QED
    BY <1>2, <1>3, <2>1, <2>10
<1>5. CASE loop = "block" /\ height' = height /\ self' = CallStartTX(self)
  <2>1. self' = startTX(self, hashCell', tx'.cell)
    BY <1>5 DEF CallStartTX, startInputs
  <2>2. height > 0 /\ loop \notin {"over", "crash"}
    BY <1>5 DEF LoopInv
  <2>3. IsCut' = IsCut
    BY <1>2, <1>5
  <2>4. InBlock(self)
    <3>1. self.closed <=> IsCut'
      BY <1>1, <1>5, <2>3
    <3>2. self.blkID = height' - 1
      BY <1>5, <2>2 DEF SqlLocals
    <3>3. ~ IsCut' => \E k \in DOMAIN self.blocks : self.blocks[k].id = height' - 1
      BY <1>5, <2>2, <2>3 DEF SqlLocals
    <3>4. QED
      BY <1>1, <3>1, <3>2, <3>3, Zenon DEF InBlock
  <2>5. QED
    BY <2>1, <2>3, <2>4
<1>6. QED
  BY <1>4, <1>5

(* The object of the command once the transaction was started. *)
LEMMA SqlStart ==
  ASSUME command = "sqldump", IndInv', LoopInv, LoopInv', SqlLocals,
         NEW hash \in TxHash, NEW ins, IsStart(hash, ins),
         \/ \E scripts \in Scripts : StartBlock(scripts)
         \/ \E h \in coinbases : StartBlockRepeated(h)
         \/ \E s \in {s \in SeqOf(coins, MaxInputs) : s # <<>>},
               scripts \in Scripts : StartOther(s, scripts)
  PROVE  /\ IsSqlObject(self')
         /\ self'.closed <=> IsCut'
         /\ IsCut => IsCut'
         /\ self'.blkID = height' - 1
         /\ self'.txID = self.txID + 1
         /\ self'.transactions = Longer(self.transactions,
                [id |-> self.txID + 1, hash |-> hash, blockID |-> height' - 1], IsCut')
         /\ self'.outputID = self.outputID /\ self'.outputMap = self.outputMap
         /\ self'.inputs = self.inputs /\ self'.outputs = self.outputs
         /\ \A k \in DOMAIN self.blocks :
                k \in DOMAIN self'.blocks /\ self'.blocks[k] = self.blocks[k]
         /\ ~ IsCut' => \E k \in DOMAIN self'.blocks : self'.blocks[k].id = height' - 1
<1>1. gCallback' = gCallback /\ tx'.hash = hash /\ pc' = "inputs"
  BY DEF IsStart
<1>2. PICK mem, c : mem = hashCell' /\ c = tx'.cell
  OBVIOUS
<1>3. mem[c] = hash
  BY <1>1, <1>2 DEF IndInv, KeysAreIntact
<1>4. \/ /\ loop = "between" /\ height' = height + 1
         /\ self' = CallStartTX(startBlock(self, height + 1))
      \/ /\ loop = "block" /\ height' = height
         /\ self' = CallStartTX(self)
  BY DEF StartBlock, StartBlockRepeated, StartOther
<1>5. IsCut => IsCut'
  BY <1>1, <1>4, SqlInBlock
<1>6. PICK b : InBlock(b) /\ self' = startTX(b, mem, c)
  BY <1>1, <1>2, <1>4, SqlInBlock
<1>7. PICK y : y = self'
  OBVIOUS
<1> DEFINE row == [id |-> b.txID + 1, hash |-> hash, blockID |-> b.blkID]
<1>8. /\ IsSqlObject(y)
      /\ y.txID = b.txID + 1
      /\ y.transactions = Longer(b.transactions, row, b.closed)
      /\ y.closed <=> b.closed
      /\ y.blkID = b.blkID /\ y.blocks = b.blocks /\ y.outputID = b.outputID
      /\ y.inputID = b.inputID /\ y.outputMap = b.outputMap
      /\ y.inputs = b.inputs /\ y.outputs = b.outputs
  <2>1. IsSqlObject(b) /\ mem[c] \in TxHash
    BY <1>3, <1>6 DEF InBlock
  <2>2. QED
    BY <1>3, <1>6, <1>7, <2>1, SqlStartTX
<1>9. row = [id |-> self.txID + 1, hash |-> hash, blockID |-> height' - 1]
  BY <1>6 DEF InBlock
<1> HIDE DEF row
<1>10. y.transactions = Longer(self.transactions, row, IsCut')
  BY <1>6, <1>8, Zenon DEF InBlock, Longer
<1>11. y.closed <=> IsCut'
  BY <1>6, <1>8, Zenon DEF InBlock
<1>12. QED
  BY <1>5, <1>6, <1>7, <1>8, <1>9, <1>10, <1>11 DEF InBlock

(* What the tables say stays true while they and the chain grow. *)
Grown(f, g) == \A k \in DOMAIN f : k \in DOMAIN g /\ g[k] = f[k]

LEMMA LongerIsGrown ==
  ASSUME NEW S, NEW file \in Seq(S), NEW row, NEW closed
  PROVE  Grown(file, Longer(file, row, closed))
BY DEF Grown, Longer

LEMMA RowStays ==
  ASSUME chain \in Seq(Start), Grown(chain, chain'), IsSqlObject(self),
         Grown(self.outputs, self'.outputs),
         NEW row, NEW i \in DOMAIN chain, NEW k, IsRowOf(row, i, k)
  PROVE  IsRowOf(row, i, k)'
<1> DEFINE q == self.outputs[row.outputID + 1]
           m == q.txID + 1
<1>1. /\ row.outputID + 1 \in DOMAIN self.outputs /\ m \in DOMAIN chain
      /\ row.txID = i - 1 /\ row.offset = k - 1
      /\ <<chain[m].hash, q.offset>> = chain[i].ins[k]
      /\ \A j \in q.txID + 2 .. i : chain[j].hash # chain[m].hash
  BY DEF IsRowOf, MadeBy, Inputs_
<1>2. /\ row.outputID + 1 \in DOMAIN self'.outputs
      /\ self'.outputs[row.outputID + 1] = q
  BY <1>1 DEF Grown
<1>3. q.txID \in Int
  <2>1. self.outputs \in Seq(OutputRow)
    BY DEF IsSqlObject
  <2>2. q \in OutputRow
    BY <1>1, <2>1
  <2>3. QED
    BY <2>2 DEF OutputRow
<1> HIDE DEF q
<1>4. \A j \in DOMAIN chain : j \in DOMAIN chain' /\ chain'[j] = chain[j]
  BY DEF Grown
<1>5. \A j \in q.txID + 2 .. i : j \in DOMAIN chain
  <2>1. DOMAIN chain = 1 .. Len(chain) /\ Len(chain) \in Nat
    OBVIOUS
  <2>2. QED
    BY <1>1, <1>3, <2>1
<1>6. /\ m \in DOMAIN chain'
      /\ <<chain'[m].hash, q.offset>> = chain'[i].ins[k]
      /\ \A j \in q.txID + 2 .. i : chain'[j].hash # chain'[m].hash
  BY <1>1, <1>4, <1>5
<1>7. QED
  BY <1>1, <1>2, <1>6 DEF IsRowOf, MadeBy, Inputs_

(* What was parsed of each transaction, and the sum. *)

InputRowsSound ==
  /\ \A i \in SpendsInFiles : \A k \in 1 .. Parsed(i) :
        \E row \in ToSet(self.inputs) : IsRowOf(row, i, k)
  /\ Len(self.inputs) = Total(Lengths, SpendsInFiles)

SqlSound == SqlLocals /\ OutputMapInv /\ RowTablesInv /\ InputRowsSound

LEMMA LengthsAreSummable ==
  ASSUME IndInv, ChainInv, LastInv, NEW S \in SUBSET DOMAIN chain
  PROVE  /\ \A i \in DOMAIN chain : Parsed(i) \in Nat
         /\ IsSummable(Lengths, S)
<1>1. chain \in Seq(Start) /\ DOMAIN chain = 1 .. Len(chain) /\ Len(chain) \in Nat
  BY DEF ChainInv
<1>2. \A i \in DOMAIN chain : Parsed(i) \in Nat
  <2> TAKE i \in DOMAIN chain
  <2>1. Len(Inputs_(i)) \in Nat
    <3>1. chain[i] \in Start
      BY <1>1
    <3>2. chain[i].ins \in Seq(Outpoint \union {GenInput})
      BY <3>1 DEF Start
    <3>3. QED
      BY <3>2 DEF Inputs_
  <2>2. i \notin Read => Len(tx.ins) <= Len(Inputs_(i)) /\ Len(tx.ins) \in Nat
    <3>1. i \notin Read => i = Len(chain) /\ pc = "inputs"
      BY <1>1 DEF Read
    <3>2. tx.ins \in Seq(Outpoint \union {GenInput})
      BY DEF IndInv, TypeOK
    <3>3. Len(tx.ins) \in Nat
      BY <3>2
    <3>4. QED
      BY <3>1, <3>3 DEF LastInv, Last, Inputs_
  <2>3. QED
    BY <2>1, <2>2 DEF Parsed
<1>3. IsFiniteSet(S)
  <2>1. IsFiniteSet(1 .. Len(chain))
    BY <1>1, FS_Interval
  <2>2. QED
    BY <1>1, <2>1, FS_Subset
<1>4. QED
  BY <1>2, <1>3 DEF IsSummable, Lengths

LEMMA OpenFilesHaveAll ==
  ASSUME command = "sqldump", LoopInv, ChainInv, ~ IsCut
  PROVE  InFiles = DOMAIN chain
<1>1. gCallback.cutoff \in Nat \union {NoCutoff} /\ height \in Nat
  BY SessionTypes DEF LoopInv
<1>2. \A i \in DOMAIN chain : chain[i].block <= height /\ chain[i].block \in Nat
  <2>1. \A i \in DOMAIN chain : chain[i] \in Start
    BY DEF ChainInv
  <2>2. QED
    BY <2>1 DEF ChainInv, Start
<1>3. QED
  BY <1>1, <1>2 DEF IsCut, InFiles

(* At the start of a transaction nothing of it was parsed. *)
LEMMA ParsedAtStart ==
  ASSUME IndInv, HistoryInv, NEW hash \in TxHash,
         NEW ins \in Seq(Outpoint \union {GenInput}), IsStart(hash, ins),
         NEW n, n = Len(chain) + 1
  PROVE  /\ \A i \in DOMAIN chain : Parsed(i)' = Parsed(i)
         /\ Parsed(n)' = 0
         /\ \A i \in DOMAIN chain : IsMinted(i)' <=> IsMinted(i)
<1>1. /\ Len(chain) \in Nat /\ DOMAIN chain = 1 .. Len(chain) /\ Read = DOMAIN chain
      /\ Read' = 1 .. Len(chain) /\ chain'[Len(chain) + 1].ins = ins
      /\ \A i \in 1 .. Len(chain) : chain'[i] = chain[i]
  BY ChainAppended, HistoryAtStart DEF HistoryInv
<1>2. tx'.ins = ins
  BY DEF IsStart
<1>3. \A i \in DOMAIN chain : Parsed(i)' = Parsed(i) /\ (IsMinted(i)' <=> IsMinted(i))
  BY <1>1 DEF Parsed, Inputs_, IsMinted
<1>4. Len(ins) \in Nat /\ n \notin 1 .. Len(chain)
  BY <1>1
<1>5. Parsed(n)' = Len(ins) - Len(ins)
  BY <1>1, <1>2, <1>4 DEF Parsed, Inputs_
<1>6. QED
  BY <1>3, <1>4, <1>5

LEMMA InputRowsStart ==
  ASSUME IndInv, IndInv', HistoryInv, HistoryInv', InputRowsSound, IsSqlObject(self),
         self'.inputs = self.inputs, self'.outputs = self.outputs,
         NEW hash \in TxHash, NEW ins \in Seq(Outpoint \union {GenInput}),
         IsStart(hash, ins),
         NEW New \in SUBSET {Len(chain) + 1}, InFiles' = InFiles \union New
  PROVE  InputRowsSound'
<1> DEFINE more == {i \in New : ~ IsMinted(i)'}
<1>0. PICK n, m : n = Len(chain) /\ m = n + 1
  OBVIOUS
<1>1. /\ n \in Nat /\ DOMAIN chain = 1 .. n /\ DOMAIN chain' = 1 .. n + 1
      /\ \A i \in 1 .. n : chain'[i] = chain[i]
      /\ chain \in Seq(Start)
  BY <1>0, ChainAppended DEF HistoryInv, ChainInv
<1>2. /\ \A i \in 1 .. n : Parsed(i)' = Parsed(i)
      /\ Parsed(m)' = 0
      /\ \A i \in 1 .. n : IsMinted(i)' <=> IsMinted(i)
  BY <1>0, <1>1, ParsedAtStart
<1>3. New \subseteq {m} /\ m = n + 1 /\ InFiles \subseteq 1 .. n
  BY <1>0, <1>1 DEF InFiles
<1>4. SpendsInFiles' = SpendsInFiles \union more /\ more \subseteq {m}
  BY <1>2, <1>3 DEF SpendsInFiles
<1> HIDE DEF more
<1>5. SpendsInFiles \subseteq 1 .. n
  BY <1>3 DEF SpendsInFiles
<1>6. Grown(chain, chain') /\ Grown(self.outputs, self'.outputs)
  BY <1>1 DEF Grown
<1>7. ASSUME NEW i \in SpendsInFiles', NEW k \in 1 .. Parsed(i)'
      PROVE  \E row \in ToSet(self'.inputs) : IsRowOf(row, i, k)'
  <2>1. i # m
    BY <1>2, <1>7
  <2>2. i \in SpendsInFiles /\ i \in DOMAIN chain /\ k \in 1 .. Parsed(i)
    BY <1>1, <1>2, <1>3, <1>4, <1>5, <1>7, <2>1
  <2>3. PICK row \in ToSet(self.inputs) : IsRowOf(row, i, k)
    BY <2>2 DEF InputRowsSound
  <2>4. IsRowOf(row, i, k)'
    BY <1>1, <1>6, <2>2, <2>3, RowStays
  <2>5. QED
    BY <2>3, <2>4
<1>8. Total(Lengths, SpendsInFiles)' = Total(Lengths, SpendsInFiles)
  <2>1. PICK g, S : g = Lengths' /\ S = SpendsInFiles
    OBVIOUS
  <2>2. \A i \in S : g[i] = Lengths[i]
    BY <1>1, <1>2, <1>5, <2>1 DEF Lengths
  <2>3. IsSummable(Lengths, S) /\ S \subseteq 1 .. n
    BY <1>1, <1>5, <2>1, LengthsAreSummable DEF HistoryInv
  <2>4. IsSummable(g, S)
    BY <2>2, <2>3 DEF IsSummable
  <2>5. Total(g, S) = Total(Lengths, S)
    BY <2>2, TotalAgrees
  <2>6. Total(g, S \union more) = Total(g, S)
    <3>1. CASE more = {}
      BY <3>1
    <3>2. CASE more = {m}
      <4>1. g[m] = 0
        BY <1>1, <1>2, <1>3, <2>1 DEF Lengths
      <4>2. m \notin S
        BY <1>1, <1>3, <2>3
      <4>3. Total(g, S \union {m}) = Total(g, S) + 0
        BY <2>4, <4>1, <4>2, TotalAdd
      <4>4. QED
        BY <2>4, <3>2, <4>3, TotalType
    <3>3. QED
      BY <1>4, <3>1, <3>2
  <2>7. Total(Lengths, SpendsInFiles)' = Total(g, S \union more)
    BY <1>4, <2>1
  <2>8. QED
    BY <2>1, <2>5, <2>6, <2>7
<1>9. QED
  BY <1>7, <1>8 DEF InputRowsSound

(* A transaction starts, and maybe a block: the tables get their rows of   *)
(* both, unless the cutoff is passed.                                      *)
LEMMA SqlStartStep ==
  ASSUME IndInv, IndInv', HistoryInv, HistoryInv', SqlSound, command = "sqldump",
         NEW hash \in TxHash, NEW ins \in Seq(Outpoint \union {GenInput}),
         IsStart(hash, ins),
         \/ \E scripts \in Scripts : StartBlock(scripts)
         \/ \E h \in coinbases : StartBlockRepeated(h)
         \/ \E s \in {s \in SeqOf(coins, MaxInputs) : s # <<>>},
               scripts \in Scripts : StartOther(s, scripts)
  PROVE  SqlSound'
<1>0. PICK n, m, h : n = Len(chain) /\ m = n + 1 /\ h = height'
  OBVIOUS
<1>1. /\ n \in Nat /\ m \in Nat /\ DOMAIN chain = 1 .. n /\ DOMAIN chain' = 1 .. m
      /\ Len(chain') = m /\ chain'[m].hash = hash /\ chain'[m].block = h
      /\ \A i \in 1 .. n : chain'[i] = chain[i]
      /\ chain \in Seq(Start)
  <2>1. ChainInv /\ chain \in Seq(Start)
    BY DEF HistoryInv, ChainInv
  <2>2. /\ Len(chain) \in Nat /\ DOMAIN chain = 1 .. Len(chain)
        /\ Len(chain') = Len(chain) + 1 /\ DOMAIN chain' = 1 .. Len(chain) + 1
        /\ chain'[Len(chain) + 1].hash = hash
        /\ chain'[Len(chain) + 1].block = height'
        /\ \A i \in 1 .. Len(chain) : chain'[i] = chain[i]
    BY <2>1, ChainAppended
  <2>3. QED
    BY <1>0, <2>1, <2>2
<1>2. /\ pc = "tx" /\ pc' = "inputs" /\ gCallback' = gCallback /\ loop' = "block"
      /\ h >= height /\ h \in Nat \ {0} /\ height \in Nat
      /\ UNCHANGED <<gTXOMap, mRawData, slots>>
  BY <1>0 DEF IsStart, HistoryInv, LoopInv, chunkMem, ptrsMem
<1>3. Held' = Held
  BY <1>2, IndexUntouched
<1>4. /\ IsSqlObject(self) /\ self.txID = n - 1
      /\ ~ IsCut => Len(self.outputs) = self.outputID
  BY <1>0 DEF SqlSound, SqlLocals
<1> DEFINE row == [id |-> self.txID + 1, hash |-> hash, blockID |-> h - 1]
           old == self.transactions  new == self'.transactions
<1>5. /\ IsSqlObject(self')
      /\ self'.closed <=> IsCut'
      /\ IsCut => IsCut'
      /\ self'.blkID = h - 1
      /\ self'.txID = self.txID + 1
      /\ new = Longer(old, row, IsCut')
      /\ self'.outputID = self.outputID /\ self'.outputMap = self.outputMap
      /\ self'.inputs = self.inputs /\ self'.outputs = self.outputs
      /\ \A k \in DOMAIN self.blocks :
                k \in DOMAIN self'.blocks /\ self'.blocks[k] = self.blocks[k]
      /\ ~ IsCut' => \E k \in DOMAIN self'.blocks : self'.blocks[k].id = h - 1
  BY <1>0, SqlStart DEF HistoryInv, SqlSound
<1>6. row = [id |-> m - 1, hash |-> hash, blockID |-> h - 1] /\ row \in TxRow
  <2>1. self.txID + 1 = m - 1 /\ m - 1 \in Int /\ h - 1 \in Int
    BY <1>0, <1>1, <1>2, <1>4
  <2>2. QED
    BY <2>1 DEF TxRow
<1>7. IsSqlObject(self)'
  BY <1>2, <1>5 DEF IsSqlObject
<1> HIDE DEF row
<1>8. SqlLocals'
  <2>1. self'.txID = m - 1
    BY <1>0, <1>1, <1>4, <1>5
  <2>2. QED
    BY <1>0, <1>1, <1>2, <1>4, <1>5, <1>7, <2>1 DEF SqlLocals
<1>9. OutputMapInv'
  <2>1. ASSUME NEW o \in Held
        PROVE  /\ o \in DOMAIN self.outputMap /\ self.outputMap[o] \in Nat
               /\ ~ IsCut' => \E r \in ToSet(self.outputs) :
                                r.id = self.outputMap[o] /\ IsLastRow(o, r)'
    <3>1. /\ o \in DOMAIN self.outputMap /\ self.outputMap[o] \in Nat
          /\ ~ IsCut => \E r \in ToSet(self.outputs) :
                            r.id = self.outputMap[o] /\ IsLastRow(o, r)
      BY DEF SqlSound, OutputMapInv
    <3>2. ASSUME NEW r \in ToSet(self.outputs), IsLastRow(o, r)
          PROVE  IsLastRow(o, r)'
      <4>1. r.txID \in Int
        <5>1. self.outputs \in Seq(OutputRow)
          BY <1>4 DEF IsSqlObject
        <5>2. r \in OutputRow
          BY <5>1 DEF ToSet
        <5>3. QED
          BY <5>2 DEF OutputRow
      <4>2. /\ r.offset = o[2] /\ r.txID + 1 \in 1 .. n
            /\ chain[r.txID + 1].hash = o[1]
            /\ \A j \in r.txID + 2 .. n : chain[j].hash # o[1]
        BY <1>0, <1>1, <1>2, <3>2 DEF IsLastRow
      <4>3. \A j \in r.txID + 2 .. m : chain'[j].hash = o[1] => j = m
        BY <1>0, <1>1, <4>1, <4>2
      <4>4. r.txID + 1 \in DOMAIN chain' /\ chain'[r.txID + 1].hash = o[1]
        BY <1>0, <1>1, <4>1, <4>2
      <4>5. QED
        BY <1>1, <1>2, <4>2, <4>3, <4>4 DEF IsLastRow
    <3>3. QED
      BY <1>5, <3>1, <3>2
  <2>2. QED
    BY <1>3, <1>5, <2>1 DEF OutputMapInv
<1>10. /\ InFiles' = IF IsCut' THEN InFiles ELSE InFiles \union {m}
       /\ InFiles \subseteq 1 .. n
  <2>1. gCallback.cutoff \in Nat \union {NoCutoff}
    BY SessionTypes DEF HistoryInv, LoopInv
  <2>2. \A i \in 1 .. n : chain'[i].block = chain[i].block
    BY <1>1
  <2>3. m \in InFiles' <=> ~ IsCut'
    BY <1>0, <1>1, <1>2, <2>1 DEF InFiles, IsCut
  <2>4. QED
    BY <1>0, <1>1, <1>2, <2>2, <2>3 DEF InFiles
<1>11. RowTablesInv'
  <2>1. /\ InFiles = DOMAIN old /\ old \in Seq(TxRow)
        /\ \A i \in InFiles :
            /\ old[i] = [id |-> i - 1, hash |-> chain[i].hash,
                         blockID |-> chain[i].block - 1]
            /\ \E k \in DOMAIN self.blocks : self.blocks[k].id = chain[i].block - 1
        /\ \A k \in DOMAIN self.outputs : self.outputs[k].id = k - 1
    BY <1>4 DEF SqlSound, RowTablesInv, IsSqlObject
  <2>2. ~ IsCut' => DOMAIN old = 1 .. n
    BY <1>1, <1>5, <2>1, OpenFilesHaveAll DEF HistoryInv
  <2>3. /\ DOMAIN new = InFiles'
        /\ \A i \in InFiles : new[i] = old[i]
        /\ ~ IsCut' => new[m] = row
    <3>1. CASE IsCut'
      BY <1>5, <1>10, <2>1, <3>1 DEF Longer
    <3>2. CASE ~ IsCut'
      <4>1. new = Append(old, row) /\ Len(old) = n
        BY <1>1, <1>5, <2>1, <2>2, <3>2 DEF Longer
      <4>2. QED
        BY <1>0, <1>1, <1>6, <1>10, <2>1, <2>2, <3>2, <4>1
    <3>3. QED
      BY <3>1, <3>2
  <2>4. ASSUME NEW i \in InFiles'
        PROVE  /\ new[i] = [id |-> i - 1, hash |-> chain'[i].hash,
                            blockID |-> chain'[i].block - 1]
               /\ \E k \in DOMAIN self'.blocks :
                    self'.blocks[k].id = chain'[i].block - 1
    <3>1. CASE i \in InFiles
      <4>1. chain'[i] = chain[i]
        BY <1>1, <1>10, <3>1
      <4>2. QED
        BY <1>5, <2>1, <2>3, <3>1, <4>1
    <3>2. CASE i \notin InFiles
      <4>1. ~ IsCut' /\ i = m
        BY <1>10, <2>4, <3>2
      <4>2. QED
        BY <1>1, <1>5, <1>6, <2>3, <4>1
    <3>3. QED
      BY <3>1, <3>2
  <2>5. QED
    BY <1>5, <2>1, <2>3, <2>4 DEF RowTablesInv
<1>12. InputRowsSound'
  <2>1. PICK New \in SUBSET {m} : InFiles' = InFiles \union New
    <3>1. CASE IsCut'
      <4>1. InFiles' = InFiles \union {} /\ {} \in SUBSET {m}
        BY <1>10, <3>1
      <4>2. QED
        BY <4>1
    <3>2. CASE ~ IsCut'
      BY <1>10, <3>2
    <3>3. QED
      BY <3>1, <3>2
  <2>2. QED
    BY <1>0, <1>4, <1>5, <2>1, InputRowsStart DEF SqlSound
<1>13. QED
  BY <1>8, <1>9, <1>11, <1>12 DEF SqlSound

(* The rows of the inputs, after a step that reads none. *)
LEMMA InputRowsKept ==
  ASSUME HistoryInv, InputRowsSound, IsSqlObject(self), UNCHANGED <<gCallback, chain>>,
         self'.inputs = self.inputs, Grown(self.outputs, self'.outputs),
         \A i \in SpendsInFiles : Parsed(i)' = Parsed(i)
  PROVE  InputRowsSound'
<1>1. SpendsInFiles' = SpendsInFiles
  BY DEF InFiles, SpendsInFiles, IsMinted
<1>2. chain \in Seq(Start) /\ SpendsInFiles \subseteq DOMAIN chain
  BY DEF HistoryInv, ChainInv, SpendsInFiles, InFiles
<1>3. Grown(chain, chain')
  BY DEF Grown
<1>4. ASSUME NEW i \in SpendsInFiles, NEW k \in 1 .. Parsed(i)
      PROVE  \E row \in ToSet(self.inputs) : IsRowOf(row, i, k)'
  <2>1. PICK row \in ToSet(self.inputs) : IsRowOf(row, i, k)
    BY <1>4 DEF InputRowsSound
  <2>2. i \in DOMAIN chain
    BY <1>2
  <2>3. IsRowOf(row, i, k)'
    BY <1>2, <1>3, <2>1, <2>2, RowStays
  <2>4. QED
    BY <2>3
<1>5. PICK g, S : g = Lengths' /\ S = SpendsInFiles
  OBVIOUS
<1>6. \A i \in S : g[i] = Lengths[i]
  BY <1>2, <1>5 DEF Lengths
<1>7. Total(g, S) = Total(Lengths, S)
  BY <1>6, TotalAgrees
<1>8. Total(Lengths, SpendsInFiles)' = Total(g, S)
  BY <1>1, <1>5
<1>9. Len(self.inputs) = Total(Lengths, S)
  BY <1>5 DEF InputRowsSound
<1>10. QED
  BY <1>1, <1>4, <1>7, <1>8, <1>9 DEF InputRowsSound

(* Steps that make no row but those of inputs. *)
LEMMA SqlKept ==
  ASSUME HistoryInv, SqlSound, UNCHANGED <<gCallback, height, chain>>,
         IsSqlObject(self'),
         self'.txID = self.txID, self'.blkID = self.blkID,
         self'.outputID = self.outputID, self'.outputMap = self.outputMap,
         self'.blocks = self.blocks, self'.transactions = self.transactions,
         self'.outputs = self.outputs, InputRowsSound',
         loop' # "fatal", loop' \notin {"over", "crash"} => (self'.closed <=> IsCut),
         Held' \subseteq Held,
         \A o \in Held' : pc' = "inputs" \/ pc # "inputs" \/ o[1] # tx.hash
  PROVE  SqlSound'
<1>1. IsCut' = IsCut /\ InFiles' = InFiles
  BY DEF IsCut, InFiles
<1>2. SqlLocals'
  <2>1. IsSqlObject(self)'
    BY DEF IsSqlObject
  <2>2. QED
    BY <1>1, <2>1 DEF SqlSound, SqlLocals
<1>3. OutputMapInv'
  <2>1. pc = "inputs" => chain[Len(chain)].hash = tx.hash
    BY DEF HistoryInv, LastInv, Parsing, Last
  <2>2. ASSUME NEW o \in Held', NEW r, IsLastRow(o, r)
        PROVE  IsLastRow(o, r)'
    <3>1. o[1] # tx.hash \/ pc # "inputs" \/ pc' = "inputs"
      OBVIOUS
    <3>2. QED
      BY <2>1, <2>2, <3>1 DEF IsLastRow
  <2>3. QED
    BY <1>1, <2>2 DEF SqlSound, OutputMapInv
<1>4. RowTablesInv'
  BY <1>1 DEF SqlSound, RowTablesInv
<1>5. QED
  BY <1>2, <1>3, <1>4 DEF SqlSound

LEMMA SameRows ==
  ASSUME HistoryInv, SqlSound, UNCHANGED <<gCallback, chain>>,
         self'.inputs = self.inputs, self'.outputs = self.outputs,
         \A i \in SpendsInFiles : Parsed(i)' = Parsed(i)
  PROVE  InputRowsSound'
<1>1. Grown(self.outputs, self'.outputs)
  BY DEF Grown
<1>2. InputRowsSound /\ IsSqlObject(self)
  BY DEF SqlSound, SqlLocals
<1>3. QED
  BY <1>1, <1>2, InputRowsKept

(* The input of a coinbase transaction is not in the tables. *)
LEMMA SqlGenInputStep ==
  ASSUME IndInv, IndInv', HistoryInv, HistoryInv', SqlSound, command = "sqldump",
         GenInputCalls
  PROVE  SqlSound'
<1>1. /\ ParseGenInput /\ self' = self /\ pc = "inputs" /\ tx.ins # <<>>
      /\ upTXHash = gNullHash
      /\ UNCHANGED <<gCallback, loop, height, chain, pc, gTXOMap, mRawData, slots>>
  BY DEF GenInputCalls, startInput, ParseGenInput, InputLeft, memVars, chunkMem, ptrsMem
<1>2. Held' = Held
  BY <1>1, IndexUntouched
<1>3. tx.hash \in coinbases /\ tx.hash = chain[Len(chain)].hash
      /\ Len(chain) \in DOMAIN chain
  <2>1. gNullHash \notin TxHash
    BY DEF TxHash
  <2>2. QED
    BY <1>1, <2>1, MintedInputs DEF HistoryInv
<1>4. ASSUME NEW i \in SpendsInFiles PROVE Parsed(i)' = Parsed(i)
  <2>1. IsMinted(Len(chain))
    BY <1>3 DEF HistoryInv, ChainInv
  <2>2. i \in DOMAIN chain /\ i # Len(chain)
    BY <1>4, <2>1 DEF SpendsInFiles, InFiles
  <2>3. i \in Read /\ i \in Read'
    BY <1>1, <2>2 DEF Read, HistoryInv, ChainInv
  <2>4. QED
    BY <1>1, <2>3 DEF Parsed, Inputs_
<1>5. loop = "block"
  BY DEF GenInputCalls
<1>6. IsSqlObject(self') /\ (self'.closed <=> IsCut)
  BY <1>1, <1>5 DEF SqlSound, SqlLocals
<1>7. InputRowsSound'
  BY <1>1, <1>4, SameRows
<1>8. QED
  BY <1>1, <1>2, <1>5, <1>6, <1>7, SqlKept

(* The entry of a transaction is made, and that of an earlier one with the *)
(* same hash is gone: the index holds none of its outputs.                 *)
LEMMA SqlStartOutputsStep ==
  ASSUME IndInv, IndInv', HistoryInv, HistoryInv', SqlSound, command = "sqldump",
         StartOutputsCalls
  PROVE  SqlSound'
<1>1. /\ StartOutputs /\ self' = self /\ pc = "inputs" /\ pc' = "outputs"
      /\ tx.ins = <<>> /\ loop = "block"
      /\ UNCHANGED <<gCallback, loop, height, chain, tx>>
  BY DEF StartOutputsCalls, endInputs, StartOutputs
<1>2. Held' = {o \in Held : o[1] # tx.hash}
  BY <1>1, EntriesAfterStart
<1>3. ASSUME NEW i \in SpendsInFiles PROVE Parsed(i)' = Parsed(i)
  <2>1. i \in DOMAIN chain
    BY <1>3 DEF SpendsInFiles, InFiles
  <2>2. i \in Read' /\ Len(tx.ins) = 0
    BY <1>1, <2>1 DEF Read
  <2>3. Len(Inputs_(i)) \in Int
    <3>1. chain[i] \in Start
      BY <2>1 DEF HistoryInv, ChainInv
    <3>2. QED
      BY <3>1 DEF Start, Inputs_
  <2>4. QED
    BY <1>1, <2>2, <2>3 DEF Parsed, Inputs_
<1>4. IsSqlObject(self') /\ (self'.closed <=> IsCut)
  BY <1>1 DEF SqlSound, SqlLocals
<1>5. InputRowsSound'
  BY <1>1, <1>3, SameRows
<1>6. QED
  BY <1>1, <1>2, <1>4, <1>5, SqlKept

(* The other calls, of which only the last closes the files. *)
LEMMA SqlQuietStep ==
  ASSUME IndInv, IndInv', HistoryInv, HistoryInv', SqlSound, command = "sqldump",
         \/ Headers \/ EndTXCalls \/ EndBlock \/ EndOfChain \/ Wrapup
         \/ WriteToClosedFile \/ Over \/ UNCHANGED allVars
  PROVE  SqlSound'
<1>1. UNCHANGED <<gTXOMap, mRawData, slots, gCallback, height, chain>>
  BY DEF Headers, EndTXCalls, EndBlock, EndOfChain, Wrapup, WriteToClosedFile, Over,
     EndTX, vars, memVars, chunkMem, ptrsMem
<1>2. Held' = Held
  BY <1>1, IndexUntouched
<1>3. /\ IsSqlObject(self) /\ loop # "fatal"
      /\ loop \notin {"over", "crash"} => (self.closed <=> IsCut)
  BY DEF SqlSound, SqlLocals
<1>4. /\ pc' = pc \/ (pc = "outputs" /\ pc' = "tx")
      /\ pc = "inputs" => pc' = "inputs" /\ tx' = tx
  BY DEF Headers, EndTXCalls, EndBlock, EndOfChain, Wrapup, WriteToClosedFile, Over,
     EndTX, vars
<1>5. \A i \in SpendsInFiles : Parsed(i)' = Parsed(i)
  BY <1>1, <1>4 DEF SpendsInFiles, InFiles, Parsed, Read, Inputs_
<1>6. CASE Wrapup
  <2>1. self' = [self EXCEPT !.closed = TRUE] /\ loop' = "over"
    BY <1>6 DEF Wrapup, wrapup, SqlDump!wrapup
  <2>2. /\ IsSqlObject(self')
        /\ self'.txID = self.txID /\ self'.blkID = self.blkID
        /\ self'.outputID = self.outputID /\ self'.outputMap = self.outputMap
        /\ self'.blocks = self.blocks /\ self'.transactions = self.transactions
        /\ self'.inputs = self.inputs /\ self'.outputs = self.outputs
    BY <1>3, <2>1 DEF IsSqlObject
  <2>3. InputRowsSound'
    BY <1>1, <1>5, <2>2, SameRows
  <2>4. QED
    BY <1>1, <1>2, <1>4, <2>1, <2>2, <2>3, SqlKept
<1>7. CASE \/ Headers \/ EndTXCalls \/ EndBlock \/ EndOfChain
           \/ WriteToClosedFile \/ Over \/ UNCHANGED allVars
  <2>1. self' = self
    <3>1. CASE Headers
      BY <3>1, HeadersCalls DEF HistoryInv, LoopInv
    <3>2. CASE \/ EndTXCalls \/ EndBlock \/ EndOfChain
               \/ WriteToClosedFile \/ Over \/ UNCHANGED allVars
      BY <3>2 DEF EndTXCalls, EndBlock, EndOfChain, WriteToClosedFile, Over, endTX,
         endBlock
    <3>3. QED
      BY <1>7, <3>1, <3>2
  <2>2. /\ loop' # "fatal"
        /\ loop' \notin {"over", "crash"} => loop \notin {"over", "crash"}
    BY <1>3, <1>7 DEF Headers, EndTXCalls, EndBlock, EndOfChain, WriteToClosedFile, Over
  <2>3. IsSqlObject(self') /\ (loop' \notin {"over", "crash"} => (self'.closed <=> IsCut))
    BY <1>3, <2>1, <2>2
  <2>4. InputRowsSound'
    BY <1>1, <1>5, <2>1, SameRows
  <2>5. QED
    BY <1>1, <1>2, <1>4, <2>1, <2>2, <2>3, <2>4, SqlKept
<1>8. QED
  BY <1>6, <1>7

(* An input is read: the row that is made of it names the last row of the  *)
(* output it spends.                                                       *)
LEMMA SpentByLast ==
  ASSUME IndInv, HistoryInv, InputCalls, NEW n, n = Len(chain), NEW o, o = Head(tx.ins)
  PROVE  /\ o \in Held /\ Held' = Held \ {o} /\ o \in Outpoint
         /\ o = <<upTXHash, upOutputIndex>>
         /\ n \in DOMAIN chain /\ ~ IsMinted(n) /\ chain[n].hash # o[1]
         /\ chain[n].block = height
         /\ Parsed(n) \in Nat /\ Parsed(n) = inputIndex /\ Parsed(n)' = Parsed(n) + 1
         /\ Inputs_(n)[Parsed(n) + 1] = o
         /\ \A i \in DOMAIN chain \ {n} : Parsed(i)' = Parsed(i)
<1>1. /\ ParseInput /\ SpendsHeld /\ pc = "inputs" /\ pc' = pc /\ tx.ins # <<>>
      /\ InputLeft /\ InputDone /\ UNCHANGED <<gCallback, chain, height>>
  BY DEF InputCalls, ParseInput, SpendsHeld, InputLeft
<1>2. /\ o \in Held /\ Held' = Held \ {o} /\ o = <<upTXHash, upOutputIndex>>
      /\ upTXHash \in Entries
  BY <1>1, SpentOutput, EntriesAfterInput
<1>3. /\ n \in DOMAIN chain /\ tx.hash = chain[n].hash /\ tx.hash \notin coinbases
      /\ chain \in Seq(Start)
  BY <1>1, MintedInputs, PlacesAfterInput DEF HistoryInv, ChainInv
<1>4. chain[n].hash # o[1]
  <2>1. ASSUME NEW i \in Read, chain[i].hash = tx.hash
        PROVE  FALSE
    <3>1. i \in DOMAIN chain /\ i < n
      BY <1>1 DEF Read
    <3>2. QED
      BY <1>3, <2>1, <3>1 DEF HistoryInv, ChainInv
  <2>2. tx.hash \notin Entries
    BY <1>1, <2>1 DEF HistoryInv, LastInv
  <2>3. o[1] = upTXHash
    BY <1>2
  <2>4. QED
    BY <1>2, <1>3, <2>2, <2>3
<1>5. ~ IsMinted(n)
  <2>1. chain[n].ins \in Seq(Outpoint)
    BY <1>3 DEF HistoryInv, ChainInv
  <2>2. chain[n].ins = <<GenInput>> => GenInput \in Outpoint
    <3>1. SUFFICES ASSUME chain[n].ins = <<GenInput>> PROVE GenInput \in Outpoint
      OBVIOUS
    <3>2. <<GenInput>> \in Seq(Outpoint) /\ <<GenInput>>[1] = GenInput /\ Len(<<GenInput>>) = 1
      BY <2>1, <3>1
    <3>3. QED
      BY <3>2
  <2>3. QED
    BY <2>2, GenInputs DEF IsMinted
<1>6. PICK l, t : l = Len(chain[n].ins) /\ t = Len(tx.ins)
  OBVIOUS
<1>7. /\ l \in Nat /\ t \in Nat \ {0} /\ t <= l /\ Len(Tail(tx.ins)) = t - 1
      /\ tx.ins[1] = o /\ o = chain[n].ins[l - t + 1]
  <2>1. chain[n] \in Start
    BY <1>3
  <2>2. chain[n].ins \in Seq(Outpoint \union {GenInput})
    BY <2>1 DEF Start
  <2>3. tx.ins \in Seq(Outpoint \union {GenInput})
    BY DEF IndInv, TypeOK
  <2>4. l \in Nat /\ t \in Nat \ {0} /\ Len(Tail(tx.ins)) = t - 1 /\ tx.ins[1] = o
    BY <1>1, <1>6, <2>2, <2>3
  <2>5. t <= l /\ \A k \in 1 .. t : tx.ins[k] = chain[n].ins[l - t + k]
    BY <1>1, <1>6 DEF HistoryInv, LastInv, Last
  <2>6. QED
    BY <2>4, <2>5
<1>8. n \notin Read /\ n \notin Read' /\ \A i \in DOMAIN chain \ {n} : i \in Read /\ i \in Read'
  BY <1>1, <1>3 DEF Read
<1>9. Parsed(n) = l - t /\ Parsed(n)' = l - (t - 1)
  <2>1. tx'.ins = Tail(tx.ins)
    BY <1>1, InputRead
  <2>2. Len(tx'.ins) = t - 1
    BY <1>7, <2>1
  <2>3. QED
    BY <1>1, <1>6, <1>8, <2>2 DEF Parsed, Inputs_
<1>10. \A i \in DOMAIN chain \ {n} : Parsed(i)' = Parsed(i)
  BY <1>1, <1>8 DEF Parsed, Inputs_
<1>11. inputIndex = l - t
  BY <1>6 DEF inputIndex, Last
<1>12. chain[n].block = height /\ o \in Outpoint
  BY <1>1, <1>2 DEF HistoryInv, LastInv, Parsing, Last, Held
<1>13. QED
  <2>1. PICK p, q : p = Parsed(n) /\ q = Parsed(n)'
    OBVIOUS
  <2>2. p = l - t /\ q = l - (t - 1)
    BY <1>9, <2>1
  <2>3. p \in Nat /\ q = p + 1 /\ l - t + 1 = p + 1
    BY ONLY <1>7, <2>2
  <2>4. Inputs_(n)[p + 1] = o
    BY <1>7, <2>3 DEF Inputs_
  <2>5. QED
    BY <1>2, <1>3, <1>4, <1>5, <1>10, <1>11, <1>12, <2>1, <2>2, <2>3, <2>4, Zenon

LEMMA SqlInputStep ==
  ASSUME IndInv, HistoryInv, SqlSound, command = "sqldump", InputCalls
  PROVE  SqlSound'
<1>1. PICK n, o, p : n = Len(chain) /\ o = Head(tx.ins) /\ p = Parsed(n)
  OBVIOUS
<1>2. /\ o \in Held /\ Held' = Held \ {o} /\ o = <<upTXHash, upOutputIndex>>
      /\ n \in DOMAIN chain /\ ~ IsMinted(n) /\ chain[n].hash # o[1]
      /\ chain[n].block = height
      /\ p \in Nat /\ p = inputIndex /\ Parsed(n)' = p + 1
      /\ Inputs_(n)[p + 1] = o
      /\ \A i \in DOMAIN chain \ {n} : Parsed(i)' = Parsed(i)
  BY <1>1, SpentByLast
<1>3. /\ pc = "inputs" /\ pc' = pc /\ loop = "block"
      /\ UNCHANGED <<gCallback, chain, height>>
      /\ loop' = Unless(self', "block")
  BY DEF InputCalls, ParseInput, InputLeft
<1>4. self' = SqlDump!edge(self, o, p)
  BY <1>2 DEF InputCalls, edgeCall, startInput
<1>5. /\ IsSqlObject(self) /\ (self.closed <=> IsCut) /\ self.txID = n - 1
      /\ o \in DOMAIN self.outputMap /\ self.outputMap[o] \in Nat
  BY <1>1, <1>2, <1>3 DEF SqlSound, SqlLocals, OutputMapInv
<1>0. PICK row : row = [id |-> self.inputID, outputID |-> self.outputMap[o],
                        txID |-> self.txID, offset |-> p]
  OBVIOUS
<1>6. /\ IsSqlObject(self')
      /\ self'.inputs = Longer(self.inputs, row, self.closed)
      /\ self'.closed <=> self.closed
      /\ self'.txID = self.txID /\ self'.transactions = self.transactions
      /\ self'.blkID = self.blkID /\ self'.blocks = self.blocks
      /\ self'.outputID = self.outputID
      /\ self'.outputMap = self.outputMap /\ self'.outputs = self.outputs
  BY <1>0, <1>2, <1>4, <1>5, SqlEdge
<1>7. row.outputID = self.outputMap[o] /\ row.txID = n - 1 /\ row.offset = p
  BY <1>0, <1>5
<1>8. row \in InputRow
  BY <1>0, <1>2, <1>5 DEF InputRow, IsSqlObject
<1>9. loop' = "block"
  <2>1. self'.fatal = FALSE
    BY <1>6 DEF IsSqlObject
  <2>2. QED
    BY <1>3, <2>1 DEF Unless, isFatal
<1>10. CASE IsCut
  <2>1. self'.inputs = self.inputs
    BY <1>5, <1>6, <1>10 DEF Longer
  <2>2. ASSUME NEW i \in SpendsInFiles PROVE Parsed(i)' = Parsed(i)
    <3>1. gCallback.cutoff \in Nat /\ height \in Nat
      BY <1>10, SessionTypes DEF IsCut, HistoryInv, LoopInv
    <3>2. n \notin InFiles
      BY <1>2, <1>10, <3>1 DEF InFiles, IsCut
    <3>3. QED
      BY <1>2, <2>2, <3>2 DEF SpendsInFiles, InFiles
  <2>3. InputRowsSound'
    BY <1>3, <1>6, <2>1, <2>2, SameRows
  <2>4. QED
    BY <1>2, <1>3, <1>5, <1>6, <1>9, <2>3, SqlKept
<1>11. CASE ~ IsCut
  <2>1. /\ self'.inputs = Append(self.inputs, row) /\ self.inputs \in Seq(InputRow)
        /\ self.outputs \in Seq(OutputRow)
    BY <1>5, <1>6, <1>11 DEF Longer, IsSqlObject
  <2>2. PICK out \in ToSet(self.outputs) :
            out.id = self.outputMap[o] /\ IsLastRow(o, out)
    BY <1>2, <1>11 DEF SqlSound, OutputMapInv
  <2>3. PICK m \in DOMAIN self.outputs : self.outputs[m] = out
    BY <2>2 DEF ToSet
  <2>4. m \in Nat /\ m = row.outputID + 1 /\ out \in OutputRow
    <3>1. m \in Nat /\ out \in OutputRow
      BY <2>1, <2>3
    <3>2. out.id = m - 1
      BY <2>3 DEF SqlSound, RowTablesInv
    <3>3. QED
      BY <1>7, <2>2, <3>1, <3>2
  <2>5. /\ out.offset = o[2] /\ out.txID + 1 \in DOMAIN chain
        /\ chain[out.txID + 1].hash = o[1]
        /\ \A j \in out.txID + 2 .. n : chain[j].hash # o[1]
    BY <1>1, <1>2, <2>2 DEF IsLastRow
  <2>6. o = <<o[1], o[2]>>
    BY <1>2
  <2>7. IsRowOf(row, n, p + 1)'
    <3>1. row.offset = p + 1 - 1
      BY <1>2, <1>7
    <3>2. self'.outputs[row.outputID + 1] = out /\ row.outputID + 1 \in DOMAIN self'.outputs
      BY <1>6, <2>3, <2>4
    <3>3. MadeBy(row)' = chain[out.txID + 1]
      BY <1>3, <3>2 DEF MadeBy
    <3>4. <<chain[out.txID + 1].hash, out.offset>> = Inputs_(n)[p + 1]
      BY <1>2, <2>5, <2>6
    <3>5. (row.txID = n - 1 /\ row.offset = (p + 1) - 1)'
      BY <1>2, <1>7, <3>1
    <3>6. (/\ row.outputID + 1 \in DOMAIN self.outputs
           /\ self.outputs[row.outputID + 1].txID + 1 \in DOMAIN chain)'
      BY <1>3, <2>5, <3>2
    <3>7. (<<MadeBy(row).hash, self.outputs[row.outputID + 1].offset>> =
            Inputs_(n)[p + 1])'
      BY <1>3, <3>2, <3>3, <3>4 DEF Inputs_
    <3>8. (\A j \in self.outputs[row.outputID + 1].txID + 2 .. n :
                chain[j].hash # MadeBy(row).hash)'
      BY <1>3, <2>5, <3>2, <3>3
    <3>9. QED
      BY <3>5, <3>6, <3>7, <3>8 DEF IsRowOf
  <2>8. InFiles = DOMAIN chain /\ InFiles' = InFiles
    BY <1>3, <1>11, OpenFilesHaveAll DEF HistoryInv, InFiles
  <2>9. SpendsInFiles' = SpendsInFiles /\ n \in SpendsInFiles
    BY <1>2, <1>3, <2>8 DEF SpendsInFiles, IsMinted
  <2>10. /\ ToSet(self'.inputs) = ToSet(self.inputs) \union {row}
         /\ Len(self'.inputs) = Len(self.inputs) + 1
    <3>1. row \in InputRow
      BY <1>8
    <3>2. /\ Len(self'.inputs) = Len(self.inputs) + 1
          /\ DOMAIN self.inputs = 1 .. Len(self.inputs) /\ Len(self.inputs) \in Nat
          /\ DOMAIN self'.inputs = 1 .. Len(self.inputs) + 1
          /\ self'.inputs[Len(self.inputs) + 1] = row
          /\ \A k \in DOMAIN self.inputs : self'.inputs[k] = self.inputs[k]
      BY <2>1, <3>1
    <3>3. QED
      BY <3>2 DEF ToSet
  <2>11. ASSUME NEW i \in SpendsInFiles, NEW k \in 1 .. Parsed(i)'
         PROVE  \E r \in ToSet(self'.inputs) : IsRowOf(r, i, k)'
    <3>1. i \in DOMAIN chain
      BY <2>8 DEF SpendsInFiles
    <3>2. CASE i = n /\ k = p + 1
      BY <2>7, <2>10, <3>2
    <3>3. CASE ~ (i = n /\ k = p + 1)
      <4>1. k \in 1 .. Parsed(i)
        <5>1. CASE i = n
          <6>1. Parsed(i)' = p + 1 /\ Parsed(i) = p
            BY <1>1, <1>2, <5>1, Zenon
          <6>2. QED
            BY <1>2, <2>11, <3>3, <5>1, <6>1
        <5>2. CASE i # n
          BY <1>2, <2>11, <3>1, <5>2
        <5>3. QED
          BY <5>1, <5>2
      <4>2. PICK r \in ToSet(self.inputs) : IsRowOf(r, i, k)
        BY <4>1 DEF SqlSound, InputRowsSound
      <4>3. chain \in Seq(Start) /\ Grown(chain, chain') /\ Grown(self.outputs, self'.outputs)
        BY <1>3, <1>6 DEF Grown, HistoryInv, ChainInv
      <4>4. IsRowOf(r, i, k)'
        BY <1>5, <3>1, <4>2, <4>3, RowStays
      <4>5. QED
        BY <2>10, <4>2, <4>4
    <3>4. QED
      BY <3>2, <3>3
  <2>12. Len(self'.inputs) = Total(Lengths, SpendsInFiles)'
    <3>1. PICK g, S, R : g = Lengths' /\ S = SpendsInFiles /\ R = S \ {n}
      OBVIOUS
    <3>2. IsSummable(Lengths, S)
      BY <2>8, <3>1, LengthsAreSummable DEF HistoryInv, SpendsInFiles
    <3>3. n \in S /\ S = R \union {n} /\ n \notin R
      BY <2>9, <3>1
    <3>4. /\ IsSummable(Lengths, R)
          /\ Total(Lengths, R) = Total(Lengths, S) - Lengths[n]
      BY <3>1, <3>2, <3>3, TotalRemove
    <3>5. \A i \in R : g[i] = Lengths[i]
      BY <1>2, <1>3, <2>8, <3>1 DEF Lengths, SpendsInFiles
    <3>6. IsSummable(g, R) /\ Total(g, R) = Total(Lengths, R)
      BY <3>4, <3>5, TotalAgrees DEF IsSummable
    <3>7. g[n] = p + 1 /\ Lengths[n] = p
      BY <1>1, <1>2, <1>3, <3>1 DEF Lengths
    <3>8. Total(g, S) = Total(g, R) + g[n]
      BY <1>2, <3>3, <3>6, <3>7, TotalAdd
    <3>9. Total(Lengths, S) \in Nat /\ Len(self.inputs) = Total(Lengths, S)
      BY <3>1, <3>2, TotalType DEF SqlSound, InputRowsSound
    <3>10. Total(g, S) = Total(Lengths, S) + 1
      BY <1>2, <3>4, <3>6, <3>7, <3>8, <3>9
    <3>11. Total(Lengths, SpendsInFiles)' = Total(g, S)
      BY <2>9, <3>1
    <3>12. QED
      BY <2>10, <3>9, <3>10, <3>11
  <2>13. InputRowsSound'
    BY <2>9, <2>11, <2>12 DEF InputRowsSound
  <2>14. QED
    BY <1>2, <1>3, <1>5, <1>6, <1>9, <2>13, SqlKept
<1>12. QED
  BY <1>10, <1>11

(* An output gets its row and, in outputMap, the number of that row. *)
LEMMA SqlOutputStep ==
  ASSUME IndInv, HistoryInv, TxoInv, SqlSound, command = "sqldump", OutputCalls
  PROVE  SqlSound'
<1>1. PICK n, o : n = Len(chain) /\ o = NewOutput
  OBVIOUS
<1>2. /\ ParseOutput /\ pc = "outputs" /\ pc' = pc /\ loop = "block"
      /\ UNCHANGED <<gCallback, chain, height, txo>>
      /\ loop' = Unless(self', "block")
  BY DEF OutputCalls, ParseOutput
<1>3. /\ o \in Outpoint \ Held /\ Held' = Held \union {o} /\ o[1] = tx.hash
      /\ o[2] \in Nat
  BY <1>1, <1>2, MemoryAfterOutput, EntriesAfterOutput DEF NewOutput, Outpoint
<1>4. <<tx.hash, tx'.outs>> = o
  BY <1>1, <1>2 DEF ParseOutput, IndInv, Shapes, Txs, NewOutput
<1>5. PICK v \in Nat : v = txo[o].value
  BY <1>3 DEF TxoInv, ValueOf
<1>6. self' = SqlDump!endOutput(self, o, v)
  BY <1>4, <1>5 DEF OutputCalls, endOutput, startOutput
<1>7. /\ IsSqlObject(self) /\ (self.closed <=> IsCut) /\ self.txID = n - 1
      /\ height > 0 => self.blkID = height - 1
      /\ ~ IsCut => Len(self.outputs) = self.outputID
      /\ ~ IsCut /\ height > 0 =>
            \E k \in DOMAIN self.blocks : self.blocks[k].id = height - 1
  BY <1>1, <1>2 DEF SqlSound, SqlLocals
<1>8. PICK row : row = [id |-> self.outputID, value |-> v, txID |-> self.txID,
                        offset |-> o[2]]
  OBVIOUS
<1>9. /\ IsSqlObject(self')
      /\ self'.outputs = Longer(self.outputs, row, self.closed)
      /\ self'.outputMap = SqlDump!LastNumber(self, o)
      /\ self'.outputID = self.outputID + 1
      /\ self'.closed <=> self.closed
      /\ self'.txID = self.txID /\ self'.transactions = self.transactions
      /\ self'.blkID = self.blkID /\ self'.blocks = self.blocks
      /\ self'.inputs = self.inputs
  BY <1>3, <1>6, <1>7, <1>8, SqlEndOutput
<1>10. loop' = "block"
  <2>1. self'.fatal = FALSE
    BY <1>9 DEF IsSqlObject
  <2>2. QED
    BY <1>2, <2>1 DEF Unless, isFatal
<1>11. IsCut' = IsCut /\ InFiles' = InFiles
  BY <1>2 DEF IsCut, InFiles
<1>12. /\ self.outputs \in Seq(OutputRow) /\ self.outputID \in Nat /\ row \in OutputRow
       /\ row.id = self.outputID /\ row.txID = n - 1 /\ row.offset = o[2]
  BY <1>3, <1>7, <1>8 DEF IsSqlObject, OutputRow
<1>13. ~ IsCut =>
        /\ Len(self'.outputs) = self.outputID + 1
        /\ DOMAIN self'.outputs = DOMAIN self.outputs \union {self.outputID + 1}
        /\ self'.outputs[self.outputID + 1] = row
        /\ \A k \in DOMAIN self.outputs : self'.outputs[k] = self.outputs[k]
  <2> SUFFICES ASSUME ~ IsCut
               PROVE  /\ Len(self'.outputs) = self.outputID + 1
                      /\ DOMAIN self'.outputs =
                            DOMAIN self.outputs \union {self.outputID + 1}
                      /\ self'.outputs[self.outputID + 1] = row
                      /\ \A k \in DOMAIN self.outputs :
                            self'.outputs[k] = self.outputs[k]
    OBVIOUS
  <2>1. self'.outputs = Append(self.outputs, row) /\ Len(self.outputs) = self.outputID
    BY <1>7, <1>9 DEF Longer
  <2>2. QED
    BY <1>12, <2>1
<1>14. IsCut => self'.outputs = self.outputs
  BY <1>7, <1>9 DEF Longer
<1>15. SqlLocals'
  <2>1. IsSqlObject(self)'
    BY <1>2, <1>9 DEF IsSqlObject
  <2>2. QED
    BY <1>1, <1>2, <1>7, <1>9, <1>10, <1>11, <1>13, <2>1 DEF SqlLocals
<1>16. OutputMapInv'
  <2>1. /\ n \in Nat \ {0} /\ DOMAIN chain = 1 .. n /\ chain[n].hash = o[1]
    <3>1. tx.hash = chain[n].hash
      BY <1>1, <1>2 DEF HistoryInv, LastInv, Parsing, Last
    <3>2. nbTxs > 0 /\ nbTxs \in Nat
      BY <1>2 DEF IndInv, LocalsAreSound, Parsing, TypeOK
    <3>3. QED
      BY <1>1, <1>3, <3>1, <3>2 DEF HistoryInv, ChainInv
  <2>2. IsLastRow(o, row)'
    <3>1. row.txID + 1 = n /\ row.txID + 2 = n + 1
      BY <1>12, <2>1
    <3>2. row.txID + 2 .. n = {}
      BY <2>1, <3>1
    <3>3. QED
      BY <1>1, <1>2, <1>12, <2>1, <3>1, <3>2 DEF IsLastRow
  <2>3. ASSUME NEW q \in Held, NEW r, IsLastRow(q, r)
        PROVE  IsLastRow(q, r)'
    BY <1>2, <2>3 DEF IsLastRow
  <2>4. /\ DOMAIN self'.outputMap = {o} \union DOMAIN self.outputMap
        /\ self'.outputMap[o] = self.outputID
        /\ \A q \in DOMAIN self.outputMap \ {o} : self'.outputMap[q] = self.outputMap[q]
    BY <1>9 DEF SqlDump!LastNumber, SqlDump!Merge, SqlDump!EntryOf
  <2>5. ~ IsCut => ToSet(self'.outputs) = ToSet(self.outputs) \union {row}
    BY <1>13 DEF ToSet
  <2>6. ASSUME NEW q \in Held'
        PROVE  /\ q \in DOMAIN self'.outputMap /\ self'.outputMap[q] \in Nat
               /\ ~ IsCut => \E r \in ToSet(self'.outputs) :
                                r.id = self'.outputMap[q] /\ IsLastRow(q, r)'
    <3>1. CASE q = o
      <4>1. ~ IsCut => row \in ToSet(self'.outputs)
        BY <2>5
      <4>2. IsLastRow(q, row)'
        BY <2>2, <3>1, Zenon
      <4>3. row.id = self'.outputMap[q]
        BY <1>12, <2>4, <3>1
      <4>4. QED
        BY <1>12, <2>4, <3>1, <4>1, <4>2, <4>3
    <3>2. CASE q # o
      <4>1. q \in Held
        BY <1>3, <2>6, <3>2
      <4>2. /\ q \in DOMAIN self.outputMap /\ self.outputMap[q] \in Nat
            /\ ~ IsCut => \E r \in ToSet(self.outputs) :
                            r.id = self.outputMap[q] /\ IsLastRow(q, r)
        BY <4>1 DEF SqlSound, OutputMapInv
      <4>3. QED
        BY <2>3, <2>4, <2>5, <3>2, <4>1, <4>2
    <3>3. QED
      BY <3>1, <3>2
  <2>7. QED
    BY <1>11, <2>6 DEF OutputMapInv
<1>17. RowTablesInv'
  <2>1. \A k \in DOMAIN self'.outputs : self'.outputs[k].id = k - 1
    <3>1. \A k \in DOMAIN self.outputs : self.outputs[k].id = k - 1
      BY DEF SqlSound, RowTablesInv
    <3>2. QED
      BY <1>12, <1>13, <1>14, <3>1
  <2>2. QED
    BY <1>2, <1>9, <1>11, <2>1 DEF SqlSound, RowTablesInv
<1>18. InputRowsSound'
  <2>1. Grown(self.outputs, self'.outputs)
    BY <1>9, <1>12, LongerIsGrown
  <2>2. ASSUME NEW i \in SpendsInFiles PROVE Parsed(i)' = Parsed(i)
    BY <1>2, <2>2 DEF SpendsInFiles, InFiles, Parsed, Read, Inputs_
  <2>3. InputRowsSound
    BY DEF SqlSound
  <2>4. QED
    BY <1>2, <1>7, <1>9, <2>1, <2>2, <2>3, InputRowsKept
<1>19. QED
  BY <1>15, <1>16, <1>17, <1>18 DEF SqlSound

TablesInv == command = "sqldump" => SqlSound

LEMMA NextTablesInv ==
  IndInv /\ HistoryInv /\ TxoInv /\ TablesInv /\ IndInv' /\ HistoryInv' /\ [CmdNext]_allVars
    => TablesInv'
<1> SUFFICES ASSUME IndInv, HistoryInv, TxoInv, TablesInv, IndInv', HistoryInv',
                    [CmdNext]_allVars
             PROVE  TablesInv'
  OBVIOUS
<1>0. gCallback' = gCallback
  BY DEF CmdNext, Headers, StartBlock, StartBlockRepeated, StartOther,
     GenInputCalls, InputCalls, StartOutputsCalls, OutputCalls, EndTXCalls, EndBlock,
     EndOfChain, Wrapup, WriteToClosedFile, Over
<1> SUFFICES ASSUME command = "sqldump" PROVE SqlSound'
  BY <1>0 DEF TablesInv
<1>1. SqlSound /\ LoopInv
  BY DEF TablesInv, HistoryInv
<1> DEFINE Starts == \/ \E scripts \in Scripts : StartBlock(scripts)
                     \/ \E hash \in coinbases : StartBlockRepeated(hash)
                     \/ \E s \in {s \in SeqOf(coins, MaxInputs) : s # <<>>},
                           scripts \in Scripts : StartOther(s, scripts)
<1>2. CASE Starts
  <2>1. PICK hash \in TxHash, ins \in Seq(Outpoint \union {GenInput}) : IsStart(hash, ins)
    BY <1>1, <1>2, StartCases
  <2>2. QED
    BY <1>1, <1>2, <2>1, SqlStartStep
<1>3. CASE GenInputCalls
  BY <1>1, <1>3, SqlGenInputStep
<1>4. CASE InputCalls
  BY <1>1, <1>4, SqlInputStep
<1>5. CASE StartOutputsCalls
  BY <1>1, <1>5, SqlStartOutputsStep
<1>6. CASE OutputCalls
  BY <1>1, <1>6, SqlOutputStep
<1>7. CASE \/ Headers \/ EndTXCalls \/ EndBlock \/ EndOfChain \/ Wrapup
           \/ WriteToClosedFile \/ Over \/ UNCHANGED allVars
  BY <1>1, <1>7, SqlQuietStep
<1>8. QED
  BY <1>2, <1>3, <1>4, <1>5, <1>6, <1>7 DEF CmdNext

LEMMA InitTablesInv == CmdInit => TablesInv
<1> SUFFICES ASSUME CmdInit, command = "sqldump" PROVE SqlSound
  BY DEF TablesInv
<1>1. /\ self = [cutoffBlock |-> gCallback.cutoff, txID |-> -1, blkID |-> 0,
                 inputID |-> 0, outputID |-> 0, outputMap |-> <<>>, closed |-> FALSE,
                 fatal |-> FALSE, blocks |-> <<>>, transactions |-> <<>>,
                 inputs |-> <<>>, outputs |-> <<>>]
      /\ loop = "headers" /\ height = 0 /\ chain = <<>> /\ Init
      /\ gCallback.cutoff \in Nat \union {NoCutoff}
  BY SessionTypes DEF CmdInit, initObject, SqlDump!init, SqlDump!NoRow
<1>2. Len(chain) = 0 /\ DOMAIN chain = {}
  BY <1>1
<1>3. Held = {} /\ InFiles = {} /\ SpendsInFiles = {} /\ ~ IsCut
  BY <1>1, <1>2 DEF Init, Held, Entries, InFiles, SpendsInFiles, IsCut
<1>4. IsSqlObject(self)
  BY <1>1 DEF IsSqlObject
<1>5. SqlLocals
  BY <1>1, <1>2, <1>3, <1>4 DEF SqlLocals
<1>6. Total(Lengths, SpendsInFiles) = 0 /\ Len(self.inputs) = 0
  BY <1>1, <1>3, TotalOfNone
<1>7. QED
  BY <1>1, <1>3, <1>5, <1>6 DEF SqlSound, OutputMapInv, RowTablesInv, InputRowsSound

LEMMA TablesHold == CmdSpec => [](IndInv /\ HistoryInv /\ TxoInv /\ TablesInv)
<1>1. CmdInit => IndInv /\ HistoryInv /\ TxoInv /\ StatementInv /\ TablesInv
  BY InitIndInv, InitHistoryInv, InitStatementInv, InitTablesInv DEF CmdInit
<1>2. IndInv /\ HistoryInv /\ TxoInv /\ StatementInv /\ TablesInv /\ [CmdNext]_allVars
        => (IndInv /\ HistoryInv /\ TxoInv /\ StatementInv /\ TablesInv)'
  BY NextHistoryInv, NextStatementInv, NextTablesInv
<1>3. QED
  BY <1>1, <1>2, PTL DEF CmdSpec

(* The sum of the lengths as RowsAreConnected takes it. *)
NbInputs(i) == Len(Inputs_(i))

LEMMA LengthsAdd ==
  ASSUME IndInv, HistoryInv, pc = "tx", NEW S \in SUBSET DOMAIN chain
  PROVE  SumOver(S, NbInputs) = Total(Lengths, S)
<1> DEFINE pick(s) == CHOOSE x \in s : TRUE
           picks == [s \in SUBSET S |-> pick(s)]
           IsSum(g) == g = [s \in SUBSET S |->
                              IF s = {} THEN 0
                              ELSE NbInputs(pick(s)) + g[s \ {pick(s)}]]
           g0 == CHOOSE g : IsSum(g)
<1>1. SumOver(S, NbInputs) = g0[S]
  BY DEF SumOver, MapThenSumSet, MapThenFoldSet
<1>2. \A s \in SUBSET S : picks[s] = pick(s) /\ (s # {} => pick(s) \in s)
  OBVIOUS
<1> HIDE DEF pick, picks
<1>3. \A i \in S : Lengths[i] = NbInputs(i)
  BY DEF Lengths, Parsed, Read, NbInputs
<1>4. \A g : SumEquation(g, Lengths, picks, S) <=> IsSum(g)
  <2>1. \A s \in SUBSET S : s # {} => Lengths[pick(s)] = NbInputs(pick(s))
    BY <1>2, <1>3
  <2>2. QED
    BY <1>2, <2>1 DEF SumEquation
<1> HIDE DEF IsSum
<1>5. IsSummable(Lengths, S)
  BY LengthsAreSummable DEF HistoryInv
<1>6. \E g : IsSum(g)
  BY <1>2, <1>4, <1>5, TotalIsTheSum
<1>7. IsSum(g0)
  BY <1>6
<1>8. QED
  BY <1>1, <1>2, <1>4, <1>5, <1>7, TotalIsTheSum

(* Whatever the chain, whatever is repeated and wherever the files are cut *)
(* off, the rows of sqldump refer to one another as the chain does, and no *)
(* input is unconnected.                                                   *)
THEOREM RowsRefer == CmdSpec => []RowsAreConnected
<1>1. IndInv /\ HistoryInv /\ TablesInv => RowsAreConnected
  <2> SUFFICES ASSUME IndInv, HistoryInv, TablesInv, command = "sqldump"
               PROVE  RowsAreConnected
    BY DEF RowsAreConnected, Runs
  <2>1. SqlSound /\ loop # "fatal"
    BY DEF TablesInv, SqlSound, SqlLocals
  <2> SUFFICES ASSUME pc = "tx" PROVE RowsAreConnected
    BY <2>1 DEF RowsAreConnected, Runs
  <2>2. \A i \in SpendsInFiles : Parsed(i) = Len(Inputs_(i))
    BY DEF SpendsInFiles, InFiles, Parsed, Read
  <2>3. ASSUME NEW i \in InFiles, ~ IsMinted(i), NEW k \in DOMAIN Inputs_(i)
        PROVE  \E row \in ToSet(self.inputs) : IsRowOf(row, i, k)
    <3>1. i \in SpendsInFiles /\ chain[i] \in Start
      BY <2>3 DEF SpendsInFiles, InFiles, HistoryInv, ChainInv
    <3>2. k \in 1 .. Len(Inputs_(i))
      BY <3>1 DEF Start, Inputs_
    <3>3. QED
      BY <2>1, <2>2, <3>1, <3>2 DEF SqlSound, InputRowsSound
  <2>4. Len(self.inputs) =
            SumOver({i \in InFiles : ~ IsMinted(i)}, LAMBDA i : Len(Inputs_(i)))
    <3>1. Len(self.inputs) = Total(Lengths, SpendsInFiles)
      BY <2>1 DEF SqlSound, InputRowsSound
    <3>2. SpendsInFiles \in SUBSET DOMAIN chain
      BY DEF SpendsInFiles, InFiles
    <3>3. Len(self.inputs) = SumOver(SpendsInFiles, NbInputs)
      BY <3>1, <3>2, LengthsAdd
    <3>4. QED
      BY <3>3 DEF SpendsInFiles, NbInputs
  <2>5. \A i \in InFiles : ~ IsMinted(i) => \A k \in DOMAIN Inputs_(i) :
            \E row \in ToSet(self.inputs) :
                /\ row.txID = i - 1 /\ row.offset = k - 1
                /\ <<MadeBy(row).hash, self.outputs[row.outputID + 1].offset>> = Inputs_(i)[k]
                /\ \A j \in self.outputs[row.outputID + 1].txID + 2 .. i :
                        chain[j].hash # MadeBy(row).hash
    BY <2>3, Zenon DEF IsRowOf
  <2>6. /\ InFiles = DOMAIN self.transactions
        /\ \A i \in InFiles :
            /\ self.transactions[i] =
                 [id |-> i - 1, hash |-> chain[i].hash, blockID |-> chain[i].block - 1]
            /\ \E k \in DOMAIN self.blocks :
                    self.blocks[k].id = self.transactions[i].blockID
        /\ \A k \in DOMAIN self.outputs : self.outputs[k].id = k - 1
    BY <2>1 DEF SqlSound, RowTablesInv
  <2>7. QED
    BY <2>1, <2>4, <2>5, <2>6 DEF RowsAreConnected, Runs
<1>2. QED
  BY <1>1, TablesHold, PTL
=============================================================================
