------------------------- MODULE CommandsProperties -------------------------
(***************************************************************************)
(* The correctness of the commands (Commands): what each has gathered is   *)
(* compared with the chain so far, after every whole transaction.          *)
(***************************************************************************)
EXTENDS Commands, TxoIndexProperties

Runs(cmd) == command = cmd /\ pc = "tx"

Inputs_(i)  == chain[i].ins
Outputs(i)  == [n \in 1 .. nbOutputs[chain[i].hash] |-> <<chain[i].hash, n>>]
Hashes      == {chain[i].hash : i \in DOMAIN chain}
IsMinted(i) == chain[i].ins = <<GenInput>>

SumOver(S, f(_)) == MapThenSumSet(f, S)
SumOf(g)         == SumOver(DOMAIN g, LAMBDA x : g[x])

(* The outputs made so far of a transaction, and what they are worth. *)
NbMade(i) == IF i = Len(chain) /\ pc # "tx" THEN tx.outs ELSE nbOutputs[chain[i].hash]
Values(i) == [k \in 1 .. NbMade(i) |-> txo[<<chain[i].hash, k>>].value]

-----------------------------------------------------------------------------
(* pristine lists the coinbase transactions all of whose outputs are       *)
(* unspent, each with its own hash and the block it was last seen in,      *)
(* although its table is keyed by cells that parseTX gives to other        *)
(* transactions.  Without repetitions it counts them right, too.           *)
LastBlock(hash) == Max({chain[i].block : i \in {i \in DOMAIN chain : chain[i].hash = hash}})

PristineAreUnspent ==
    Runs("pristine") =>
        LET rows == Pristine!rows(self, hashCell)
            untouched == {x \in coinbases :
                            \A n \in 1 .. nbOutputs[x] : <<x, n>> \in coins}
        IN  /\ rows = {[hash |-> x, block |-> LastBlock(x)] : x \in untouched}
            /\ nbRepeats = 0 => self.nbPristine = Cardinality(rows)

-----------------------------------------------------------------------------
(* The taint of a transaction is 1 for the given ones, else the average of *)
(* the taints of the transactions it spends from, weighted by value        *)
(* (taint.cpp:19).  taint prints exactly those with a taint above the      *)
(* threshold, with that taint, for which those with less count, too.  At   *)
(* the end it counts all with any taint once.  All this whatever happened  *)
(* to the cells its keys point to.                                         *)
TaintOf[hash \in TxHash] ==
    IF hash \in ToSet(gCallback.roots) THEN Taint!One
    ELSE LET i   == CHOOSE i \in DOMAIN chain : chain[i].hash = hash
             bad == FoldLeft(LAMBDA x, o : Taint!AddTimes(x, txo[o].value, TaintOf[o[1]]),
                             Taint!Zero, IF IsMinted(i) THEN <<>> ELSE Inputs_(i))
         IN  IF IsMinted(i) \/ Worth(Inputs_(i)) = 0 THEN Taint!Zero
             ELSE Taint!Over(bad, Worth(Inputs_(i)))

TaintIsDownstream ==
    Runs("taint") =>
        LET tainted == {x \in Hashes : Taint!IsPositive(TaintOf[x])} IN
        /\ {self.printed[i].hash : i \in DOMAIN self.printed} =
                {x \in tainted : TaintOf[x].n * Threshold > TaintOf[x].d}
        /\ \A i \in DOMAIN self.printed :
                Taint!Same(self.printed[i].taint, TaintOf[self.printed[i].hash])
        /\ Len(self.taintMap) = Cardinality(tainted \union ToSet(gCallback.roots))

-----------------------------------------------------------------------------
(* What simpleStats counts is right.  The greatest number of inputs that   *)
(* it and txInputs know of is that of a transaction of the chain, and only *)
(* the last one may have more.  A row of txInputs is that of a transaction *)
(* with more inputs than all before it; at most the last of these has no   *)
(* row, and a row shows the hash as long as there is a coin left.          *)
MostInputs(S) == Max({0} \union {Len(Inputs_(i)) : i \in S})
BeforeLast    == 1 .. Len(chain) - 1
HasMost(i)    == \A j \in 1 .. i - 1 : Len(Inputs_(j)) < Len(Inputs_(i))
AllRecords    == {i \in DOMAIN chain : HasMost(i)}
Records       == {i \in BeforeLast : HasMost(i)}

DataOf(i) == [nbInputs |-> Len(Inputs_(i)), nbOutputs |-> Len(Outputs(i)),
              volume |-> SumOf(Values(i))]

MaximumIsReal ==
    self.maxInputCountInTx \in MostInputs(BeforeLast) .. MostInputs(DOMAIN chain)

RowsAreRecords ==
    LET rows == TxInputs!rows(self, hashCell) IN
    /\ {r.data : r \in rows} \subseteq {DataOf(i) : i \in AllRecords}
    /\ {DataOf(i) : i \in Records} \subseteq {r.data : r \in rows}
    /\ \A i \in Records : (\E o \in coins : o[1] = chain[i].hash) =>
            [hash |-> chain[i].hash, data |-> DataOf(i)] \in rows

CountsAreTrue ==
    /\ self.nbTransactions = Len(chain)
    /\ self.nbInputs = SumOf([i \in DOMAIN chain |-> Len(Inputs_(i))])
    /\ self.nbOutputs = SumOf([i \in DOMAIN chain |-> Len(Outputs(i))])
    /\ self.volume = SumOf([i \in DOMAIN chain |-> SumOf(Values(i))])
    /\ self.nbBlocks - self.nbValidBlocks = gCallback.records - height

StatisticsAreTrue ==
    /\ Runs("txInputs") => MaximumIsReal /\ RowsAreRecords
    /\ Runs("simpleStats") /\ loop # "headers" => MaximumIsReal /\ CountsAreTrue

(* simpleStats.cpp:16, "global max", and txInputs.cpp:42, "global Tx with  *)
(* maximum nb of inputs": the greatest number of inputs is that of all the *)
(* chain.  It is not: those of the last transaction are never compared.    *)
MaximumIsGlobal ==
    command \in {"simpleStats", "txInputs"} /\ loop = "over" =>
        self.maxInputCountInTx = MostInputs(DOMAIN chain)

(* A row of txInputs shows the hash of a transaction that has these        *)
(* numbers, as showHex and printInputData next to one another say          *)
(* (txInputs.cpp:122).  It does not: the cell the key points to belongs to *)
(* another transaction when all outputs of the first were spent.           *)
RowsNameTheirTransaction ==
    Runs("txInputs") =>
        \A r \in TxInputs!rows(self, hashCell) :
            \E i \in DOMAIN chain : chain[i].hash = r.hash /\ DataOf(i) = r.data

-----------------------------------------------------------------------------
(* After each block rewards has a line for it: its number, the base reward *)
(* halved at every interval, what its coinbase transaction hands out to    *)
(* other than p2pool's broken scripts, and the difference, which is        *)
(* right unless it is negative and then comes out as of an unsigned.  The  *)
(* full dump stops exactly at a minted output that pays nobody.            *)
Halved[k \in Nat] == IF k = 0 THEN BaseReward ELSE Halved[k - 1] \div 2

MintedIn(b) == {o \in UNION {ToSet(Outputs(i)) :
                    i \in {i \in DOMAIN chain : chain[i].block = b /\ IsMinted(i)}} :
                txo[o].type # -2}

SummaryOf(b) ==
    LET total == SumOver(MintedIn(b), LAMBDA o : txo[o].value)
        base  == Halved[(b - 1) \div HalvingInterval]
    IN  [block |-> b - 1, base |-> base, total |-> total,
         fees |-> IF total >= base THEN total - base ELSE Word - (base - total)]

PaysNobody(o) == txo[o].type < 0 /\ txo[o].value > 0

RewardsAreMinted ==
    /\ Runs("rewards") /\ loop \in {"between", "wrapup", "over"} =>
            /\ self.summary = [b \in 1 .. height |-> SummaryOf(b)]
            /\ self.fullDump =>
                \A b \in 1 .. height : \A o \in MintedIn(b) : ~PaysNobody(o)
    /\ loop = "fatal" /\ command = "rewards" =>
            \E o \in MintedIn(height) : PaysNobody(o)

-----------------------------------------------------------------------------
(* tx prints the transactions asked for, each with its block and number of *)
(* inputs and outputs, in the order of the chain, and ends the program     *)
(* right after the last of them and no sooner, as long as none is repeated.*)
Wanted == {i \in DOMAIN chain : chain[i].hash \in ToSet(gCallback.roots)}

IsDumped(d, i) ==
    /\ d.hash = chain[i].hash
    /\ d.block = chain[i].block - 1
    /\ d.nbInputs = Len(Inputs_(i))
    /\ d.nbOutputs = Len(Outputs(i))

DumpIsComplete ==
    Runs("tx") /\ nbRepeats = 0 =>
        LET roots == ToSet(gCallback.roots)
        IN  /\ Len(self.dumped) = Cardinality(Wanted)
            /\ \A i \in Wanted :
                    IsDumped(self.dumped[Cardinality({j \in Wanted : j <= i})], i)
            /\ done(self) <=> roots \subseteq Hashes
            /\ loop \in {"between", "block"} => ~done(self)
            /\ roots \subseteq Hashes => Last(chain).hash \in roots

(* dumpTX.cpp:41, "all the details of the list of specified transactions": *)
(* a transaction is printed with what it takes in, or the base reward at   *)
(* the height of the block it is minted in, and what it hands out, and     *)
(* none asked for is missing when the command is done.  It is not so: no   *)
(* sum is set back before the next transaction.                            *)
SumsAreOwn(d, i) ==
    /\ d.valueOut = DataOf(i).volume
    /\ d.valueIn = IF IsMinted(i) THEN Halved[d.block \div HalvingInterval]
                   ELSE Worth(Inputs_(i))

DumpHasAllDetails ==
    Runs("tx") =>
        /\ \A k \in DOMAIN self.dumped :
                \E i \in DOMAIN chain : /\ chain[i].hash = self.dumped[k].hash
                                      /\ SumsAreOwn(self.dumped[k], i)
        /\ done(self) => {self.dumped[k].hash : k \in DOMAIN self.dumped} =
                            ToSet(gCallback.roots)

-----------------------------------------------------------------------------
(* sqldump's rows refer to one another as the chain does: transaction rows *)
(* to the row of their block, input rows to their transaction and to the   *)
(* row of the output they spend, of the last transaction that made it.  No *)
(* input is "unconnected".  With -a the files hold the whole blocks up to  *)
(* the cutoff and nothing of any other, as far as the writes to files that *)
(* were closed have no effect.                                             *)
InFiles == {i \in DOMAIN chain :
                gCallback.cutoff = NoCutoff \/ chain[i].block <= gCallback.cutoff}

MadeBy(row) == chain[self.outputs[row.outputID + 1].txID + 1]

RowsAreConnected ==
    /\ command = "sqldump" => loop # "fatal"
    /\ Runs("sqldump") =>
        /\ InFiles = DOMAIN self.transactions
        /\ \A i \in InFiles :
            LET t == self.transactions[i] IN
            /\ t = [id |-> i - 1, hash |-> chain[i].hash, blockID |-> chain[i].block - 1]
            /\ \E k \in DOMAIN self.blocks : self.blocks[k].id = t.blockID
        /\ \A i \in InFiles : ~IsMinted(i) => \A k \in DOMAIN Inputs_(i) :
            \E row \in ToSet(self.inputs) :
                /\ row.txID = i - 1 /\ row.offset = k - 1
                /\ <<MadeBy(row).hash, self.outputs[row.outputID + 1].offset>> = Inputs_(i)[k]
                /\ \A j \in self.outputs[row.outputID + 1].txID + 2 .. i :
                        chain[j].hash # MadeBy(row).hash
        /\ Len(self.inputs) = SumOver({i \in InFiles : ~IsMinted(i)},
                                      LAMBDA i : Len(Inputs_(i)))
        /\ \A k \in DOMAIN self.outputs : self.outputs[k].id = k - 1

-----------------------------------------------------------------------------
(* closure lists for an address that has spent the least set that has it   *)
(* and, with any address, those that paid for a transaction with it.  That *)
(* fails only for an address that never paid with another: it may have no  *)
(* vertex in the graph, and what is listed for it then is undefined.       *)
Payers(i) == {txo[o].addr : o \in {o \in ToSet(Inputs_(i)) \ {GenInput} : txo[o].type >= 0}}
Spenders  == UNION {Payers(i) : i \in DOMAIN chain}

IsClosed(S)  == \A i \in DOMAIN chain : Payers(i) \intersect S = {} \/ Payers(i) \subseteq S
Cluster(a)   == {b \in Spenders : \A S \in SUBSET Spenders : a \in S /\ IsClosed(S) => b \in S}

ClustersAreComponents ==
    Runs("closure") =>
        /\ ToSet(self.allAddrs) = Spenders
        /\ \A a \in Spenders :
                IF Closure!InGraph(self, a) THEN Closure!Listings(self, a) = {Cluster(a)}
                ELSE Cluster(a) = {a}

(* What closure lists as the "Address cluster for address %s:"             *)
(* (closure.cpp:149) has this address in it, as long as there is a cluster *)
(* at all.  It need not: cc is read beyond its end.                        *)
ListedWithItsCluster ==
    command = "closure" /\ loop = "over" /\ self.graph # {} =>
        \A a \in Spenders \intersect gCallback.addrs :
            \A listing \in Closure!Listings(self, a) : a \in listing

-----------------------------------------------------------------------------
(* The statement of transactions adds up: each row goes on from the sum of *)
(* the one before, and the last sum is what the addresses own, as long as  *)
(* no coinbase transaction is repeated, which makes its coins twice.       *)
TallyIsLedger ==
    Runs("transactions") =>
        /\ self.nbTX = Len(self.rows)
        /\ self.sum = self.adds - self.subs
        /\ self.sum >= 0
        /\ \A k \in 2 .. Len(self.rows) : self.rows[k].old = self.rows[k - 1].new
        /\ nbRepeats = 0 =>
            self.sum = SumOver({o \in coins : txo[o].addr \in self.addrMap},
                               LAMBDA o : txo[o].value)

-----------------------------------------------------------------------------
(* txotype shows, in the order of the chain, the first output of each      *)
(* common type and every output of another type.  An output made so far    *)
(* has a place: the number of its transaction and its own.                 *)
Places == {p \in (DOMAIN chain) \X (1 .. MaxOutputs) : p[2] <= NbMade(p[1])}
Precedes(p, q) == p[1] < q[1] \/ (p[1] = q[1] /\ p[2] < q[2])

OutputAt(p) == <<chain[p[1]].hash, p[2]>>
RowAt(p)  == [type |-> txo[OutputAt(p)].type, block |-> chain[p[1]].block,
              output |-> OutputAt(p)]

IsShown(p) ==
    \/ RowAt(p).type \notin 0 .. 3
    \/ \A q \in Places : Precedes(q, p) => RowAt(q).type # RowAt(p).type

Shown   == {p \in Places : IsShown(p)}
Rank(p) == Cardinality({q \in Shown : ~Precedes(p, q)})

FirstOfEachType ==
    Runs("txotype") =>
        /\ Len(self.printed) = Cardinality(Shown)
        /\ \A p \in Shown : self.printed[Rank(p)] = RowAt(p)

-----------------------------------------------------------------------------
(* The inductive invariants behind the proofs of CommandsProofs.  All      *)
(* commands have in common that the index is sound (IndInv of TxoIndex)    *)
(* and that the history tells the chain.                                   *)

Start == [hash : TxHash, ins : Seq(Outpoint \union {GenInput}), block : Nat \ {0}]

(* The transactions whose inputs were parsed, repeated ones once for each. *)
Read == {i \in DOMAIN chain : i < Len(chain) \/ pc # "inputs"}

LoopInv ==
    /\ gCallback \in Sessions
    /\ clean
    /\ height \in 0 .. gCallback.records
    /\ loop \in {"headers", "between", "block", "wrapup", "over", "fatal", "crash"}
    /\ loop \in {"headers", "between", "wrapup", "over"} => pc = "tx"
    /\ loop = "headers" => nbTxs = 0 /\ height = 0
    /\ loop = "block" => height > 0

ChainInv ==
    /\ chain \in Seq(Start)
    /\ Len(chain) = nbTxs
    /\ Hashes = 1 .. NbHashes
    /\ \A i \in DOMAIN chain :
            /\ chain[i].block <= height
            /\ IF chain[i].hash \in coinbases THEN IsMinted(i)
               ELSE chain[i].ins \in Seq(Outpoint) /\ chain[i].ins # <<>>
    /\ \A i, j \in DOMAIN chain : i < j =>
            /\ chain[i].block <= chain[j].block
            /\ chain[i].hash = chain[j].hash => chain[i].hash \in coinbases

(* The transaction being parsed is the last one; when it is a repeated     *)
(* coinbase the entry of the first is still there.                         *)
LastInv ==
    /\ Parsing => /\ tx.hash = Last(chain).hash
                  /\ Last(chain).block = height
    /\ pc = "inputs" =>
            /\ Len(tx.ins) <= Len(Last(chain).ins)
            /\ \A k \in 1 .. Len(tx.ins) :
                    tx.ins[k] = Last(chain).ins[Len(Last(chain).ins) - Len(tx.ins) + k]
            /\ tx.hash \in Entries <=> \E i \in Read : chain[i].hash = tx.hash

HistoryInv == LoopInv /\ ChainInv /\ LastInv

(* pristine: the outputs of a transaction made so far are all in the index. *)
Whole(x) ==
    /\ x \in Entries
    /\ \A n \in 1 .. nbOutputs[x] :
            <<x, n>> \in Held \/ (pc = "outputs" /\ x = tx.hash /\ n > tx.outs)

Blocks(x) == {chain[i].block : i \in {i \in Read : chain[i].hash = x}}

PristineObject ==
    [txMap : Seq([place : TxHash, key : 1 .. MaxTxs, val : Nat]), nbInputs : Nat,
     hasGenInput : BOOLEAN, currBlock : Nat, currTXHash : 0 .. MaxTxs,
     nbPristine : Int]

PristineLocals ==
    /\ self \in PristineObject
    /\ height > 0 => self.currBlock = height
    /\ pc = "inputs" =>
            /\ self.currTXHash = tx.cell
            /\ self.hasGenInput <=> tx.hash \in coinbases /\ tx.ins = <<>>

PristineTable ==
    /\ \A i, j \in DOMAIN self.txMap :
            self.txMap[i].place = self.txMap[j].place => i = j
    /\ {self.txMap[i].place : i \in DOMAIN self.txMap} =
            coinbases \intersect {chain[i].hash : i \in Read}
    /\ \A i \in DOMAIN self.txMap :
            LET e == self.txMap[i] IN
            /\ e.place \in Entries => e.key = KeyCell(e.place)
            /\ e.val = IF Whole(e.place) THEN Max(Blocks(e.place)) ELSE Pristine!Spent

PristineCount ==
    nbRepeats = 0 =>
        self.nbPristine = Cardinality({x \in coinbases : Whole(x)})

PristineInv ==
    command = "pristine" => PristineLocals /\ PristineTable /\ PristineCount

(* transactions: the outputs of its addresses that the index holds, and    *)
(* what its rows and sums say of one another.                              *)
ValueOf(o) == txo[o].value
TxoInv == \A o \in Outpoint : ValueOf(o) \in Nat

TallyRow == [time : Nat, addr : gCallback.addrs, tx : TxHash, old : Int,
             add : BOOLEAN, value : Nat, new : Int]
TallyObject ==
    [addrMap : {gCallback.addrs}, sum : Int, adds : Int, subs : Int, nbTX : Nat,
     bTime : Nat, rows : Seq(TallyRow)]

RowsAddUp(x) ==
    /\ x.nbTX = Len(x.rows)
    /\ x.sum = x.adds - x.subs
    /\ x.sum = IF x.rows = <<>> THEN 0 ELSE x.rows[Len(x.rows)].new
    /\ \A k \in 2 .. Len(x.rows) : x.rows[k].old = x.rows[k - 1].new

Owned == {o \in Held : txo[o].addr \in gCallback.addrs}

TallyInv ==
    command = "transactions" =>
        /\ self \in TallyObject /\ RowsAddUp(self)
        /\ self.sum >= SumOver(Owned, ValueOf)
        /\ nbRepeats = 0 => self.sum = SumOver(Owned, ValueOf)

(* sqldump: the tables, as far as the chain goes, and what outputMap finds *)
(* for the outputs that the index holds.                                   *)
BlockRow  == [id : Int]
TxRow     == [id : Int, hash : TxHash, blockID : Int]
InputRow  == [id : Nat, outputID : Nat, txID : Int, offset : Int]
OutputRow == [id : Nat, value : Nat, txID : Int, offset : Nat]

IsSqlObject(x) ==
    x \in [cutoffBlock : {gCallback.cutoff}, txID : Int, blkID : Int, inputID : Nat,
           outputID : Nat, outputMap : {x.outputMap}, closed : BOOLEAN,
           fatal : {FALSE}, blocks : Seq(BlockRow), transactions : Seq(TxRow),
           inputs : Seq(InputRow), outputs : Seq(OutputRow)]

IsCut == gCallback.cutoff # NoCutoff /\ gCallback.cutoff < height

SqlLocals ==
    /\ IsSqlObject(self)
    /\ self.txID = Len(chain) - 1
    /\ height > 0 => self.blkID = height - 1
    /\ loop # "fatal"
    /\ loop \notin {"over", "crash"} => (self.closed <=> IsCut)
    /\ ~IsCut => Len(self.outputs) = self.outputID
    /\ ~IsCut /\ height > 0 => \E k \in DOMAIN self.blocks : self.blocks[k].id = height - 1

(* The row of an output is the last that was made of it, unless the        *)
(* transaction started last is about to make it again.                     *)
IsLastRow(o, row) ==
    /\ row.offset = o[2]
    /\ row.txID + 1 \in DOMAIN chain
    /\ chain[row.txID + 1].hash = o[1]
    /\ \A j \in row.txID + 2 .. Len(chain) :
            chain[j].hash = o[1] => j = Len(chain) /\ pc = "inputs"

OutputMapInv ==
    \A o \in Held :
        /\ o \in DOMAIN self.outputMap
        /\ self.outputMap[o] \in Nat
        /\ ~IsCut => \E row \in ToSet(self.outputs) :
                        row.id = self.outputMap[o] /\ IsLastRow(o, row)

RowTablesInv ==
    /\ InFiles = DOMAIN self.transactions
    /\ \A i \in InFiles :
        /\ self.transactions[i] =
                [id |-> i - 1, hash |-> chain[i].hash, blockID |-> chain[i].block - 1]
        /\ \E k \in DOMAIN self.blocks : self.blocks[k].id = chain[i].block - 1
    /\ \A k \in DOMAIN self.outputs : self.outputs[k].id = k - 1

(* The inputs of a transaction that were parsed. *)
Parsed(i) == IF i \in Read THEN Len(Inputs_(i)) ELSE Len(Inputs_(i)) - Len(tx.ins)

IsRowOf(row, i, k) ==
    /\ row.txID = i - 1 /\ row.offset = k - 1
    /\ row.outputID + 1 \in DOMAIN self.outputs
    /\ self.outputs[row.outputID + 1].txID + 1 \in DOMAIN chain
    /\ <<MadeBy(row).hash, self.outputs[row.outputID + 1].offset>> = Inputs_(i)[k]
    /\ \A j \in self.outputs[row.outputID + 1].txID + 2 .. i :
            chain[j].hash # MadeBy(row).hash

SpendsInFiles == {i \in InFiles : ~IsMinted(i)}

InputRowsInv ==
    /\ \A i \in SpendsInFiles : \A k \in 1 .. Parsed(i) :
            \E row \in ToSet(self.inputs) : IsRowOf(row, i, k)
    /\ Len(self.inputs) = SumOver(SpendsInFiles, Parsed)

SqlInv ==
    command = "sqldump" => SqlLocals /\ OutputMapInv /\ RowTablesInv /\ InputRowsInv

(* txotype: what it has shown of the outputs made so far. *)
TypesInv ==
    command = "txotype" =>
        /\ self = [seen |-> self.seen, currBlock |-> self.currBlock,
                   printed |-> self.printed]
        /\ height > 0 => self.currBlock = height
        /\ self.seen = {RowAt(p).type : p \in Places} \intersect (0 .. 3)
        /\ self.printed \in Seq({RowAt(p) : p \in Places})
        /\ Len(self.printed) = Cardinality(Shown)
        /\ \A p \in Shown : self.printed[Rank(p)] = RowAt(p)

(* tx: what it has printed of the transactions asked for, counting those   *)
(* that are repeated, and what it has of the one being parsed.             *)
Dumped == {i \in Wanted : i < Len(chain) \/ pc = "tx"}

DumpObject(x) ==
    x \in [txMap : {DumpTX!init(gCallback.roots).txMap}, dump : BOOLEAN,
           isDone : BOOLEAN, isGenTX : {x.isGenTX}, valueIn : {x.valueIn},
           valueOut : {x.valueOut}, nbInputs : Nat, nbOutputs : Nat, currBlock : Nat,
           nbDumped : Nat, currTX : Nat, dumped : Seq(ToSet(x.dumped))]

DumpLocals ==
    /\ DumpObject(self)
    /\ height > 0 => self.currBlock = height
    /\ Parsing =>
            /\ self.currTX = tx.hash
            /\ self.dump <=> Len(chain) \in Wanted
            /\ self.dump => /\ self.nbInputs = Parsed(Len(chain))
                            /\ self.nbOutputs = tx.outs

DumpRows ==
    /\ self.nbDumped = Cardinality(Dumped) /\ Len(self.dumped) = Cardinality(Dumped)
    /\ \A i \in Dumped : IsDumped(self.dumped[Cardinality({j \in Dumped : j <= i})], i)

DumpEnd ==
    /\ self.isDone <=> self.nbDumped = Len(gCallback.roots)
    /\ self.isDone => /\ loop \notin {"headers", "between", "block"}
                      /\ pc = "tx" /\ Len(chain) \in Dumped

DumpInv == command = "tx" => DumpLocals /\ DumpRows /\ DumpEnd

(* simpleStats and txInputs: the most inputs of a transaction before the   *)
(* last, and how many of the last were parsed.                             *)
LargestInv ==
    /\ self.maxInputCountInTx \in {0} \union {Len(Inputs_(i)) : i \in BeforeLast}
    /\ \A i \in BeforeLast : Len(Inputs_(i)) <= self.maxInputCountInTx
    /\ self.tmpMaxInputCountInTx = IF chain = <<>> THEN 0 ELSE Parsed(Len(chain))

Lengths == [i \in DOMAIN chain |-> Parsed(i)]
Widths  == [i \in DOMAIN chain |-> NbMade(i)]
Volumes == [i \in DOMAIN chain |-> SumOf(Values(i))]

(* simpleStats: the counts. *)
StatsObject ==
    [volume : Nat, nbBlocks : Nat, nbInputs : Nat, nbOutputs : Nat, nbBlockFiles : Nat,
     nbValidBlocks : Nat, nbTransactions : Nat, maxInputCountInTx : Nat,
     tmpMaxInputCountInTx : Nat]

CountsInv ==
    command = "simpleStats" =>
        /\ self \in StatsObject
        /\ self.nbBlocks = IF loop = "headers" THEN 0 ELSE gCallback.records
        /\ self.nbValidBlocks = height
        /\ self.nbTransactions = Len(chain)
        /\ self.nbInputs = SumOf(Lengths)
        /\ self.nbOutputs = SumOf(Widths)
        /\ self.volume = SumOf(Volumes)
        /\ LargestInv

(* txInputs: the table has the records, each under the key of its entry as *)
(* long as it has one.  When the last transaction is to be one, tmpTxHash  *)
(* comes to be the key of its entry.                                       *)
RecordsObject ==
    [txMap : Seq([place : TxHash, key : 1 .. MaxTxs,
                  val : [nbInputs : Nat, nbOutputs : Nat, volume : Nat]]),
     maxInputCountInTx : Nat, tmpTxHash : 0 .. MaxTxs, tmpMaxInputCountInTx : Nat,
     tmpOutputs : Nat, tmpVolume : Nat]

IsRecordOf(e, i) ==
    /\ e.place = chain[i].hash
    /\ e.val = DataOf(i)
    /\ e.place \in Entries => e.key = KeyCell(e.place)

RecordsTable ==
    /\ \A i \in Records : \E k \in DOMAIN self.txMap : IsRecordOf(self.txMap[k], i)
    /\ \A k \in DOMAIN self.txMap : \E i \in Records : IsRecordOf(self.txMap[k], i)

RecordsLocals ==
    /\ self.tmpOutputs = IF chain = <<>> THEN 0 ELSE NbMade(Len(chain))
    /\ self.tmpVolume = IF chain = <<>> THEN 0 ELSE SumOf(Values(Len(chain)))
    /\ self.tmpMaxInputCountInTx > self.maxInputCountInTx =>
            /\ pc = "outputs" => /\ KeyCell(tx.hash) = tx.cell
                                 /\ tx.outs > 0 => self.tmpTxHash = tx.cell
            /\ pc = "tx" => /\ Last(chain).hash \in Entries
                            /\ self.tmpTxHash = KeyCell(Last(chain).hash)

RecordsInv ==
    command = "txInputs" =>
        self \in RecordsObject /\ LargestInv /\ RecordsLocals /\ RecordsTable

(* closure: the payers of a transaction, as far as its inputs were parsed, *)
(* and what the graph says of them.  Two addresses are linked by an edge.  *)
Known(i)  == {Inputs_(i)[k] : k \in 1 .. Parsed(i)} \ {GenInput}
PaidBy(i) == {txo[o].addr : o \in {o \in Known(i) : txo[o].type >= 0}}
AllPayers == UNION {PaidBy(i) : i \in DOMAIN chain}
Ended     == {i \in DOMAIN chain : i < Len(chain) \/ pc = "tx"}

Numbers         == 0 .. Len(self.allAddrs) - 1
AddressOf(v)    == self.allAddrs[v + 1]
Links           == {<<AddressOf(e[1]), AddressOf(e[2])>> : e \in self.graph}
NoLinkLeaves(S) == \A p \in Links : p[1] \in S <=> p[2] \in S

GraphInv ==
    /\ \A p \in Links : \E i \in Ended : p[1] \in PaidBy(i) /\ p[2] \in PaidBy(i)
    /\ \A S \in SUBSET AllPayers : NoLinkLeaves(S) =>
            \A i \in Ended : PaidBy(i) \intersect S = {} \/ PaidBy(i) \subseteq S

ClosureObject ==
    /\ self = [rootHashes |-> self.rootHashes, allAddrs |-> self.allAddrs,
               vertices |-> self.vertices, graph |-> self.graph]
    /\ self.allAddrs \in Seq(AllPayers) /\ ToSet(self.allAddrs) = AllPayers
    /\ IsInjective(self.allAddrs)
    /\ self.vertices \in Seq(Numbers) /\ self.graph \subseteq Numbers \X Numbers

InputsAreKnown ==
    \A i \in DOMAIN chain : \A o \in Known(i) : o \in Outpoint /\ o[1] \in Hashes

VerticesInv ==
    Parsing => {AddressOf(v) : v \in ToSet(self.vertices)} = PaidBy(Len(chain))

ClosureInv ==
    command = "closure" => ClosureObject /\ InputsAreKnown /\ VerticesInv /\ GraphInv

(* rewards: the outputs that coinbase transactions of a block have made so *)
(* far, a line for each block that has ended, and what was added up of the *)
(* block that goes on.  No coinbase hands out more than a uint64_t holds.  *)
MadeOf(i) == {<<chain[i].hash, k>> : k \in 1 .. NbMade(i)}

MintedMade(b) ==
    {o \in UNION {MadeOf(i) : i \in {i \in DOMAIN chain : chain[i].block = b /\ IsMinted(i)}} :
        txo[o].type # -2}

Claim(b) ==
    LET total == SumOver(MintedMade(b), ValueOf)
        base  == Halved[(b - 1) \div HalvingInterval]
    IN  [block |-> b - 1, base |-> base, total |-> total,
         fees |-> IF total >= base THEN total - base ELSE Word - (base - total)]

EndedBlocks == IF loop \in {"block", "fatal"} THEN height - 1 ELSE height

RewardsObject(x) ==
    x \in [fullDump : {x.fullDump}, reward : Nat, nbInputs : Nat, hasGenInput : BOOLEAN,
           currBlock : Int, fatal : BOOLEAN, details : {x.details}, summary : {x.summary}]

RewardsLocals ==
    /\ RewardsObject(self)
    /\ loop = "block" => /\ self.currBlock = height - 1
                         /\ self.reward = SumOver(MintedMade(height), ValueOf)
    /\ pc = "inputs" => (self.hasGenInput <=> tx.hash \in coinbases /\ tx.ins = <<>>)
    /\ pc = "outputs" => (self.hasGenInput <=> tx.hash \in coinbases)

RewardsEnd ==
    /\ loop # "fatal" => /\ ~self.fatal
                         /\ self.fullDump => \A b \in 1 .. height :
                                \A o \in MintedMade(b) : ~PaysNobody(o)
    /\ loop = "fatal" => \E o \in MintedIn(height) : PaysNobody(o)

CoinbasesAreBounded ==
    /\ \A i \in DOMAIN chain : IsMinted(i) => SumOver(ToSet(Outputs(i)), ValueOf) < Word
    /\ \A i, j \in DOMAIN chain : IsMinted(i) /\ IsMinted(j) /\ i < j =>
            chain[i].block < chain[j].block

RewardsInv ==
    command = "rewards" =>
        /\ RewardsLocals /\ RewardsEnd /\ CoinbasesAreBounded
        /\ self.summary = [b \in 1 .. EndedBlocks |-> Claim(b)]
=============================================================================
