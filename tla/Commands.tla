------------------------------ MODULE Commands ------------------------------
(***************************************************************************)
(* Pass 4 with one of the commands: parseLongestChain, parseBlock and      *)
(* parseTX of parser.cpp call the handlers of gCallback while TxoIndex     *)
(* keeps the index of unspent outputs, whose cells some commands point to. *)
(*                                                                         *)
(* The chain is clean (README.md:72): inputs spend coins, each once, and a *)
(* transaction hands out what it takes in.  The first transaction of a     *)
(* block is its coinbase.  A coinbase transaction is repeated only while   *)
(* the first one has coins left, as in bitcoin's blocks 91842 and 91880.   *)
(*                                                                         *)
(* Each action is one step of TxoIndex with the calls made in it, in their *)
(* order.  The outputs of a transaction share its value evenly, the last   *)
(* one taking the rest.  Time is the height of the block.                  *)
(***************************************************************************)
EXTENDS TxoIndex, BaseRewards

CONSTANTS
    Sessions,       \* the commands with their options, and what chain to read
    NoCutoff,       \* sqldump without option -a
    Threshold       \* taint prints no fraction up to 1 / Threshold

ASSUME ThresholdAssumption == Threshold \in Nat \ {0, 1}

ASSUME SessionsAssumption ==
    \A s \in Sessions :
        /\ s.files \in Nat /\ s.records \in Nat
        /\ s.minted \in [1 .. s.records -> 0 .. Word - 1]
        /\ s.command = "sqldump" => s.cutoff \in Nat \union {NoCutoff}
        /\ s.command = "tx" => /\ s.roots \in Seq(Nat \ {0}) /\ s.roots # <<>>
                               /\ IsInjective(s.roots)

VARIABLES
    gCallback,      \* the session: the command and its options
    self,           \* the command's object
    loop,           \* "headers", "between" blocks, in a "block", ...
    height,         \* of the last block started
    txo,            \* history: value, script type and address of each output
    chain           \* history: the transactions started

cmdVars == <<gCallback, self, loop, height, txo, chain>>
allVars == <<vars, cmdVars>>

Pristine     == INSTANCE Pristine
Taint        == INSTANCE Taint
TxInputs     == INSTANCE TxInputs
SimpleStats  == INSTANCE SimpleStats
Rewards      == INSTANCE Rewards
DumpTX       == INSTANCE DumpTX
SqlDump      == INSTANCE SqlDump
Closure      == INSTANCE Closure
Transactions == INSTANCE Transactions
TxoTypes     == INSTANCE TxoTypes

command == gCallback.command

(* Callback::init *)
initObject(s) ==
    CASE s.command = "pristine"     -> Pristine!init
      [] s.command = "taint"        -> Taint!init(s.roots)
      [] s.command = "txInputs"     -> TxInputs!init
      [] s.command = "simpleStats"  -> SimpleStats!init
      [] s.command = "rewards"      -> Rewards!init(s.full)
      [] s.command = "tx"           -> DumpTX!init(s.roots)
      [] s.command = "sqldump"      -> SqlDump!init(s.cutoff)
      [] s.command = "closure"      -> Closure!init(s.addrs)
      [] s.command = "transactions" -> Transactions!init(s.addrs)
      [] s.command = "txotype"      -> TxoTypes!init

CmdInit ==
    /\ Init
    /\ gCallback \in Sessions
    /\ self = initObject(gCallback)
    /\ loop = "headers"
    /\ height = 0
    /\ txo = [o \in Outpoint |-> [value |-> 0, type |-> -1, addr |-> "none"]]
    /\ chain = <<>>

-----------------------------------------------------------------------------
(* The virtual calls: what a command does not override does nothing.       *)

startBlockFile(x) ==
    IF command = "simpleStats" THEN SimpleStats!startBlockFile(x) ELSE x

startRecord(x) ==
    IF command = "simpleStats" THEN SimpleStats!startRecord(x) ELSE x

startBlock(x, h) ==
    CASE command = "pristine"     -> Pristine!startBlock(x, h)
      [] command = "simpleStats"  -> SimpleStats!startBlock(x)
      [] command = "rewards"      -> Rewards!startBlock(x, h)
      [] command = "tx"           -> DumpTX!startBlock(x, h)
      [] command = "sqldump"      -> SqlDump!startBlock(x, h)
      [] command = "transactions" -> Transactions!startBlock(x, h)
      [] command = "txotype"      -> TxoTypes!startBlock(x, h)
      [] OTHER                    -> x

(* mem: the bytes of the cells, that of the new hash included. *)
startTX(x, mem, hash) ==
    CASE command = "pristine"    -> Pristine!startTX(x, hash)
      [] command = "taint"       -> Taint!startTX(x, hash)
      [] command = "txInputs"    -> TxInputs!startTX(x, mem)
      [] command = "simpleStats" -> SimpleStats!startTX(x)
      [] command = "tx"          -> DumpTX!startTX(x, mem, hash)
      [] command = "sqldump"     -> SqlDump!startTX(x, mem[hash])
      [] command = "closure"     -> Closure!startTX(x)
      [] OTHER                   -> x

startInputs(x) ==
    CASE command = "pristine" -> Pristine!startInputs(x)
      [] command = "rewards"  -> Rewards!startInputs(x)
      [] OTHER                -> x

startInput(x) ==
    LET isGenInput == upTXHash = gNullHash IN
    CASE command = "pristine"    -> Pristine!startInput(x, isGenInput)
      [] command = "txInputs"    -> TxInputs!startInput(x)
      [] command = "simpleStats" -> SimpleStats!startInput(x)
      [] command = "rewards"     -> Rewards!startInput(x, isGenInput)
      [] command = "tx"          -> DumpTX!startInput(x, isGenInput)
      [] OTHER                   -> x

inputIndex == Len(Last(chain).ins) - Len(tx.ins)

(* shown: the output found in the index. *)
edgeCall(x, shown) ==
    LET out == txo[shown] IN
    CASE command = "pristine"     -> Pristine!edge(x, hashCell, upTXHash)
      [] command = "taint"        -> Taint!edge(x, hashCell, upTXHash, out.value)
      [] command = "tx"           -> DumpTX!edge(x, out.value)
      [] command = "sqldump"      -> SqlDump!edge(x, <<upTXHash, upOutputIndex>>, inputIndex)
      [] command = "closure"      -> Closure!edge(x, out.addr, out.type >= 0)
      [] command = "transactions" -> Transactions!edge(x, out.addr, tx.hash, out.value)
      [] OTHER                    -> x

endInputs(x) ==
    IF command = "pristine" THEN Pristine!endInputs(x, hashCell) ELSE x

startOutput(x) ==
    CASE command = "txInputs"    -> TxInputs!startOutput(x)
      [] command = "simpleStats" -> SimpleStats!startOutput(x)
      [] command = "tx"          -> DumpTX!startOutput(x)
      [] OTHER                   -> x

endOutput(x, o) ==
    LET out == txo[o] IN
    CASE command = "txInputs"     -> TxInputs!endOutput(x, tx.cell, out.value)
      [] command = "simpleStats"  -> SimpleStats!endOutput(x, out.value)
      [] command = "rewards"      -> Rewards!endOutput(x, out.value, out.type)
      [] command = "tx"           -> DumpTX!endOutput(x, out.value)
      [] command = "sqldump"      -> SqlDump!endOutput(x, o, out.value)
      [] command = "transactions" -> Transactions!endOutput(x, out.addr, tx.hash, out.value)
      [] command = "txotype"      -> TxoTypes!endOutput(x, out.type, o)
      [] OTHER                    -> x

endTX(x) ==
    CASE command = "taint"   -> Taint!endTX(x, hashCell)
      [] command = "tx"      -> DumpTX!endTX(x)
      [] command = "closure" -> Closure!endTX(x)
      [] OTHER               -> x

endBlock(x) == IF command = "rewards" THEN Rewards!endBlock(x) ELSE x

done(x) == command = "tx" /\ DumpTX!done(x)

wrapup(x) == IF command = "sqldump" THEN SqlDump!wrapup(x) ELSE x

(* errFatal inside a handler ends the program. *)
isFatal(x) == command \in {"rewards", "sqldump"} /\ x.fatal

-----------------------------------------------------------------------------
Times(n, call(_), x) == FoldLeft(LAMBDA y, i : call(y), x, [i \in 1 .. n |-> i])

(* Pass 1 reads the files and their records; passes 2 and 3 call nothing.  *)
Headers ==
    /\ loop = "headers"
    /\ self' = Times(gCallback.records, startRecord,
                     Times(gCallback.files, startBlockFile, self))
    /\ loop' = "between"
    /\ UNCHANGED <<vars, gCallback, height, txo, chain>>

(* What the outputs of a transaction are worth. *)
Share(total, n, i) == IF i < n THEN total \div n ELSE total - (n - 1) * (total \div n)

Made(hash, total, scripts) ==
    [o \in Outpoint |->
        IF o[1] = hash /\ o[2] \in DOMAIN scripts
        THEN [value |-> Share(total, Len(scripts), o[2]),
              type |-> scripts[o[2]].type, addr |-> scripts[o[2]].addr]
        ELSE txo[o]]

Worth(ins) == FoldLeft(LAMBDA sum, o : sum + txo[o].value, 0, ins)

(* The calls at the start of a transaction; x is the object. *)
CallStartTX(x) == startInputs(startTX(x, hashCell', tx'.cell))

ChainGoesOn == nbTxs < gCallback.txs

Started(ins, block) == Append(chain, [hash |-> tx'.hash, ins |-> ins, block |-> block])

(* startBlock, startTXs, and a coinbase transaction starts. *)
StartBlock(scripts) ==
    /\ loop = "between"
    /\ ChainGoesOn
    /\ height < gCallback.records
    /\ StartCoinbase(Len(scripts))
    /\ txo' = Made(tx'.hash, gCallback.minted[height + 1], scripts)
    /\ chain' = Started(<<GenInput>>, height + 1)
    /\ height' = height + 1
    /\ self' = CallStartTX(startBlock(self, height + 1))
    /\ loop' = "block"
    /\ UNCHANGED gCallback

(* The same, and it is one the chain has had before. *)
StartBlockRepeated(hash) ==
    /\ loop = "between"
    /\ ChainGoesOn
    /\ height < gCallback.records
    /\ nbRepeats < gCallback.repeats
    /\ \E o \in coins : o[1] = hash
    /\ RepeatCoinbase(hash)
    /\ chain' = Started(<<GenInput>>, height + 1)
    /\ height' = height + 1
    /\ self' = CallStartTX(startBlock(self, height + 1))
    /\ loop' = "block"
    /\ UNCHANGED <<gCallback, txo>>

(* Another transaction of the block starts. *)
StartOther(ins, scripts) ==
    /\ loop = "block"
    /\ ChainGoesOn
    /\ ToSet(ins) \subseteq coins
    /\ IsInjective(ins)
    /\ StartSpend(ins, Len(scripts))
    /\ txo' = Made(tx'.hash, Worth(ins), scripts)
    /\ chain' = Started(ins, height)
    /\ self' = CallStartTX(self)
    /\ UNCHANGED <<gCallback, loop, height>>

Unless(x, label) == IF isFatal(x) THEN "fatal" ELSE label

(* startInput, endInput *)
GenInputCalls ==
    /\ loop = "block"
    /\ ParseGenInput
    /\ self' = startInput(self)
    /\ UNCHANGED <<gCallback, loop, height, txo, chain>>

(* startInput, edge, endInput *)
InputCalls ==
    /\ loop = "block"
    /\ ParseInput
    /\ self' = edgeCall(startInput(self), edge'.shows)
    /\ loop' = Unless(self', "block")
    /\ UNCHANGED <<gCallback, height, txo, chain>>

(* endInputs; startOutputs comes after the entry in gTXOMap was made. *)
StartOutputsCalls ==
    /\ loop = "block"
    /\ StartOutputs
    /\ self' = endInputs(self)
    /\ UNCHANGED <<gCallback, loop, height, txo, chain>>

(* startOutput, endOutput *)
OutputCalls ==
    /\ loop = "block"
    /\ ParseOutput
    /\ self' = endOutput(startOutput(self), <<tx.hash, tx'.outs>>)
    /\ loop' = Unless(self', "block")
    /\ UNCHANGED <<gCallback, height, txo, chain>>

(* endOutputs, endTX, done *)
EndTXCalls ==
    /\ loop = "block"
    /\ EndTX
    /\ self' = endTX(self)
    /\ loop' = IF done(self') THEN "wrapup" ELSE "block"
    /\ UNCHANGED <<gCallback, height, txo, chain>>

(* endTXs, endBlock, done *)
EndBlock ==
    /\ loop = "block"
    /\ pc = "tx"
    /\ self' = endBlock(self)
    /\ loop' = IF done(self') THEN "wrapup" ELSE "between"
    /\ UNCHANGED <<vars, gCallback, height, txo, chain>>

(* The last block was parsed. *)
EndOfChain ==
    /\ loop = "between"
    /\ height > 0
    /\ loop' = "wrapup"
    /\ UNCHANGED <<vars, gCallback, self, height, txo, chain>>

Wrapup ==
    /\ loop = "wrapup"
    /\ self' = wrapup(self)
    /\ loop' = "over"
    /\ UNCHANGED <<vars, gCallback, height, txo, chain>>

(* sqldump writes to files it has closed, and closes them twice: undefined *)
(* behaviour, of which nothing may come, or this.                          *)
WriteToClosedFile ==
    /\ command = "sqldump"
    /\ self.closed
    /\ loop \in {"block", "between", "wrapup"}
    /\ loop' = "crash"
    /\ UNCHANGED <<vars, gCallback, self, height, txo, chain>>

Over ==
    /\ loop \in {"over", "fatal", "crash"}
    /\ UNCHANGED allVars

-----------------------------------------------------------------------------
Scripts == UNION {[1 .. n -> gCallback.scripts] : n \in 1 .. MaxOutputs}

CmdNext ==
    \/ Headers
    \/ \E scripts \in Scripts : StartBlock(scripts)
    \/ \E hash \in coinbases : StartBlockRepeated(hash)
    \/ \E ins \in {s \in SeqOf(coins, MaxInputs) : s # <<>>}, scripts \in Scripts :
            StartOther(ins, scripts)
    \/ GenInputCalls
    \/ InputCalls
    \/ StartOutputsCalls
    \/ OutputCalls
    \/ EndTXCalls
    \/ EndBlock
    \/ EndOfChain
    \/ Wrapup
    \/ WriteToClosedFile
    \/ Over

CmdSpec == CmdInit /\ [][CmdNext]_allVars
=============================================================================
