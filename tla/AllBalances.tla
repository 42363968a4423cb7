----------------------------- MODULE AllBalances -----------------------------
(***************************************************************************)
(* The command allBalances (cb/allBalances.cpp): the balance of every      *)
(* address, kept while the chain goes by and printed at the end, at a      *)
(* given block, or when the user hits ^C.                                  *)
(*                                                                         *)
(* addrMap maps an address to an Addr, a cell of PagedAllocator<Addr>.  An *)
(* address whose balance is back to zero is forgotten and its cell freed,  *)
(* unless the report is detailed.  Time is the height of the block.        *)
(***************************************************************************)
EXTENDS CallbackLoop

CONSTANTS
    Unsolved,       \* owner of the outputs solveOutputScript cannot solve
    NoAddr,         \* no entry in addrMap, no name in an Addr
    NoBlock,        \* option -a not given
    NoLimit,        \* option -l not given
    Options         \* the command lines: records of the options below

Addrs == Owners \ {Unsolved}

ASSUME OwnersAssumption   == IsFiniteSet(Owners)
ASSUME NoAddrAssumption   == NoAddr \notin Owners \union Nat
ASSUME OptionsAssumption  ==
    \A o \in Options :
        /\ o.restrictMap \subseteq Addrs
        /\ o.cutoffBlock = NoBlock \/ o.cutoffBlock \in Nat
        /\ o.limit = NoLimit \/ o.limit \in Nat
        /\ o.detailed \in BOOLEAN /\ o.csv \in BOOLEAN

VARIABLES
    options,        \* what init() read off the command line
    addrMap,        \* address |-> cell of its Addr, or NoAddr
    addrPool,       \* PagedAllocator<Addr>
    addr,           \* the contents of its cells
    isDone, interrupted,
    handler,        \* whether SIGINT calls forceDone or kills
    report,         \* the rows printed by wrapup
    late,           \* ghost: transactions parsed since the interrupt
    blockCoins      \* ghost: the coins after the last whole block

restrictMap == options.restrictMap      \* the addresses given, or none
cutoffBlock == options.cutoffBlock      \* -a, or NoBlock
limit       == options.limit            \* -l, or NoLimit
detailed    == options.detailed         \* -d
csv         == options.csv              \* -c

balanceVars == <<options, addrMap, addrPool, addr>>
signalVars  == <<interrupted, handler>>
ghosts      == <<late, blockCoins>>
vars == <<loopVars, balanceVars, isDone, signalVars, report, ghosts>>

Cells  == 1 .. Cardinality(Addrs)
Counts == 0 .. MaxTxs * (MaxInputs + MaxOutputs)
Line   == [upTXHash : Pointer, outputIndex : 1 .. MaxOutputs, value : Int,
           time : 0 .. MaxBlocks, isDown : BOOLEAN]
Addr   == [hash : Addrs \union {NoAddr}, sum : Nat, nbIn : Counts,
           nbOut : Counts, lastIn : 0 .. MaxBlocks, lastOut : 0 .. MaxBlocks,
           outputVec : Seq(Line)]
NoReport == <<>>
ZeroedAddr == [hash |-> NoAddr, sum |-> 0, nbIn |-> 0, nbOut |-> 0,
               lastIn |-> 0, lastOut |-> 0, outputVec |-> <<>>]

TypeOK ==
    /\ LoopTypeOK
    /\ HashTypeOK
    /\ options \in Options
    /\ addrMap \in [Addrs -> Cells \union {NoAddr}]
    /\ IsPool(addrPool, Cardinality(Addrs))
    /\ addr \in [Cells -> Addr]
    /\ isDone \in BOOLEAN /\ interrupted \in BOOLEAN /\ handler \in BOOLEAN
    /\ report \in Seq(Addr)
    /\ late \in 0 .. MaxTxs
    /\ blockCoins \subseteq Coin

(* AllBalances::init has installed forceDone. *)
Init ==
    /\ LoopInit
    /\ options \in Options
    /\ addrMap = [a \in Addrs |-> NoAddr]
    /\ addrPool = EmptyPool
    /\ addr = [c \in Cells |-> ZeroedAddr]
    /\ isDone = FALSE
    /\ interrupted = FALSE
    /\ handler = TRUE
    /\ report = NoReport
    /\ late = 0
    /\ blockCoins = {}

-----------------------------------------------------------------------------
(* A mutant is the operator after it with a plausible bug; see BlockIndex. *)

(* An address moves coins: the body of move(), once the script is solved.  *)

(* What -d keeps of a move: a struct Output, with the pointer it was given *)
(* and not the hash.  downTXHash only tells whether it is null.            *)
LineOf(upTXHash, outputIndex, value, isDown) ==
    [upTXHash |-> upTXHash, outputIndex |-> outputIndex, value |-> value,
     time |-> height, isDown |-> isDown]

(* A cell for an address that has none.  lastIn and lastOut are not set.   *)
NameKept(cell, a) ==                        \* breaks AddrsAreOwn
    [addr[cell] EXCEPT !.sum = 0, !.nbIn = 0, !.nbOut = 0,
                       !.outputVec = <<>>]
NewAddr(cell, a) ==
    [addr[cell] EXCEPT !.hash = a, !.sum = 0, !.nbIn = 0, !.nbOut = 0,
                       !.outputVec = <<>>]

(* A value above zero comes in; any other counts as going out. *)
Moved(ad, delta, line) ==
    LET counted ==
          IF 0 < delta THEN [ad EXCEPT !.lastIn = height, !.nbIn = @ + 1]
          ELSE [ad EXCEPT !.lastOut = height, !.nbOut = @ + 1]
    IN  [counted EXCEPT
            !.sum = @ + delta,
            !.outputVec = IF detailed THEN Append(@, line) ELSE @]

NeverForgotten(ad) == TRUE                  \* breaks ReportIsLedger
KeptUntilSpent(ad) == ad.nbOut = 0          \* breaks TypeOK, BalanceIsLedger
KeptInMap(ad) == detailed \/ ad.sum # 0

PoolAfter(pool, cell, kept) == IF kept THEN pool ELSE Free(pool, cell)

MoveTo(a, delta, line) ==
    LET known == addrMap[a] # NoAddr
        cell  == IF known THEN addrMap[a] ELSE Cell(addrPool)
        ad    == Moved(IF known THEN addr[cell] ELSE NewAddr(cell, a), delta, line)
        kept  == KeptInMap(ad)
    IN  /\ UNCHANGED options
        /\ addr' = [addr EXCEPT ![cell] = ad]
        /\ addrMap' = [addrMap EXCEPT ![a] = IF kept THEN cell ELSE NoAddr]
        /\ addrPool' = PoolAfter(
                         IF known THEN addrPool ELSE Alloc(addrPool),
                         cell, kept)

(* The scripts not solved, and the addresses not asked for, are left out. *)
Followed(a) == a # Unsolved /\ (restrictMap = {} \/ a \in restrictMap)

move(a, delta, line) ==
    IF Followed(a) THEN MoveTo(a, delta, line) ELSE UNCHANGED balanceVars
-----------------------------------------------------------------------------
(* done(): an interrupt makes it so.  The message it prints reads the      *)
(* current block, which is null before the first startBlock.               *)
DoneNow == isDone \/ interrupted
done == isDone' = DoneNow

ABInitCallback ==
    /\ ~interrupted
    /\ InitCallback(isDone)
    /\ UNCHANGED <<balanceVars, isDone, signalVars, report, ghosts>>

CrashInInitCallback ==
    /\ pc = "init"
    /\ interrupted
    /\ pc' = "crash"
    /\ UNCHANGED <<height, nbTX, nbTxs, tx, coins, hashVars, balanceVars,
                   isDone, signalVars, report, ghosts>>

(* No handler of allBalances changes its state here. *)
Quiet ==
    /\ BuildIndex \/ StartLongestChain \/ StartTX \/ StartOutputs
    /\ UNCHANGED <<balanceVars, isDone, signalVars, report, ghosts>>

NeverCutOff(h) == FALSE                 \* breaks CutoffIsHonoured
IsCutOff(h) == cutoffBlock # NoBlock /\ cutoffBlock <= h

ABStartBlock(n) ==
    /\ StartBlock(n)
    /\ isDone' = (isDone \/ IsCutOff(height'))
    /\ UNCHANGED <<balanceVars, signalVars, report, ghosts>>

ABEdge(coin) ==
    /\ Edge(coin)
    /\ move(coin.owner, -coin.value,
            LineOf(InBlock(coin.tx), coin.n, -coin.value, TRUE))
    /\ UNCHANGED <<isDone, signalVars, report, ghosts>>

ABEndOutput(owner, value) ==
    /\ EndOutput(owner, value)
    /\ move(owner, value,
            LineOf(InCell(cellOf[nbTxs]), Output(owner, value).n, value, FALSE))
    /\ UNCHANGED <<isDone, signalVars, report, ghosts>>

OnlyAfterBlocks(answer) == FALSE        \* breaks InterruptIsPrompt
AnswerAfterTX(answer) == answer

ABEndTX ==
    /\ EndTX(AnswerAfterTX(DoneNow))
    /\ done
    /\ late' = IF interrupted THEN late + 1 ELSE late
    /\ UNCHANGED <<balanceVars, signalVars, report, blockCoins>>

ABEndBlock ==
    /\ EndBlock(DoneNow)
    /\ done
    /\ blockCoins' = coins
    /\ UNCHANGED <<balanceVars, signalVars, report, late>>

ABEndOfChain ==
    /\ EndOfChain
    /\ UNCHANGED <<balanceVars, isDone, signalVars, report, ghosts>>

-----------------------------------------------------------------------------
(* wrapup: the addresses of addrMap, in the order of the hash table, are   *)
(* sorted by balance unless the output is CSV, and the first ones shown.   *)
InMap == {a \in Addrs : addrMap[a] # NoAddr}

SmallestFirst(rows) ==                  \* breaks TopBalances
    \A i, j \in DOMAIN rows : i < j => rows[i].sum <= rows[j].sum
InOrder(rows) ==
    csv \/ \A i, j \in DOMAIN rows : i < j => rows[j].sum <= rows[i].sum

Shown(rows) ==
    IF limit = NoLimit \/ Len(rows) <= limit THEN rows
    ELSE SubSeq(rows, 1, limit)

ABWrapup ==
    /\ Wrapup
    /\ \E order \in SetToSeqs(InMap) :
         LET rows == [i \in DOMAIN order |-> addr[addrMap[order[i]]]] IN
           /\ InOrder(rows)
           /\ report' = Shown(rows)
    /\ UNCHANGED <<balanceVars, isDone, signalVars, ghosts>>

(* ^C: the first one sets the flag and disarms the handler, the second one *)
(* has the default effect.                                                 *)
forceDone ==
    /\ ~Over
    /\ handler
    /\ interrupted' = TRUE
    /\ handler' = FALSE
    /\ UNCHANGED <<loopVars, balanceVars, isDone, report, ghosts>>

Killed ==
    /\ ~Over
    /\ ~handler
    /\ pc' = "killed"
    /\ UNCHANGED <<height, nbTX, nbTxs, tx, coins, hashVars, balanceVars,
                   isDone, signalVars, report, ghosts>>

Stopped == Over /\ UNCHANGED vars

-----------------------------------------------------------------------------
Program ==
    \/ ABInitCallback
    \/ CrashInInitCallback
    \/ Quiet
    \/ \E n \in 1 .. MaxTxs : ABStartBlock(n)
    \/ \E coin \in coins : ABEdge(coin)
    \/ \E owner \in Owners, value \in Amount : ABEndOutput(owner, value)
    \/ ABEndTX
    \/ ABEndBlock
    \/ ABEndOfChain
    \/ ABWrapup

Next ==
    \/ Program
    \/ forceDone
    \/ Killed
    \/ Stopped

Spec == Init /\ [][Next]_vars
=============================================================================
