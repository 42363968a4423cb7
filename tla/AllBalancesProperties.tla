----------------------- MODULE AllBalancesProperties -----------------------
(* The correctness of the command allBalances (AllBalances). *)
EXTENDS AllBalances

Balance(a) == IF addrMap[a] = NoAddr THEN 0 ELSE addr[addrMap[a]].sum
AddrOf(a)  == addr[addrMap[a]]
Ended      == pc = "end"

(* The lines listed for an address, those in and those out. *)
LinesIn(a)  == {line \in ToSet(AddrOf(a).outputVec) : ~line.isDown}

(* The coins of the addresses that are asked for. *)
CoinsFollowed == {c \in CoinsNow : Followed(c.owner)}

(* The report of a table of coins, order and limit apart. *)
RowsOf(someCoins) ==
    {<<a, Value(Owned(someCoins, a))>> : a \in {b \in Addrs : Followed(b)}}
ShownRows == {<<report[i].hash, report[i].sum>> : i \in DOMAIN report}

-----------------------------------------------------------------------------
(* The sum of an address is at every moment the value of its unspent       *)
(* outputs, the transaction being parsed included as far as parsed: move() *)
(* neither loses a balance when it forgets an address, nor counts one      *)
(* twice, nor goes below zero (uint64_t).                                  *)
BalanceIsLedger ==
    \A a \in Addrs : Followed(a) => Balance(a) = Value(Owned(CoinsNow, a))

(* Each entry of addrMap has an Addr of its own that bears its name, which *)
(* is also the memory its key lives in, and no entry's Addr is free.       *)
AddrsAreOwn ==
    /\ IsSound(addrPool)
    /\ InUse(addrPool) = {addrMap[a] : a \in InMap}
    /\ \A a \in InMap : AddrOf(a).hash = a

(* However the run came to wrapup, by the end of the chain, the option -a  *)
(* or ^C, the report shows each address with a balance once, and its       *)
(* balance after a whole number of transactions.                           *)
ReportIsLedger ==
    Ended /\ limit = NoLimit /\ ~detailed =>
        /\ ShownRows = {r \in RowsOf(coins) : r[2] > 0}
        /\ Len(report) = Cardinality(ShownRows)

(* With -l, and without -c, the addresses left out have no greater balance *)
(* than those shown: sort and limit work on the same rows.                 *)
LimitShowsTop ==
    Ended /\ limit # NoLimit =>
        /\ Len(report) <= limit
        /\ \A r \in RowsOf(coins) \ ShownRows, i \in DOMAIN report :
                r[2] <= report[i].sum

TopBalances == ~csv => LimitShowsTop

(* With -d every unspent output of an address asked for has a line, with   *)
(* its place, its value and, through a pointer that may be followed, the   *)
(* hash of its transaction: the index keeps the cell of a hash until the   *)
(* last output is spent.                                                   *)
UnspentAreListed ==
    detailed => \A c \in CoinsFollowed :
        /\ c.owner \in InMap
        /\ \E line \in LinesIn(c.owner) :
             /\ line.outputIndex = c.n
             /\ line.value = c.value
             /\ MayRead(line.upTXHash) = {c.tx}

(* With -a nothing is counted after the first transaction of that block.   *)
CutoffIsHonoured ==
    cutoffBlock # NoBlock =>
        /\ height <= Max({cutoffBlock, 1})
        /\ height >= cutoffBlock =>
                \A c \in coins \ blockCoins : c.tx = nbTxs

(* ^C takes effect within the transaction being parsed, or the next one if *)
(* none is.                                                                *)
InterruptIsPrompt == late <= 1

-----------------------------------------------------------------------------
(* The inductive invariant behind the proofs of AllBalancesProofs, in      *)
(* parts.                                                                  *)

InTX == pc \in {"inputs", "outputs"}

(* What the chain hands to the callback: coins are numbered by transaction *)
(* and output, and a transaction spends and makes coins only while parsed. *)
LoopInv ==
    /\ LoopTypeOK
    /\ tx \in [first : BOOLEAN, spent : SUBSET coins, made : SUBSET Coin]
    /\ IsFiniteSet(coins) /\ IsFiniteSet(tx.made)
    /\ Cardinality(tx.spent) <= MaxInputs
    /\ Cardinality(tx.made) <= MaxOutputs
    /\ nbTxs + nbTX <= MaxTxs
    /\ pc # "killed" /\ ~InTX => tx = NoTx
    /\ InTX => nbTxs > 0
    /\ \A c \in coins : c.tx <= nbTxs /\ (InTX => c.tx < nbTxs)
    /\ \A c \in tx.made : c.tx = nbTxs /\ c.n <= Cardinality(tx.made)

(* The table of addresses, their Addrs, and the pool of their cells.       *)
Storage ==
    /\ options \in Options
    /\ addrMap \in [Addrs -> Cells \union {NoAddr}]
    /\ addrPool \in [cut : Nat, garbage : Seq(Nat)]
    /\ addrPool.cut <= Cardinality(Addrs)
    /\ addr \in [Cells -> Addr]
    /\ AddrsAreOwn

(* Only addresses asked for have an entry, and only those with a balance,  *)
(* unless the report is detailed.                                          *)
EntriesAreDue ==
    \A a \in InMap : Followed(a) /\ (detailed \/ AddrOf(a).sum # 0)

(* A cell counts at most one move for each input and output so far. *)
NbMoves ==
    IF InTX THEN (nbTxs - 1) * (MaxInputs + MaxOutputs)
                    + Cardinality(tx.spent) + Cardinality(tx.made)
    ELSE nbTxs * (MaxInputs + MaxOutputs)

CountersAreSmall ==
    \A c \in Cells : addr[c].nbIn <= NbMoves /\ addr[c].nbOut <= NbMoves

(* The hash of each transaction that has an unspent output, or is being    *)
(* parsed, is in a cell that is not free and that no other is written to.  *)
IsHeld(t) == (InTX /\ t = nbTxs) \/ \E c \in CoinsNow : c.tx = t

HashesAreKept ==
    /\ hashPool \in [cut : Nat, garbage : Seq(Nat)]
    /\ IsSound(hashPool)
    /\ hashPool.cut <= nbTxs
    /\ hashOf \in [1 .. MaxTxs -> 0 .. MaxTxs]
    /\ cellOf \in [1 .. MaxTxs -> 0 .. MaxTxs]
    /\ released \in 0 .. MaxBlocks
    /\ \A t \in 1 .. MaxTxs : IsHeld(t) =>
            cellOf[t] \in InUse(hashPool) /\ hashOf[cellOf[t]] = t

(* The line of an unspent output points to the cell of that hash. *)
IsListed(c) ==
    /\ c.owner \in InMap
    /\ \E line \in LinesIn(c.owner) :
         /\ line.outputIndex = c.n
         /\ line.value = c.value
         /\ line.upTXHash = InCell(cellOf[c.tx])

LinesAreKept == detailed => \A c \in CoinsFollowed : IsListed(c)

(* ^C ends the loop where done() is asked next. *)
InterruptEndsLoop ==
    /\ late <= 1
    /\ late > 0 => pc \in {"wrapup", "end", "killed"}

(* The option -a ends the loop after the first transaction of its block.   *)
CutoffEndsLoop ==
    /\ pc \in {"init", "index", "start"} => height = 0 /\ ~isDone
    /\ pc \in {"first", "tx", "inputs", "outputs"} => height > 0
    /\ pc \in {"init", "index", "start", "block", "first"} => coins = blockCoins
    /\ cutoffBlock # NoBlock =>
         /\ height > 0 /\ cutoffBlock <= height => isDone
         /\ pc \in {"block", "tx"} => height = 0 \/ height < cutoffBlock
         /\ InTX /\ cutoffBlock <= height => coins = blockCoins
    /\ CutoffIsHonoured

IndInv ==
    /\ TypeOK
    /\ LoopInv
    /\ Storage
    /\ EntriesAreDue
    /\ BalanceIsLedger
    /\ CountersAreSmall
    /\ HashesAreKept
    /\ LinesAreKept
    /\ UnspentAreListed
    /\ InterruptEndsLoop
    /\ CutoffEndsLoop
    /\ ReportIsLedger
    /\ TopBalances

-----------------------------------------------------------------------------
(* What the program says of itself and does not do.                        *)

(* allBalances.cpp:104, "only take into account transactions in blocks     *)
(* strictly older than <block>": the report is that of the blocks before.  *)
OnlyOlderBlocks ==
    Ended /\ ~interrupted /\ cutoffBlock # NoBlock /\ cutoffBlock <= height =>
        ShownRows = {r \in RowsOf(blockCoins) : r[2] > 0}

(* allBalances.cpp:402, the columns "nbOut" and "lastTimeOut": an address  *)
(* out of which nothing went has no last time out.                         *)
LastTimeOutIsOwn ==
    \A i \in DOMAIN report : report[i].nbOut = 0 => report[i].lastOut = 0
=============================================================================
