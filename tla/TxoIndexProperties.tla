------------------------- MODULE TxoIndexProperties -------------------------
(* The correctness of the index of unspent outputs (TxoIndex).             *)
EXTENDS TxoIndex

Entries   == {x \in TxHash : gTXOMap[x] # NoTxo}
KeyCell(x)   == gTXOMap[x].key
ChunkCell(x) == gTXOMap[x].chunk
ArrayOf(x)   == mRawData[gTXOMap[x].chunk]

(* The outputs the index holds, and the cell of the copy of each. *)
Held == {o \in Outpoint :
            /\ o[1] \in Entries
            /\ o[2] <= ArrayOf(o[1])[1]
            /\ slots[ArrayOf(o[1])][o[2]] # NullCell}
Copy(o) == slots[ArrayOf(o[1])][o[2]]

ArraysInUse == {a \in Array : a[2] \in InUse(ptrsPool[a[1]])}
Running == pc \notin {"fatal", "crash"}

-----------------------------------------------------------------------------
(* At every moment the index holds the outputs that are unspent by the     *)
(* rules of the chain, the transaction being parsed included as far as     *)
(* parsed: those of its inputs still to come, and its outputs so far.      *)
IndexIsCoins ==
    clean /\ Running => Held = coins \union (ToSet(tx.ins) \ {GenInput})

(* On a clean chain parseInput finds the upstream transaction of every     *)
(* input, and its output not yet given back: neither errFatal nor a null   *)
(* output is reached.                                                      *)
CleanChainIsParsed == clean => Running

(* The bytes that edge shows are those of the output that is spent, on any *)
(* chain: no copy was overwritten while it was held.                       *)
EdgeIsGenuine == edge.shows = edge.spends

(* The key of every entry still spells the hash it was entered under, and  *)
(* so does the hash handed to the callbacks while a transaction is parsed: *)
(* parseTX writes new hashes only into cells nobody uses.                  *)
KeysAreIntact ==
    /\ \A x \in Entries : hashCell[KeyCell(x)] = x
    /\ pc \in {"inputs", "outputs"} =>
            /\ hashCell[tx.cell] = tx.hash
            /\ tx.cell \in InUse(hashPool)

(* No two holders share a cell, and none holds a cell that was given back. *)
NoSharedMemory ==
    /\ IsSound(hashPool) /\ IsSound(chunkPool) /\ IsSound(rawPool)
    /\ \A n \in 1 .. MaxOutputs : IsSound(ptrsPool[n])
    /\ \A x \in Entries :
            /\ KeyCell(x) \in InUse(hashPool)
            /\ ChunkCell(x) \in InUse(chunkPool)
            /\ ArrayOf(x) \in ArraysInUse
    /\ \A x, y \in Entries : x # y =>
            /\ KeyCell(x) # KeyCell(y)
            /\ ChunkCell(x) # ChunkCell(y)
            /\ ArrayOf(x) # ArrayOf(y)
    /\ \A o \in Held : Copy(o) \in InUse(rawPool)
    /\ \A o, p \in Held : o # p => Copy(o) # Copy(p)

(* Nothing is lost: what is in use belongs to an entry, as long as no      *)
(* coinbase transaction was repeated (the new hash cell, the old TXChunk,  *)
(* array and copies of a repeated one are never given back).               *)
NoLeak ==
    nbRepeats = 0 =>
        /\ InUse(hashPool) = {KeyCell(x) : x \in Entries}
                \union (IF pc = "tx" THEN {} ELSE {tx.cell})
        /\ InUse(chunkPool) = {ChunkCell(x) : x \in Entries}
        /\ ArraysInUse = {ArrayOf(x) : x \in Entries}
        /\ InUse(rawPool) = {Copy(o) : o \in Held}

(* An array is given back only with every slot null, so that no copy is    *)
(* lost with it (parser.cpp:354); parseOutputs fills every slot anew.      *)
FreeArraysAreNull ==
    \A a \in Array \ ArraysInUse : \A i \in 1 .. a[1] : slots[a][i] = NullCell

(* Seen by the callbacks, parseTX is a set of unspent outputs.  On a chain *)
(* that is not clean too: it stops, and shows no output twice.             *)
Utxo == INSTANCE UtxoSet WITH
    NoOutpoint <- GenInput, unspent <- Held, shown <- edge.shows
ImplementsUtxoSet == Utxo!Spec

-----------------------------------------------------------------------------
(* The inductive invariant behind the proofs of TxoIndexProofs, in parts.   *)

Pools == [cut : Nat, garbage : Seq(Nat)]
Txs   == [hash : TxHash \union {gNullHash}, cell : 0 .. MaxTxs,
          ins : Seq(Outpoint \union {GenInput}), outs : 0 .. MaxOutputs]

(* The records and functions have the fields and domains they started with. *)
Shapes ==
    /\ tx \in Txs
    /\ hashPool \in Pools /\ chunkPool \in Pools /\ rawPool \in Pools
    /\ ptrsPool \in [1 .. MaxOutputs -> Pools]
    /\ slots = [a \in Array |-> slots[a]]

(* No pool has cut more cells than the transactions so far can ask for. *)
NbStored == IF pc = "inputs" THEN nbTxs - 1 ELSE nbTxs
PoolsAreSmall ==
    /\ hashPool.cut <= nbTxs
    /\ chunkPool.cut <= NbStored
    /\ \A n \in 1 .. MaxOutputs : ptrsPool[n].cut <= NbStored
    /\ rawPool.cut <= IF pc = "outputs"
                      THEN (NbStored - 1) * MaxOutputs + tx.outs
                      ELSE NbStored * MaxOutputs

(* The transactions seen are those of the first hashes. *)
ChainIsSound ==
    /\ nbRepeats <= nbTxs
    /\ \A x \in TxHash : nbOutputs[x] > 0 <=> x <= NbHashes
    /\ \A x \in coinbases : x <= NbHashes
    /\ \A o \in coins : o[2] <= nbOutputs[o[1]]
    /\ \A x \in Entries : x <= NbHashes

(* An entry has an array with a slot for each output of its transaction,   *)
(* and the copies held are those of the outputs.                           *)
EntriesAreFaithful ==
    /\ \A x \in Entries : ArrayOf(x) \in Array /\ ArrayOf(x)[1] = nbOutputs[x]
    /\ \A o \in Held : raw[Copy(o)] = o

(* The locals of parseTX, between two of its steps. *)
Parsing == pc \in {"inputs", "outputs"}
LocalsAreSound ==
    /\ pc = "tx" => tx = NoTx
    /\ Parsing =>
            /\ tx.hash \in 1 .. NbHashes
            /\ nbTxs > 0
            /\ \A x \in Entries :
                    KeyCell(x) = tx.cell => pc = "outputs" /\ x = tx.hash
    /\ pc = "inputs" =>
            /\ tx.outs = 0
            /\ \A i \in 1 .. Len(tx.ins) :
                    tx.ins[i] # GenInput =>
                        tx.ins[i][2] <= nbOutputs[tx.ins[i][1]]
            /\ nbRepeats = 0 => tx.hash \notin Entries
    /\ pc = "outputs" =>
            /\ tx.ins = <<>>
            /\ tx.outs <= nbOutputs[tx.hash]
            /\ tx.hash \in Entries
            /\ \A i \in tx.outs + 1 .. nbOutputs[tx.hash] :
                    slots[ArrayOf(tx.hash)][i] = NullCell
            /\ nbRepeats = 0 => KeyCell(tx.hash) = tx.cell

(* On a clean chain the inputs left are different coins, taken already. *)
InputsAreCoins ==
    clean => IsInjective(tx.ins) /\ coins \intersect ToSet(tx.ins) = {}

IndInv ==
    /\ TypeOK /\ Shapes /\ PoolsAreSmall
    /\ ChainIsSound /\ EntriesAreFaithful /\ LocalsAreSound /\ InputsAreCoins
    /\ KeysAreIntact /\ NoSharedMemory /\ FreeArraysAreNull /\ NoLeak
    /\ EdgeIsGenuine /\ IndexIsCoins /\ CleanChainIsParsed
=============================================================================
