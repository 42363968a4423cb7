------------------------------ MODULE TxoIndex ------------------------------
(***************************************************************************)
(* The index of unspent outputs of pass 4 (parser.cpp with gNeedUpstream): *)
(* parseTX, parseInputs, parseInput, parseOutputs and parseOutput, the     *)
(* hash table gTXOMap and the memory of memory_manager.h below it.         *)
(*                                                                         *)
(* gTXOMap maps the hash of a transaction to a TXChunk, whose mRawData     *)
(* points to an array with one pointer per output: a copy of the output's  *)
(* bytes until it is spent, null after.  When the last output of a         *)
(* transaction is spent, its entry, TXChunk, array and the cell that holds *)
(* the key are all given back, to be used again.                           *)
(*                                                                         *)
(* On a clean chain, which README.md:72 assumes, an input spends an output *)
(* that was created earlier and not spent since.                           *)
(* A clean chain may repeat a coinbase transaction bit for bit (bitcoin's  *)
(* blocks 91842 and 91880 do), which gives two transactions one hash.      *)
(* On a chain that is not clean, as when a block file is missing, an input *)
(* may name an output spent before or a transaction that is not there.     *)
(***************************************************************************)
EXTENDS PagedAllocator, FiniteSets

CONSTANTS
    MaxTxs,         \* bound on the transactions parsed
    MaxInputs,      \* bound on the inputs of a transaction
    MaxOutputs,     \* bound on its outputs
    MaxRepeats,     \* bound on the repeated coinbase transactions
    NoTxo           \* no entry in gTXOMap, no TXChunk in use

ASSUME MaxTxsAssumption     == MaxTxs \in Nat
ASSUME MaxInputsAssumption  == MaxInputs \in Nat
ASSUME MaxOutputsAssumption == MaxOutputs \in Nat \ {0}
ASSUME MaxRepeatsAssumption == MaxRepeats \in Nat
ASSUME NoTxoAssumption      == NoTxo \notin [key : 1 .. MaxTxs, chunk : 1 .. MaxTxs]

TxHash   == 1 .. MaxTxs         \* hashes of transactions, by first appearance
gNullHash == 0                  \* the previous hash of a coinbase input
Outpoint == TxHash \X (1 .. MaxOutputs)
GenInput == <<gNullHash, 0>>
NoEdge   == [spends |-> GenInput, shows |-> GenInput]
MaxRaw   == MaxTxs * MaxOutputs

VARIABLES
    (* the chain: not part of the program *)
    nbOutputs,      \* of the transactions seen so far, 0 for the others
    coinbases,      \* the hashes of coinbase transactions
    coins,          \* the outputs unspent by the rules of the chain
    nbTxs, nbRepeats,
    clean,          \* whether all inputs so far spent coins
    (* the program *)
    pc,             \* position in parseTX; "fatal", "crash"
    tx,             \* parseTX's locals: its inputs left, outputs parsed, ...
    gTXOMap,        \* hash |-> [key, chunk], or NoTxo
    hashPool, hashCell,     \* PagedAllocator<uint256_t> and the cells' bytes
    chunkPool, mRawData,    \* PagedAllocator<TXChunk> and its field
    ptrsPool, slots,        \* PagedAllocator<ptrsN> for each N, and the arrays
    rawPool, raw,           \* the output copies of allocTX
    edge                    \* the last call of Callback::edge

chainVars == <<nbOutputs, coinbases, coins, nbTxs, nbRepeats, clean>>
hashMem   == <<hashPool, hashCell>>
chunkMem  == <<chunkPool, mRawData>>
ptrsMem   == <<ptrsPool, slots>>
rawMem    == <<rawPool, raw>>
memVars   == <<hashMem, chunkMem, ptrsMem, rawMem>>
vars      == <<chainVars, pc, tx, gTXOMap, memVars, edge>>

Array == (1 .. MaxOutputs) \X (1 .. MaxTxs)     \* an array: its size, its cell
NoArray == <<0, 0>>

NoTx == [hash |-> gNullHash, cell |-> NullCell, ins |-> <<>>, outs |-> 0]

TypeOK ==
    /\ nbOutputs \in [TxHash -> 0 .. MaxOutputs]
    /\ coinbases \subseteq TxHash
    /\ coins \subseteq Outpoint
    /\ nbTxs \in 0 .. MaxTxs
    /\ nbRepeats \in 0 .. MaxRepeats
    /\ clean \in BOOLEAN
    /\ pc \in {"tx", "inputs", "outputs", "fatal", "crash"}
    /\ tx.hash \in TxHash \union {gNullHash}
    /\ tx.cell \in 0 .. MaxTxs
    /\ tx.ins \in Seq(Outpoint \union {GenInput})
    /\ tx.outs \in 0 .. MaxOutputs
    /\ gTXOMap \in [TxHash -> [key : 1 .. MaxTxs, chunk : 1 .. MaxTxs]
                                \union {NoTxo}]
    /\ IsPool(hashPool, MaxTxs)
    /\ IsPool(chunkPool, MaxTxs)
    /\ \A n \in 1 .. MaxOutputs : IsPool(ptrsPool[n], MaxTxs)
    /\ IsPool(rawPool, MaxRaw)
    /\ hashCell \in [1 .. MaxTxs -> TxHash \union {gNullHash}]
    /\ mRawData \in [1 .. MaxTxs -> Array \union {NoArray}]
    /\ \A a \in Array : slots[a] \in [1 .. a[1] -> 0 .. MaxRaw]
    /\ raw \in [1 .. MaxRaw -> Outpoint \union {GenInput}]

Init ==
    /\ nbOutputs = [x \in TxHash |-> 0]
    /\ coinbases = {}
    /\ coins = {}
    /\ nbTxs = 0
    /\ nbRepeats = 0
    /\ clean = TRUE
    /\ pc = "tx"
    /\ tx = NoTx
    /\ gTXOMap = [x \in TxHash |-> NoTxo]
    /\ hashPool = EmptyPool
    /\ hashCell = [c \in 1 .. MaxTxs |-> gNullHash]
    /\ chunkPool = EmptyPool
    /\ mRawData = [c \in 1 .. MaxTxs |-> NoArray]
    /\ ptrsPool = [n \in 1 .. MaxOutputs |-> EmptyPool]
    /\ slots = [a \in Array |-> [i \in 1 .. a[1] |-> NullCell]]
    /\ rawPool = EmptyPool
    /\ raw = [c \in 1 .. MaxRaw |-> GenInput]
    /\ edge = NoEdge

-----------------------------------------------------------------------------
(* In front of some operators stands a mutant of it, the same code with a  *)
(* plausible bug, which no action uses: put in the operator's place, it    *)
(* shows that the property named can fail.                                 *)

(* The start of parseTX: a cell is taken for the hash, the transaction is  *)
(* skipped over to find its end, and its bytes are hashed into the cell.   *)
StartTX(hash, ins) ==
    /\ tx' = [hash |-> hash, cell |-> Cell(hashPool), ins |-> ins, outs |-> 0]
    /\ hashPool' = Alloc(hashPool)
    /\ hashCell' = [hashCell EXCEPT ![Cell(hashPool)] = hash]
    /\ pc' = "inputs"
    /\ UNCHANGED <<gTXOMap, chunkMem, ptrsMem, rawMem, edge>>

NbHashes == nbTxs - nbRepeats       \* distinct hashes so far

(* The next transaction of the chain mints coins. *)
StartCoinbase(n) ==
    /\ pc = "tx"
    /\ nbTxs < MaxTxs
    /\ LET hash == NbHashes + 1 IN
         /\ nbOutputs' = [nbOutputs EXCEPT ![hash] = n]
         /\ coinbases' = coinbases \union {hash}
         /\ StartTX(hash, <<GenInput>>)
    /\ nbTxs' = nbTxs + 1
    /\ UNCHANGED <<coins, nbRepeats, clean>>

(* It is an earlier coinbase transaction over again. *)
RepeatCoinbase(hash) ==
    /\ pc = "tx"
    /\ nbTxs < MaxTxs
    /\ nbRepeats < MaxRepeats
    /\ hash \in coinbases
    /\ StartTX(hash, <<GenInput>>)
    /\ nbTxs' = nbTxs + 1
    /\ nbRepeats' = nbRepeats + 1
    /\ UNCHANGED <<nbOutputs, coinbases, coins, clean>>

(* The outputs an input may name: NbHashes + 1 is a transaction not there. *)
Spendable ==
    {o \in Outpoint : o[1] <= NbHashes /\ o[2] <= nbOutputs[o[1]]}
        \union {<<NbHashes + 1, 1>>}

(* It spends some. *)
StartSpend(ins, n) ==
    /\ pc = "tx"
    /\ nbTxs < MaxTxs
    /\ ToSet(ins) \subseteq Spendable
    /\ LET hash == NbHashes + 1 IN
         /\ nbOutputs' = [nbOutputs EXCEPT ![hash] = n]
         /\ StartTX(hash, ins)
    /\ coins' = coins \ ToSet(ins)
    /\ clean' = (clean /\ ToSet(ins) \subseteq coins /\ IsInjective(ins))
    /\ nbTxs' = nbTxs + 1
    /\ UNCHANGED <<coinbases, nbRepeats>>

-----------------------------------------------------------------------------
(* parseInput, on the input <<upTXHash, upOutputIndex>>.                   *)

InputLeft == pc = "inputs" /\ tx.ins # <<>>
upTXHash  == Head(tx.ins)[1]
upOutputIndex == Head(tx.ins)[2]
InputDone == tx' = [tx EXCEPT !.ins = Tail(@)]

upTX      == gTXOMap[upTXHash].chunk
upArray   == mRawData[upTX]
upSlot    == slots[upArray][upOutputIndex]
upTXHashOrig == gTXOMap[upTXHash].key

(* The input of a coinbase transaction has no upstream. *)
ParseGenInput ==
    /\ InputLeft
    /\ upTXHash = gNullHash
    /\ InputDone
    /\ UNCHANGED <<chainVars, pc, gTXOMap, memVars, edge>>

(* errFatal("failed to locate upstream transaction") *)
MissingUpstream ==
    /\ InputLeft
    /\ upTXHash # gNullHash
    /\ gTXOMap[upTXHash] = NoTxo
    /\ pc' = "fatal"
    /\ UNCHANGED <<chainVars, tx, gTXOMap, memVars, edge>>

(* parseOutput on a null pointer. *)
NullOutput ==
    /\ InputLeft
    /\ upTXHash # gNullHash
    /\ gTXOMap[upTXHash] # NoTxo
    /\ upSlot = NullCell
    /\ pc' = "crash"
    /\ UNCHANGED <<chainVars, tx, gTXOMap, memVars, edge>>

FirstCopyFreed == Free(rawPool, slots[upArray][1])
                        \* breaks NoSharedMemory, EdgeIsGenuine
CopyFreed == Free(rawPool, upSlot)

SlotKept == slots                           \* breaks ImplementsUtxoSet
SlotNulled == [slots EXCEPT ![upArray][upOutputIndex] = NullCell]

ShortCount == \A i \in 1 .. upArray[1] - 1 : SlotNulled[upArray][i] = NullCell
                        \* breaks CleanChainIsParsed, IndexIsCoins and others
AllSpent == \A i \in 1 .. upArray[1] : SlotNulled[upArray][i] = NullCell

KeyKept == hashPool                         \* breaks NoLeak
OwnHashFreed == Free(hashPool, tx.cell)     \* breaks KeysAreIntact
KeyFreed == Free(hashPool, upTXHashOrig)

(* What happens to the index when the last output of a transaction goes. *)
Release ==
    /\ gTXOMap' = [gTXOMap EXCEPT ![upTXHash] = NoTxo]
    /\ ptrsPool' = [ptrsPool EXCEPT ![upArray[1]] = Free(@, upArray[2])]
    /\ chunkPool' = Free(chunkPool, upTX)
    /\ hashPool' = KeyFreed

(* The output goes to the callback, its copy is freed, the slot cleared,   *)
(* and when no slot is left the whole entry is released.                   *)
ParseInput ==
    /\ InputLeft
    /\ upTXHash # gNullHash
    /\ gTXOMap[upTXHash] # NoTxo
    /\ upSlot # NullCell
    /\ edge' = [spends |-> Head(tx.ins), shows |-> raw[upSlot]]
    /\ rawPool' = CopyFreed
    /\ slots' = SlotNulled
    /\ IF AllSpent THEN Release
       ELSE UNCHANGED <<gTXOMap, ptrsPool, chunkPool, hashPool>>
    /\ InputDone
    /\ UNCHANGED <<chainVars, pc, hashCell, mRawData, raw>>

-----------------------------------------------------------------------------
(* The outputs. *)

(* A TXChunk and an array of the size of the transaction are taken, and    *)
(* the entry is made.  operator[] keeps the key of an entry that exists;   *)
(* the TXChunk of that entry is overwritten.                               *)
KeyOf(hash) ==
    IF gTXOMap[hash] = NoTxo THEN tx.cell ELSE gTXOMap[hash].key

StartOutputs ==
    /\ pc = "inputs"
    /\ tx.ins = <<>>
    /\ LET chunk == Cell(chunkPool)
           n     == nbOutputs[tx.hash]
           array == <<n, Cell(ptrsPool[n])>>
       IN  /\ gTXOMap' = [gTXOMap EXCEPT ![tx.hash] =
                            [key |-> KeyOf(tx.hash), chunk |-> chunk]]
           /\ chunkPool' = Alloc(chunkPool)
           /\ mRawData' = [mRawData EXCEPT ![chunk] = array]
           /\ ptrsPool' = [ptrsPool EXCEPT ![n] = Alloc(@)]
    /\ coins' = {o \in coins : o[1] # tx.hash}
    /\ pc' = "outputs"
    /\ UNCHANGED <<nbOutputs, coinbases, nbTxs, nbRepeats, clean, tx, hashMem, slots,
                   rawMem, edge>>

(* parseOutput, and the copy of the output's bytes. *)
ParseOutput ==
    /\ pc = "outputs"
    /\ tx.outs < nbOutputs[tx.hash]
    /\ LET i     == tx.outs + 1
           array == mRawData[gTXOMap[tx.hash].chunk]
       IN  /\ rawPool' = Alloc(rawPool)
           /\ raw' = [raw EXCEPT ![Cell(rawPool)] = <<tx.hash, i>>]
           /\ slots' = [slots EXCEPT ![array][i] = Cell(rawPool)]
           /\ coins' = coins \union {<<tx.hash, i>>}
           /\ tx' = [tx EXCEPT !.outs = i]
    /\ UNCHANGED <<nbOutputs, coinbases, nbTxs, nbRepeats, clean, pc, gTXOMap,
                   hashMem, chunkMem, ptrsPool, edge>>

EndTX ==
    /\ pc = "outputs"
    /\ tx.outs = nbOutputs[tx.hash]
    /\ pc' = "tx"
    /\ tx' = NoTx
    /\ UNCHANGED <<chainVars, gTXOMap, memVars, edge>>

(* The chain ends after any transaction, and the program with it. *)
Stopped ==
    /\ pc \in {"tx", "fatal", "crash"}
    /\ UNCHANGED vars

-----------------------------------------------------------------------------
(* Up to MaxInputs inputs, in any order. *)
Inputs == {ins \in SeqOf(Spendable, MaxInputs) : ins # <<>>}

Next ==
    \/ \E n \in 1 .. MaxOutputs : StartCoinbase(n)
    \/ \E hash \in coinbases : RepeatCoinbase(hash)
    \/ \E ins \in Inputs, n \in 1 .. MaxOutputs : StartSpend(ins, n)
    \/ ParseGenInput
    \/ MissingUpstream
    \/ NullOutput
    \/ ParseInput
    \/ StartOutputs
    \/ ParseOutput
    \/ EndTX
    \/ Stopped

Spec == Init /\ [][Next]_vars
=============================================================================
