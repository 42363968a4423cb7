---------------------------- MODULE TxoIndexProofs ----------------------------
(***************************************************************************)
(* Proofs about the index of unspent outputs, for any number of            *)
(* transactions, inputs, outputs and repeated coinbase transactions.       *)
(***************************************************************************)
EXTENDS TxoIndexProperties, DataLemmas

USE MaxTxsAssumption, MaxInputsAssumption, MaxOutputsAssumption,
    MaxRepeatsAssumption
USE DEF gNullHash, NullCell

-----------------------------------------------------------------------------
(* What is not read by the index leaves it as it was. *)
LEMMA IndexUntouched ==
  ASSUME UNCHANGED <<gTXOMap, mRawData, slots>>
  PROVE  /\ Entries' = Entries /\ Held' = Held
         /\ \A x : KeyCell(x)' = KeyCell(x) /\ ChunkCell(x)' = ChunkCell(x)
                   /\ ArrayOf(x)' = ArrayOf(x)
         /\ \A o : Copy(o)' = Copy(o)
BY DEF Entries, Held, KeyCell, ChunkCell, ArrayOf, Copy

LEMMA InitIndInv == Init => IndInv
<1> SUFFICES ASSUME Init PROVE IndInv
  OBVIOUS
<1> USE DEF Init
<1>1. /\ IsCellPool(EmptyPool) /\ IsSound(EmptyPool)
      /\ InUse(EmptyPool) = {} /\ EmptyPool.cut = 0
  BY EmptyPoolIsSound
<1>2. Entries = {} /\ Held = {} /\ ArraysInUse = {}
  BY <1>1 DEF Entries, Held, ArraysInUse, Array, TxHash, Outpoint
<1>3. MaxRaw \in Nat /\ 0 * MaxOutputs = 0
  BY ProductIsMonotonic DEF MaxRaw
<1>4. TypeOK
  <2>1. \A max \in Nat : IsPool(EmptyPool, max)
    BY <1>1, SoundIsPool
  <2>2. QED
    BY <1>3, <2>1 DEF TypeOK, TxHash, Outpoint, Array, NoArray, NoTx, GenInput
<1>5. Shapes
  BY <1>1 DEF Shapes, Txs, Pools, IsCellPool, NoTx
<1>6. PoolsAreSmall
  BY <1>1, <1>3 DEF PoolsAreSmall, NbStored
<1>7. ChainIsSound /\ EntriesAreFaithful /\ LocalsAreSound /\ InputsAreCoins
  BY <1>2 DEF ChainIsSound, EntriesAreFaithful, LocalsAreSound, Parsing,
     InputsAreCoins, TxHash, NbHashes, NoTx, IsInjective
<1>8. KeysAreIntact /\ NoSharedMemory /\ NoLeak
  BY <1>1, <1>2 DEF KeysAreIntact, NoSharedMemory, NoLeak
<1>9. FreeArraysAreNull
  BY DEF FreeArraysAreNull, Array
<1>10. EdgeIsGenuine /\ IndexIsCoins /\ CleanChainIsParsed
  BY <1>2 DEF EdgeIsGenuine, IndexIsCoins, CleanChainIsParsed, Running, NoEdge,
     NoTx, ToSet
<1>11. QED
  BY <1>4, <1>5, <1>6, <1>7, <1>8, <1>9, <1>10 DEF IndInv

(* The bounds on the cells cut give the pools their types. *)
PoolTypes ==
  /\ IsPool(hashPool, MaxTxs) /\ IsPool(chunkPool, MaxTxs)
  /\ \A n \in 1 .. MaxOutputs : IsPool(ptrsPool[n], MaxTxs)
  /\ IsPool(rawPool, MaxRaw)

LEMMA SmallPoolsAreTyped ==
  /\ Shapes /\ PoolsAreSmall /\ NoSharedMemory /\ LocalsAreSound
  /\ nbTxs \in 0 .. MaxTxs
  => PoolTypes
<1> SUFFICES ASSUME Shapes, PoolsAreSmall, NoSharedMemory, LocalsAreSound,
                    nbTxs \in 0 .. MaxTxs
             PROVE  PoolTypes
  OBVIOUS
<1>1. /\ IsCellPool(hashPool) /\ IsCellPool(chunkPool) /\ IsCellPool(rawPool)
      /\ \A n \in 1 .. MaxOutputs : IsCellPool(ptrsPool[n])
  BY DEF Shapes, Pools, IsCellPool
<1>2. /\ IsSound(hashPool) /\ IsSound(chunkPool) /\ IsSound(rawPool)
      /\ \A n \in 1 .. MaxOutputs : IsSound(ptrsPool[n])
  BY DEF NoSharedMemory
<1>3. /\ hashPool.cut <= MaxTxs /\ chunkPool.cut <= MaxTxs
      /\ \A n \in 1 .. MaxOutputs : ptrsPool[n].cut <= MaxTxs
  BY SMTT(30), <1>1 DEF PoolsAreSmall, NbStored, IsCellPool
<1>4. rawPool.cut <= MaxRaw /\ MaxRaw \in Nat
  <2>1. MaxRaw \in Nat /\ nbTxs * MaxOutputs <= MaxRaw
    BY ProductIsMonotonic DEF MaxRaw
  <2>2. nbTxs * MaxOutputs \in Nat /\ rawPool.cut \in Nat
    BY <1>1, ProductIsMonotonic DEF IsCellPool
  <2>3. CASE pc = "outputs"
    <3>1. nbTxs - 1 \in Nat /\ tx.outs \in 0 .. MaxOutputs
      BY <2>3 DEF LocalsAreSound, Parsing, Shapes, Txs
    <3>2. nbTxs * MaxOutputs = (nbTxs - 1) * MaxOutputs + MaxOutputs
      BY <3>1, ProductIsMonotonic
    <3>3. (nbTxs - 1) * MaxOutputs \in Nat
      BY <3>1, ProductIsMonotonic
    <3>4. rawPool.cut <= (nbTxs - 1) * MaxOutputs + tx.outs
      BY <2>3 DEF PoolsAreSmall, NbStored
    <3>5. QED
      BY <2>1, <2>2, <3>1, <3>2, <3>3, <3>4
  <2>4. CASE pc = "inputs"
    <3>1. nbTxs - 1 \in Nat
      BY <2>4 DEF LocalsAreSound, Parsing
    <3>2. /\ (nbTxs - 1) * MaxOutputs <= nbTxs * MaxOutputs
          /\ (nbTxs - 1) * MaxOutputs \in Nat
      BY <3>1, ProductIsMonotonic
    <3>3. rawPool.cut <= (nbTxs - 1) * MaxOutputs
      BY <2>4 DEF PoolsAreSmall, NbStored
    <3>4. QED
      BY <2>1, <2>2, <3>2, <3>3
  <2>5. CASE pc \notin {"inputs", "outputs"}
    BY <2>1, <2>2, <2>5 DEF PoolsAreSmall, NbStored
  <2>6. QED
    BY <2>1, <2>3, <2>4, <2>5
<1>5. QED
  BY <1>1, <1>2, <1>3, <1>4, SoundIsPool DEF PoolTypes

-----------------------------------------------------------------------------
(* The start of a transaction: what StartTX does to the memory. *)

LEMMA StartMemory ==
  ASSUME IndInv, pc = "tx", nbTxs < MaxTxs, nbTxs' = nbTxs + 1,
         nbRepeats' \in Nat, nbRepeats <= nbRepeats',
         NEW hash \in TxHash, NEW ins \in Seq(Outpoint \union {GenInput}),
         StartTX(hash, ins)
  PROVE  /\ Shapes' /\ PoolsAreSmall' /\ KeysAreIntact' /\ NoSharedMemory'
         /\ FreeArraysAreNull' /\ NoLeak' /\ EdgeIsGenuine'
         /\ CleanChainIsParsed'
         /\ hashCell' \in [1 .. MaxTxs -> TxHash \union {gNullHash}]
         /\ \A x \in Entries : KeyCell(x) # tx'.cell
<1> DEFINE c == Cell(hashPool)
<1>0. /\ TypeOK /\ Shapes /\ PoolsAreSmall /\ KeysAreIntact /\ NoSharedMemory
      /\ FreeArraysAreNull /\ NoLeak /\ EdgeIsGenuine
  BY DEF IndInv
<1>1. /\ IsCellPool(hashPool) /\ IsSound(hashPool) /\ nbTxs \in Nat
      /\ hashPool.cut <= nbTxs
  BY <1>0 DEF Shapes, Pools, IsCellPool, NoSharedMemory, PoolsAreSmall, TypeOK
<1>2. /\ IsCellPool(hashPool') /\ IsSound(hashPool')
      /\ c \notin InUse(hashPool)
      /\ InUse(hashPool') = InUse(hashPool) \union {c}
      /\ c \in 1 .. hashPool'.cut
      /\ hashPool'.cut \in {hashPool.cut, hashPool.cut + 1}
  BY <1>1, AllocIsSound DEF StartTX
<1>3. c \in 1 .. MaxTxs /\ hashPool'.cut <= nbTxs'
  BY <1>1, <1>2 DEF IsCellPool
<1> HIDE DEF c
<1>4. /\ tx' = [hash |-> hash, cell |-> c, ins |-> ins, outs |-> 0]
      /\ hashCell' = [hashCell EXCEPT ![c] = hash]
      /\ pc' = "inputs"
      /\ UNCHANGED <<gTXOMap, chunkMem, ptrsMem, rawMem, edge>>
  BY DEF StartTX, c
<1>5. /\ Entries' = Entries /\ Held' = Held
      /\ \A x : KeyCell(x)' = KeyCell(x) /\ ChunkCell(x)' = ChunkCell(x)
                /\ ArrayOf(x)' = ArrayOf(x)
      /\ \A o : Copy(o)' = Copy(o)
  BY <1>4, IndexUntouched DEF chunkMem, ptrsMem
<1>6. ArraysInUse' = ArraysInUse
  BY <1>4 DEF ptrsMem, ArraysInUse
<1>7. \A x \in Entries : KeyCell(x) \in InUse(hashPool) /\ KeyCell(x) # c
  BY <1>0, <1>2 DEF NoSharedMemory
<1>8. hashCell' \in [1 .. MaxTxs -> TxHash \union {gNullHash}]
  BY <1>0, <1>3, <1>4 DEF TypeOK
<1>9. Shapes'
  BY SMTT(30), <1>0, <1>2, <1>3, <1>4
     DEF Shapes, Txs, Pools, IsCellPool, chunkMem, ptrsMem, rawMem
<1>10. PoolsAreSmall'
  BY <1>0, <1>1, <1>3, <1>4
     DEF PoolsAreSmall, NbStored, chunkMem, ptrsMem, rawMem
<1>11. KeysAreIntact'
  <2>1. \A x \in Entries : hashCell'[KeyCell(x)] = x
    BY <1>0, <1>3, <1>4, <1>7 DEF KeysAreIntact, TypeOK
  <2>2. hashCell'[c] = hash
    BY <1>0, <1>3, <1>4 DEF TypeOK
  <2>3. QED
    BY <1>2, <1>4, <1>5, <2>1, <2>2 DEF KeysAreIntact
<1>12. NoSharedMemory'
  BY <1>0, <1>2, <1>4, <1>5, <1>6, <1>7
     DEF NoSharedMemory, chunkMem, ptrsMem, rawMem
<1>13. FreeArraysAreNull'
  BY <1>0, <1>4, <1>6 DEF FreeArraysAreNull, ptrsMem
<1>14. NoLeak'
  <2>1. nbRepeats' = 0 => nbRepeats = 0
    BY <1>0 DEF TypeOK
  <2>2. nbRepeats = 0 => InUse(hashPool) = {KeyCell(x) : x \in Entries}
    BY <1>0 DEF NoLeak
  <2>3. QED
    BY <1>0, <1>2, <1>4, <1>5, <1>6, <2>1, <2>2
       DEF NoLeak, chunkMem, ptrsMem, rawMem
<1>15. EdgeIsGenuine' /\ CleanChainIsParsed'
  BY <1>0, <1>4 DEF EdgeIsGenuine, CleanChainIsParsed, Running
<1>16. \A x \in Entries : KeyCell(x) # tx'.cell
  BY <1>4, <1>7
<1>17. QED
  BY <1>8, <1>9, <1>10, <1>11, <1>12, <1>13, <1>14, <1>15, <1>16

(* The types but for those of the pools, which follow from the other parts. *)
OtherTypes ==
  /\ nbOutputs \in [TxHash -> 0 .. MaxOutputs]
  /\ coinbases \subseteq TxHash
  /\ coins \subseteq Outpoint
  /\ nbTxs \in 0 .. MaxTxs
  /\ nbRepeats \in 0 .. MaxRepeats
  /\ clean \in BOOLEAN
  /\ pc \in {"tx", "inputs", "outputs", "fatal", "crash"}
  /\ gTXOMap \in [TxHash -> [key : 1 .. MaxTxs, chunk : 1 .. MaxTxs]
                              \union {NoTxo}]
  /\ hashCell \in [1 .. MaxTxs -> TxHash \union {gNullHash}]
  /\ mRawData \in [1 .. MaxTxs -> Array \union {NoArray}]
  /\ \A a \in Array : slots[a] \in [1 .. a[1] -> 0 .. MaxRaw]
  /\ raw \in [1 .. MaxRaw -> Outpoint \union {GenInput}]

LEMMA TypeFromParts ==
  OtherTypes /\ Shapes /\ PoolsAreSmall /\ NoSharedMemory /\ LocalsAreSound
  => TypeOK
<1> SUFFICES ASSUME OtherTypes, Shapes, PoolsAreSmall, NoSharedMemory,
                    LocalsAreSound
             PROVE  TypeOK
  OBVIOUS
<1>1. PoolTypes
  BY SmallPoolsAreTyped DEF OtherTypes
<1>2. QED
  BY <1>1 DEF OtherTypes, PoolTypes, TypeOK, Shapes, Txs

(* What the three ways to start a transaction leave to each. *)
LEMMA StartStep ==
  ASSUME IndInv, pc = "tx", nbTxs < MaxTxs, nbTxs' = nbTxs + 1,
         NEW hash \in TxHash, NEW ins \in Seq(Outpoint \union {GenInput}),
         StartTX(hash, ins),
         nbRepeats' \in 0 .. MaxRepeats, nbRepeats <= nbRepeats',
         nbOutputs' \in [TxHash -> 0 .. MaxOutputs],
         coinbases' \subseteq TxHash, coins' \subseteq Outpoint,
         clean' \in BOOLEAN,
         ChainIsSound', EntriesAreFaithful', InputsAreCoins', IndexIsCoins',
         hash <= nbTxs' - nbRepeats',
         \A i \in 1 .. Len(ins) : ins[i] # GenInput =>
                                     ins[i][2] <= nbOutputs'[ins[i][1]],
         nbRepeats' = 0 => hash \notin Entries
  PROVE  IndInv'
<1>1. /\ Shapes' /\ PoolsAreSmall' /\ KeysAreIntact' /\ NoSharedMemory'
      /\ FreeArraysAreNull' /\ NoLeak' /\ EdgeIsGenuine'
      /\ CleanChainIsParsed'
      /\ hashCell' \in [1 .. MaxTxs -> TxHash \union {gNullHash}]
      /\ \A x \in Entries : KeyCell(x) # tx'.cell
  BY StartMemory
<1>2. /\ tx'.hash = hash /\ tx'.ins = ins /\ tx'.outs = 0 /\ pc' = "inputs"
      /\ UNCHANGED <<gTXOMap, mRawData, slots, raw>>
  BY DEF StartTX, chunkMem, ptrsMem, rawMem
<1>3. Entries' = Entries /\ \A x : KeyCell(x)' = KeyCell(x)
  BY <1>2, IndexUntouched
<1>4. LocalsAreSound'
  <2>1. nbTxs \in Nat /\ hash \in 1 .. NbHashes'
    BY DEF IndInv, TypeOK, TxHash, NbHashes
  <2>2. QED
    BY <1>1, <1>2, <1>3, <2>1 DEF LocalsAreSound, Parsing
<1>5. TypeOK'
  <2>1. OtherTypes'
    BY SMTT(30), <1>1, <1>2 DEF OtherTypes, IndInv, TypeOK
  <2>2. QED
    BY <1>1, <1>4, <2>1, TypeFromParts, PTL
<1>6. QED
  BY <1>1, <1>4, <1>5 DEF IndInv

(* The locals before the start name nothing. *)
LEMMA BetweenTransactions ==
  ASSUME IndInv, pc = "tx"
  PROVE  /\ tx.ins = <<>>
         /\ clean => Held = coins
<1>1. tx.ins = <<>>
  BY DEF IndInv, LocalsAreSound, NoTx
<1>2. ToSet(tx.ins) = {}
  BY <1>1 DEF ToSet
<1>3. QED
  BY <1>1, <1>2 DEF IndInv, IndexIsCoins, Running

(* What the inputs of a coinbase transaction are. *)
LEMMA GenInputs ==
  /\ <<GenInput>> \in Seq(Outpoint \union {GenInput})
  /\ ToSet(<<GenInput>>) = {GenInput} /\ IsInjective(<<GenInput>>)
  /\ \A i \in 1 .. Len(<<GenInput>>) : <<GenInput>>[i] = GenInput
  /\ GenInput \notin Outpoint
BY DEF ToSet, IsInjective, GenInput, Outpoint, TxHash

LEMMA CoinbaseStart ==
  ASSUME IndInv, pc = "tx", tx'.ins = <<GenInput>>, Held' = Held,
         UNCHANGED <<coins, clean>>
  PROVE  InputsAreCoins' /\ IndexIsCoins'
<1>1. IsInjective(tx'.ins) /\ ToSet(tx'.ins) = {GenInput}
  BY GenInputs
<1>2. coins \intersect {GenInput} = {}
  BY GenInputs DEF IndInv, TypeOK
<1>3. InputsAreCoins'
  BY <1>1, <1>2 DEF InputsAreCoins
<1>4. clean' => Held' = coins'
  BY BetweenTransactions
<1>5. QED
  BY <1>1, <1>3, <1>4 DEF IndexIsCoins

LEMMA StartCoinbaseStep ==
  ASSUME IndInv, NEW n \in 1 .. MaxOutputs, StartCoinbase(n)
  PROVE  IndInv'
<1> DEFINE hash == NbHashes + 1
<1>0. /\ TypeOK /\ ChainIsSound /\ EntriesAreFaithful
      /\ pc = "tx" /\ nbTxs < MaxTxs /\ nbTxs' = nbTxs + 1
      /\ StartTX(hash, <<GenInput>>)
      /\ UNCHANGED <<coins, nbRepeats, clean>>
      /\ nbOutputs' = [nbOutputs EXCEPT ![hash] = n]
      /\ coinbases' = coinbases \union {hash}
  BY DEF IndInv, StartCoinbase
<1>1. /\ NbHashes \in Nat /\ hash \in TxHash /\ hash \notin Entries
      /\ NbHashes' = hash /\ hash = nbTxs' - nbRepeats'
  BY <1>0 DEF TypeOK, ChainIsSound, NbHashes, TxHash
<1>2. UNCHANGED <<gTXOMap, mRawData, slots, raw>> /\ tx'.ins = <<GenInput>>
  BY <1>0 DEF StartTX, chunkMem, ptrsMem, rawMem
<1>3. /\ Entries' = Entries /\ Held' = Held
      /\ \A x : ArrayOf(x)' = ArrayOf(x)
      /\ \A o : Copy(o)' = Copy(o)
  BY <1>2, IndexUntouched
<1> HIDE DEF hash
<1>4. /\ nbOutputs' \in [TxHash -> 0 .. MaxOutputs]
      /\ coinbases' \subseteq TxHash
      /\ nbOutputs'[hash] = n
      /\ \A x \in TxHash : x # hash => nbOutputs'[x] = nbOutputs[x]
  BY <1>0, <1>1 DEF TypeOK
<1>5. ChainIsSound'
  <2>1. \A x \in TxHash : nbOutputs'[x] > 0 <=> x <= NbHashes'
    <3> SUFFICES ASSUME NEW x \in TxHash
                 PROVE  nbOutputs'[x] > 0 <=> x <= hash
      BY <1>1
    <3>1. CASE x = hash
      BY <1>1, <1>4, <3>1 DEF TxHash
    <3>2. CASE x # hash
      BY <1>0, <1>1, <1>4, <3>2 DEF ChainIsSound, TxHash, hash
    <3>3. QED
      BY <3>1, <3>2
  <2>2. \A o \in coins : o[2] <= nbOutputs'[o[1]]
    <3> SUFFICES ASSUME NEW o \in coins PROVE o[2] <= nbOutputs'[o[1]]
      OBVIOUS
    <3>1. o[1] \in TxHash /\ o[2] \in 1 .. MaxOutputs
      BY <1>0 DEF TypeOK, Outpoint
    <3>2. o[2] <= nbOutputs[o[1]] /\ nbOutputs[o[1]] \in Nat
      BY <1>0, <3>1 DEF ChainIsSound, TypeOK
    <3>3. o[1] <= NbHashes
      BY <1>0, <3>1, <3>2 DEF ChainIsSound
    <3>4. QED
      BY <1>1, <1>4, <3>1, <3>2, <3>3 DEF hash, TxHash
  <2>3. /\ nbRepeats' <= nbTxs'
        /\ \A x \in coinbases' : x <= NbHashes'
        /\ \A x \in Entries : x <= NbHashes'
    <3>1. nbRepeats \in Nat /\ nbTxs \in Nat /\ coinbases \subseteq Nat
          /\ Entries \subseteq Nat
      BY <1>0 DEF TypeOK, TxHash, Entries
    <3>2. QED
      BY <1>0, <1>1, <3>1 DEF ChainIsSound, hash
  <2>4. QED
    BY <1>0, <1>3, <2>1, <2>2, <2>3 DEF ChainIsSound
<1>6. EntriesAreFaithful'
  <2>1. \A x \in Entries : nbOutputs'[x] = nbOutputs[x]
    BY <1>1, <1>4 DEF Entries
  <2>2. QED
    BY <1>0, <1>2, <1>3, <2>1 DEF EntriesAreFaithful
<1>7. InputsAreCoins' /\ IndexIsCoins'
  BY <1>0, <1>2, <1>3, CoinbaseStart
<1>8. coins' \subseteq Outpoint /\ clean' \in BOOLEAN
      /\ nbRepeats' \in 0 .. MaxRepeats /\ nbRepeats <= nbRepeats'
  BY <1>0 DEF TypeOK
<1>9. \A i \in 1 .. Len(<<GenInput>>) : <<GenInput>>[i] # GenInput =>
        <<GenInput>>[i][2] <= nbOutputs'[<<GenInput>>[i][1]]
  BY GenInputs
<1>10. hash <= nbTxs' - nbRepeats' /\ (nbRepeats' = 0 => hash \notin Entries)
  BY <1>1 DEF TxHash
<1>11. <<GenInput>> \in Seq(Outpoint \union {GenInput})
  BY GenInputs
<1>12. QED
  BY <1>0, <1>1, <1>4, <1>5, <1>6, <1>7, <1>8, <1>9, <1>10, <1>11, StartStep

LEMMA RepeatCoinbaseStep ==
  ASSUME IndInv, NEW hash \in coinbases, RepeatCoinbase(hash)
  PROVE  IndInv'
<1>0. /\ TypeOK /\ ChainIsSound /\ EntriesAreFaithful
      /\ pc = "tx" /\ nbTxs < MaxTxs /\ nbTxs' = nbTxs + 1
      /\ nbRepeats' = nbRepeats + 1 /\ nbRepeats < MaxRepeats
      /\ StartTX(hash, <<GenInput>>)
      /\ UNCHANGED <<nbOutputs, coinbases, coins, clean>>
  BY DEF IndInv, RepeatCoinbase
<1>1. /\ NbHashes \in Nat /\ NbHashes' = NbHashes
      /\ nbTxs \in Nat /\ nbRepeats \in Nat
      /\ hash \in TxHash /\ hash <= NbHashes
      /\ NbHashes = nbTxs' - nbRepeats'
  BY <1>0 DEF TypeOK, ChainIsSound, NbHashes, TxHash
<1>2. UNCHANGED <<gTXOMap, mRawData, slots, raw>> /\ tx'.ins = <<GenInput>>
  BY <1>0 DEF StartTX, chunkMem, ptrsMem, rawMem
<1>3. /\ Entries' = Entries /\ Held' = Held
      /\ \A x : ArrayOf(x)' = ArrayOf(x)
      /\ \A o : Copy(o)' = Copy(o)
  BY <1>2, IndexUntouched
<1>4. ChainIsSound' /\ EntriesAreFaithful'
  BY <1>0, <1>1, <1>2, <1>3 DEF ChainIsSound, EntriesAreFaithful
<1>5. InputsAreCoins' /\ IndexIsCoins'
  BY <1>0, <1>2, <1>3, CoinbaseStart
<1>6. /\ nbRepeats' \in 0 .. MaxRepeats /\ nbRepeats <= nbRepeats'
      /\ nbRepeats' # 0
      /\ nbOutputs' \in [TxHash -> 0 .. MaxOutputs]
      /\ coinbases' \subseteq TxHash /\ coins' \subseteq Outpoint
      /\ clean' \in BOOLEAN
  BY <1>0, <1>1 DEF TypeOK
<1>7. \A i \in 1 .. Len(<<GenInput>>) : <<GenInput>>[i] # GenInput =>
        <<GenInput>>[i][2] <= nbOutputs'[<<GenInput>>[i][1]]
  BY GenInputs
<1>8. <<GenInput>> \in Seq(Outpoint \union {GenInput})
  BY GenInputs
<1>9. QED
  BY <1>0, <1>1, <1>4, <1>5, <1>6, <1>7, <1>8, StartStep

(* An input a transaction may have names one of its outputs to be or one   *)
(* of an earlier transaction.                                              *)
LEMMA InputsAreTyped ==
  ASSUME NEW ins \in Inputs
  PROVE  /\ ins \in Seq(Spendable) /\ ToSet(ins) \subseteq Spendable
         /\ \A i \in 1 .. Len(ins) : ins[i] \in Spendable
<1>1. PICK m \in 0 .. MaxInputs : ins \in [1 .. m -> Spendable]
  BY DEF Inputs, SeqOf
<1>2. ins \in Seq(Spendable)
  BY <1>1, SeqDef
<1>3. QED
  BY <1>2 DEF ToSet

LEMMA StartSpendStep ==
  ASSUME IndInv, NEW ins \in Inputs, NEW n \in 1 .. MaxOutputs,
         StartSpend(ins, n)
  PROVE  IndInv'
<1> DEFINE hash == NbHashes + 1
<1>0. /\ TypeOK /\ ChainIsSound /\ EntriesAreFaithful
      /\ pc = "tx" /\ nbTxs < MaxTxs /\ nbTxs' = nbTxs + 1
      /\ StartTX(hash, ins)
      /\ UNCHANGED <<coinbases, nbRepeats>>
      /\ coins' = coins \ ToSet(ins)
      /\ clean' = (clean /\ ToSet(ins) \subseteq coins /\ IsInjective(ins))
      /\ nbOutputs' = [nbOutputs EXCEPT ![hash] = n]
  BY DEF IndInv, StartSpend
<1>1. /\ NbHashes \in Nat /\ hash \in TxHash /\ hash \notin Entries
      /\ NbHashes' = hash /\ hash = nbTxs' - nbRepeats'
  BY <1>0 DEF TypeOK, ChainIsSound, NbHashes, TxHash
<1>2. UNCHANGED <<gTXOMap, mRawData, slots, raw>> /\ tx'.ins = ins
      /\ pc' = "inputs"
  BY <1>0 DEF StartTX, chunkMem, ptrsMem, rawMem
<1>3. /\ Entries' = Entries /\ Held' = Held
      /\ \A x : ArrayOf(x)' = ArrayOf(x)
      /\ \A o : Copy(o)' = Copy(o)
  BY <1>2, IndexUntouched
<1>a. /\ Spendable \subseteq Outpoint
      /\ \A o \in Spendable :
            \/ o = <<hash, 1>>
            \/ (o[1] \in 1 .. NbHashes /\ o[2] <= nbOutputs[o[1]])
  BY <1>1 DEF Spendable, Outpoint, TxHash
<1> HIDE DEF hash
<1>4. /\ nbOutputs' \in [TxHash -> 0 .. MaxOutputs]
      /\ nbOutputs'[hash] = n
      /\ \A x \in TxHash : x # hash => nbOutputs'[x] = nbOutputs[x]
  BY <1>0, <1>1 DEF TypeOK
<1>5. ChainIsSound'
  <2>1. \A x \in TxHash : nbOutputs'[x] > 0 <=> x <= NbHashes'
    <3> SUFFICES ASSUME NEW x \in TxHash
                 PROVE  nbOutputs'[x] > 0 <=> x <= hash
      BY <1>1
    <3>1. CASE x = hash
      BY <1>1, <1>4, <3>1 DEF TxHash
    <3>2. CASE x # hash
      BY <1>0, <1>1, <1>4, <3>2 DEF ChainIsSound, TxHash, hash
    <3>3. QED
      BY <3>1, <3>2
  <2>2. \A o \in coins' : o[2] <= nbOutputs'[o[1]]
    <3> SUFFICES ASSUME NEW o \in coins PROVE o[2] <= nbOutputs'[o[1]]
      BY <1>0
    <3>1. o[1] \in TxHash /\ o[2] \in 1 .. MaxOutputs
      BY <1>0 DEF TypeOK, Outpoint
    <3>2. o[2] <= nbOutputs[o[1]] /\ nbOutputs[o[1]] \in Nat
      BY <1>0, <3>1 DEF ChainIsSound, TypeOK
    <3>3. o[1] <= NbHashes
      BY <1>0, <3>1, <3>2 DEF ChainIsSound
    <3>4. QED
      BY <1>1, <1>4, <3>1, <3>2, <3>3 DEF hash, TxHash
  <2>3. /\ nbRepeats' <= nbTxs'
        /\ \A x \in coinbases' : x <= NbHashes'
        /\ \A x \in Entries : x <= NbHashes'
    <3>1. nbRepeats \in Nat /\ nbTxs \in Nat /\ coinbases \subseteq Nat
          /\ Entries \subseteq Nat
      BY <1>0 DEF TypeOK, TxHash, Entries
    <3>2. QED
      BY <1>0, <1>1, <3>1 DEF ChainIsSound, hash
  <2>4. QED
    BY <1>0, <1>3, <2>1, <2>2, <2>3 DEF ChainIsSound
<1>6. EntriesAreFaithful'
  <2>1. \A x \in Entries : nbOutputs'[x] = nbOutputs[x]
    BY <1>1, <1>4 DEF Entries
  <2>2. QED
    BY <1>0, <1>2, <1>3, <2>1 DEF EntriesAreFaithful
<1>7. ins \in Seq(Outpoint \union {GenInput})
      /\ ToSet(ins) \subseteq Outpoint
  BY <1>a, InputsAreTyped
<1>8. InputsAreCoins' /\ IndexIsCoins'
  <2>1. GenInput \notin ToSet(ins)
    BY <1>7, GenInputs
  <2>2. clean => Held = coins
    BY <1>0, BetweenTransactions
  <2>3. InputsAreCoins'
    BY <1>0, <1>2 DEF InputsAreCoins
  <2>4. clean' => Held' = coins' \union (ToSet(ins) \ {GenInput})
    BY <1>0, <1>3, <2>1, <2>2 DEF TypeOK
  <2>5. QED
    BY <1>2, <2>3, <2>4 DEF IndexIsCoins
<1>9. /\ coins' \subseteq Outpoint /\ clean' \in BOOLEAN
      /\ coinbases' \subseteq TxHash
      /\ nbRepeats' \in 0 .. MaxRepeats /\ nbRepeats <= nbRepeats'
  BY <1>0 DEF TypeOK
<1>10. \A i \in 1 .. Len(ins) : ins[i] # GenInput =>
          ins[i][2] <= nbOutputs'[ins[i][1]]
  <2> SUFFICES ASSUME NEW i \in 1 .. Len(ins)
               PROVE  ins[i][2] <= nbOutputs'[ins[i][1]]
    OBVIOUS
  <2>1. ins[i] \in Spendable
    BY InputsAreTyped
  <2>2. CASE ins[i] = <<hash, 1>>
    BY <1>4, <2>2
  <2>3. CASE ins[i] # <<hash, 1>>
    <3>1. ins[i][1] \in 1 .. NbHashes /\ ins[i][2] <= nbOutputs[ins[i][1]]
      BY <1>a, <2>1, <2>3
    <3>2. ins[i][1] # hash /\ ins[i][1] \in TxHash
      BY <1>1, <3>1 DEF hash, TxHash
    <3>3. QED
      BY <1>4, <3>1, <3>2
  <2>4. QED
    BY <2>2, <2>3
<1>11. hash <= nbTxs' - nbRepeats' /\ (nbRepeats' = 0 => hash \notin Entries)
  BY <1>1 DEF TxHash
<1>12. QED
  BY <1>0, <1>1, <1>4, <1>5, <1>6, <1>7, <1>8, <1>9, <1>10, <1>11, StartStep

-----------------------------------------------------------------------------
(* The inputs. *)

(* The rest of a sequence: what of it the proofs use. *)
LEMMA RestOfSequence ==
  ASSUME NEW S, NEW s \in Seq(S), s # <<>>
  PROVE  /\ Head(s) \in S /\ Tail(s) \in Seq(S)
         /\ Len(s) \in Nat \ {0} /\ Head(s) = s[1]
         /\ \A i \in 1 .. Len(Tail(s)) : i + 1 \in 1 .. Len(s)
                                         /\ Tail(s)[i] = s[i + 1]
         /\ ToSet(s) = {Head(s)} \union ToSet(Tail(s))
         /\ IsInjective(s) => /\ IsInjective(Tail(s))
                              /\ Head(s) \notin ToSet(Tail(s))
<1> DEFINE t == Tail(s)  n == Len(s)
<1>1. /\ Head(s) \in S /\ t \in Seq(S) /\ Len(t) = n - 1 /\ Head(s) = s[1]
      /\ n \in Nat \ {0} /\ DOMAIN s = 1 .. n /\ DOMAIN t = 1 .. n - 1
  OBVIOUS
<1>2. \A i \in 1 .. n - 1 : i + 1 \in 1 .. n /\ t[i] = s[i + 1]
  BY <1>1
<1> HIDE DEF t, n
<1>3. ToSet(s) = {s[1]} \union ToSet(t)
  <2>1. \A i \in 1 .. n : i = 1 \/ (i - 1 \in 1 .. n - 1 /\ t[i - 1] = s[i])
    BY <1>1, <1>2
  <2>2. \A x : x \in ToSet(s) <=> \E i \in 1 .. n : x = s[i]
    BY <1>1 DEF ToSet
  <2>3. \A x : x \in ToSet(t) <=> \E i \in 1 .. n - 1 : x = t[i]
    BY <1>1 DEF ToSet
  <2>4. \A x : x \in ToSet(s) => x = s[1] \/ x \in ToSet(t)
    BY <2>1, <2>2, <2>3
  <2>5. \A x : x = s[1] \/ x \in ToSet(t) => x \in ToSet(s)
    BY <1>1, <1>2, <2>2, <2>3
  <2>6. QED
    BY <2>4, <2>5
<1>4. ASSUME IsInjective(s) PROVE IsInjective(t) /\ s[1] \notin ToSet(t)
  <2>1. \A i, j \in 1 .. n : s[i] = s[j] => i = j
    BY <1>1, <1>4 DEF IsInjective
  <2>2. \A i, j \in 1 .. n - 1 : t[i] = t[j] => i = j
    <3> SUFFICES ASSUME NEW i \in 1 .. n - 1, NEW j \in 1 .. n - 1, t[i] = t[j]
                 PROVE  i = j
      OBVIOUS
    <3>1. i + 1 = j + 1
      BY <1>2, <2>1
    <3>2. QED
      BY <1>1, <3>1
  <2>3. \A i \in 1 .. n - 1 : t[i] # s[1]
    <3> SUFFICES ASSUME NEW i \in 1 .. n - 1, t[i] = s[1] PROVE FALSE
      OBVIOUS
    <3>1. i + 1 = 1
      BY <1>1, <1>2, <2>1
    <3>2. QED
      BY <1>1, <3>1
  <2>4. QED
    BY <1>1, <2>2, <2>3 DEF IsInjective, ToSet
<1>5. QED
  BY <1>1, <1>2, <1>3, <1>4 DEF t, n

(* The next input, and what remains of the transaction after it. *)
LEMMA InputRead ==
  ASSUME IndInv, InputLeft, InputDone
  PROVE  /\ pc = "inputs" /\ tx.ins \in Seq(Outpoint \union {GenInput})
         /\ Head(tx.ins) \in Outpoint \union {GenInput}
         /\ tx' \in Txs /\ tx'.ins = Tail(tx.ins)
         /\ tx'.hash = tx.hash /\ tx'.cell = tx.cell /\ tx'.outs = tx.outs
         /\ ToSet(tx.ins) = {Head(tx.ins)} \union ToSet(tx'.ins)
         /\ IsInjective(tx.ins) => /\ IsInjective(tx'.ins)
                                   /\ Head(tx.ins) \notin ToSet(tx'.ins)
         /\ Head(tx.ins) # GenInput =>
               Head(tx.ins)[2] <= nbOutputs[Head(tx.ins)[1]]
         /\ \A i \in 1 .. Len(tx'.ins) :
               tx'.ins[i] # GenInput =>
                   tx'.ins[i][2] <= nbOutputs[tx'.ins[i][1]]
<1>1. /\ pc = "inputs" /\ tx \in Txs /\ tx' = [tx EXCEPT !.ins = Tail(@)]
      /\ tx.ins \in Seq(Outpoint \union {GenInput}) /\ tx.ins # <<>>
  BY DEF InputLeft, InputDone, IndInv, Shapes, Txs
<1>2. tx' \in Txs /\ tx'.ins = Tail(tx.ins)
      /\ tx'.hash = tx.hash /\ tx'.cell = tx.cell /\ tx'.outs = tx.outs
  <2>1. Tail(tx.ins) \in Seq(Outpoint \union {GenInput})
    BY <1>1, RestOfSequence
  <2>2. QED
    BY <1>1, <2>1 DEF Txs
<1>3. \A i \in 1 .. Len(tx.ins) : tx.ins[i] # GenInput =>
          tx.ins[i][2] <= nbOutputs[tx.ins[i][1]]
  BY <1>1 DEF IndInv, LocalsAreSound
<1>4. QED
  BY <1>1, <1>2, <1>3, RestOfSequence

LEMMA ParseGenInputStep ==
  ASSUME IndInv, ParseGenInput
  PROVE  IndInv'
<1>0. /\ InputLeft /\ InputDone /\ upTXHash = gNullHash
      /\ UNCHANGED <<chainVars, pc, gTXOMap, memVars, edge>>
  BY DEF ParseGenInput
<1> USE DEF chainVars, memVars, hashMem, chunkMem, ptrsMem, rawMem
<1>1. Head(tx.ins) = GenInput
  BY <1>0, InputRead DEF upTXHash, Outpoint, TxHash
<1>2. /\ Entries' = Entries /\ Held' = Held
      /\ \A x : KeyCell(x)' = KeyCell(x) /\ ChunkCell(x)' = ChunkCell(x)
                /\ ArrayOf(x)' = ArrayOf(x)
      /\ \A o : Copy(o)' = Copy(o)
  BY <1>0, IndexUntouched
<1>3. ArraysInUse' = ArraysInUse
  BY <1>0 DEF ArraysInUse
<1>4. /\ tx' \in Txs /\ tx'.ins \in Seq(Outpoint \union {GenInput})
      /\ pc' = "inputs" /\ pc = "inputs"
      /\ tx'.hash = tx.hash /\ tx'.cell = tx.cell /\ tx'.outs = tx.outs
      /\ ToSet(tx.ins) = {GenInput} \union ToSet(tx'.ins)
      /\ IsInjective(tx.ins) => IsInjective(tx'.ins)
      /\ \A i \in 1 .. Len(tx'.ins) :
            tx'.ins[i] # GenInput =>
                tx'.ins[i][2] <= nbOutputs[tx'.ins[i][1]]
  BY <1>0, <1>1, InputRead DEF Txs
<1>5. TypeOK' /\ Shapes'
  BY <1>0, <1>4 DEF IndInv, TypeOK, Shapes, Txs
<1>6. PoolsAreSmall' /\ ChainIsSound' /\ EntriesAreFaithful'
  BY <1>0, <1>2, <1>4 DEF IndInv, PoolsAreSmall, NbStored, ChainIsSound,
     NbHashes, EntriesAreFaithful
<1>7. LocalsAreSound' /\ InputsAreCoins'
  BY <1>0, <1>2, <1>4 DEF IndInv, LocalsAreSound, Parsing, NbHashes,
     InputsAreCoins
<1>8. KeysAreIntact' /\ NoSharedMemory' /\ FreeArraysAreNull' /\ NoLeak'
  BY <1>0, <1>2, <1>3, <1>4 DEF IndInv, KeysAreIntact, NoSharedMemory,
     FreeArraysAreNull, NoLeak
<1>9. EdgeIsGenuine' /\ IndexIsCoins' /\ CleanChainIsParsed'
  BY <1>0, <1>2, <1>4 DEF IndInv, EdgeIsGenuine, IndexIsCoins,
     CleanChainIsParsed, Running
<1>10. QED
  BY <1>5, <1>6, <1>7, <1>8, <1>9 DEF IndInv

(* An input that names an output names one its transaction has, and on a   *)
(* clean chain one the index holds.                                        *)
LEMMA NamedOutput ==
  ASSUME IndInv, InputLeft, upTXHash # gNullHash
  PROVE  /\ Head(tx.ins) \in Outpoint
         /\ Head(tx.ins) = <<upTXHash, upOutputIndex>>
         /\ upTXHash \in TxHash /\ upOutputIndex \in 1 .. MaxOutputs
         /\ upOutputIndex <= nbOutputs[upTXHash]
         /\ clean => Head(tx.ins) \in Held
<1>1. /\ pc = "inputs" /\ tx.ins # <<>>
      /\ tx.ins \in Seq(Outpoint \union {GenInput})
  BY DEF InputLeft, IndInv, TypeOK
<1>2. /\ Head(tx.ins) \in Outpoint \union {GenInput} /\ Head(tx.ins) = tx.ins[1]
      /\ Head(tx.ins) \in ToSet(tx.ins) /\ 1 \in 1 .. Len(tx.ins)
  BY <1>1, RestOfSequence
<1>3. Head(tx.ins) \in Outpoint /\ Head(tx.ins) # GenInput
  BY <1>2 DEF upTXHash, GenInput, Outpoint, TxHash
<1>4. Head(tx.ins)[2] <= nbOutputs[Head(tx.ins)[1]]
  BY <1>1, <1>2, <1>3 DEF IndInv, LocalsAreSound
<1>5. clean => Head(tx.ins) \in Held
  BY <1>1, <1>2, <1>3 DEF IndInv, IndexIsCoins, Running
<1>6. QED
  BY <1>3, <1>4, <1>5 DEF upTXHash, upOutputIndex, Outpoint

(* A missing upstream or a null output ends the program; a clean chain has *)
(* neither.                                                                *)
LEMMA FailureStep ==
  ASSUME IndInv, MissingUpstream \/ NullOutput
  PROVE  IndInv'
<1>0. /\ InputLeft /\ upTXHash # gNullHash
      /\ UNCHANGED <<chainVars, tx, gTXOMap, memVars, edge>>
      /\ pc = "inputs" /\ pc' \in {"fatal", "crash"}
  BY DEF MissingUpstream, NullOutput, InputLeft
<1> USE DEF chainVars, memVars, hashMem, chunkMem, ptrsMem, rawMem
<1>1. clean = FALSE
  <2>1. /\ Head(tx.ins) = <<upTXHash, upOutputIndex>>
        /\ clean => Head(tx.ins) \in Held
    BY <1>0, NamedOutput
  <2>2. ASSUME Head(tx.ins) \in Held PROVE FALSE
    <3>1. gTXOMap[upTXHash] # NoTxo /\ upSlot # NullCell
      <4>1. Head(tx.ins)[1] = upTXHash /\ Head(tx.ins)[2] = upOutputIndex
        BY <2>1
      <4>2. /\ upTXHash \in Entries
            /\ slots[ArrayOf(upTXHash)][upOutputIndex] # NullCell
        BY <2>2, <4>1 DEF Held
      <4>3. QED
        BY <4>2 DEF Entries, ArrayOf, upSlot, upArray, upTX
    <3>2. gTXOMap[upTXHash] = NoTxo \/ upSlot = NullCell
      BY DEF MissingUpstream, NullOutput
    <3>3. QED
      BY <3>1, <3>2
  <2>3. QED
    BY <2>1, <2>2 DEF IndInv, TypeOK
<1>2. /\ Entries' = Entries /\ Held' = Held
      /\ \A x : KeyCell(x)' = KeyCell(x) /\ ChunkCell(x)' = ChunkCell(x)
                /\ ArrayOf(x)' = ArrayOf(x)
      /\ \A o : Copy(o)' = Copy(o)
  BY <1>0, IndexUntouched
<1>3. ArraysInUse' = ArraysInUse
  BY <1>0 DEF ArraysInUse
<1>4. TypeOK' /\ Shapes'
  BY <1>0 DEF IndInv, TypeOK, Shapes
<1>5. PoolsAreSmall'
  <2>1. nbTxs \in Nat \ {0} /\ nbTxs - 1 \in Nat
    BY <1>0 DEF IndInv, TypeOK, LocalsAreSound, Parsing
  <2>2. (nbTxs - 1) * MaxOutputs <= nbTxs * MaxOutputs
        /\ (nbTxs - 1) * MaxOutputs \in Nat /\ nbTxs * MaxOutputs \in Nat
    BY <2>1, ProductIsMonotonic
  <2>3. /\ chunkPool.cut \in Nat /\ rawPool.cut \in Nat
        /\ \A n \in 1 .. MaxOutputs : ptrsPool[n].cut \in Nat
    BY DEF IndInv, Shapes, Pools
  <2>4. QED
    BY <1>0, <2>1, <2>2, <2>3 DEF IndInv, PoolsAreSmall, NbStored
<1>6. ChainIsSound' /\ EntriesAreFaithful' /\ LocalsAreSound' /\ InputsAreCoins'
  BY <1>0, <1>1, <1>2 DEF IndInv, ChainIsSound, NbHashes, EntriesAreFaithful,
     LocalsAreSound, Parsing, InputsAreCoins
<1>7. KeysAreIntact' /\ NoSharedMemory' /\ FreeArraysAreNull' /\ NoLeak'
  BY <1>0, <1>2, <1>3 DEF IndInv, KeysAreIntact, NoSharedMemory,
     FreeArraysAreNull, NoLeak
<1>8. EdgeIsGenuine' /\ IndexIsCoins' /\ CleanChainIsParsed'
  BY <1>0, <1>1 DEF IndInv, EdgeIsGenuine, IndexIsCoins, CleanChainIsParsed
<1>9. QED
  BY <1>4, <1>5, <1>6, <1>7, <1>8 DEF IndInv

(* The output an input spends is one the index holds.                      *)
SpendsHeld ==
  /\ InputLeft /\ upTXHash # gNullHash
  /\ gTXOMap[upTXHash] # NoTxo /\ upSlot # NullCell

LEMMA SpentOutput ==
  ASSUME IndInv, SpendsHeld
  PROVE  /\ upTXHash \in Entries /\ upTX = ChunkCell(upTXHash)
         /\ upTXHashOrig = KeyCell(upTXHash)
         /\ upArray = ArrayOf(upTXHash) /\ upArray \in Array
         /\ upOutputIndex \in 1 .. upArray[1]
         /\ Head(tx.ins) = <<upTXHash, upOutputIndex>>
         /\ Head(tx.ins) \in Held /\ Copy(Head(tx.ins)) = upSlot
         /\ raw[upSlot] = Head(tx.ins) /\ upSlot \in InUse(rawPool)
<1>1. /\ Head(tx.ins) \in Outpoint
      /\ Head(tx.ins) = <<upTXHash, upOutputIndex>>
      /\ upTXHash \in TxHash /\ upOutputIndex \in 1 .. MaxOutputs
      /\ upOutputIndex <= nbOutputs[upTXHash]
  BY NamedOutput DEF SpendsHeld
<1>2. /\ upTXHash \in Entries /\ upTX = ChunkCell(upTXHash)
      /\ upTXHashOrig = KeyCell(upTXHash) /\ upArray = ArrayOf(upTXHash)
  BY <1>1 DEF SpendsHeld, Entries, upTX, ChunkCell, upTXHashOrig, KeyCell,
     upArray, ArrayOf
<1>3. upArray \in Array /\ upArray[1] = nbOutputs[upTXHash]
  BY <1>2 DEF IndInv, EntriesAreFaithful
<1>4. upOutputIndex \in 1 .. upArray[1]
  BY <1>1, <1>3 DEF Array
<1>5. Head(tx.ins) \in Held /\ Copy(Head(tx.ins)) = upSlot
  BY <1>1, <1>2, <1>4 DEF Held, Copy, upSlot, SpendsHeld
<1>6. raw[upSlot] = Head(tx.ins) /\ upSlot \in InUse(rawPool)
  BY <1>5 DEF IndInv, EntriesAreFaithful, NoSharedMemory
<1>7. QED
  BY <1>1, <1>2, <1>3, <1>4, <1>5, <1>6

(* Clearing a slot changes that slot alone.                                *)
LEMMA SlotCleared ==
  ASSUME IndInv, SpendsHeld
  PROVE  /\ SlotNulled = [b \in Array |-> SlotNulled[b]]
         /\ \A b \in Array : SlotNulled[b] \in [1 .. b[1] -> 0 .. MaxRaw]
         /\ \A b \in Array : b # upArray => SlotNulled[b] = slots[b]
         /\ SlotNulled[upArray][upOutputIndex] = NullCell
         /\ \A j \in 1 .. upArray[1] : j # upOutputIndex =>
                SlotNulled[upArray][j] = slots[upArray][j]
<1> DEFINE a == upArray  i == upOutputIndex
<1>1. /\ slots = [b \in Array |-> slots[b]]
      /\ \A b \in Array : slots[b] \in [1 .. b[1] -> 0 .. MaxRaw]
  BY DEF IndInv, Shapes, TypeOK
<1>2. a \in Array /\ i \in 1 .. a[1]
  BY SpentOutput
<1>3. SlotNulled = [slots EXCEPT ![a] = [slots[a] EXCEPT ![i] = NullCell]]
  BY DEF SlotNulled
<1> HIDE DEF a, i
<1>4. MaxRaw \in Nat
  BY ProductIsMonotonic DEF MaxRaw
<1>5. /\ SlotNulled = [b \in Array |-> SlotNulled[b]]
      /\ \A b \in Array : b # a => SlotNulled[b] = slots[b]
      /\ SlotNulled[a] = [slots[a] EXCEPT ![i] = NullCell]
  BY <1>1, <1>2, <1>3
<1>6. /\ SlotNulled[a] \in [1 .. a[1] -> 0 .. MaxRaw]
      /\ SlotNulled[a][i] = NullCell
      /\ \A j \in 1 .. a[1] : j # i => SlotNulled[a][j] = slots[a][j]
  <2>1. slots[a] \in [1 .. a[1] -> 0 .. MaxRaw]
    BY <1>1, <1>2
  <2>2. 0 \in 0 .. MaxRaw
    BY <1>4
  <2>3. SlotNulled[a] \in [1 .. a[1] -> 0 .. MaxRaw]
    BY <1>5, <2>1, <2>2
  <2>4. QED
    BY <1>2, <1>5, <2>1, <2>3
<1>7. QED
  BY <1>1, <1>5, <1>6 DEF a, i

(* The entry that goes when the output spent was its last.                 *)
Gone == IF AllSpent THEN {upTXHash} ELSE {}

LEMMA EntriesAfterInput ==
  ASSUME IndInv, ParseInput
  PROVE  /\ Entries' = Entries \ Gone /\ Gone \subseteq Entries
         /\ \A y \in Entries' :
                KeyCell(y)' = KeyCell(y) /\ ChunkCell(y)' = ChunkCell(y)
                /\ ArrayOf(y)' = ArrayOf(y)
         /\ gTXOMap' \in [TxHash -> [key : 1 .. MaxTxs, chunk : 1 .. MaxTxs]
                                       \union {NoTxo}]
         /\ Held' = Held \ {Head(tx.ins)}
         /\ \A o \in Held' : Copy(o)' = Copy(o)
<1> DEFINE x == upTXHash  a == upArray  o == Head(tx.ins)
<1>1. /\ SpendsHeld /\ slots' = SlotNulled /\ mRawData' = mRawData
      /\ IF AllSpent THEN gTXOMap' = [gTXOMap EXCEPT ![x] = NoTxo]
         ELSE gTXOMap' = gTXOMap
  BY DEF ParseInput, Release, SpendsHeld
<1>2. /\ x \in Entries /\ a = ArrayOf(x) /\ a \in Array
      /\ upOutputIndex \in 1 .. a[1]
      /\ o = <<x, upOutputIndex>> /\ o \in Held /\ Copy(o) = upSlot
  BY <1>1, SpentOutput
<1>3. gTXOMap \in [TxHash -> [key : 1 .. MaxTxs, chunk : 1 .. MaxTxs]
                                       \union {NoTxo}]
  BY DEF IndInv, TypeOK
<1>4. /\ gTXOMap' \in [TxHash -> [key : 1 .. MaxTxs, chunk : 1 .. MaxTxs]
                                       \union {NoTxo}]
      /\ AllSpent => gTXOMap'[x] = NoTxo
      /\ \A y \in TxHash : gTXOMap'[y] # gTXOMap[y] => AllSpent /\ y = x
  BY <1>1, <1>2, <1>3 DEF Entries
<1>5. Entries' = Entries \ Gone /\ Gone \subseteq Entries
  BY <1>2, <1>4 DEF Entries, Gone
<1>6. \A y \in Entries' :
          KeyCell(y)' = KeyCell(y) /\ ChunkCell(y)' = ChunkCell(y)
          /\ ArrayOf(y)' = ArrayOf(y)
  <2>1. \A y \in Entries' : gTXOMap'[y] = gTXOMap[y]
    BY <1>4, <1>5 DEF Entries, Gone
  <2>2. QED
    BY <1>1, <2>1 DEF KeyCell, ChunkCell, ArrayOf
<1>7. \A y \in Entries : y # x => ArrayOf(y) # a /\ ArrayOf(y) \in Array
  BY <1>2 DEF IndInv, NoSharedMemory, EntriesAreFaithful
<1>8. /\ \A b \in Array : b # a => slots'[b] = slots[b]
      /\ slots'[a][upOutputIndex] = NullCell
      /\ \A j \in 1 .. a[1] : j # upOutputIndex => slots'[a][j] = slots[a][j]
  BY <1>1, SlotCleared
<1>9. ASSUME NEW p \in Outpoint, p[1] \in Entries'
      PROVE  /\ p \in Held' <=> p \in Held \ {o}
             /\ p \in Held' => Copy(p)' = Copy(p)
  <2>1. p[1] \in Entries /\ ArrayOf(p[1])' = ArrayOf(p[1])
        /\ p = <<p[1], p[2]>> /\ p[2] \in 1 .. MaxOutputs
    BY <1>5, <1>6, <1>9 DEF Outpoint
  <2>2. CASE p[1] # x
    <3>1. slots'[ArrayOf(p[1])'] = slots[ArrayOf(p[1])]
      BY <1>7, <1>8, <2>1, <2>2
    <3>2. p # o
      BY <1>2, <2>2
    <3>3. QED
      BY <1>9, <2>1, <3>1, <3>2 DEF Held, Copy
  <2>3. CASE p[1] = x /\ p[2] = upOutputIndex
    <3>1. p = o
      BY <1>2, <2>1, <2>3
    <3>2. slots'[ArrayOf(p[1])'][p[2]] = NullCell
      BY <1>2, <1>8, <2>1, <2>3
    <3>3. p \notin Held'
      BY <3>2 DEF Held
    <3>4. QED
      BY <3>1, <3>3
  <2>4. CASE p[1] = x /\ p[2] # upOutputIndex
    <3>1. p # o
      BY <1>2, <2>4
    <3>2. p[2] <= a[1] => slots'[a][p[2]] = slots[a][p[2]]
      BY <1>2, <1>8, <2>1, <2>4 DEF Array
    <3>3. QED
      BY <1>2, <1>9, <2>1, <2>4, <3>1, <3>2 DEF Held, Copy
  <2>5. QED
    BY <2>2, <2>3, <2>4
<1>10. ASSUME NEW p \in Held, p[1] \notin Entries' PROVE p = o
  <2>1. p[1] = x /\ AllSpent /\ p[2] \in 1 .. a[1] /\ p = <<p[1], p[2]>>
        /\ slots[a][p[2]] # NullCell
    BY <1>2, <1>5, <1>10 DEF Held, Gone, Outpoint, Array
  <2>2. slots'[a][p[2]] = NullCell
    BY <1>1, <2>1 DEF AllSpent
  <2>3. QED
    BY <1>2, <1>8, <2>1, <2>2
<1>11. Held' = Held \ {o} /\ \A p \in Held' : Copy(p)' = Copy(p)
  <2>1. Held \subseteq Outpoint /\ Held' \subseteq Outpoint
        /\ \A p \in Held' : p[1] \in Entries'
    BY DEF Held
  <2>2. QED
    BY <1>9, <1>10, <2>1
<1>12. QED
  BY <1>4, <1>5, <1>6, <1>11

(* What the pools take back: the copy, and all that a released entry had.  *)
LEMMA MemoryAfterInput ==
  ASSUME IndInv, ParseInput
  PROVE  /\ IsCellPool(hashPool') /\ IsCellPool(chunkPool')
         /\ IsCellPool(rawPool') /\ ptrsPool' \in [1 .. MaxOutputs -> Pools]
         /\ IsSound(hashPool') /\ IsSound(chunkPool') /\ IsSound(rawPool')
         /\ \A n \in 1 .. MaxOutputs : IsSound(ptrsPool'[n])
         /\ hashPool'.cut = hashPool.cut /\ chunkPool'.cut = chunkPool.cut
         /\ rawPool'.cut = rawPool.cut
         /\ \A n \in 1 .. MaxOutputs : ptrsPool'[n].cut = ptrsPool[n].cut
         /\ InUse(rawPool') = InUse(rawPool) \ {Copy(Head(tx.ins))}
         /\ InUse(hashPool') = InUse(hashPool) \ {KeyCell(y) : y \in Gone}
         /\ InUse(chunkPool') = InUse(chunkPool) \ {ChunkCell(y) : y \in Gone}
         /\ ArraysInUse' = ArraysInUse \ {ArrayOf(y) : y \in Gone}
<1> DEFINE x == upTXHash  a == upArray
<1>1. /\ SpendsHeld /\ rawPool' = Free(rawPool, upSlot)
      /\ IF AllSpent
         THEN /\ ptrsPool' = [ptrsPool EXCEPT ![a[1]] = Free(@, a[2])]
              /\ chunkPool' = Free(chunkPool, upTX)
              /\ hashPool' = Free(hashPool, upTXHashOrig)
         ELSE UNCHANGED <<ptrsPool, chunkPool, hashPool>>
  BY DEF ParseInput, Release, SpendsHeld, CopyFreed, KeyFreed
<1>2. /\ x \in Entries /\ a = ArrayOf(x) /\ a \in Array
      /\ upTX = ChunkCell(x) /\ upTXHashOrig = KeyCell(x)
      /\ Copy(Head(tx.ins)) = upSlot /\ upSlot \in InUse(rawPool)
  BY <1>1, SpentOutput
<1>3. /\ KeyCell(x) \in InUse(hashPool) /\ ChunkCell(x) \in InUse(chunkPool)
      /\ a \in ArraysInUse
      /\ IsSound(hashPool) /\ IsSound(chunkPool) /\ IsSound(rawPool)
      /\ \A n \in 1 .. MaxOutputs : IsSound(ptrsPool[n])
  BY <1>2 DEF IndInv, NoSharedMemory
<1>4. /\ IsCellPool(hashPool) /\ IsCellPool(chunkPool) /\ IsCellPool(rawPool)
      /\ ptrsPool \in [1 .. MaxOutputs -> Pools]
      /\ \A n \in 1 .. MaxOutputs : IsCellPool(ptrsPool[n])
  BY DEF IndInv, Shapes, Pools, IsCellPool
<1>5. /\ IsCellPool(rawPool') /\ IsSound(rawPool')
      /\ rawPool'.cut = rawPool.cut
      /\ InUse(rawPool') = InUse(rawPool) \ {Copy(Head(tx.ins))}
  BY <1>1, <1>2, <1>3, <1>4, FreeIsSound
<1>6. CASE ~AllSpent
  <2>1. Gone = {} /\ UNCHANGED <<ptrsPool, chunkPool, hashPool>>
    BY <1>1, <1>6 DEF Gone
  <2>2. ArraysInUse' = ArraysInUse
    BY <2>1 DEF ArraysInUse
  <2>3. QED
    BY <1>3, <1>4, <1>5, <2>1, <2>2
<1>7. CASE AllSpent
  <2>1. /\ Gone = {x} /\ chunkPool' = Free(chunkPool, ChunkCell(x))
        /\ hashPool' = Free(hashPool, KeyCell(x))
        /\ ptrsPool' = [ptrsPool EXCEPT ![a[1]] = Free(@, a[2])]
    BY <1>1, <1>2, <1>7 DEF Gone
  <2>2. /\ IsCellPool(hashPool') /\ IsSound(hashPool')
        /\ hashPool'.cut = hashPool.cut
        /\ InUse(hashPool') = InUse(hashPool) \ {KeyCell(x)}
    BY <1>3, <1>4, <2>1, FreeIsSound
  <2>3. /\ IsCellPool(chunkPool') /\ IsSound(chunkPool')
        /\ chunkPool'.cut = chunkPool.cut
        /\ InUse(chunkPool') = InUse(chunkPool) \ {ChunkCell(x)}
    BY <1>3, <1>4, <2>1, FreeIsSound
  <2>4. /\ a[1] \in 1 .. MaxOutputs /\ a[2] \in InUse(ptrsPool[a[1]])
        /\ a = <<a[1], a[2]>>
    BY <1>2, <1>3 DEF Array, ArraysInUse
  <2> DEFINE p == Free(ptrsPool[a[1]], a[2])
  <2>5. /\ IsCellPool(p) /\ IsSound(p) /\ p.cut = ptrsPool[a[1]].cut
        /\ InUse(p) = InUse(ptrsPool[a[1]]) \ {a[2]}
    BY <1>3, <1>4, <2>4, FreeIsSound
  <2> HIDE DEF p
  <2>6. /\ ptrsPool' \in [1 .. MaxOutputs -> Pools]
        /\ ptrsPool'[a[1]] = p
        /\ \A n \in 1 .. MaxOutputs : n # a[1] => ptrsPool'[n] = ptrsPool[n]
    BY <1>4, <2>1, <2>4, <2>5 DEF p, IsCellPool, Pools
  <2>7. \A b \in Array : b \in ArraysInUse' <=> b \in ArraysInUse \ {a}
    <3> SUFFICES ASSUME NEW b \in Array
                 PROVE  b[2] \in InUse(ptrsPool'[b[1]])
                        <=> b[2] \in InUse(ptrsPool[b[1]]) /\ b # a
      BY DEF ArraysInUse
    <3>1. b[1] \in 1 .. MaxOutputs /\ b = <<b[1], b[2]>>
      BY DEF Array
    <3>2. CASE b[1] = a[1]
      BY <2>4, <2>5, <2>6, <3>1, <3>2
    <3>3. CASE b[1] # a[1]
      BY <2>4, <2>6, <3>1, <3>3
    <3>4. QED
      BY <3>2, <3>3
  <2>8. ArraysInUse' = ArraysInUse \ {a}
    BY <2>7 DEF ArraysInUse
  <2>9. /\ \A n \in 1 .. MaxOutputs : IsSound(ptrsPool'[n])
        /\ \A n \in 1 .. MaxOutputs : ptrsPool'[n].cut = ptrsPool[n].cut
    BY <1>3, <2>5, <2>6
  <2>10. QED
    BY <1>2, <1>5, <2>1, <2>2, <2>3, <2>6, <2>8, <2>9
<1>8. QED
  BY <1>6, <1>7

LEMMA ParseInputStep ==
  ASSUME IndInv, ParseInput
  PROVE  IndInv'
<1> DEFINE o == Head(tx.ins)
<1>0. /\ InputLeft /\ InputDone /\ SpendsHeld
      /\ edge' = [spends |-> o, shows |-> raw[upSlot]]
      /\ slots' = SlotNulled
      /\ UNCHANGED <<chainVars, pc, hashCell, mRawData, raw>>
  BY DEF ParseInput, SpendsHeld
<1>1. /\ pc = "inputs" /\ pc' = "inputs"
      /\ tx' \in Txs /\ tx'.ins \in Seq(Outpoint \union {GenInput})
      /\ tx'.hash = tx.hash /\ tx'.cell = tx.cell /\ tx'.outs = tx.outs
      /\ ToSet(tx.ins) = {o} \union ToSet(tx'.ins)
      /\ IsInjective(tx.ins) => IsInjective(tx'.ins) /\ o \notin ToSet(tx'.ins)
      /\ \A i \in 1 .. Len(tx'.ins) :
            tx'.ins[i] # GenInput =>
                tx'.ins[i][2] <= nbOutputs[tx'.ins[i][1]]
  BY <1>0, InputRead DEF Txs
<1>2. /\ upTXHash \in Entries /\ upArray = ArrayOf(upTXHash)
      /\ upArray \in Array /\ o \in Held /\ o \in Outpoint
      /\ Copy(o) = upSlot /\ raw[upSlot] = o
  BY <1>0, SpentOutput DEF Held
<1>3. /\ Entries' = Entries \ Gone /\ Gone \subseteq Entries
      /\ \A y \in Entries' :
             KeyCell(y)' = KeyCell(y) /\ ChunkCell(y)' = ChunkCell(y)
             /\ ArrayOf(y)' = ArrayOf(y)
      /\ gTXOMap' \in [TxHash -> [key : 1 .. MaxTxs, chunk : 1 .. MaxTxs]
                                    \union {NoTxo}]
      /\ Held' = Held \ {o}
      /\ \A p \in Held' : Copy(p)' = Copy(p)
  BY EntriesAfterInput
<1>4. /\ SlotNulled = [b \in Array |-> SlotNulled[b]]
      /\ \A b \in Array : SlotNulled[b] \in [1 .. b[1] -> 0 .. MaxRaw]
      /\ \A b \in Array : b # upArray => SlotNulled[b] = slots[b]
  BY <1>0, SlotCleared
<1> HIDE DEF o
<1> USE DEF chainVars
<1>5. Shapes' /\ PoolsAreSmall'
  BY <1>0, <1>1, <1>4, MemoryAfterInput
     DEF IndInv, Shapes, Pools, IsCellPool, PoolsAreSmall, NbStored
<1>6. ChainIsSound' /\ EntriesAreFaithful'
  BY <1>0, <1>3 DEF IndInv, ChainIsSound, NbHashes, EntriesAreFaithful
<1>7. LocalsAreSound' /\ InputsAreCoins'
  BY <1>0, <1>1, <1>3 DEF IndInv, LocalsAreSound, Parsing, NbHashes,
     InputsAreCoins
<1>8. KeysAreIntact'
  <2>1. \A x \in Entries : KeyCell(x) # tx.cell
    BY <1>1 DEF IndInv, LocalsAreSound, Parsing
  <2>2. tx.cell \in InUse(hashPool')
    BY <1>1, <1>3, <2>1, MemoryAfterInput DEF IndInv, KeysAreIntact
  <2>3. QED
    BY <1>0, <1>1, <1>3, <2>2 DEF IndInv, KeysAreIntact
<1>9. NoSharedMemory'
  <2>1. /\ \A x, y \in Entries : x # y =>
              /\ KeyCell(x) # KeyCell(y)
              /\ ChunkCell(x) # ChunkCell(y)
              /\ ArrayOf(x) # ArrayOf(y)
        /\ \A x \in Entries :
              /\ KeyCell(x) \in InUse(hashPool)
              /\ ChunkCell(x) \in InUse(chunkPool)
              /\ ArrayOf(x) \in ArraysInUse
    BY DEF IndInv, NoSharedMemory
  <2>2. \A x \in Entries' :
              /\ KeyCell(x) \in InUse(hashPool')
              /\ ChunkCell(x) \in InUse(chunkPool')
              /\ ArrayOf(x) \in ArraysInUse'
    BY <1>3, <2>1, MemoryAfterInput
  <2>3. /\ \A p \in Held : Copy(p) \in InUse(rawPool)
        /\ \A p, q \in Held : p # q => Copy(p) # Copy(q)
    BY DEF IndInv, NoSharedMemory
  <2>4. \A p \in Held' : Copy(p) \in InUse(rawPool')
    BY <1>2, <1>3, <2>3, MemoryAfterInput DEF o
  <2>5. QED
    BY <1>3, <2>1, <2>2, <2>3, <2>4, MemoryAfterInput DEF NoSharedMemory
<1>10. FreeArraysAreNull'
  <2> SUFFICES ASSUME NEW b \in Array \ ArraysInUse', NEW i \in 1 .. b[1]
               PROVE  slots'[b][i] = NullCell
    BY DEF FreeArraysAreNull
  <2>1. CASE b \notin ArraysInUse
    <3>1. upArray \in ArraysInUse
      BY <1>2 DEF IndInv, NoSharedMemory
    <3>2. slots'[b] = slots[b]
      BY <1>0, <1>4, <2>1, <3>1
    <3>3. QED
      BY <2>1, <3>2 DEF IndInv, FreeArraysAreNull
  <2>2. CASE b \in ArraysInUse
    <3>1. AllSpent /\ b = upArray
      BY <1>2, <2>2, MemoryAfterInput DEF Gone
    <3>2. QED
      BY <1>0, <3>1 DEF AllSpent
  <2>3. QED
    BY <2>1, <2>2
<1>11. NoLeak'
  <2> SUFFICES ASSUME nbRepeats = 0
               PROVE  /\ InUse(hashPool') = {KeyCell(x) : x \in Entries'}
                              \union {tx.cell}
                      /\ InUse(chunkPool') = {ChunkCell(x) : x \in Entries'}
                      /\ ArraysInUse' = {ArrayOf(x) : x \in Entries'}
                      /\ InUse(rawPool') = {Copy(p) : p \in Held'}
    BY <1>0, <1>1, <1>3 DEF NoLeak
  <2>1. /\ InUse(hashPool) = {KeyCell(x) : x \in Entries} \union {tx.cell}
        /\ InUse(chunkPool) = {ChunkCell(x) : x \in Entries}
        /\ ArraysInUse = {ArrayOf(x) : x \in Entries}
        /\ InUse(rawPool) = {Copy(p) : p \in Held}
    BY <1>1 DEF IndInv, NoLeak
  <2>2. \A x \in Entries : KeyCell(x) # tx.cell
    BY <1>1 DEF IndInv, LocalsAreSound, Parsing
  <2>3. \A x, y \in Entries : x # y =>
              /\ KeyCell(x) # KeyCell(y)
              /\ ChunkCell(x) # ChunkCell(y)
              /\ ArrayOf(x) # ArrayOf(y)
    BY DEF IndInv, NoSharedMemory
  <2>4. \A p, q \in Held : p # q => Copy(p) # Copy(q)
    BY DEF IndInv, NoSharedMemory
  <2>5. InUse(hashPool') = {KeyCell(x) : x \in Entries'} \union {tx.cell}
    BY <1>3, <2>1, <2>2, <2>3, MemoryAfterInput
  <2>6. InUse(chunkPool') = {ChunkCell(x) : x \in Entries'}
    BY <1>3, <2>1, <2>3, MemoryAfterInput
  <2>7. ArraysInUse' = {ArrayOf(x) : x \in Entries'}
    BY <1>3, <2>1, <2>3, MemoryAfterInput
  <2>8. InUse(rawPool') = {Copy(p) : p \in Held'}
    BY <1>2, <1>3, <2>1, <2>4, MemoryAfterInput DEF o
  <2>9. QED
    BY <2>5, <2>6, <2>7, <2>8
<1>12. EdgeIsGenuine' /\ IndexIsCoins' /\ CleanChainIsParsed'
  <2>1. EdgeIsGenuine'
    BY <1>0, <1>2 DEF EdgeIsGenuine, o
  <2>2. CleanChainIsParsed'
    BY <1>1 DEF CleanChainIsParsed, Running
  <2>3. clean => /\ Held = coins \union (ToSet(tx.ins) \ {GenInput})
                 /\ o \notin coins /\ o \notin ToSet(tx'.ins)
    BY <1>1 DEF IndInv, IndexIsCoins, Running, InputsAreCoins
  <2>4. o # GenInput
    BY <1>2, GenInputs
  <2>5. clean => Held \ {o} = coins \union (ToSet(tx'.ins) \ {GenInput})
    BY <1>1, <2>3, <2>4
  <2>6. QED
    BY <1>0, <1>1, <1>3, <2>1, <2>2, <2>5 DEF IndexIsCoins
<1>13. TypeOK'
  <2>1. OtherTypes'
    BY <1>0, <1>1, <1>3, <1>4 DEF OtherTypes, IndInv, TypeOK
  <2>2. QED
    BY <1>5, <1>7, <1>9, <2>1, TypeFromParts, PTL
<1>14. QED
  BY <1>5, <1>6, <1>7, <1>8, <1>9, <1>10, <1>11, <1>12, <1>13 DEF IndInv

-----------------------------------------------------------------------------
(* The outputs. *)

(* The cells the entry of the transaction is made of. *)
NewChunk == Cell(chunkPool)
NewArray == <<nbOutputs[tx.hash], Cell(ptrsPool[nbOutputs[tx.hash]])>>

(* The TXChunk and the array are taken from nobody. *)
LEMMA MemoryAfterStart ==
  ASSUME IndInv, StartOutputs
  PROVE  /\ IsCellPool(chunkPool') /\ IsSound(chunkPool')
         /\ ptrsPool' \in [1 .. MaxOutputs -> Pools]
         /\ \A n \in 1 .. MaxOutputs : IsSound(ptrsPool'[n])
         /\ chunkPool'.cut <= nbTxs
         /\ \A n \in 1 .. MaxOutputs : ptrsPool'[n].cut <= nbTxs
         /\ NewChunk \in 1 .. MaxTxs /\ NewChunk \notin InUse(chunkPool)
         /\ InUse(chunkPool') = InUse(chunkPool) \union {NewChunk}
         /\ NewArray \in Array /\ NewArray \notin ArraysInUse
         /\ NewArray[1] = nbOutputs[tx.hash]
         /\ ArraysInUse' = ArraysInUse \union {NewArray}
<1> DEFINE n == nbOutputs[tx.hash]  p == ptrsPool[n]  q == Alloc(p)
           c == Cell(p)
<1>1. /\ pc = "inputs" /\ chunkPool' = Alloc(chunkPool)
      /\ ptrsPool' = [ptrsPool EXCEPT ![n] = q]
  BY DEF StartOutputs
<1>2. /\ nbTxs \in 1 .. MaxTxs /\ tx.hash \in TxHash /\ n \in 1 .. MaxOutputs
  <2>1. /\ nbTxs \in 0 .. MaxTxs /\ nbTxs > 0 /\ tx.hash \in 1 .. NbHashes
        /\ NbHashes \in Int /\ NbHashes <= nbTxs
    BY <1>1 DEF IndInv, TypeOK, LocalsAreSound, Parsing, NbHashes
  <2>2. tx.hash \in TxHash
    BY <2>1 DEF TxHash
  <2>3. n \in 0 .. MaxOutputs /\ n > 0
    BY <2>1, <2>2 DEF IndInv, TypeOK, ChainIsSound
  <2>4. QED
    BY <2>1, <2>2, <2>3
<1>3. /\ IsCellPool(chunkPool) /\ IsSound(chunkPool)
      /\ ptrsPool \in [1 .. MaxOutputs -> Pools]
      /\ \A m \in 1 .. MaxOutputs : IsCellPool(ptrsPool[m]) /\ IsSound(ptrsPool[m])
  BY DEF IndInv, Shapes, Pools, IsCellPool, NoSharedMemory
<1>4. /\ chunkPool.cut <= nbTxs - 1 /\ chunkPool.cut \in Nat
      /\ \A m \in 1 .. MaxOutputs :
              ptrsPool[m].cut <= nbTxs - 1 /\ ptrsPool[m].cut \in Nat
  BY <1>1, <1>3 DEF IndInv, PoolsAreSmall, NbStored, IsCellPool
<1>5. /\ IsCellPool(chunkPool') /\ IsSound(chunkPool')
      /\ NewChunk \notin InUse(chunkPool)
      /\ InUse(chunkPool') = InUse(chunkPool) \union {NewChunk}
      /\ NewChunk \in 1 .. chunkPool'.cut
      /\ chunkPool'.cut \in {chunkPool.cut, chunkPool.cut + 1}
  BY <1>1, <1>3, AllocIsSound DEF NewChunk
<1>6. chunkPool'.cut <= nbTxs /\ NewChunk \in 1 .. MaxTxs
  BY <1>2, <1>4, <1>5
<1>7. /\ IsCellPool(q) /\ IsSound(q) /\ c \notin InUse(p)
      /\ InUse(q) = InUse(p) \union {c}
      /\ c \in 1 .. q.cut /\ q.cut \in {p.cut, p.cut + 1}
  BY <1>2, <1>3, AllocIsSound
<1>8. NewArray = <<n, c>>
  BY DEF NewArray
<1>9. q.cut <= nbTxs /\ c \in 1 .. MaxTxs
  BY <1>2, <1>4, <1>7
<1> HIDE DEF n, p, q, c
<1>10. NewArray \in Array /\ NewArray \notin ArraysInUse
  BY <1>2, <1>7, <1>8, <1>9 DEF Array, ArraysInUse, p
<1>11. /\ ptrsPool' \in [1 .. MaxOutputs -> Pools] /\ ptrsPool'[n] = q
       /\ \A m \in 1 .. MaxOutputs : m # n => ptrsPool'[m] = ptrsPool[m]
  BY <1>1, <1>2, <1>3, <1>7 DEF IsCellPool, Pools
<1>12. /\ \A m \in 1 .. MaxOutputs : IsSound(ptrsPool'[m])
       /\ \A m \in 1 .. MaxOutputs : ptrsPool'[m].cut <= nbTxs
  <2> SUFFICES ASSUME NEW m \in 1 .. MaxOutputs
               PROVE  IsSound(ptrsPool'[m]) /\ ptrsPool'[m].cut <= nbTxs
    OBVIOUS
  <2>1. CASE m = n
    BY <1>7, <1>9, <1>11, <2>1
  <2>2. CASE m # n
    BY <1>2, <1>3, <1>4, <1>11, <2>2
  <2>3. QED
    BY <2>1, <2>2
<1>13. ArraysInUse' = ArraysInUse \union {NewArray}
  <2>1. ASSUME NEW b \in Array
        PROVE  b[2] \in InUse(ptrsPool'[b[1]])
               <=> b[2] \in InUse(ptrsPool[b[1]]) \/ b = NewArray
    <3>1. b[1] \in 1 .. MaxOutputs /\ b = <<b[1], b[2]>>
      BY DEF Array
    <3>2. CASE b[1] = n
      BY <1>7, <1>8, <1>11, <3>1, <3>2 DEF p
    <3>3. CASE b[1] # n
      BY <1>8, <1>11, <3>1, <3>3
    <3>4. QED
      BY <3>2, <3>3
  <2>2. QED
    BY <1>10, <2>1 DEF ArraysInUse
<1>14. QED
  BY <1>5, <1>6, <1>8, <1>10, <1>11, <1>12, <1>13 DEF n

(* The entry replaces that of a repeated coinbase transaction, whose copies *)
(* are out of reach then; the others stay.                                  *)
LEMMA EntriesAfterStart ==
  ASSUME IndInv, StartOutputs
  PROVE  /\ tx.hash \in TxHash /\ tx.hash <= NbHashes
         /\ gTXOMap' \in [TxHash -> [key : 1 .. MaxTxs, chunk : 1 .. MaxTxs]
                                       \union {NoTxo}]
         /\ mRawData' \in [1 .. MaxTxs -> Array \union {NoArray}]
         /\ Entries' = Entries \union {tx.hash}
         /\ KeyCell(tx.hash)' =
                IF tx.hash \in Entries THEN KeyCell(tx.hash) ELSE tx.cell
         /\ ChunkCell(tx.hash)' = NewChunk
         /\ ArrayOf(tx.hash)' = NewArray
         /\ \A x \in Entries : x # tx.hash =>
                KeyCell(x)' = KeyCell(x) /\ ChunkCell(x)' = ChunkCell(x)
                /\ ArrayOf(x)' = ArrayOf(x)
         /\ Held' = {o \in Held : o[1] # tx.hash}
         /\ \A o \in Held' : Copy(o)' = Copy(o)
         /\ \A i \in 1 .. NewArray[1] : slots[NewArray][i] = NullCell
<1> DEFINE h == tx.hash
           e == [key |-> KeyOf(tx.hash), chunk |-> NewChunk]
<1>1. /\ pc = "inputs" /\ slots' = slots /\ tx' = tx
      /\ gTXOMap' = [gTXOMap EXCEPT ![h] = e]
      /\ mRawData' = [mRawData EXCEPT ![NewChunk] = NewArray]
  BY DEF StartOutputs, NewChunk, NewArray
<1>2. /\ NewChunk \in 1 .. MaxTxs /\ NewChunk \notin InUse(chunkPool)
      /\ NewArray \in Array /\ NewArray \notin ArraysInUse
  BY MemoryAfterStart
<1>3. h \in TxHash /\ h <= NbHashes
  BY <1>1 DEF IndInv, TypeOK, LocalsAreSound, Parsing, NbHashes, TxHash
<1>4. /\ gTXOMap \in [TxHash -> [key : 1 .. MaxTxs, chunk : 1 .. MaxTxs]
                                   \union {NoTxo}]
      /\ mRawData \in [1 .. MaxTxs -> Array \union {NoArray}]
  BY DEF IndInv, TypeOK
<1>5. KeyOf(h) = IF h \in Entries THEN KeyCell(h) ELSE tx.cell
  BY <1>3 DEF KeyOf, Entries, KeyCell
<1>6. KeyOf(h) \in 1 .. MaxTxs
  <2>1. tx.cell \in InUse(hashPool)
    BY <1>1 DEF IndInv, KeysAreIntact
  <2>2. KeyOf(h) \in InUse(hashPool)
    BY <1>5, <2>1 DEF IndInv, NoSharedMemory
  <2>3. hashPool.cut \in 0 .. MaxTxs
    BY DEF IndInv, TypeOK, IsPool
  <2>4. QED
    BY <2>2, <2>3 DEF InUse
<1>7. e \in [key : 1 .. MaxTxs, chunk : 1 .. MaxTxs] /\ e # NoTxo
  BY <1>2, <1>6, NoTxoAssumption
<1>8. /\ gTXOMap' \in [TxHash -> [key : 1 .. MaxTxs, chunk : 1 .. MaxTxs]
                                    \union {NoTxo}]
      /\ gTXOMap'[h] = e
      /\ \A x \in TxHash : x # h => gTXOMap'[x] = gTXOMap[x]
  BY <1>1, <1>3, <1>4, <1>7
<1>9. /\ mRawData' \in [1 .. MaxTxs -> Array \union {NoArray}]
      /\ mRawData'[NewChunk] = NewArray
      /\ \A c \in 1 .. MaxTxs : c # NewChunk => mRawData'[c] = mRawData[c]
  BY <1>1, <1>2, <1>4
<1>10. Entries' = Entries \union {h}
  BY <1>3, <1>7, <1>8 DEF Entries
<1>11. /\ KeyCell(h)' = KeyOf(h) /\ ChunkCell(h)' = NewChunk
       /\ ArrayOf(h)' = NewArray
  BY <1>1, <1>8, <1>9 DEF KeyCell, ChunkCell, ArrayOf
<1> HIDE DEF e
<1>12. \A x \in Entries : x # h =>
           KeyCell(x)' = KeyCell(x) /\ ChunkCell(x)' = ChunkCell(x)
           /\ ArrayOf(x)' = ArrayOf(x)
  <2> SUFFICES ASSUME NEW x \in Entries, x # h
               PROVE  KeyCell(x)' = KeyCell(x) /\ ChunkCell(x)' = ChunkCell(x)
                      /\ ArrayOf(x)' = ArrayOf(x)
    OBVIOUS
  <2>1. gTXOMap'[x] = gTXOMap[x]
    BY <1>8 DEF Entries
  <2>2. gTXOMap[x] \in [key : 1 .. MaxTxs, chunk : 1 .. MaxTxs]
    BY <1>4 DEF Entries
  <2>3. gTXOMap[x].chunk # NewChunk
    BY <1>2 DEF IndInv, NoSharedMemory, ChunkCell
  <2>4. QED
    BY <1>9, <2>1, <2>2, <2>3 DEF KeyCell, ChunkCell, ArrayOf
<1>13. \A i \in 1 .. NewArray[1] : slots[NewArray][i] = NullCell
  BY <1>2 DEF IndInv, FreeArraysAreNull
<1>14. ASSUME NEW o \in Outpoint
       PROVE  /\ o \in Held' <=> o \in Held /\ o[1] # h
              /\ o \in Held' => Copy(o)' = Copy(o)
  <2>1. CASE o[1] = h
    <3>1. o[2] <= NewArray[1] => slots'[NewArray][o[2]] = NullCell
      BY <1>1, <1>2, <1>13 DEF Outpoint, Array
    <3>2. o \notin Held'
      BY <1>1, <1>11, <2>1, <3>1 DEF Held
    <3>3. QED
      BY <2>1, <3>2
  <2>2. CASE o[1] # h
    <3>1. CASE o[1] \in Entries
      BY <1>1, <1>10, <1>12, <2>2, <3>1 DEF Held, Copy
    <3>2. CASE o[1] \notin Entries
      BY <1>10, <2>2, <3>2 DEF Held
    <3>3. QED
      BY <3>1, <3>2
  <2>3. QED
    BY <2>1, <2>2
<1>15. /\ Held' = {o \in Held : o[1] # h}
       /\ \A o \in Held' : Copy(o)' = Copy(o)
  <2>1. Held \subseteq Outpoint /\ Held' \subseteq Outpoint
    BY DEF Held
  <2>2. QED
    BY <1>14, <2>1
<1>16. QED
  BY <1>3, <1>5, <1>8, <1>9, <1>10, <1>11, <1>12, <1>13, <1>15

LEMMA StartOutputsStep ==
  ASSUME IndInv, StartOutputs
  PROVE  IndInv'
<1> DEFINE h == tx.hash
<1>0. /\ pc = "inputs" /\ tx.ins = <<>> /\ pc' = "outputs"
      /\ coins' = {o \in coins : o[1] # h}
      /\ UNCHANGED <<nbOutputs, coinbases, nbTxs, nbRepeats, clean, tx, hashMem,
                     slots, rawMem, edge>>
  BY DEF StartOutputs
<1> USE DEF hashMem, rawMem
<1>1. /\ h \in TxHash /\ h <= NbHashes
      /\ gTXOMap' \in [TxHash -> [key : 1 .. MaxTxs, chunk : 1 .. MaxTxs]
                                    \union {NoTxo}]
      /\ mRawData' \in [1 .. MaxTxs -> Array \union {NoArray}]
      /\ Entries' = Entries \union {h}
      /\ KeyCell(h)' = IF h \in Entries THEN KeyCell(h) ELSE tx.cell
      /\ ChunkCell(h)' = NewChunk /\ ArrayOf(h)' = NewArray
      /\ \A x \in Entries : x # h =>
             KeyCell(x)' = KeyCell(x) /\ ChunkCell(x)' = ChunkCell(x)
             /\ ArrayOf(x)' = ArrayOf(x)
      /\ Held' = {o \in Held : o[1] # h}
      /\ \A o \in Held' : Copy(o)' = Copy(o)
      /\ \A i \in 1 .. NewArray[1] : slots[NewArray][i] = NullCell
  BY EntriesAfterStart
<1>2. /\ IsCellPool(chunkPool') /\ IsSound(chunkPool')
      /\ ptrsPool' \in [1 .. MaxOutputs -> Pools]
      /\ \A n \in 1 .. MaxOutputs : IsSound(ptrsPool'[n])
      /\ chunkPool'.cut <= nbTxs
      /\ \A n \in 1 .. MaxOutputs : ptrsPool'[n].cut <= nbTxs
      /\ NewChunk \notin InUse(chunkPool)
      /\ InUse(chunkPool') = InUse(chunkPool) \union {NewChunk}
      /\ NewArray \in Array /\ NewArray \notin ArraysInUse
      /\ NewArray[1] = nbOutputs[h]
      /\ ArraysInUse' = ArraysInUse \union {NewArray}
  BY MemoryAfterStart
<1>3. /\ hashCell[tx.cell] = h /\ tx.cell \in InUse(hashPool)
      /\ tx.outs = 0 /\ nbTxs \in Nat
      /\ \A x \in Entries : KeyCell(x) # tx.cell
      /\ nbRepeats = 0 => h \notin Entries
  BY <1>0 DEF IndInv, KeysAreIntact, LocalsAreSound, Parsing, TypeOK
<1>a. h' = h
  BY <1>0
<1> HIDE DEF h
<1>4. Shapes' /\ PoolsAreSmall'
  <2>1. Shapes'
    BY <1>0, <1>2 DEF IndInv, Shapes, Pools, IsCellPool
  <2>2. hashPool.cut <= nbTxs /\ rawPool.cut <= (nbTxs - 1) * MaxOutputs
    BY <1>0 DEF IndInv, PoolsAreSmall, NbStored
  <2>3. PoolsAreSmall'
    <3>1. nbTxs - 1 \in Nat
      BY <1>0 DEF IndInv, TypeOK, LocalsAreSound, Parsing
    <3>2. (nbTxs - 1) * MaxOutputs \in Nat
      BY <3>1, ProductIsMonotonic
    <3>3. QED
      BY <1>0, <1>2, <1>3, <2>2, <3>2 DEF PoolsAreSmall, NbStored
  <2>4. QED
    BY <2>1, <2>3
<1>5. ChainIsSound'
  BY <1>0, <1>1 DEF IndInv, ChainIsSound, NbHashes
<1>6. EntriesAreFaithful'
  <2>1. \A x \in Entries' : ArrayOf(x)' \in Array
                            /\ ArrayOf(x)'[1] = nbOutputs[x]
    BY <1>a, <1>0, <1>1, <1>2 DEF IndInv, EntriesAreFaithful
  <2>2. \A o \in Held' : raw[Copy(o)'] = o
    BY <1>1 DEF IndInv, EntriesAreFaithful
  <2>3. QED
    BY <1>0, <2>1, <2>2 DEF EntriesAreFaithful
<1>7. LocalsAreSound'
  <2>1. h \in 1 .. NbHashes /\ nbTxs > 0
    BY <1>0 DEF IndInv, LocalsAreSound, Parsing, h
  <2>2. \A x \in Entries' : KeyCell(x)' = tx.cell => x = h
    BY <1>a, <1>1, <1>3
  <2>3. nbOutputs[h] \in Nat
    BY <1>1 DEF IndInv, TypeOK
  <2>4. nbRepeats = 0 => KeyCell(h)' = tx.cell
    BY <1>a, <1>1, <1>3
  <2>5. \A i \in tx.outs + 1 .. nbOutputs[h] : slots[ArrayOf(h)'][i] = NullCell
    BY <1>a, <1>1, <1>2, <1>3
  <2>6. QED
    BY <1>0, <1>1, <1>3, <2>1, <2>2, <2>3, <2>4, <2>5
       DEF LocalsAreSound, Parsing, NbHashes, h
<1>8. InputsAreCoins'
  <2>1. IsInjective(tx.ins) /\ ToSet(tx.ins) = {}
    BY <1>0 DEF IsInjective, ToSet
  <2>2. QED
    BY <1>0, <2>1 DEF InputsAreCoins
<1>9. KeysAreIntact'
  <2>1. \A x \in Entries : hashCell[KeyCell(x)] = x
    BY DEF IndInv, KeysAreIntact
  <2>2. \A x \in Entries' : hashCell[KeyCell(x)'] = x
    BY <1>a, <1>1, <1>3, <2>1
  <2>3. QED
    BY <1>0, <1>3, <2>2 DEF KeysAreIntact, h
<1>10. NoSharedMemory'
  <2>1. /\ \A x, y \in Entries : x # y =>
              /\ KeyCell(x) # KeyCell(y)
              /\ ChunkCell(x) # ChunkCell(y)
              /\ ArrayOf(x) # ArrayOf(y)
        /\ \A x \in Entries :
              /\ KeyCell(x) \in InUse(hashPool)
              /\ ChunkCell(x) \in InUse(chunkPool)
              /\ ArrayOf(x) \in ArraysInUse
        /\ \A o \in Held : Copy(o) \in InUse(rawPool)
        /\ \A o, p \in Held : o # p => Copy(o) # Copy(p)
        /\ IsSound(hashPool) /\ IsSound(rawPool)
    BY DEF IndInv, NoSharedMemory
  <2>2. \A x \in Entries' :
              /\ KeyCell(x)' \in InUse(hashPool)
              /\ ChunkCell(x)' \in InUse(chunkPool')
              /\ ArrayOf(x)' \in ArraysInUse'
    BY <1>a, <1>1, <1>2, <1>3, <2>1
  <2>3. \A y \in Entries : y # h =>
              /\ KeyCell(h)' # KeyCell(y)
              /\ ChunkCell(h)' # ChunkCell(y)
              /\ ArrayOf(h)' # ArrayOf(y)
    BY <1>a, <1>1, <1>2, <1>3, <2>1
  <2>4. ASSUME NEW x \in Entries', NEW y \in Entries', x # y
        PROVE  /\ KeyCell(x)' # KeyCell(y)'
               /\ ChunkCell(x)' # ChunkCell(y)'
               /\ ArrayOf(x)' # ArrayOf(y)'
    <3>1. CASE x # h /\ y # h
      BY <1>1, <2>1, <2>4, <3>1
    <3>2. CASE x = h
      BY <1>a, <1>1, <2>3, <2>4, <3>2
    <3>3. CASE y = h
      BY <1>a, <1>1, <2>3, <2>4, <3>3
    <3>4. QED
      BY <3>1, <3>2, <3>3
  <2>5. QED
    BY <1>0, <1>1, <1>2, <2>1, <2>2, <2>4 DEF NoSharedMemory
<1>11. FreeArraysAreNull'
  BY <1>0, <1>2 DEF IndInv, FreeArraysAreNull
<1>12. NoLeak'
  <2> SUFFICES ASSUME nbRepeats = 0
               PROVE  /\ InUse(hashPool) = {KeyCell(x)' : x \in Entries'}
                              \union {tx.cell}
                      /\ InUse(chunkPool') = {ChunkCell(x)' : x \in Entries'}
                      /\ ArraysInUse' = {ArrayOf(x)' : x \in Entries'}
                      /\ InUse(rawPool) = {Copy(o)' : o \in Held'}
    BY <1>0 DEF NoLeak
  <2>1. /\ InUse(hashPool) = {KeyCell(x) : x \in Entries} \union {tx.cell}
        /\ InUse(chunkPool) = {ChunkCell(x) : x \in Entries}
        /\ ArraysInUse = {ArrayOf(x) : x \in Entries}
        /\ InUse(rawPool) = {Copy(o) : o \in Held}
    BY <1>0 DEF IndInv, NoLeak
  <2>2. /\ h \notin Entries /\ KeyCell(h)' = tx.cell
        /\ \A x \in Entries :
               KeyCell(x)' = KeyCell(x) /\ ChunkCell(x)' = ChunkCell(x)
               /\ ArrayOf(x)' = ArrayOf(x)
    BY <1>a, <1>1, <1>3
  <2>3. Held' = Held
    BY <1>1, <2>2 DEF Held
  <2>4. InUse(hashPool) = {KeyCell(x)' : x \in Entries'} \union {tx.cell}
    BY <1>a, <1>1, <2>1, <2>2
  <2>5. InUse(chunkPool') = {ChunkCell(x)' : x \in Entries'}
    BY <1>a, <1>1, <1>2, <2>1, <2>2
  <2>6. ArraysInUse' = {ArrayOf(x)' : x \in Entries'}
    BY <1>a, <1>1, <1>2, <2>1, <2>2
  <2>7. InUse(rawPool) = {Copy(o)' : o \in Held'}
    BY <1>1, <2>1, <2>3
  <2>8. QED
    BY <2>4, <2>5, <2>6, <2>7
<1>13. EdgeIsGenuine' /\ IndexIsCoins' /\ CleanChainIsParsed'
  <2>1. EdgeIsGenuine' /\ CleanChainIsParsed'
    BY <1>0 DEF IndInv, EdgeIsGenuine, CleanChainIsParsed, Running
  <2>2. ToSet(tx.ins) = {}
    BY <1>0 DEF ToSet
  <2>3. clean => Held = coins
    BY <1>0, <2>2 DEF IndInv, IndexIsCoins, Running
  <2>4. clean => Held' = coins'
    BY <1>0, <1>1, <2>3
  <2>5. QED
    BY <1>0, <2>1, <2>2, <2>4 DEF IndexIsCoins
<1>14. TypeOK'
  <2>1. OtherTypes'
    BY <1>0, <1>1 DEF OtherTypes, IndInv, TypeOK
  <2>2. QED
    BY <1>4, <1>7, <1>10, <2>1, TypeFromParts, PTL
<1>15. QED
  BY <1>4, <1>5, <1>6, <1>7, <1>8, <1>9, <1>10, <1>11, <1>12, <1>13, <1>14
     DEF IndInv

(* The next output of the transaction, and the cell its copy goes to.      *)
NewOutput == <<tx.hash, tx.outs + 1>>
NewCopy   == Cell(rawPool)

LEMMA MemoryAfterOutput ==
  ASSUME IndInv, ParseOutput
  PROVE  /\ IsCellPool(rawPool') /\ IsSound(rawPool')
         /\ NewCopy \in 1 .. MaxRaw /\ NewCopy \notin InUse(rawPool)
         /\ InUse(rawPool') = InUse(rawPool) \union {NewCopy}
         /\ rawPool'.cut <= (nbTxs - 1) * MaxOutputs + tx.outs + 1
         /\ tx.outs \in Nat /\ tx.outs + 1 <= nbOutputs[tx.hash]
         /\ nbOutputs[tx.hash] \in 1 .. MaxOutputs
         /\ tx.hash \in TxHash /\ tx.hash \in Entries
         /\ ArrayOf(tx.hash) \in Array
         /\ ArrayOf(tx.hash)[1] = nbOutputs[tx.hash]
         /\ NewOutput \in Outpoint \ Held
<1>1. /\ pc = "outputs" /\ rawPool' = Alloc(rawPool)
      /\ tx.outs < nbOutputs[tx.hash]
  BY DEF ParseOutput
<1>2. /\ tx.hash \in Entries /\ tx.hash \in TxHash /\ tx.outs \in 0 .. MaxOutputs
      /\ nbOutputs[tx.hash] \in 0 .. MaxOutputs
  BY <1>1 DEF IndInv, LocalsAreSound, Entries, Shapes, Txs, TypeOK
<1>3. nbTxs \in 1 .. MaxTxs
  BY <1>1 DEF IndInv, TypeOK, LocalsAreSound, Parsing
<1>4. /\ tx.outs \in Nat /\ tx.outs + 1 \in 1 .. MaxOutputs
      /\ tx.outs + 1 <= nbOutputs[tx.hash]
      /\ nbOutputs[tx.hash] \in 1 .. MaxOutputs
  BY <1>1, <1>2
<1>5. /\ ArrayOf(tx.hash) \in Array /\ ArrayOf(tx.hash)[1] = nbOutputs[tx.hash]
  BY <1>2 DEF IndInv, EntriesAreFaithful
<1>6. IsCellPool(rawPool) /\ IsSound(rawPool)
  BY DEF IndInv, Shapes, Pools, IsCellPool, NoSharedMemory
<1>7. /\ IsCellPool(rawPool') /\ IsSound(rawPool')
      /\ NewCopy \notin InUse(rawPool)
      /\ InUse(rawPool') = InUse(rawPool) \union {NewCopy}
      /\ NewCopy \in 1 .. rawPool'.cut
      /\ rawPool'.cut \in {rawPool.cut, rawPool.cut + 1}
  BY <1>1, <1>6, AllocIsSound DEF NewCopy
<1>8. rawPool.cut <= (nbTxs - 1) * MaxOutputs + tx.outs /\ rawPool.cut \in Nat
  BY <1>1, <1>6 DEF IndInv, PoolsAreSmall, NbStored, IsCellPool
<1>9. /\ (nbTxs - 1) * MaxOutputs \in Nat /\ MaxRaw \in Nat
      /\ (nbTxs - 1) * MaxOutputs + MaxOutputs <= MaxRaw
  <2>1. /\ nbTxs * MaxOutputs = (nbTxs - 1) * MaxOutputs + MaxOutputs
        /\ (nbTxs - 1) * MaxOutputs \in Nat
    BY <1>3, ProductIsMonotonic
  <2>2. nbTxs * MaxOutputs <= MaxRaw /\ MaxRaw \in Nat
    BY <1>3, ProductIsMonotonic DEF MaxRaw
  <2>3. QED
    BY <2>1, <2>2
<1>10. rawPool'.cut <= (nbTxs - 1) * MaxOutputs + tx.outs + 1
  BY <1>4, <1>7, <1>8, <1>9
<1>11. NewCopy \in 1 .. MaxRaw
  BY <1>4, <1>7, <1>9, <1>10 DEF IsCellPool
<1>12. NewOutput \in Outpoint \ Held
  <2>1. tx.outs + 1 \in tx.outs + 1 .. nbOutputs[tx.hash]
    BY <1>2, <1>4
  <2>2. slots[ArrayOf(tx.hash)][tx.outs + 1] = NullCell
    BY <1>1, <2>1 DEF IndInv, LocalsAreSound
  <2>3. QED
    BY <1>2, <1>4, <2>2 DEF NewOutput, Outpoint, Held
<1>13. QED
  BY <1>2, <1>4, <1>5, <1>7, <1>10, <1>11, <1>12

LEMMA EntriesAfterOutput ==
  ASSUME IndInv, ParseOutput
  PROVE  /\ slots' = [b \in Array |-> slots'[b]]
         /\ \A b \in Array : slots'[b] \in [1 .. b[1] -> 0 .. MaxRaw]
         /\ \A b \in Array : b # ArrayOf(tx.hash) => slots'[b] = slots[b]
         /\ \A j \in 1 .. nbOutputs[tx.hash] : j # tx.outs + 1 =>
                slots'[ArrayOf(tx.hash)][j] = slots[ArrayOf(tx.hash)][j]
         /\ Entries' = Entries
         /\ \A x : KeyCell(x)' = KeyCell(x) /\ ChunkCell(x)' = ChunkCell(x)
                   /\ ArrayOf(x)' = ArrayOf(x)
         /\ Held' = Held \union {NewOutput}
         /\ \A o \in Held : Copy(o)' = Copy(o)
         /\ \A o : o = NewOutput => Copy(o)' = NewCopy
<1> DEFINE h == tx.hash  a == ArrayOf(h)  i == tx.outs + 1
<1>1. /\ slots' = [slots EXCEPT ![a] = [slots[a] EXCEPT ![i] = NewCopy]]
      /\ UNCHANGED <<gTXOMap, mRawData>>
  BY DEF ParseOutput, chunkMem, ArrayOf, NewCopy
<1>2. /\ NewCopy \in 1 .. MaxRaw /\ h \in Entries /\ h \in TxHash
      /\ a \in Array /\ a[1] = nbOutputs[h]
      /\ i \in 1 .. a[1] /\ a[1] \in 1 .. MaxOutputs
      /\ NewOutput \in Outpoint \ Held
  BY MemoryAfterOutput
<1>3. /\ slots = [b \in Array |-> slots[b]]
      /\ \A b \in Array : slots[b] \in [1 .. b[1] -> 0 .. MaxRaw]
  BY DEF IndInv, Shapes, TypeOK
<1>4. /\ Entries' = Entries
      /\ \A x : KeyCell(x)' = KeyCell(x) /\ ChunkCell(x)' = ChunkCell(x)
                /\ ArrayOf(x)' = ArrayOf(x)
  BY <1>1 DEF Entries, KeyCell, ChunkCell, ArrayOf
<1>5. NewOutput = <<h, i>>
  BY DEF NewOutput
<1> HIDE DEF h, a, i
<1>6. /\ slots' = [b \in Array |-> slots'[b]]
      /\ \A b \in Array : b # a => slots'[b] = slots[b]
      /\ slots'[a] = [slots[a] EXCEPT ![i] = NewCopy]
  BY <1>1, <1>2, <1>3
<1>7. /\ slots'[a] \in [1 .. a[1] -> 0 .. MaxRaw]
      /\ slots'[a][i] = NewCopy /\ NewCopy # NullCell
      /\ \A j \in 1 .. a[1] : j # i => slots'[a][j] = slots[a][j]
  <2>1. slots[a] \in [1 .. a[1] -> 0 .. MaxRaw] /\ NewCopy \in 0 .. MaxRaw
    BY <1>2, <1>3
  <2>2. slots'[a] \in [1 .. a[1] -> 0 .. MaxRaw]
    BY <1>6, <2>1
  <2>3. QED
    BY <1>2, <1>6, <2>1, <2>2
<1>8. ASSUME NEW o \in Outpoint
      PROVE  /\ o \in Held' <=> o \in Held \/ o = NewOutput
             /\ o \in Held => Copy(o)' = Copy(o)
             /\ o = NewOutput => Copy(o)' = NewCopy
  <2>1. o = <<o[1], o[2]>> /\ o[2] \in 1 .. MaxOutputs /\ ArrayOf(o[1])' = ArrayOf(o[1])
    BY <1>4 DEF Outpoint
  <2>2. CASE o[1] \in Entries /\ o[1] # h
    <3>1. ArrayOf(o[1]) \in Array /\ ArrayOf(o[1]) # a
      BY <1>2, <2>2 DEF IndInv, EntriesAreFaithful, NoSharedMemory, a
    <3>2. slots'[ArrayOf(o[1])'] = slots[ArrayOf(o[1])]
      BY <1>6, <2>1, <3>1
    <3>3. QED
      BY <1>4, <1>5, <2>1, <2>2, <3>2 DEF Held, Copy
  <2>3. CASE o[1] = h /\ o[2] # i
    <3>1. o[2] <= a[1] => slots'[a][o[2]] = slots[a][o[2]]
      BY <1>2, <1>7, <2>1, <2>3
    <3>2. QED
      BY <1>2, <1>4, <1>5, <2>1, <2>3, <3>1 DEF Held, Copy, a
  <2>4. CASE o[1] = h /\ o[2] = i
    <3>1. o = NewOutput
      BY <1>5, <2>1, <2>4
    <3>2. slots'[ArrayOf(o[1])'][o[2]] = NewCopy
      BY <1>7, <2>1, <2>4 DEF a
    <3>3. QED
      BY <1>2, <1>4, <1>7, <2>1, <2>4, <3>1, <3>2 DEF Held, Copy, a
  <2>5. CASE o[1] \notin Entries
    BY <1>2, <1>4, <1>5, <2>5 DEF Held
  <2>6. QED
    BY <2>2, <2>3, <2>4, <2>5
<1>9. /\ Held' = Held \union {NewOutput}
      /\ \A o \in Held : Copy(o)' = Copy(o)
      /\ \A o : o = NewOutput => Copy(o)' = NewCopy
  <2>1. Held \subseteq Outpoint /\ Held' \subseteq Outpoint
    BY DEF Held
  <2>2. QED
    BY <1>2, <1>8, <2>1
<1>10. \A b \in Array : slots'[b] \in [1 .. b[1] -> 0 .. MaxRaw]
  BY <1>3, <1>6, <1>7
<1>11. QED
  BY <1>2, <1>4, <1>6, <1>7, <1>9, <1>10 DEF h, a, i

LEMMA ParseOutputStep ==
  ASSUME IndInv, ParseOutput
  PROVE  IndInv'
<1> DEFINE h == tx.hash  i == tx.outs + 1
<1>0. /\ pc = "outputs" /\ pc' = "outputs"
      /\ raw' = [raw EXCEPT ![NewCopy] = NewOutput]
      /\ coins' = coins \union {NewOutput}
      /\ tx' = [tx EXCEPT !.outs = i]
      /\ UNCHANGED <<nbOutputs, coinbases, nbTxs, nbRepeats, clean, gTXOMap,
                     hashMem, chunkMem, ptrsPool, edge>>
  BY DEF ParseOutput, NewCopy, NewOutput
<1> USE DEF hashMem, chunkMem
<1>1. /\ slots' = [b \in Array |-> slots'[b]]
      /\ \A b \in Array : slots'[b] \in [1 .. b[1] -> 0 .. MaxRaw]
      /\ \A b \in Array : b # ArrayOf(h) => slots'[b] = slots[b]
      /\ \A j \in 1 .. nbOutputs[h] : j # i =>
             slots'[ArrayOf(h)][j] = slots[ArrayOf(h)][j]
      /\ Entries' = Entries
      /\ \A x : KeyCell(x)' = KeyCell(x) /\ ChunkCell(x)' = ChunkCell(x)
                /\ ArrayOf(x)' = ArrayOf(x)
      /\ Held' = Held \union {NewOutput}
      /\ \A o \in Held : Copy(o)' = Copy(o)
      /\ \A o : o = NewOutput => Copy(o)' = NewCopy
  BY EntriesAfterOutput
<1>2. /\ IsCellPool(rawPool') /\ IsSound(rawPool')
      /\ NewCopy \in 1 .. MaxRaw /\ NewCopy \notin InUse(rawPool)
      /\ InUse(rawPool') = InUse(rawPool) \union {NewCopy}
      /\ rawPool'.cut <= (nbTxs - 1) * MaxOutputs + tx.outs + 1
      /\ tx.outs \in Nat /\ i <= nbOutputs[h]
      /\ nbOutputs[h] \in 1 .. MaxOutputs
      /\ h \in TxHash /\ h \in Entries
      /\ ArrayOf(h) \in Array /\ NewOutput \in Outpoint \ Held
      /\ NewOutput[1] = h /\ NewOutput[2] = i
  BY MemoryAfterOutput DEF NewOutput
<1>3. /\ tx' \in Txs /\ tx'.hash = h /\ tx'.cell = tx.cell /\ tx'.ins = <<>>
      /\ tx'.outs = i /\ tx.ins = <<>>
  <2>1. i \in 0 .. MaxOutputs
    BY <1>2
  <2>2. tx \in Txs /\ tx.ins = <<>>
    BY <1>0 DEF IndInv, Shapes, LocalsAreSound
  <2>3. QED
    BY <1>0, <2>1, <2>2 DEF Txs
<1>a. ArraysInUse' = ArraysInUse
  BY <1>0 DEF ArraysInUse
<1> HIDE DEF h, i
<1>4. Shapes'
  BY <1>0, <1>1, <1>2, <1>3 DEF IndInv, Shapes, Pools, IsCellPool
<1>5. PoolsAreSmall'
  <2>1. /\ hashPool.cut <= nbTxs /\ chunkPool.cut <= nbTxs
        /\ \A n \in 1 .. MaxOutputs : ptrsPool[n].cut <= nbTxs
    BY <1>0 DEF IndInv, PoolsAreSmall, NbStored
  <2>2. (nbTxs - 1) * MaxOutputs \in Nat
    <3>1. nbTxs - 1 \in Nat
      BY <1>0 DEF IndInv, TypeOK, LocalsAreSound, Parsing
    <3>2. QED
      BY <3>1, ProductIsMonotonic
  <2>3. rawPool'.cut <= (nbTxs - 1) * MaxOutputs + i
    BY <1>2, <2>2 DEF IsCellPool, i
  <2>4. QED
    BY <1>0, <1>3, <2>1, <2>3 DEF PoolsAreSmall, NbStored
<1>6. ChainIsSound' /\ EntriesAreFaithful'
  <2>1. ChainIsSound'
    BY <1>0, <1>1, <1>2 DEF IndInv, ChainIsSound, NbHashes
  <2>2. \A o \in Held : raw'[Copy(o)] = o
    <3> SUFFICES ASSUME NEW o \in Held PROVE raw'[Copy(o)] = o
      OBVIOUS
    <3>1. Copy(o) # NewCopy /\ raw[Copy(o)] = o
      BY <1>2 DEF IndInv, NoSharedMemory, EntriesAreFaithful
    <3>2. QED
      BY <1>0, <3>1
  <2>3. raw'[NewCopy] = NewOutput
    BY <1>0, <1>2 DEF IndInv, TypeOK
  <2>4. \A o \in Held' : raw'[Copy(o)'] = o
    BY <1>1, <2>2, <2>3
  <2>5. \A x \in Entries : ArrayOf(x) \in Array
                            /\ ArrayOf(x)[1] = nbOutputs[x]
    BY DEF IndInv, EntriesAreFaithful
  <2>6. QED
    BY <1>0, <1>1, <2>1, <2>4, <2>5 DEF EntriesAreFaithful
<1>7. LocalsAreSound'
  <2>1. \A j \in i + 1 .. nbOutputs[h] : slots'[ArrayOf(h)][j] = NullCell
    <3> SUFFICES ASSUME NEW j \in i + 1 .. nbOutputs[h]
                 PROVE  slots'[ArrayOf(h)][j] = NullCell
      OBVIOUS
    <3>1. j \in 1 .. nbOutputs[h] /\ j # i /\ j \in tx.outs + 1 .. nbOutputs[h]
      BY <1>2 DEF i
    <3>2. slots[ArrayOf(h)][j] = NullCell
      BY <1>0, <3>1 DEF IndInv, LocalsAreSound, h
    <3>3. QED
      BY <1>1, <3>1, <3>2
  <2>2. /\ h \in 1 .. NbHashes /\ nbTxs > 0
        /\ \A x \in Entries : KeyCell(x) = tx.cell => x = h
        /\ nbRepeats = 0 => KeyCell(h) = tx.cell
    BY <1>0 DEF IndInv, LocalsAreSound, Parsing, h
  <2>3. QED
    BY <1>0, <1>1, <1>2, <1>3, <2>1, <2>2
       DEF LocalsAreSound, Parsing, NbHashes
<1>8. InputsAreCoins'
  <2>1. IsInjective(tx'.ins) /\ ToSet(tx'.ins) = {}
    BY <1>3 DEF IsInjective, ToSet
  <2>2. QED
    BY <2>1 DEF InputsAreCoins
<1>9. KeysAreIntact'
  BY <1>0, <1>1, <1>3 DEF IndInv, KeysAreIntact, h
<1>10. NoSharedMemory'
  <2>1. \A o \in Held : Copy(o) \in InUse(rawPool)
    BY DEF IndInv, NoSharedMemory
  <2>2. \A o \in Held' : Copy(o)' \in InUse(rawPool')
    BY <1>1, <1>2, <2>1
  <2>3. \A o, p \in Held' : o # p => Copy(o)' # Copy(p)'
    <3> SUFFICES ASSUME NEW o \in Held', NEW p \in Held', o # p
                 PROVE  Copy(o)' # Copy(p)'
      OBVIOUS
    <3>1. CASE o \in Held /\ p \in Held
      BY <1>1, <3>1 DEF IndInv, NoSharedMemory
    <3>2. CASE o = NewOutput
      BY <1>1, <1>2, <2>1, <3>2
    <3>3. CASE p = NewOutput
      BY <1>1, <1>2, <2>1, <3>3
    <3>4. QED
      BY <1>1, <3>1, <3>2, <3>3
  <2>4. QED
    BY <1>a, <1>0, <1>1, <1>2, <2>2, <2>3 DEF IndInv, NoSharedMemory
<1>11. FreeArraysAreNull'
  <2>1. ArrayOf(h) \in ArraysInUse
    BY <1>2 DEF IndInv, NoSharedMemory
  <2>2. QED
    BY <1>a, <1>1, <2>1 DEF IndInv, FreeArraysAreNull
<1>12. NoLeak'
  <2>1. nbRepeats = 0 => InUse(rawPool') = {Copy(o)' : o \in Held'}
    BY <1>1, <1>2 DEF IndInv, NoLeak
  <2>2. QED
    BY <1>a, <1>0, <1>1, <1>3, <2>1 DEF IndInv, NoLeak
<1>13. EdgeIsGenuine' /\ IndexIsCoins' /\ CleanChainIsParsed'
  <2>1. EdgeIsGenuine' /\ CleanChainIsParsed'
    BY <1>0 DEF IndInv, EdgeIsGenuine, CleanChainIsParsed, Running
  <2>2. ToSet(tx.ins) = {} /\ ToSet(tx'.ins) = {}
    BY <1>3 DEF ToSet
  <2>3. clean => Held = coins
    BY <1>0, <2>2 DEF IndInv, IndexIsCoins, Running
  <2>4. QED
    BY <1>0, <1>1, <2>1, <2>2, <2>3 DEF IndexIsCoins
<1>14. TypeOK'
  <2>1. raw' \in [1 .. MaxRaw -> Outpoint \union {GenInput}]
    BY <1>0, <1>2 DEF IndInv, TypeOK
  <2>2. OtherTypes'
    BY <1>0, <1>1, <1>2, <2>1 DEF OtherTypes, IndInv, TypeOK
  <2>3. QED
    BY <1>4, <1>5, <1>7, <1>10, <2>2, TypeFromParts, PTL
<1>15. QED
  BY <1>4, <1>5, <1>6, <1>7, <1>8, <1>9, <1>10, <1>11, <1>12, <1>13, <1>14
     DEF IndInv

LEMMA EndTXStep ==
  ASSUME IndInv, EndTX
  PROVE  IndInv'
<1>0. /\ pc = "outputs" /\ pc' = "tx" /\ tx' = NoTx
      /\ tx.outs = nbOutputs[tx.hash]
      /\ UNCHANGED <<chainVars, gTXOMap, memVars, edge>>
  BY DEF EndTX
<1> USE DEF chainVars, memVars, hashMem, chunkMem, ptrsMem, rawMem
<1>1. /\ Entries' = Entries /\ Held' = Held
      /\ \A x : KeyCell(x)' = KeyCell(x) /\ ChunkCell(x)' = ChunkCell(x)
                /\ ArrayOf(x)' = ArrayOf(x)
      /\ \A o : Copy(o)' = Copy(o)
  BY <1>0, IndexUntouched
<1>2. ArraysInUse' = ArraysInUse
  BY <1>0 DEF ArraysInUse
<1>3. /\ tx.ins = <<>> /\ tx.hash \in Entries
      /\ nbRepeats = 0 => KeyCell(tx.hash) = tx.cell
      /\ nbTxs \in Nat /\ nbTxs > 0 /\ tx.outs \in 0 .. MaxOutputs
  BY <1>0 DEF IndInv, LocalsAreSound, Parsing, Shapes, Txs, TypeOK
<1>4. NoTx \in Txs /\ NoTx.ins = <<>> /\ NoTx.outs = 0
  BY DEF NoTx, Txs
<1>5. ToSet(<<>>) = {} /\ IsInjective(<<>>)
  BY DEF ToSet, IsInjective
<1>6. Shapes'
  BY <1>0, <1>4 DEF IndInv, Shapes
<1>7. PoolsAreSmall'
  <2>1. nbTxs - 1 \in Nat
    BY <1>3
  <2>2. /\ (nbTxs - 1 + 1) * MaxOutputs = (nbTxs - 1) * MaxOutputs + MaxOutputs
        /\ (nbTxs - 1) * MaxOutputs \in Nat /\ nbTxs - 1 + 1 = nbTxs
    BY <1>3, <2>1, ProductIsMonotonic
  <2>3. /\ rawPool.cut <= (nbTxs - 1) * MaxOutputs + tx.outs
        /\ rawPool.cut \in Nat
    BY <1>0 DEF IndInv, PoolsAreSmall, NbStored, Shapes, Pools
  <2>4. rawPool.cut <= nbTxs * MaxOutputs
    BY <1>3, <2>2, <2>3
  <2>5. QED
    BY <1>0, <2>4 DEF IndInv, PoolsAreSmall, NbStored
<1>8. ChainIsSound' /\ EntriesAreFaithful' /\ LocalsAreSound' /\ InputsAreCoins'
  BY <1>0, <1>1, <1>4, <1>5 DEF IndInv, ChainIsSound, NbHashes,
     EntriesAreFaithful, LocalsAreSound, Parsing, InputsAreCoins
<1>9. KeysAreIntact' /\ NoSharedMemory' /\ FreeArraysAreNull'
  BY <1>0, <1>1, <1>2 DEF IndInv, KeysAreIntact, NoSharedMemory,
     FreeArraysAreNull
<1>10. NoLeak'
  <2>1. nbRepeats = 0 => InUse(hashPool) = {KeyCell(x) : x \in Entries}
    BY <1>0, <1>3 DEF IndInv, NoLeak
  <2>2. QED
    BY <1>0, <1>1, <1>2, <2>1 DEF IndInv, NoLeak
<1>11. EdgeIsGenuine' /\ IndexIsCoins' /\ CleanChainIsParsed'
  <2>1. clean => Held = coins
    BY <1>0, <1>3, <1>5 DEF IndInv, IndexIsCoins, Running
  <2>2. QED
    BY <1>0, <1>1, <1>4, <1>5, <2>1 DEF IndInv, EdgeIsGenuine, IndexIsCoins,
       CleanChainIsParsed, Running
<1>12. TypeOK'
  <2>1. OtherTypes'
    BY <1>0 DEF OtherTypes, IndInv, TypeOK
  <2>2. QED
    BY <1>6, <1>7, <1>8, <1>9, <2>1, TypeFromParts, PTL
<1>13. QED
  BY <1>6, <1>7, <1>8, <1>9, <1>10, <1>11, <1>12 DEF IndInv

LEMMA StutterStep ==
  ASSUME IndInv, UNCHANGED vars
  PROVE  IndInv'
<1> USE DEF vars, chainVars, memVars, hashMem, chunkMem, ptrsMem, rawMem
<1>1. /\ Entries' = Entries /\ Held' = Held
      /\ \A x : KeyCell(x)' = KeyCell(x) /\ ChunkCell(x)' = ChunkCell(x)
                /\ ArrayOf(x)' = ArrayOf(x)
      /\ \A o : Copy(o)' = Copy(o)
  BY IndexUntouched
<1>2. ArraysInUse' = ArraysInUse
  BY DEF ArraysInUse
<1>3. /\ TypeOK' /\ Shapes' /\ PoolsAreSmall'
  BY DEF IndInv, TypeOK, Shapes, PoolsAreSmall, NbStored
<1>4. ChainIsSound' /\ EntriesAreFaithful' /\ LocalsAreSound' /\ InputsAreCoins'
  BY <1>1 DEF IndInv, ChainIsSound, NbHashes, EntriesAreFaithful,
     LocalsAreSound, Parsing, InputsAreCoins
<1>5. KeysAreIntact' /\ NoSharedMemory' /\ FreeArraysAreNull' /\ NoLeak'
  BY <1>1, <1>2 DEF IndInv, KeysAreIntact, NoSharedMemory, FreeArraysAreNull,
     NoLeak
<1>6. EdgeIsGenuine' /\ IndexIsCoins' /\ CleanChainIsParsed'
  BY <1>1 DEF IndInv, EdgeIsGenuine, IndexIsCoins, CleanChainIsParsed, Running
<1>7. QED
  BY <1>3, <1>4, <1>5, <1>6 DEF IndInv

LEMMA NextIndInv == IndInv /\ [Next]_vars => IndInv'
<1> SUFFICES ASSUME IndInv, [Next]_vars PROVE IndInv'
  OBVIOUS
<1>1. ASSUME NEW n \in 1 .. MaxOutputs, StartCoinbase(n) PROVE IndInv'
  BY <1>1, StartCoinbaseStep
<1>2. ASSUME NEW hash \in coinbases, RepeatCoinbase(hash) PROVE IndInv'
  BY <1>2, RepeatCoinbaseStep
<1>3. ASSUME NEW ins \in Inputs, NEW n \in 1 .. MaxOutputs, StartSpend(ins, n)
      PROVE  IndInv'
  BY <1>3, StartSpendStep
<1>4. CASE ParseGenInput
  BY <1>4, ParseGenInputStep
<1>5. CASE MissingUpstream \/ NullOutput
  BY <1>5, FailureStep
<1>6. CASE ParseInput
  BY <1>6, ParseInputStep
<1>7. CASE StartOutputs
  BY <1>7, StartOutputsStep
<1>8. CASE ParseOutput
  BY <1>8, ParseOutputStep
<1>9. CASE EndTX
  BY <1>9, EndTXStep
<1>10. CASE Stopped \/ UNCHANGED vars
  BY <1>10, StutterStep DEF Stopped
<1>11. QED
  BY <1>1, <1>2, <1>3, <1>4, <1>5, <1>6, <1>7, <1>8, <1>9, <1>10 DEF Next

(* The parts of the invariant hold together in every reachable state.      *)
THEOREM IndInvHolds == Spec => []IndInv
BY InitIndInv, NextIndInv, PTL DEF Spec

(* All cells, hashes and inputs are of their types: the pools never cut    *)
(* more cells than the transactions and outputs parsed so far account for. *)
THEOREM TypesHold == Spec => []TypeOK
BY IndInvHolds, PTL DEF IndInv

(* At every moment the index holds the outputs that are unspent by the     *)
(* rules of a clean chain: those a callback may still see spent.           *)
THEOREM HoldsTheCoins == Spec => []IndexIsCoins
BY IndInvHolds, PTL DEF IndInv

(* On a clean chain, repeated coinbase transactions included, parseInput   *)
(* reaches neither errFatal nor a null output.                             *)
THEOREM NeverFailsOnCleanChain == Spec => []CleanChainIsParsed
BY IndInvHolds, PTL DEF IndInv

(* edge shows the bytes of the output that the input spends, on any chain: *)
(* freed cells are reused only when nothing points to them.                *)
THEOREM EdgeShowsTheOutput == Spec => []EdgeIsGenuine
BY IndInvHolds, PTL DEF IndInv

(* gTXOMap's keys are pointers to hashes, and parseTX never overwrites one *)
(* of an entry, nor the hash it passes to the callbacks.                   *)
THEOREM KeysStayIntact == Spec => []KeysAreIntact
BY IndInvHolds, PTL DEF IndInv

(* No cell of any of the allocators has two holders, and none is on a free *)
(* list while it has one.                                                  *)
THEOREM MemoryIsNotShared == Spec => []NoSharedMemory
BY IndInvHolds, PTL DEF IndInv

(* Whatever is in use belongs to an entry, if no coinbase was repeated.    *)
THEOREM NothingIsLost == Spec => []NoLeak
BY IndInvHolds, PTL DEF IndInv

(* An array comes back from the allocator with all its slots null.         *)
THEOREM FreedArraysStayNull == Spec => []FreeArraysAreNull
BY IndInvHolds, PTL DEF IndInv

-----------------------------------------------------------------------------
(* parseTX implements a set of unspent outputs, step by step.              *)

LEMMA InitImplements == Init => Utxo!Init
<1> SUFFICES ASSUME Init PROVE Utxo!Init
  OBVIOUS
<1>1. Entries = {} /\ edge = NoEdge
  BY DEF Init, Entries, TxHash
<1>2. Held = {}
  BY <1>1 DEF Held, Outpoint
<1>3. QED
  BY <1>1, <1>2 DEF Utxo!Init, NoEdge

LEMMA NextImplements == IndInv /\ [Next]_vars => [Utxo!Next]_(Utxo!vars)
<1> SUFFICES ASSUME IndInv, [Next]_vars
             PROVE  Utxo!Next \/ UNCHANGED <<Held, edge.shows>>
  BY DEF Utxo!vars
<1>1. CASE UNCHANGED <<gTXOMap, mRawData, slots, edge>>
  BY <1>1, IndexUntouched
<1>2. CASE ParseInput
  <2>1. /\ Head(tx.ins) \in Held /\ Head(tx.ins) \in Outpoint
        /\ edge'.shows = Head(tx.ins)
    BY <1>2, SpentOutput DEF ParseInput, SpendsHeld, Held
  <2>2. Held' = Held \ {Head(tx.ins)}
    BY <1>2, EntriesAfterInput
  <2>3. Utxo!Spend(Head(tx.ins))
    BY <2>1, <2>2 DEF Utxo!Spend
  <2>4. QED
    BY <2>1, <2>3 DEF Utxo!Next
<1>3. CASE StartOutputs
  <2>1. Utxo!Restart(tx.hash) /\ tx.hash \in TxHash
    BY <1>3, EntriesAfterStart DEF Utxo!Restart, StartOutputs
  <2>2. QED
    BY <2>1 DEF Utxo!Next
<1>4. CASE ParseOutput
  <2>1. Utxo!Create(NewOutput) /\ NewOutput \in Outpoint
    BY <1>4, EntriesAfterOutput, MemoryAfterOutput DEF Utxo!Create, ParseOutput
  <2>2. QED
    BY <2>1 DEF Utxo!Next
<1>5. QED
  <2> USE DEF memVars, chunkMem, ptrsMem, vars
  <2>1. \/ UNCHANGED <<gTXOMap, mRawData, slots, edge>>
        \/ ParseInput \/ StartOutputs \/ ParseOutput
    BY DEF Next, StartCoinbase, RepeatCoinbase, StartSpend, StartTX,
       ParseGenInput, MissingUpstream, NullOutput, EndTX, Stopped
  <2>2. QED
    BY <1>1, <1>2, <1>3, <1>4, <2>1

(* Seen by the callbacks, parseTX and its memory are a set of unspent      *)
(* outputs: an edge shows an output created earlier and not shown since,   *)
(* and only a repeated coinbase transaction starts its outputs afresh.     *)
THEOREM IndexImplementsUtxoSet == Spec => ImplementsUtxoSet
<1>1. Spec => [][Utxo!Next]_(Utxo!vars)
  BY IndInvHolds, NextImplements, PTL DEF Spec
<1>2. Spec => Utxo!Init
  BY InitImplements DEF Spec
<1>3. QED
  BY <1>1, <1>2 DEF ImplementsUtxoSet, Utxo!Spec
=============================================================================
