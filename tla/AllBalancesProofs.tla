-------------------------- MODULE AllBalancesProofs --------------------------
(***************************************************************************)
(* Proofs about the command allBalances, for any set of addresses, any     *)
(* bounds on the chain and any command line.                               *)
(***************************************************************************)
EXTENDS AllBalancesProperties, DataLemmas

-----------------------------------------------------------------------------
(* The sums of values that CallbackLoop takes over sets of coins.          *)

(* Sets of coins and the like: finite, of values that are naturals. *)
IsPurse(S) == IsFiniteSet(S) /\ \A c \in S : c.value \in Nat

(* The sum that MapThenSumSet takes by recursion is the total of DataLemmas.*)
Values(S) == [c \in S |-> c.value]

LEMMA PurseIsSummable ==
  ASSUME NEW S, IsPurse(S)
  PROVE  IsSummable(Values(S), S)
BY DEF IsPurse, IsSummable, Values

LEMMA ValueIsTotal ==
  ASSUME NEW S, IsPurse(S)
  PROVE  Value(S) = Total(Values(S), S)
<1> DEFINE pick(s) == CHOOSE x \in s : TRUE
           picks == [s \in SUBSET S |-> pick(s)]
           IsSum(g) == g = [s \in SUBSET S |->
                              IF s = {} THEN 0
                              ELSE pick(s).value + g[s \ {pick(s)}]]
           g0 == CHOOSE g : IsSum(g)
<1>1. Value(S) = g0[S]
  BY DEF Value, MapThenSumSet, MapThenFoldSet
<1>2. \A s \in SUBSET S : picks[s] = pick(s) /\ (s # {} => pick(s) \in s)
  OBVIOUS
<1> HIDE DEF pick, picks
<1>3. \A g : SumEquation(g, Values(S), picks, S) <=> IsSum(g)
  BY <1>2 DEF SumEquation, Values
<1> HIDE DEF IsSum
<1>4. \E g : IsSum(g)
  BY <1>2, <1>3, PurseIsSummable, TotalIsTheSum
<1>5. IsSum(g0)
  BY <1>4
<1>6. QED
  BY <1>1, <1>2, <1>3, <1>5, PurseIsSummable, TotalIsTheSum

-----------------------------------------------------------------------------
(* What sums do, which is all the proofs about callbacks use of them.      *)

LEMMA ValueType ==
  ASSUME NEW S, IsPurse(S)
  PROVE  Value(S) \in Nat
BY ValueIsTotal, PurseIsSummable, TotalType

LEMMA ValueOfNone == Value({}) = 0
<1>1. IsPurse({})
  BY FS_EmptySet DEF IsPurse
<1>2. QED
  BY <1>1, ValueIsTotal, TotalOfNone

LEMMA SmallerPurse ==
  ASSUME NEW S, IsPurse(S), NEW T \in SUBSET S
  PROVE  IsPurse(T)
BY FS_Subset DEF IsPurse

LEMMA LargerPurse ==
  ASSUME NEW S, IsPurse(S), NEW c, c.value \in Nat
  PROVE  IsPurse(S \union {c})
<1>1. IsFiniteSet(S \union {c})
  BY FS_AddElement DEF IsPurse
<1>2. QED
  BY <1>1 DEF IsPurse

LEMMA ValueAdd ==
  ASSUME NEW S, IsPurse(S), NEW c, c \notin S, c.value \in Nat
  PROVE  Value(S \union {c}) = Value(S) + c.value
<1>1. IsPurse(S \union {c})
  BY LargerPurse
<1> DEFINE U == S \union {c}  g == Values(U)
<1>2. g[c] = c.value /\ \A x \in S : g[x] = Values(S)[x]
  BY DEF Values
<1>3. Value(U) = Total(g, U) /\ Value(S) = Total(Values(S), S)
  BY <1>1, ValueIsTotal
<1>4. Total(g, S) = Total(Values(S), S)
  BY <1>2, TotalAgrees
<1>5. IsSummable(g, S)
  BY <1>2, PurseIsSummable DEF IsSummable
<1> HIDE DEF g
<1>6. Total(g, U) = Total(g, S) + g[c]
  BY <1>2, <1>5, TotalAdd
<1>7. QED
  BY <1>2, <1>3, <1>4, <1>6

LEMMA ValueRemove ==
  ASSUME NEW S, IsPurse(S), NEW c \in S
  PROVE  /\ Value(S \ {c}) = Value(S) - c.value
         /\ c.value \in Nat /\ c.value <= Value(S)
<1> DEFINE T == S \ {c}
<1>1. IsPurse(T) /\ c \notin T /\ c.value \in Nat /\ S = T \union {c}
  BY SmallerPurse DEF IsPurse
<1> HIDE DEF T
<1>2. Value(S) = Value(T) + c.value /\ Value(T) \in Nat
  BY <1>1, ValueAdd, ValueType
<1>3. QED
  BY <1>1, <1>2 DEF T

USE MaxBlocksAssumption, MaxTxsAssumption, MaxInputsAssumption,
    MaxOutputsAssumption, RewardAssumption

-----------------------------------------------------------------------------
(* The chain as the callback sees it. *)

LEMMA CoinValues ==
  /\ Amount \subseteq Nat
  /\ \A c \in Coin : /\ c.value \in Nat /\ c.owner \in Owners
                     /\ c.tx \in 1 .. MaxTxs /\ c.n \in 1 .. MaxOutputs
<1>1. Amount \subseteq Nat
  BY ProductIsMonotonic DEF Amount
<1>2. QED
  BY <1>1 DEF Coin

LEMMA InitLoopInv == Init => LoopInv
<1> SUFFICES ASSUME Init PROVE LoopInv
  OBVIOUS
<1> USE DEF Init, LoopInit, NoTx
<1>1. IsFiniteSet({}) /\ Cardinality({}) = 0
  BY FS_EmptySet
<1>2. LoopTypeOK
  BY DEF LoopTypeOK
<1>3. tx \in [first : BOOLEAN, spent : SUBSET coins, made : SUBSET Coin]
  OBVIOUS
<1>4. QED
  BY <1>1, <1>2, <1>3 DEF LoopInv, InTX

(* The sets a transaction takes coins from and puts them in are finite. *)
LEMMA LoopSets ==
  ASSUME LoopInv
  PROVE  /\ IsPurse(coins) /\ IsPurse(tx.spent) /\ IsPurse(tx.made)
         /\ IsPurse(CoinsNow) /\ CoinsNow \subseteq Coin
         /\ coins \subseteq Coin /\ tx.spent \subseteq coins /\ tx.made \subseteq Coin
         /\ Cardinality(tx.spent) \in Nat /\ Cardinality(tx.made) \in Nat
         /\ \A c \in coins : c \notin tx.made \/ ~InTX
<1>1. /\ coins \subseteq Coin /\ tx.spent \subseteq coins /\ tx.made \subseteq Coin
      /\ IsFiniteSet(coins) /\ IsFiniteSet(tx.made)
  BY DEF LoopInv, LoopTypeOK
<1>2. IsPurse(coins) /\ IsPurse(tx.made)
  BY <1>1, CoinValues DEF IsPurse
<1>3. IsPurse(tx.spent)
  BY <1>1, <1>2, SmallerPurse
<1>4. IsFiniteSet(CoinsNow) /\ CoinsNow \subseteq Coin
  <2>1. IsFiniteSet(coins \ tx.spent)
    BY <1>1, FS_Subset
  <2>2. IsFiniteSet((coins \ tx.spent) \union tx.made)
    BY <1>1, <2>1, FS_Union
  <2>3. QED
    BY <1>1, <2>2 DEF CoinsNow
<1>5. IsPurse(CoinsNow)
  BY <1>4, CoinValues DEF IsPurse
<1>6. Cardinality(tx.spent) \in Nat /\ Cardinality(tx.made) \in Nat
  BY <1>2, <1>3, FS_CardinalityType DEF IsPurse
<1>7. ASSUME NEW c \in coins, InTX PROVE c \notin tx.made
  <2>1. c.tx < nbTxs /\ c.tx \in Nat
    BY <1>1, <1>7, CoinValues DEF LoopInv
  <2>2. \A d \in tx.made : d.tx = nbTxs
    BY DEF LoopInv
  <2>3. QED
    BY <2>1, <2>2
<1>8. QED
  BY <1>1, <1>2, <1>3, <1>4, <1>5, <1>6, <1>7

(* The steps between two transactions. *)
LEMMA QuietLoopStep ==
  ASSUME LoopInv,
         UNCHANGED <<nbTxs, tx, coins>>,
         pc \in {"init", "index", "start", "block", "tx", "wrapup"},
         pc' \in {"init", "index", "start", "block", "first", "tx", "wrapup",
                  "end", "crash"},
         height' \in 0 .. MaxBlocks,
         nbTX' \in 0 .. MaxTxs, nbTxs + nbTX' <= MaxTxs
  PROVE  LoopInv'
<1>1. LoopTypeOK'
  BY DEF LoopInv, LoopTypeOK
<1>2. QED
  BY <1>1 DEF LoopInv, InTX

LEMMA StartTXLoopStep ==
  ASSUME LoopInv, StartTX
  PROVE  LoopInv' /\ CoinsNow' = CoinsNow /\ tx'.spent = {} /\ tx'.made = {}
<1>1. /\ pc \in {"first", "tx"} /\ pc' = "inputs" /\ nbTX > 0
      /\ nbTX' = nbTX - 1 /\ nbTxs' = nbTxs + 1 /\ height' = height
      /\ coins' = coins
      /\ tx = [first |-> FALSE, spent |-> {}, made |-> {}]
      /\ tx' = [first |-> pc = "first", spent |-> {}, made |-> {}]
  BY DEF StartTX, Goto, LoopInv, InTX, NoTx
<1>2. /\ nbTX \in Nat /\ nbTxs \in Nat /\ nbTxs + nbTX <= MaxTxs
      /\ height \in 0 .. MaxBlocks /\ coins \subseteq Coin /\ IsFiniteSet(coins)
      /\ \A c \in coins : c.tx <= nbTxs
  BY DEF LoopInv, LoopTypeOK
<1>3. IsFiniteSet({}) /\ Cardinality({}) = 0
  BY FS_EmptySet
<1>4. LoopTypeOK'
  BY <1>1, <1>2 DEF LoopTypeOK
<1>5. \A c \in coins : c.tx < nbTxs + 1
  BY <1>2, CoinValues
<1>6. tx' \in [first : BOOLEAN, spent : SUBSET coins, made : SUBSET Coin]
  BY <1>1
<1>7. LoopInv'
  <2>1. tx'.spent = {} /\ tx'.made = {} /\ IsFiniteSet(tx'.made)
    BY <1>1, <1>3
  <2>2. /\ Cardinality(tx'.spent) <= MaxInputs
        /\ Cardinality(tx'.made) <= MaxOutputs
    BY <1>3, <2>1
  <2>3. nbTxs' + nbTX' <= MaxTxs /\ nbTxs' > 0 /\ InTX'
    BY <1>1, <1>2 DEF InTX
  <2>4. \A c \in coins' : c.tx <= nbTxs' /\ (InTX' => c.tx < nbTxs')
    BY <1>1, <1>2, <1>5, CoinValues
  <2>5. \A c \in tx'.made : c.tx = nbTxs' /\ c.n <= Cardinality(tx'.made)
    BY <2>1
  <2>6. IsFiniteSet(coins')
    BY <1>1, <1>2
  <2>7. QED
    BY <1>4, <1>6, <2>1, <2>2, <2>3, <2>4, <2>5, <2>6 DEF LoopInv
<1>8. QED
  BY <1>1, <1>7 DEF CoinsNow

LEMMA StartOutputsLoopStep ==
  ASSUME LoopInv, StartOutputs
  PROVE  LoopInv'
<1>1. pc = "inputs" /\ pc' = "outputs" /\ UNCHANGED <<height, nbTX, nbTxs, tx, coins>>
  BY DEF StartOutputs, Goto
<1>2. LoopTypeOK'
  BY <1>1 DEF LoopInv, LoopTypeOK
<1>3. QED
  BY <1>1, <1>2 DEF LoopInv, InTX

LEMMA EdgeLoopStep ==
  ASSUME LoopInv, NEW coin \in coins, Edge(coin)
  PROVE  /\ LoopInv'
         /\ coin \in CoinsNow /\ CoinsNow' = CoinsNow \ {coin}
         /\ Cardinality(tx'.spent) = Cardinality(tx.spent) + 1
         /\ tx'.made = tx.made
<1>1. /\ pc = "inputs" /\ UNCHANGED <<pc, height, nbTX, nbTxs, coins>>
      /\ coin \notin tx.spent /\ Cardinality(tx.spent) < MaxInputs
      /\ tx' = [tx EXCEPT !.spent = @ \union {coin}]
      /\ tx \in [first : BOOLEAN, spent : SUBSET coins, made : SUBSET Coin]
  BY DEF Edge, LoopInv
<1>2. /\ tx' \in [first : BOOLEAN, spent : SUBSET coins, made : SUBSET Coin]
      /\ tx'.spent = tx.spent \union {coin} /\ tx'.made = tx.made
  BY <1>1
<1>3. Cardinality(tx'.spent) = Cardinality(tx.spent) + 1
  BY <1>1, <1>2, LoopSets, FS_AddElement DEF IsPurse
<1>4. LoopTypeOK'
  BY <1>1, <1>2 DEF LoopInv, LoopTypeOK
<1>5. LoopInv'
  <2>1. Cardinality(tx'.spent) <= MaxInputs
    BY <1>1, <1>3, LoopSets
  <2>2. QED
    BY <1>1, <1>2, <1>4, <2>1 DEF LoopInv, InTX
<1>6. coin \notin tx.made
  BY <1>1, LoopSets DEF InTX
<1>7. QED
  BY <1>1, <1>2, <1>3, <1>5, <1>6 DEF CoinsNow

LEMMA EndOutputLoopStep ==
  ASSUME LoopInv, NEW owner \in Owners, NEW value \in Amount,
         EndOutput(owner, value)
  PROVE  /\ LoopInv'
         /\ Output(owner, value) \in Coin
         /\ Output(owner, value).owner = owner
         /\ Output(owner, value).value = value
         /\ Output(owner, value).tx = nbTxs
         /\ Output(owner, value).n = Cardinality(tx.made) + 1
         /\ Output(owner, value) \notin CoinsNow
         /\ CoinsNow' = CoinsNow \union {Output(owner, value)}
         /\ Cardinality(tx'.made) = Cardinality(tx.made) + 1
         /\ tx'.spent = tx.spent
<1> DEFINE o == Output(owner, value)
<1>1. /\ pc = "outputs" /\ UNCHANGED <<pc, height, nbTX, nbTxs, coins>>
      /\ Cardinality(tx.made) < MaxOutputs
      /\ tx' = [tx EXCEPT !.made = @ \union {o}]
      /\ tx \in [first : BOOLEAN, spent : SUBSET coins, made : SUBSET Coin]
      /\ nbTxs > 0 /\ nbTxs \in 0 .. MaxTxs
  BY DEF EndOutput, LoopInv, LoopTypeOK, InTX
<1>2. /\ o = [tx |-> nbTxs, n |-> Cardinality(tx.made) + 1, owner |-> owner,
              value |-> value]
      /\ o.owner = owner /\ o.value = value
      /\ o.tx = nbTxs /\ o.n = Cardinality(tx.made) + 1
  BY DEF Output
<1>3. Cardinality(tx.made) \in Nat /\ IsFiniteSet(tx.made)
  BY LoopSets DEF IsPurse
<1>4. o \in Coin
  BY <1>1, <1>2, <1>3 DEF Coin
<1> HIDE DEF o
<1>5. o \notin coins
  <2>1. \A c \in coins : c.tx < nbTxs /\ c.tx \in Nat
    BY <1>1, LoopSets, CoinValues DEF LoopInv, InTX
  <2>2. QED
    BY <1>1, <1>2, <2>1
<1>6. o \notin tx.made
  <2>1. \A c \in tx.made : c.n <= Cardinality(tx.made) /\ c.n \in Nat
    BY LoopSets, CoinValues DEF LoopInv
  <2>2. QED
    BY <1>2, <1>3, <2>1
<1>7. /\ tx' \in [first : BOOLEAN, spent : SUBSET coins, made : SUBSET Coin]
      /\ tx'.spent = tx.spent /\ tx'.made = tx.made \union {o}
  BY <1>1, <1>4
<1>8. /\ Cardinality(tx'.made) = Cardinality(tx.made) + 1
      /\ IsFiniteSet(tx'.made)
  BY <1>3, <1>6, <1>7, FS_AddElement
<1>9. LoopTypeOK'
  BY <1>1, <1>7 DEF LoopInv, LoopTypeOK
<1>10. \A c \in tx'.made : c.tx = nbTxs /\ c.n <= Cardinality(tx'.made)
  <2>1. \A c \in tx.made : /\ c.tx = nbTxs /\ c.n <= Cardinality(tx.made)
                           /\ c.n \in Nat
    BY LoopSets, CoinValues DEF LoopInv
  <2>2. QED
    BY <1>2, <1>3, <1>7, <1>8, <2>1
<1>11. LoopInv'
  <2>1. Cardinality(tx'.made) <= MaxOutputs
    BY <1>1, <1>3, <1>8
  <2>2. QED
    BY <1>1, <1>7, <1>8, <1>9, <1>10, <2>1 DEF LoopInv, InTX
<1>12. o \notin CoinsNow /\ CoinsNow' = CoinsNow \union {o}
  BY <1>1, <1>5, <1>6, <1>7 DEF CoinsNow
<1>13. QED
  BY <1>2, <1>4, <1>7, <1>8, <1>11, <1>12 DEF o

LEMMA EndTXLoopStep ==
  ASSUME LoopInv, NEW isOver, EndTX(isOver)
  PROVE  /\ LoopInv' /\ CoinsNow' = CoinsNow /\ coins' = CoinsNow
         /\ tx'.spent = {} /\ tx'.made = {}
<1>1. /\ pc = "outputs" /\ pc' \in {"tx", "wrapup"}
      /\ UNCHANGED <<height, nbTX, nbTxs>>
      /\ coins' = CoinsNow
      /\ tx' = [first |-> FALSE, spent |-> {}, made |-> {}]
  BY DEF EndTX, Goto, NoTx
<1>2. IsFiniteSet({}) /\ Cardinality({}) = 0
  BY FS_EmptySet
<1>3. IsFiniteSet(coins') /\ coins' \subseteq Coin
  BY <1>1, LoopSets DEF IsPurse
<1>4. LoopTypeOK'
  BY <1>1, <1>3 DEF LoopInv, LoopTypeOK
<1>5. \A c \in coins' : c.tx <= nbTxs
  <2>1. \A c \in coins : c.tx <= nbTxs
    BY DEF LoopInv
  <2>2. \A c \in tx.made : c.tx = nbTxs
    BY DEF LoopInv
  <2>3. nbTxs \in Nat
    BY DEF LoopInv, LoopTypeOK
  <2>4. QED
    BY <1>1, <2>1, <2>2, <2>3 DEF CoinsNow
<1>6. tx' \in [first : BOOLEAN, spent : SUBSET coins', made : SUBSET Coin]
  BY <1>1
<1>7. LoopInv'
  BY <1>1, <1>2, <1>3, <1>4, <1>5, <1>6 DEF LoopInv, InTX, NoTx
<1>8. QED
  BY <1>1, <1>7 DEF CoinsNow

-----------------------------------------------------------------------------
(* What move() does to the Addr of one address, and to no other. *)

(* The numbers of moves stay within their bound. *)
LEMMA NbMovesBound ==
  ASSUME LoopInv
  PROVE  /\ NbMoves \in Nat
         /\ nbTxs * (MaxInputs + MaxOutputs) \in Nat
         /\ NbMoves <= nbTxs * (MaxInputs + MaxOutputs)
         /\ NbMoves <= MaxTxs * (MaxInputs + MaxOutputs)
         /\ InTX /\ (\/ Cardinality(tx.spent) < MaxInputs
                     \/ Cardinality(tx.made) < MaxOutputs)
              => NbMoves < MaxTxs * (MaxInputs + MaxOutputs)
<1> DEFINE k == MaxInputs + MaxOutputs
<1>1. /\ nbTxs \in Nat /\ nbTxs <= MaxTxs
      /\ Cardinality(tx.spent) \in Nat /\ Cardinality(tx.spent) <= MaxInputs
      /\ Cardinality(tx.made) \in Nat /\ Cardinality(tx.made) <= MaxOutputs
      /\ InTX => nbTxs > 0
  BY LoopSets DEF LoopInv, LoopTypeOK
<1>2. k \in Nat
  OBVIOUS
<1>3. NbMoves = IF InTX THEN (nbTxs - 1) * k + Cardinality(tx.spent)
                              + Cardinality(tx.made)
                ELSE nbTxs * k
  BY DEF NbMoves
<1>4. nbTxs * k \in Nat /\ nbTxs * k <= MaxTxs * k
  BY <1>1, <1>2, ProductIsMonotonic
<1>5. CASE InTX
  <2>1. /\ (nbTxs - 1) * k \in Nat
        /\ (nbTxs - 1) * k + k = nbTxs * k
    <3>1. nbTxs - 1 \in Nat /\ nbTxs - 1 + 1 = nbTxs
      BY <1>1, <1>5
    <3>2. QED
      BY <1>2, <3>1, ProductIsMonotonic
  <2>2. /\ Cardinality(tx.spent) + Cardinality(tx.made) <= k
        /\ \/ Cardinality(tx.spent) < MaxInputs
           \/ Cardinality(tx.made) < MaxOutputs
           => Cardinality(tx.spent) + Cardinality(tx.made) < k
    BY <1>1
  <2> HIDE DEF k
  <2>3. QED
    BY <1>1, <1>2, <1>3, <1>4, <1>5, <2>1, <2>2 DEF k
<1>6. CASE ~InTX
  BY <1>3, <1>4, <1>6
<1>7. QED
  BY <1>5, <1>6

LEMMA OptionTypes ==
  ASSUME options \in Options
  PROVE  /\ detailed \in BOOLEAN /\ csv \in BOOLEAN
         /\ restrictMap \subseteq Addrs
         /\ cutoffBlock = NoBlock \/ cutoffBlock \in Nat
         /\ limit = NoLimit \/ limit \in Nat
BY OptionsAssumption DEF detailed, csv, restrictMap, cutoffBlock, limit

LEMMA MovedFields ==
  ASSUME options \in Options, height \in 0 .. MaxBlocks,
         NEW ad \in Addr, NEW delta \in Int, NEW line \in Line,
         ad.sum + delta \in Nat, ad.nbIn + 1 \in Counts, ad.nbOut + 1 \in Counts
  PROVE  /\ Moved(ad, delta, line) \in Addr
         /\ Moved(ad, delta, line).hash = ad.hash
         /\ Moved(ad, delta, line).sum = ad.sum + delta
         /\ Moved(ad, delta, line).nbIn \in {ad.nbIn, ad.nbIn + 1}
         /\ Moved(ad, delta, line).nbOut \in {ad.nbOut, ad.nbOut + 1}
         /\ Moved(ad, delta, line).outputVec =
                IF detailed THEN Append(ad.outputVec, line) ELSE ad.outputVec
<1> DEFINE counted == IF 0 < delta
                      THEN [ad EXCEPT !.lastIn = height, !.nbIn = @ + 1]
                      ELSE [ad EXCEPT !.lastOut = height, !.nbOut = @ + 1]
           vec == IF detailed THEN Append(ad.outputVec, line) ELSE ad.outputVec
<1>1. /\ ad.hash \in Addrs \union {NoAddr} /\ ad.nbIn \in Counts
      /\ ad.nbOut \in Counts /\ ad.outputVec \in Seq(Line)
  BY DEF Addr
<1>2. vec \in Seq(Line)
  BY <1>1
<1>3. /\ counted \in Addr
      /\ counted.hash = ad.hash /\ counted.sum = ad.sum
      /\ counted.nbIn \in {ad.nbIn, ad.nbIn + 1}
      /\ counted.nbOut \in {ad.nbOut, ad.nbOut + 1}
      /\ counted.outputVec = ad.outputVec
  BY <1>1 DEF Addr
<1>4. Moved(ad, delta, line) =
        [counted EXCEPT !.sum = ad.sum + delta, !.outputVec = vec]
  <2>1. Moved(ad, delta, line) =
          [counted EXCEPT !.sum = counted.sum + delta,
             !.outputVec = IF detailed THEN Append(counted.outputVec, line)
                           ELSE counted.outputVec]
    BY DEF Moved
  <2> HIDE DEF counted
  <2>2. QED
    BY <1>3, <2>1
<1> HIDE DEF counted
<1>5. QED
  BY <1>2, <1>3, <1>4 DEF Addr

(* The cell move() works on belongs to the address, or to nobody before. *)
LEMMA MoveCell ==
  ASSUME Storage, NEW a \in Addrs,
         NEW known, known = (addrMap[a] # NoAddr),
         NEW cell, cell = IF known THEN addrMap[a] ELSE Cell(addrPool),
         NEW pool, pool = IF known THEN addrPool ELSE Alloc(addrPool)
  PROVE  /\ IsCellPool(pool) /\ IsSound(pool)
         /\ pool.cut <= Cardinality(Addrs)
         /\ cell \in InUse(pool) /\ cell \in Cells /\ cell # NoAddr
         /\ InUse(pool) = InUse(addrPool) \union {cell}
         /\ ~known => cell \notin InUse(addrPool)
         /\ \A b \in InMap \ {a} : addrMap[b] # cell
<1> DEFINE m == Cardinality(Addrs)
<1>1. IsFiniteSet(Addrs) /\ m \in Nat
  BY OwnersAssumption, FS_Subset, FS_CardinalityType DEF Addrs
<1>2. IsCellPool(addrPool) /\ IsSound(addrPool) /\ addrPool.cut <= m
  BY DEF Storage, AddrsAreOwn, IsCellPool
<1>3. /\ InUse(addrPool) = {addrMap[b] : b \in InMap}
      /\ \A b \in InMap : addr[addrMap[b]].hash = b
  BY DEF Storage, AddrsAreOwn, AddrOf
<1>4. NoAddr \notin Nat
  BY NoAddrAssumption
<1>5. CASE known
  <2>1. a \in InMap /\ cell = addrMap[a] /\ pool = addrPool
    BY <1>5 DEF InMap
  <2>2. cell \in Cells
    BY <2>1 DEF InMap, Storage
  <2>3. \A b \in InMap \ {a} : addrMap[b] # cell
    BY <1>3, <2>1
  <2>4. cell \in InUse(addrPool)
    BY <1>3, <2>1
  <2>5. QED
    BY <1>2, <1>4, <1>5, <2>1, <2>2, <2>3, <2>4 DEF Cells
<1>6. CASE ~known
  <2>1. cell = Cell(addrPool) /\ pool = Alloc(addrPool) /\ a \notin InMap
    BY <1>6 DEF InMap
  <2>2. /\ IsCellPool(pool) /\ IsSound(pool)
        /\ cell \notin InUse(addrPool)
        /\ InUse(pool) = InUse(addrPool) \union {cell}
        /\ cell \in 1 .. pool.cut
        /\ pool.cut \in {addrPool.cut, addrPool.cut + 1}
        /\ addrPool.garbage # <<>> => pool.cut = addrPool.cut
    BY <1>2, <2>1, AllocIsSound
  <2>3. ASSUME addrPool.garbage = <<>> PROVE addrPool.cut < m
    <3> DEFINE D == 1 .. addrPool.cut  h == [c \in D |-> addr[c].hash]
    <3>1. addrPool.cut \in Nat
      BY <1>2 DEF IsCellPool
    <3>2. D = InUse(addrPool)
      BY <2>3 DEF InUse, ToSet
    <3>3. \A c \in D : h[c] \in Addrs \ {a} /\ c = addrMap[h[c]]
      BY <1>3, <2>1, <3>2 DEF InMap
    <3>4. h \in [D -> Addrs \ {a}]
      BY <3>3
    <3> HIDE DEF h
    <3>5. IsFiniteSet(Addrs \ {a}) /\ Cardinality(Addrs \ {a}) = m - 1
      BY <1>1, FS_RemoveElement
    <3>6. h \in Injection(D, Addrs \ {a})
      BY <3>3, <3>4 DEF Injection, IsInjective
    <3>7. IsFiniteSet(D) /\ Cardinality(D) = addrPool.cut
      <4> DEFINE k == addrPool.cut
      <4>1. k \in Nat
        BY <3>1
      <4> HIDE DEF k
      <4>2. IsFiniteSet(1 .. k) /\ Cardinality(1 .. k) = k
        BY <4>1, FS_Interval
      <4>3. QED
        BY <4>2 DEF k
    <3>8. Cardinality(D) <= Cardinality(Addrs \ {a})
      BY <3>5, <3>6, FS_Injection DEF ExistsInjection
    <3>9. QED
      BY <1>1, <3>1, <3>5, <3>7, <3>8
  <2>4. addrPool.cut \in Nat /\ pool.cut \in Nat /\ pool.cut <= m
    BY <1>1, <1>2, <2>2, <2>3 DEF IsCellPool
  <2>5. cell \in Cells /\ cell # NoAddr
    BY <1>1, <1>4, <2>2, <2>4 DEF Cells
  <2>6. \A b \in InMap \ {a} : addrMap[b] # cell
    BY <1>3, <2>2
  <2>7. QED
    BY <1>6, <2>2, <2>4, <2>5, <2>6
<1>7. QED
  BY <1>5, <1>6

(* move() changes the entry, the Addr and the cell of one address only. *)
LEMMA MoveToIsLocal ==
  ASSUME Storage, EntriesAreDue, CountersAreSmall, height \in 0 .. MaxBlocks,
         NbMoves \in Nat, NbMoves < MaxTxs * (MaxInputs + MaxOutputs),
         NEW a \in Addrs, Followed(a), NEW delta \in Int, NEW line \in Line,
         Balance(a) \in Nat, Balance(a) + delta \in Nat,
         MoveTo(a, delta, line)
  PROVE  /\ Storage' /\ EntriesAreDue'
         /\ options' = options
         /\ Balance(a)' = Balance(a) + delta
         /\ a \in InMap' <=> detailed \/ Balance(a) + delta # 0
         /\ a \in InMap' /\ detailed =>
              AddrOf(a)'.outputVec =
                Append(IF a \in InMap THEN AddrOf(a).outputVec ELSE <<>>, line)
         /\ \A b \in Addrs \ {a} :
              /\ b \in InMap' <=> b \in InMap
              /\ Balance(b)' = Balance(b)
              /\ b \in InMap => AddrOf(b)' = AddrOf(b)
         /\ \A c \in Cells : /\ addr'[c].nbIn <= NbMoves + 1
                             /\ addr'[c].nbOut <= NbMoves + 1
<1> DEFINE known == addrMap[a] # NoAddr
           cell  == IF known THEN addrMap[a] ELSE Cell(addrPool)
           pool  == IF known THEN addrPool ELSE Alloc(addrPool)
           ad0   == IF known THEN addr[cell] ELSE NewAddr(cell, a)
           ad    == Moved(ad0, delta, line)
           kept  == KeptInMap(ad)
<1>1. /\ IsCellPool(pool) /\ IsSound(pool)
      /\ pool.cut <= Cardinality(Addrs)
      /\ cell \in InUse(pool) /\ cell \in Cells /\ cell # NoAddr
      /\ InUse(pool) = InUse(addrPool) \union {cell}
      /\ ~known => cell \notin InUse(addrPool)
      /\ \A b \in InMap \ {a} : addrMap[b] # cell
  BY MoveCell
<1>2. /\ options' = options
      /\ addr' = [addr EXCEPT ![cell] = ad]
      /\ addrMap' = [addrMap EXCEPT ![a] = IF kept THEN cell ELSE NoAddr]
      /\ addrPool' = PoolAfter(pool, cell, kept)
  BY DEF MoveTo
<1>3. /\ options \in Options
      /\ addrMap \in [Addrs -> Cells \union {NoAddr}]
      /\ addr \in [Cells -> Addr]
      /\ InUse(addrPool) = {addrMap[b] : b \in InMap}
      /\ \A b \in InMap : addr[addrMap[b]].hash = b
  BY DEF Storage, AddrsAreOwn, AddrOf
<1>4. known <=> a \in InMap
  BY DEF InMap
<1>5. /\ ad0 \in Addr /\ ad0.hash = a /\ ad0.sum = Balance(a)
      /\ ad0.nbIn <= NbMoves /\ ad0.nbOut <= NbMoves
      /\ ad0.outputVec = IF a \in InMap THEN AddrOf(a).outputVec ELSE <<>>
  <2>1. addr[cell] \in Addr
    BY <1>1, <1>3
  <2>2. addr[cell].nbIn <= NbMoves /\ addr[cell].nbOut <= NbMoves
    BY <1>1 DEF CountersAreSmall
  <2>3. CASE known
    BY <1>3, <1>4, <2>1, <2>2, <2>3 DEF Balance, AddrOf
  <2>4. CASE ~known
    <3>1. ad0 = [addr[cell] EXCEPT !.hash = a, !.sum = 0, !.nbIn = 0,
                                   !.nbOut = 0, !.outputVec = <<>>]
      BY <2>4 DEF NewAddr
    <3>2. Balance(a) = 0
      BY <2>4 DEF Balance
    <3>3. 0 \in Counts /\ <<>> \in Seq(Line)
      BY DEF Counts
    <3> HIDE DEF ad0, cell, known
    <3>4. ad0 \in Addr
      BY <2>1, <3>1, <3>3 DEF Addr
    <3>5. /\ ad0.hash = a /\ ad0.sum = 0 /\ ad0.nbIn = 0 /\ ad0.nbOut = 0
          /\ ad0.outputVec = <<>>
      BY <2>1, <3>1 DEF Addr
    <3>6. a \notin InMap
      BY <1>4, <2>4
    <3>7. QED
      BY <3>2, <3>4, <3>5, <3>6
  <2>5. QED
    BY <2>3, <2>4
<1>6. /\ ad \in Addr /\ ad.hash = a /\ ad.sum = Balance(a) + delta
      /\ ad.nbIn <= NbMoves + 1 /\ ad.nbOut <= NbMoves + 1
      /\ detailed => ad.outputVec = Append(ad0.outputVec, line)
  <2>1. ad0.nbIn \in Nat /\ ad0.nbOut \in Nat
    BY <1>5 DEF Addr, Counts
  <2>2. ad0.nbIn + 1 \in Counts /\ ad0.nbOut + 1 \in Counts
    <3> DEFINE k == MaxTxs * (MaxInputs + MaxOutputs)
    <3>1. k \in Nat
      BY ProductIsMonotonic
    <3> HIDE DEF ad0, k
    <3>2. Counts = 0 .. k
      BY DEF Counts, k
    <3>3. NbMoves < k
      BY DEF k
    <3>4. \A n \in Nat : n <= NbMoves => n + 1 \in 0 .. k
      BY <3>1, <3>3
    <3>5. QED
      BY <1>5, <2>1, <3>2, <3>4
  <2> HIDE DEF ad0
  <2>3. ad0 \in Addr /\ ad0.sum + delta \in Nat /\ options \in Options
    BY <1>3, <1>5
  <2>4. /\ ad \in Addr /\ ad.hash = ad0.hash /\ ad.sum = ad0.sum + delta
        /\ ad.nbIn \in {ad0.nbIn, ad0.nbIn + 1}
        /\ ad.nbOut \in {ad0.nbOut, ad0.nbOut + 1}
        /\ ad.outputVec = IF detailed THEN Append(ad0.outputVec, line)
                          ELSE ad0.outputVec
    BY <2>2, <2>3, MovedFields
  <2> HIDE DEF ad
  <2>5. ad.nbIn <= NbMoves + 1 /\ ad.nbOut <= NbMoves + 1
    BY <1>5, <2>1, <2>4
  <2>6. QED
    BY <1>5, <2>4, <2>5
<1>7. kept <=> detailed \/ Balance(a) + delta # 0
  BY <1>6 DEF KeptInMap
<1> HIDE DEF known, cell, pool, ad0, ad, kept
<1>8. /\ addr' \in [Cells -> Addr]
      /\ addr'[cell] = ad /\ \A c \in Cells \ {cell} : addr'[c] = addr[c]
  BY <1>1, <1>2, <1>3, <1>6
<1>9. /\ addrMap' \in [Addrs -> Cells \union {NoAddr}]
      /\ addrMap'[a] = IF kept THEN cell ELSE NoAddr
      /\ \A b \in Addrs \ {a} : addrMap'[b] = addrMap[b]
  BY <1>1, <1>2, <1>3
<1>10. /\ InMap' = IF kept THEN InMap \union {a} ELSE InMap \ {a}
       /\ \A b \in Addrs \ {a} : b \in InMap' <=> b \in InMap
       /\ a \in InMap' <=> kept
  BY <1>1, <1>9 DEF InMap
<1>11. \A b \in InMap \ {a} : addr'[addrMap'[b]] = addr[addrMap[b]]
  BY <1>1, <1>3, <1>8, <1>9 DEF InMap
<1>12. kept => addr'[addrMap'[a]] = ad
  BY <1>8, <1>9
<1>13. /\ IsCellPool(addrPool') /\ IsSound(addrPool')
       /\ addrPool'.cut <= Cardinality(Addrs)
       /\ InUse(addrPool') = IF kept THEN InUse(pool) ELSE InUse(pool) \ {cell}
  <2>1. CASE kept
    BY <1>1, <1>2, <2>1 DEF PoolAfter
  <2>2. CASE ~kept
    BY <1>1, <1>2, <2>2, FreeIsSound DEF PoolAfter
  <2>3. QED
    BY <2>1, <2>2
<1>14. InUse(addrPool') = {addrMap'[b] : b \in InMap'}
  <2>1. {addrMap[b] : b \in InMap \ {a}} = InUse(addrPool) \ {cell}
    <3>1. CASE known
      BY <1>1, <1>3, <1>4, <3>1 DEF cell
    <3>2. CASE ~known
      BY <1>1, <1>3, <1>4, <3>2
    <3>3. QED
      BY <3>1, <3>2
  <2>2. \A b \in InMap \ {a} : addrMap'[b] = addrMap[b]
    BY <1>9 DEF InMap
  <2>3. CASE kept
    BY <1>1, <1>9, <1>10, <1>13, <2>1, <2>2, <2>3
  <2>4. CASE ~kept
    BY <1>1, <1>10, <1>13, <2>1, <2>2, <2>4
  <2>5. QED
    BY <2>3, <2>4
<1>15. AddrsAreOwn'
  <2>1. \A b \in InMap' : addr'[addrMap'[b]].hash = b
    BY <1>3, <1>6, <1>10, <1>11, <1>12
  <2>2. QED
    BY <1>13, <1>14, <2>1 DEF AddrsAreOwn, AddrOf
<1>16. Storage'
  BY <1>2, <1>3, <1>8, <1>9, <1>13, <1>15 DEF Storage, IsCellPool, Cells
<1>17. EntriesAreDue'
  <2>1. \A b \in InMap : Followed(b)' /\ (detailed' \/ AddrOf(b).sum # 0)
    BY <1>2 DEF EntriesAreDue, Followed, restrictMap, detailed
  <2>2. Followed(a)'
    BY <1>2 DEF Followed, restrictMap
  <2>3. \A b \in InMap' : Followed(b)'
    BY <1>10, <2>1, <2>2
  <2>4. \A b \in InMap' \ {a} : detailed' \/ AddrOf(b)'.sum # 0
    BY <1>10, <1>11, <2>1 DEF AddrOf
  <2>5. kept => detailed' \/ AddrOf(a)'.sum # 0
    BY <1>2, <1>6, <1>7, <1>12 DEF AddrOf, detailed
  <2>6. QED
    BY <1>10, <2>3, <2>4, <2>5 DEF EntriesAreDue
<1>18. Balance(a)' = Balance(a) + delta
  <2>1. CASE kept
    BY <1>1, <1>6, <1>9, <1>12, <2>1 DEF Balance
  <2>2. CASE ~kept
    BY <1>7, <1>9, <2>2 DEF Balance
  <2>3. QED
    BY <2>1, <2>2
<1>19. \A b \in Addrs \ {a} :
          /\ Balance(b)' = Balance(b)
          /\ b \in InMap => AddrOf(b)' = AddrOf(b)
  BY <1>9, <1>11 DEF Balance, AddrOf, InMap
<1>20. \A c \in Cells : /\ addr'[c].nbIn <= NbMoves + 1
                        /\ addr'[c].nbOut <= NbMoves + 1
  <2>1. \A c \in Cells : /\ addr[c].nbIn <= NbMoves /\ addr[c].nbIn \in Nat
                         /\ addr[c].nbOut <= NbMoves /\ addr[c].nbOut \in Nat
    BY <1>3 DEF CountersAreSmall, Addr, Counts
  <2>2. QED
    BY <1>6, <1>8, <2>1
<1>21. kept /\ detailed => AddrOf(a)'.outputVec =
          Append(IF a \in InMap THEN AddrOf(a).outputVec ELSE <<>>, line)
  BY <1>5, <1>6, <1>12 DEF AddrOf
<1>22. QED
  BY <1>2, <1>7, <1>10, <1>16, <1>17, <1>18, <1>19, <1>20, <1>21

-----------------------------------------------------------------------------
(* The cells of the hashes. *)

LEMMA LineTypes ==
  ASSUME HashesAreKept, height \in 0 .. MaxBlocks,
         NEW t \in 1 .. MaxTxs, NEW n \in 1 .. MaxOutputs, NEW v \in Nat
  PROVE  /\ LineOf(InBlock(t), n, -v, TRUE) \in Line
         /\ LineOf(InCell(cellOf[t]), n, v, FALSE) \in Line
<1>1. cellOf[t] \in 0 .. MaxTxs
  BY DEF HashesAreKept
<1>2. InBlock(t) \in Pointer /\ InCell(cellOf[t]) \in Pointer
  BY <1>1 DEF InBlock, InCell, Pointer
<1>3. -v \in Int /\ v \in Int
  OBVIOUS
<1>4. QED
  BY <1>2, <1>3 DEF LineOf, Line

LEMMA InitHashesAreKept == Init => HashesAreKept
<1> SUFFICES ASSUME Init PROVE HashesAreKept
  OBVIOUS
<1> USE DEF Init, LoopInit
<1>1. IsCellPool(EmptyPool) /\ IsSound(EmptyPool) /\ EmptyPool.cut = 0
  BY EmptyPoolIsSound
<1>2. \A t : ~IsHeld(t)
  BY DEF IsHeld, InTX, CoinsNow, NoTx
<1>3. QED
  BY <1>1, <1>2 DEF HashesAreKept, IsCellPool, NullCell

(* The steps that write no hash and free none. *)
LEMMA QuietHashesStep ==
  ASSUME HashesAreKept, UNCHANGED <<nbTxs, hashPool, hashOf, cellOf>>,
         released' \in 0 .. MaxBlocks, \A t : IsHeld(t)' => IsHeld(t)
  PROVE  HashesAreKept'
BY DEF HashesAreKept

(* A hash is written to a cell that holds none in use. *)
LEMMA StartTXHashesStep ==
  ASSUME LoopInv, HashesAreKept, StartTX
  PROVE  HashesAreKept'
<1> DEFINE cell == Cell(hashPool)  pool == Alloc(hashPool)  u == nbTxs + 1
<1>1. /\ nbTX > 0 /\ nbTX \in Nat /\ nbTxs \in Nat /\ nbTxs + nbTX <= MaxTxs
      /\ ~InTX
  BY DEF StartTX, LoopInv, LoopTypeOK, InTX
<1>2. /\ nbTxs' = u /\ hashPool' = pool /\ released' = released
      /\ hashOf' = [hashOf EXCEPT ![cell] = u]
      /\ cellOf' = [cellOf EXCEPT ![u] = cell]
      /\ CoinsNow' = CoinsNow
  BY StartTXLoopStep DEF StartTX
<1>3. /\ IsCellPool(pool) /\ IsSound(pool) /\ cell \notin InUse(hashPool)
      /\ InUse(pool) = InUse(hashPool) \union {cell} /\ cell \in 1 .. pool.cut
      /\ pool.cut \in {hashPool.cut, hashPool.cut + 1}
      /\ hashPool.cut \in Nat /\ hashPool.cut <= nbTxs
  <2>1. IsCellPool(hashPool) /\ IsSound(hashPool)
    BY DEF HashesAreKept, IsCellPool
  <2>2. QED
    BY <2>1, AllocIsSound DEF HashesAreKept
<1> HIDE DEF cell, pool
<1>4. pool.cut <= u /\ cell \in 1 .. MaxTxs /\ u \in 1 .. MaxTxs
  BY <1>1, <1>3, MaxTxsAssumption
<1>5. /\ hashOf' \in [1 .. MaxTxs -> 0 .. MaxTxs]
      /\ cellOf' \in [1 .. MaxTxs -> 0 .. MaxTxs]
  BY <1>2, <1>4 DEF HashesAreKept
<1>6. ASSUME NEW t \in 1 .. MaxTxs, IsHeld(t)'
      PROVE  cellOf'[t] \in InUse(pool) /\ hashOf'[cellOf'[t]] = t
  <2>1. CASE t = u
    BY <1>2, <1>3, <1>4, <2>1 DEF HashesAreKept
  <2>2. CASE t # u
    <3>1. IsHeld(t)
      BY <1>2, <1>6, <2>2 DEF IsHeld
    <3>2. cellOf[t] \in InUse(hashPool) /\ hashOf[cellOf[t]] = t
      BY <3>1 DEF HashesAreKept
    <3>3. cellOf'[t] = cellOf[t] /\ cellOf[t] # cell
      BY <1>2, <1>3, <2>2, <3>2 DEF HashesAreKept
    <3>4. QED
      BY <1>2, <1>3, <3>2, <3>3 DEF HashesAreKept
  <2>3. QED
    BY <2>1, <2>2
<1>7. QED
  BY <1>2, <1>3, <1>4, <1>5, <1>6 DEF HashesAreKept, IsCellPool

(* The cell that is freed is that of a transaction with no output left. *)
LEMMA EdgeHashesStep ==
  ASSUME LoopInv, HashesAreKept, NEW coin \in coins, Edge(coin)
  PROVE  HashesAreKept'
<1> DEFINE u == coin.tx
<1>1. /\ CoinsNow' = CoinsNow \ {coin} /\ coin \in CoinsNow
      /\ CoinsNow \subseteq Coin
  BY EdgeLoopStep, LoopSets
<1>2. /\ InTX /\ pc' = pc /\ UNCHANGED <<nbTxs, coins, hashOf, cellOf, released>>
      /\ tx'.spent = tx.spent \union {coin} /\ tx'.made = tx.made
  BY DEF Edge, InTX, LoopInv
<1>3. u \in 1 .. MaxTxs /\ u < nbTxs /\ nbTxs \in Nat
  BY <1>2, LoopSets, CoinValues DEF LoopInv, LoopTypeOK
<1>4. \A t : IsHeld(t)' => IsHeld(t)
  BY <1>1, <1>2 DEF IsHeld, InTX
<1>5. CASE ~IsLast(coin)
  <2>1. hashPool' = hashPool
    BY <1>5 DEF Edge
  <2>2. released' \in 0 .. MaxBlocks
    BY <1>2 DEF HashesAreKept
  <2>3. QED
    BY <1>2, <1>4, <2>1, <2>2, QuietHashesStep
<1>6. CASE IsLast(coin)
  <2> DEFINE cell == cellOf[u]
  <2>1. hashPool' = Free(hashPool, cell)
    BY <1>6 DEF Edge
  <2>2. cell \in InUse(hashPool) /\ hashOf[cell] = u
    <3>1. IsHeld(u)
      BY <1>1 DEF IsHeld
    <3>2. QED
      BY <1>3, <3>1 DEF HashesAreKept
  <2>3. ~IsHeld(u)'
    <3>1. \A c \in tx.made : c.tx = nbTxs
      BY DEF LoopInv
    <3>2. \A c \in coins \ tx'.spent : c.tx # u
      BY <1>2, <1>6 DEF IsLast
    <3>3. \A c \in CoinsNow' : c.tx # u
      BY <1>2, <1>3, <3>1, <3>2 DEF CoinsNow
    <3>4. QED
      BY <1>2, <1>3, <3>3 DEF IsHeld
  <2>4. /\ IsCellPool(hashPool') /\ IsSound(hashPool')
        /\ InUse(hashPool') = InUse(hashPool) \ {cell}
        /\ hashPool'.cut = hashPool.cut
    <3>1. IsCellPool(hashPool) /\ IsSound(hashPool)
      BY DEF HashesAreKept, IsCellPool
    <3> HIDE DEF cell
    <3>2. QED
      BY <2>1, <2>2, <3>1, FreeIsSound
  <2>5. ASSUME NEW t \in 1 .. MaxTxs, IsHeld(t)'
        PROVE  cellOf[t] \in InUse(hashPool) \ {cell} /\ hashOf[cellOf[t]] = t
    <3>1. t # u /\ IsHeld(t)
      BY <1>4, <2>3, <2>5
    <3>2. cellOf[t] \in InUse(hashPool) /\ hashOf[cellOf[t]] = t
      BY <3>1 DEF HashesAreKept
    <3>3. QED
      BY <2>2, <3>1, <3>2
  <2> HIDE DEF cell
  <2>6. QED
    BY <1>2, <2>4, <2>5 DEF HashesAreKept, IsCellPool
<1>7. QED
  BY <1>5, <1>6

LEMMA HashesStep == LoopInv /\ HashesAreKept /\ [Next]_vars => HashesAreKept'
<1> SUFFICES ASSUME LoopInv, HashesAreKept, [Next]_vars PROVE HashesAreKept'
  OBVIOUS
<1>1. released \in 0 .. MaxBlocks /\ height \in 0 .. MaxBlocks
  BY DEF HashesAreKept, LoopInv, LoopTypeOK
<1>2. ASSUME UNCHANGED <<nbTxs, hashPool, hashOf, cellOf>>,
             released' \in {released, height}, CoinsNow' = CoinsNow,
             InTX' => InTX
      PROVE  HashesAreKept'
  <2>1. \A t : IsHeld(t)' => IsHeld(t)
    BY <1>2 DEF IsHeld
  <2>2. QED
    BY <1>1, <1>2, <2>1, QuietHashesStep
<1>3. CASE \/ ABInitCallback \/ CrashInInitCallback
           \/ BuildIndex \/ StartLongestChain
           \/ ABEndBlock \/ ABEndOfChain \/ ABWrapup \/ Killed
           \/ \E n \in 1 .. MaxTxs : ABStartBlock(n)
  <2>1. /\ UNCHANGED <<nbTxs, tx, coins, hashPool, hashOf, cellOf>> /\ ~InTX'
        /\ released' \in {released, height}
    BY <1>3 DEF ABInitCallback, CrashInInitCallback, BuildIndex, InitCallback,
       StartLongestChain, ABEndBlock, EndBlock, ABEndOfChain, EndOfChain,
       ABWrapup, Wrapup, Killed, ABStartBlock, StartBlock, Goto, InTX, hashVars
  <2>2. QED
    BY <1>2, <2>1 DEF CoinsNow
<1>4. CASE StartTX
  BY <1>4, StartTXHashesStep
<1>5. CASE StartOutputs
  <2>1. /\ UNCHANGED <<nbTxs, tx, coins, hashPool, hashOf, cellOf, released>>
        /\ InTX
    BY <1>5 DEF StartOutputs, InTX, hashVars
  <2>2. QED
    BY <1>2, <2>1 DEF CoinsNow
<1>6. CASE ABEndTX
  <2> DEFINE isOver == AnswerAfterTX(DoneNow)
  <2>1. EndTX(isOver)
    BY <1>6 DEF ABEndTX
  <2>2. CoinsNow' = CoinsNow
    BY <2>1, EndTXLoopStep
  <2>3. UNCHANGED <<nbTxs, hashPool, hashOf, cellOf, released>> /\ ~InTX'
    BY <2>1 DEF EndTX, Goto, InTX, hashVars
  <2>4. QED
    BY <1>2, <2>2, <2>3
<1>7. CASE forceDone \/ Stopped \/ UNCHANGED vars
  <2>1. UNCHANGED <<pc, nbTxs, tx, coins, hashPool, hashOf, cellOf, released>>
    BY <1>7 DEF forceDone, Stopped, vars, loopVars, hashVars
  <2>2. QED
    BY <1>2, <2>1 DEF CoinsNow, InTX
<1>8. ASSUME NEW coin \in coins, ABEdge(coin) PROVE HashesAreKept'
  BY <1>8, EdgeHashesStep DEF ABEdge
<1>9. ASSUME NEW owner \in Owners, NEW value \in Amount,
             ABEndOutput(owner, value)
      PROVE  HashesAreKept'
  <2> DEFINE o == Output(owner, value)
  <2>1. EndOutput(owner, value)
    BY <1>9 DEF ABEndOutput
  <2>2. CoinsNow' = CoinsNow \union {o} /\ o.tx = nbTxs
    BY <2>1, EndOutputLoopStep
  <2>3. /\ UNCHANGED <<nbTxs, hashPool, hashOf, cellOf, released>>
        /\ InTX /\ InTX'
    BY <2>1 DEF EndOutput, InTX, hashVars
  <2> HIDE DEF o
  <2>4. \A t : IsHeld(t)' => IsHeld(t)
    BY <2>2, <2>3 DEF IsHeld
  <2>5. QED
    BY <1>1, <2>3, <2>4, QuietHashesStep
<1>10. QED
  BY <1>3, <1>4, <1>5, <1>6, <1>7, <1>8, <1>9 DEF Next, Program, Quiet

-----------------------------------------------------------------------------
(* The balances are the ledger's, whatever step is taken. *)

LedgerInv == Storage /\ EntriesAreDue /\ BalanceIsLedger /\ CountersAreSmall

LEMMA InitLedgerInv == Init => LedgerInv
<1> SUFFICES ASSUME Init PROVE LedgerInv
  OBVIOUS
<1> USE DEF Init
<1>1. IsFiniteSet(Addrs) /\ Cardinality(Addrs) \in Nat
  BY OwnersAssumption, FS_Subset, FS_CardinalityType DEF Addrs
<1>2. /\ IsCellPool(EmptyPool) /\ IsSound(EmptyPool)
      /\ InUse(EmptyPool) = {} /\ EmptyPool.cut = 0
  BY EmptyPoolIsSound
<1>3. InMap = {} /\ \A a \in Addrs : addrMap[a] = NoAddr
  BY DEF InMap
<1>4. AddrsAreOwn
  BY <1>2, <1>3 DEF AddrsAreOwn
<1>5. 0 \in Counts /\ ZeroedAddr \in Addr
  <2>1. 0 \in Counts
    BY ProductIsMonotonic DEF Counts
  <2>2. QED
    BY <2>1 DEF ZeroedAddr, Addr
<1>6. Storage
  BY <1>1, <1>2, <1>4, <1>5 DEF Storage, IsCellPool
<1>7. EntriesAreDue
  BY <1>3 DEF EntriesAreDue
<1>8. BalanceIsLedger
  <2>1. CoinsNow = {}
    BY DEF CoinsNow, LoopInit, NoTx
  <2>2. \A a : Owned(CoinsNow, a) = {}
    BY <2>1 DEF Owned
  <2>3. QED
    BY <1>3, <2>2, ValueOfNone DEF BalanceIsLedger, Balance
<1>9. CountersAreSmall
  <2>1. NbMoves \in Nat
    BY InitLoopInv, NbMovesBound
  <2>2. QED
    BY <2>1 DEF CountersAreSmall, ZeroedAddr
<1>10. QED
  BY <1>6, <1>7, <1>8, <1>9 DEF LedgerInv

(* The steps that move no coins. *)
LEMMA QuietLedgerStep ==
  ASSUME LedgerInv, UNCHANGED balanceVars, CoinsNow' = CoinsNow,
         NbMoves \in Nat, NbMoves' \in Nat, NbMoves <= NbMoves'
  PROVE  LedgerInv'
<1> USE DEF balanceVars, LedgerInv
<1>1. Storage'
  BY DEF Storage, AddrsAreOwn, InMap, AddrOf
<1>2. EntriesAreDue'
  BY DEF EntriesAreDue, InMap, AddrOf, Followed, restrictMap, detailed
<1>3. BalanceIsLedger'
  BY DEF BalanceIsLedger, Balance, Followed, restrictMap
<1>4. CountersAreSmall'
  <2>1. \A c \in Cells : addr[c].nbIn \in Nat /\ addr[c].nbOut \in Nat
    BY DEF Storage, Addr, Counts
  <2>2. QED
    BY <2>1 DEF CountersAreSmall
<1>5. QED
  BY <1>1, <1>2, <1>3, <1>4

(* A balance is a natural number, that of the coins of the address. *)
LEMMA BalanceType ==
  ASSUME LoopInv, BalanceIsLedger, NEW a \in Addrs, Followed(a)
  PROVE  /\ IsPurse(Owned(CoinsNow, a))
         /\ Balance(a) = Value(Owned(CoinsNow, a)) /\ Balance(a) \in Nat
<1>1. IsPurse(Owned(CoinsNow, a))
  BY LoopSets, SmallerPurse DEF Owned
<1>2. QED
  BY <1>1, ValueType DEF BalanceIsLedger

(* A move that is in the ledger too. *)
LEMMA MoveLedgerStep ==
  ASSUME LoopInv, LedgerInv,
         NEW a \in Owners, NEW delta \in Int, NEW line \in Line,
         move(a, delta, line),
         NbMoves < MaxTxs * (MaxInputs + MaxOutputs), NbMoves' = NbMoves + 1,
         \A b \in Owners \ {a} : Owned(CoinsNow, b)' = Owned(CoinsNow, b),
         Value(Owned(CoinsNow, a))' = Value(Owned(CoinsNow, a)) + delta,
         Value(Owned(CoinsNow, a))' \in Nat
  PROVE  LedgerInv'
<1>1. NbMoves \in Nat /\ height \in 0 .. MaxBlocks
  BY NbMovesBound DEF LoopInv, LoopTypeOK
<1>2. CASE ~Followed(a)
  <2>1. UNCHANGED balanceVars
    BY <1>2 DEF move
  <2>2. Storage' /\ EntriesAreDue'
    BY <2>1 DEF LedgerInv, balanceVars, Storage, EntriesAreDue, AddrsAreOwn,
       InMap, AddrOf, Followed, restrictMap, detailed
  <2>3. BalanceIsLedger'
    <3>1. \A b \in Addrs : Followed(b) => b \in Owners \ {a}
      BY <1>2 DEF Addrs
    <3>2. \A b \in Addrs : /\ Followed(b)' = Followed(b)
                           /\ Balance(b)' = Balance(b)
      BY <2>1 DEF balanceVars, Balance, Followed, restrictMap
    <3>3. \A b \in Addrs : Followed(b) =>
                Value(Owned(CoinsNow, b))' = Value(Owned(CoinsNow, b))
      BY <3>1
    <3>4. QED
      BY <3>2, <3>3 DEF LedgerInv, BalanceIsLedger
  <2>4. CountersAreSmall'
    <3>1. \A c \in Cells : addr[c].nbIn \in Nat /\ addr[c].nbOut \in Nat
      BY DEF LedgerInv, Storage, Addr, Counts
    <3>2. QED
      BY <1>1, <2>1, <3>1 DEF LedgerInv, CountersAreSmall, balanceVars
  <2>5. QED
    BY <2>2, <2>3, <2>4 DEF LedgerInv
<1>3. CASE Followed(a)
  <2>1. MoveTo(a, delta, line) /\ a \in Addrs
    BY <1>3 DEF move, Followed, Addrs
  <2>2. /\ Balance(a) \in Nat
        /\ Balance(a) = Value(Owned(CoinsNow, a))
    BY <1>3, <2>1, BalanceType DEF LedgerInv
  <2>3. Balance(a) + delta \in Nat
    BY <2>2
  <2>4. /\ Storage' /\ EntriesAreDue'
        /\ options' = options
        /\ Balance(a)' = Balance(a) + delta
        /\ \A b \in Addrs \ {a} : Balance(b)' = Balance(b)
        /\ \A c \in Cells : /\ addr'[c].nbIn <= NbMoves + 1
                            /\ addr'[c].nbOut <= NbMoves + 1
    BY <1>1, <1>3, <2>1, <2>2, <2>3, MoveToIsLocal DEF LedgerInv
  <2>5. BalanceIsLedger'
    <3>1. \A b \in Addrs : Followed(b)' = Followed(b)
      BY <2>4 DEF Followed, restrictMap
    <3>2. \A b \in Addrs \ {a} :
                Value(Owned(CoinsNow, b))' = Value(Owned(CoinsNow, b))
      BY DEF Addrs
    <3>3. \A b \in Addrs : Followed(b) =>
                Balance(b)' = Value(Owned(CoinsNow, b))'
      BY <2>2, <2>4, <3>2 DEF LedgerInv, BalanceIsLedger
    <3>4. QED
      BY <3>1, <3>3 DEF BalanceIsLedger
  <2>6. CountersAreSmall'
    BY <2>4 DEF CountersAreSmall
  <2>7. QED
    BY <2>4, <2>5, <2>6 DEF LedgerInv
<1>4. QED
  BY <1>2, <1>3

(* An edge takes one coin from its owner, and from nobody else. *)
LEMMA EdgeCoins ==
  ASSUME LoopInv, NEW coin \in coins, Edge(coin)
  PROVE  /\ coin.owner \in Owners /\ coin.value \in Nat
         /\ NbMoves < MaxTxs * (MaxInputs + MaxOutputs)
         /\ NbMoves' = NbMoves + 1
         /\ Owned(CoinsNow, coin.owner)' = Owned(CoinsNow, coin.owner) \ {coin}
         /\ coin \in Owned(CoinsNow, coin.owner)
         /\ \A b \in Owners \ {coin.owner} :
                Owned(CoinsNow, b)' = Owned(CoinsNow, b)
<1>1. /\ coin \in CoinsNow /\ CoinsNow' = CoinsNow \ {coin}
      /\ Cardinality(tx'.spent) = Cardinality(tx.spent) + 1
      /\ tx'.made = tx.made
  BY EdgeLoopStep
<1>2. coin.owner \in Owners /\ coin.value \in Nat
  BY LoopSets, CoinValues
<1>3. /\ pc = "inputs" /\ pc' = pc /\ nbTxs' = nbTxs
      /\ Cardinality(tx.spent) < MaxInputs
  BY DEF Edge
<1>4. NbMoves < MaxTxs * (MaxInputs + MaxOutputs)
  BY <1>3, NbMovesBound DEF InTX
<1>5. NbMoves' = NbMoves + 1
  <2> DEFINE k == (nbTxs - 1) * (MaxInputs + MaxOutputs)
  <2>1. /\ NbMoves = k + Cardinality(tx.spent) + Cardinality(tx.made)
        /\ NbMoves' = k + (Cardinality(tx.spent) + 1) + Cardinality(tx.made)
    BY <1>1, <1>3 DEF NbMoves, InTX
  <2>2. k \in Int /\ Cardinality(tx.spent) \in Nat /\ Cardinality(tx.made) \in Nat
    BY LoopSets DEF LoopInv, LoopTypeOK
  <2> HIDE DEF k
  <2>3. QED
    BY <2>1, <2>2
<1>6. QED
  BY <1>1, <1>2, <1>4, <1>5 DEF Owned

(* An output gives its owner one coin more. *)
LEMMA OutputCoins ==
  ASSUME LoopInv, NEW owner \in Owners, NEW value \in Amount,
         EndOutput(owner, value)
  PROVE  /\ NbMoves < MaxTxs * (MaxInputs + MaxOutputs)
         /\ NbMoves' = NbMoves + 1
         /\ Owned(CoinsNow, owner)' =
                Owned(CoinsNow, owner) \union {Output(owner, value)}
         /\ Output(owner, value) \notin Owned(CoinsNow, owner)
         /\ \A b \in Owners \ {owner} :
                Owned(CoinsNow, b)' = Owned(CoinsNow, b)
<1> DEFINE o == Output(owner, value)
<1>1. /\ o.owner = owner /\ o \notin CoinsNow
      /\ CoinsNow' = CoinsNow \union {o}
      /\ Cardinality(tx'.made) = Cardinality(tx.made) + 1
      /\ tx'.spent = tx.spent
  BY EndOutputLoopStep
<1> HIDE DEF o
<1>2. /\ pc = "outputs" /\ pc' = pc /\ nbTxs' = nbTxs
      /\ Cardinality(tx.made) < MaxOutputs
  BY DEF EndOutput
<1>3. NbMoves < MaxTxs * (MaxInputs + MaxOutputs)
  BY <1>2, NbMovesBound DEF InTX
<1>4. NbMoves' = NbMoves + 1
  <2> DEFINE k == (nbTxs - 1) * (MaxInputs + MaxOutputs)
  <2>1. /\ NbMoves = k + Cardinality(tx.spent) + Cardinality(tx.made)
        /\ NbMoves' = k + Cardinality(tx.spent) + (Cardinality(tx.made) + 1)
    BY <1>1, <1>2 DEF NbMoves, InTX
  <2>2. k \in Int /\ Cardinality(tx.spent) \in Nat /\ Cardinality(tx.made) \in Nat
    BY LoopSets DEF LoopInv, LoopTypeOK
  <2> HIDE DEF k
  <2>3. QED
    BY <2>1, <2>2
<1>5. QED
  BY <1>1, <1>3, <1>4 DEF Owned, o

(* The bound on the moves does not shrink. *)
LEMMA NbMovesGrows ==
  ASSUME LoopInv, \/ UNCHANGED <<pc, nbTxs, tx>>
                  \/ nbTxs' = nbTxs /\ ~InTX'
                  \/ StartTX
                  \/ StartOutputs
  PROVE  NbMoves \in Nat /\ NbMoves' \in Nat /\ NbMoves <= NbMoves'
<1> DEFINE k == MaxInputs + MaxOutputs
<1>1. /\ NbMoves \in Nat /\ nbTxs * k \in Nat /\ NbMoves <= nbTxs * k
  BY NbMovesBound
<1>2. CASE UNCHANGED <<pc, nbTxs, tx>>
  BY <1>1, <1>2 DEF NbMoves, InTX
<1>3. CASE nbTxs' = nbTxs /\ ~InTX'
  BY <1>1, <1>3 DEF NbMoves
<1>4. CASE StartTX
  <2>1. /\ pc' = "inputs" /\ nbTxs' - 1 = nbTxs
        /\ tx'.spent = {} /\ tx'.made = {}
    BY <1>4, StartTXLoopStep DEF StartTX, Goto, LoopInv, LoopTypeOK
  <2>2. NbMoves' = nbTxs * k + 0 + 0
    BY <2>1, FS_EmptySet DEF NbMoves, InTX
  <2>3. QED
    BY <1>1, <2>2
<1>5. CASE StartOutputs
  <2>1. /\ pc = "inputs" /\ pc' = "outputs" /\ UNCHANGED <<nbTxs, tx>>
    BY <1>5 DEF StartOutputs, Goto
  <2>2. NbMoves' = NbMoves
    BY <2>1 DEF NbMoves, InTX
  <2>3. QED
    BY <1>1, <2>2
<1>6. QED
  BY <1>2, <1>3, <1>4, <1>5

LEMMA LedgerStep ==
  LoopInv /\ HashesAreKept /\ LedgerInv /\ [Next]_vars => LoopInv' /\ LedgerInv'
<1> SUFFICES ASSUME LoopInv, HashesAreKept, LedgerInv, [Next]_vars
             PROVE  LoopInv' /\ LedgerInv'
  OBVIOUS
<1>1. /\ height \in 0 .. MaxBlocks /\ nbTX \in 0 .. MaxTxs
      /\ nbTxs \in 0 .. MaxTxs /\ nbTxs + nbTX <= MaxTxs
  BY DEF LoopInv, LoopTypeOK
<1>2. ASSUME UNCHANGED <<nbTxs, tx, coins, balanceVars>>, LoopInv', ~InTX'
      PROVE  LedgerInv'
  <2>1. NbMoves \in Nat /\ NbMoves' \in Nat /\ NbMoves <= NbMoves'
    BY <1>2, NbMovesGrows
  <2>2. CoinsNow' = CoinsNow
    BY <1>2 DEF CoinsNow
  <2>3. QED
    BY <1>2, <2>1, <2>2, QuietLedgerStep
<1>3. CASE \/ ABInitCallback \/ CrashInInitCallback
           \/ BuildIndex /\ UNCHANGED balanceVars
           \/ StartLongestChain /\ UNCHANGED balanceVars
           \/ ABEndBlock \/ ABEndOfChain \/ ABWrapup
  <2>1. /\ UNCHANGED <<height, nbTX, nbTxs, tx, coins, balanceVars>>
        /\ pc \in {"init", "index", "start", "block", "tx", "wrapup"}
        /\ pc' \in {"index", "start", "block", "wrapup", "end", "crash"}
    BY <1>3 DEF ABInitCallback, CrashInInitCallback, BuildIndex, InitCallback,
       StartLongestChain, ABEndBlock, EndBlock, ABEndOfChain, EndOfChain,
       ABWrapup, Wrapup, Goto
  <2>2. LoopInv'
    BY <1>1, <2>1, QuietLoopStep
  <2>3. QED
    BY <1>2, <2>1, <2>2 DEF InTX
<1>4. CASE StartTX /\ UNCHANGED balanceVars
  <2>1. LoopInv' /\ CoinsNow' = CoinsNow
    BY <1>4, StartTXLoopStep
  <2>2. QED
    BY <1>4, <2>1, NbMovesGrows, QuietLedgerStep
<1>5. CASE StartOutputs /\ UNCHANGED balanceVars
  <2>1. LoopInv' /\ CoinsNow' = CoinsNow
    BY <1>5, StartOutputsLoopStep DEF StartOutputs, CoinsNow
  <2>2. QED
    BY <1>5, <2>1, NbMovesGrows, QuietLedgerStep
<1>6. ASSUME NEW n \in 1 .. MaxTxs, ABStartBlock(n) PROVE LoopInv' /\ LedgerInv'
  <2>1. /\ pc = "block" /\ pc' = "first" /\ height' \in 0 .. MaxBlocks
        /\ nbTX' \in 0 .. MaxTxs /\ nbTxs + nbTX' <= MaxTxs
        /\ UNCHANGED <<nbTxs, tx, coins, balanceVars>>
    BY <1>1, <1>6 DEF ABStartBlock, StartBlock, Goto
  <2>2. LoopInv'
    BY <2>1, QuietLoopStep
  <2>3. QED
    BY <1>2, <2>1, <2>2 DEF InTX
<1>7. ASSUME NEW coin \in coins, ABEdge(coin) PROVE LoopInv' /\ LedgerInv'
  <2> DEFINE a == coin.owner  v == coin.value
             line == LineOf(InBlock(coin.tx), coin.n, -v, TRUE)
  <2>1. Edge(coin) /\ move(a, -v, line)
    BY <1>7 DEF ABEdge
  <2>2. LoopInv'
    BY <2>1, EdgeLoopStep
  <2>3. line \in Line
    BY <1>1, LoopSets, CoinValues, LineTypes
  <2>4. /\ a \in Owners /\ v \in Nat
        /\ NbMoves < MaxTxs * (MaxInputs + MaxOutputs)
        /\ NbMoves' = NbMoves + 1
        /\ Owned(CoinsNow, a)' = Owned(CoinsNow, a) \ {coin}
        /\ coin \in Owned(CoinsNow, a)
        /\ \A b \in Owners \ {a} : Owned(CoinsNow, b)' = Owned(CoinsNow, b)
    BY <2>1, EdgeCoins
  <2>5. /\ Value(Owned(CoinsNow, a))' = Value(Owned(CoinsNow, a)) + (-v)
        /\ Value(Owned(CoinsNow, a))' \in Nat
    <3> DEFINE S == Owned(CoinsNow, a)
    <3>1. IsPurse(S) /\ coin \in S
      BY <2>4, LoopSets, SmallerPurse DEF Owned
    <3>2. Value(Owned(CoinsNow, a))' = Value(S \ {coin})
      BY <2>4
    <3> HIDE DEF S
    <3>3. /\ Value(S \ {coin}) = Value(S) - v /\ v <= Value(S)
          /\ Value(S) \in Nat
      BY <3>1, ValueRemove, ValueType
    <3>4. QED
      BY <2>4, <3>2, <3>3 DEF S
  <2> HIDE DEF a, v, line
  <2>6. -v \in Int
    BY <2>4
  <2>7. LedgerInv'
    BY <2>1, <2>3, <2>4, <2>5, <2>6, MoveLedgerStep
  <2>8. QED
    BY <2>2, <2>7
<1>8. ASSUME NEW owner \in Owners, NEW value \in Amount,
             ABEndOutput(owner, value)
      PROVE  LoopInv' /\ LedgerInv'
  <2> DEFINE o == Output(owner, value)
             line == LineOf(InCell(cellOf[nbTxs]), o.n, value, FALSE)
  <2>1. EndOutput(owner, value) /\ move(owner, value, line)
    BY <1>8 DEF ABEndOutput
  <2>2. LoopInv' /\ o \in Coin /\ o.value = value
    BY <2>1, EndOutputLoopStep
  <2>3. line \in Line
    <3>1. value \in Nat
      BY CoinValues
    <3>2. nbTxs \in 1 .. MaxTxs /\ o.n \in 1 .. MaxOutputs
      BY <2>1, <2>2, EndOutputLoopStep, CoinValues
    <3> HIDE DEF o
    <3>3. QED
      BY <1>1, <3>1, <3>2, LineTypes
  <2>4. /\ NbMoves < MaxTxs * (MaxInputs + MaxOutputs)
        /\ NbMoves' = NbMoves + 1
        /\ Owned(CoinsNow, owner)' = Owned(CoinsNow, owner) \union {o}
        /\ o \notin Owned(CoinsNow, owner)
        /\ \A b \in Owners \ {owner} : Owned(CoinsNow, b)' = Owned(CoinsNow, b)
    BY <2>1, OutputCoins
  <2>5. value \in Nat
    BY CoinValues
  <2>6. /\ Value(Owned(CoinsNow, owner))' = Value(Owned(CoinsNow, owner)) + value
        /\ Value(Owned(CoinsNow, owner))' \in Nat
    <3> DEFINE S == Owned(CoinsNow, owner)
    <3>1. IsPurse(S) /\ o \notin S
      BY <2>4, LoopSets, SmallerPurse DEF Owned
    <3>2. Value(Owned(CoinsNow, owner))' = Value(S \union {o})
      BY <2>4
    <3> HIDE DEF S, o
    <3>3. Value(S \union {o}) = Value(S) + value /\ Value(S) \in Nat
      BY <2>2, <2>5, <3>1, ValueAdd, ValueType
    <3>4. QED
      BY <2>5, <3>2, <3>3 DEF S
  <2> HIDE DEF o, line
  <2>7. value \in Int
    BY <2>5
  <2>8. LedgerInv'
    BY <2>1, <2>3, <2>4, <2>6, <2>7, MoveLedgerStep
  <2>9. QED
    BY <2>2, <2>8
<1>9. CASE ABEndTX
  <2> DEFINE isOver == AnswerAfterTX(DoneNow)
  <2>1. EndTX(isOver) /\ UNCHANGED balanceVars
    BY <1>9 DEF ABEndTX
  <2>2. /\ LoopInv' /\ CoinsNow' = CoinsNow
    BY <2>1, EndTXLoopStep
  <2>3. nbTxs' = nbTxs /\ ~InTX'
    BY <2>1 DEF EndTX, Goto, InTX
  <2>4. NbMoves \in Nat /\ NbMoves' \in Nat /\ NbMoves <= NbMoves'
    BY <2>3, NbMovesGrows
  <2>5. QED
    BY <2>1, <2>2, <2>4, QuietLedgerStep
<1>10. CASE Killed
  <2>1. /\ pc' = "killed"
        /\ UNCHANGED <<height, nbTX, nbTxs, tx, coins, balanceVars>>
    BY <1>10 DEF Killed
  <2>2. LoopTypeOK'
    BY <2>1 DEF LoopInv, LoopTypeOK
  <2>3. \A c \in coins : c.tx <= nbTxs
    BY DEF LoopInv
  <2>4. LoopInv'
    BY <2>1, <2>2, <2>3 DEF LoopInv, InTX
  <2>5. QED
    BY <1>2, <2>1, <2>4 DEF InTX
<1>11. CASE forceDone \/ Stopped \/ UNCHANGED vars
  <2>1. UNCHANGED <<pc, height, nbTX, nbTxs, tx, coins, balanceVars>>
    BY <1>11 DEF forceDone, Stopped, vars, loopVars
  <2>2. LoopInv'
    BY <2>1 DEF LoopInv, LoopTypeOK, InTX
  <2>3. CoinsNow' = CoinsNow
    BY <2>1 DEF CoinsNow
  <2>4. NbMoves \in Nat /\ NbMoves' \in Nat /\ NbMoves <= NbMoves'
    BY <2>1, NbMovesGrows
  <2>5. QED
    BY <2>1, <2>2, <2>3, <2>4, QuietLedgerStep
<1>12. QED
  BY <1>3, <1>4, <1>5, <1>6, <1>7, <1>8, <1>9, <1>10, <1>11
     DEF Next, Program, Quiet

-----------------------------------------------------------------------------
(* The ends of the run: ^C and the option -a. *)

ControlInv ==
    /\ isDone \in BOOLEAN /\ interrupted \in BOOLEAN /\ handler \in BOOLEAN
    /\ late \in Nat /\ blockCoins \subseteq Coin
    /\ InterruptEndsLoop
    /\ CutoffEndsLoop

LEMMA MaxWithOne ==
  ASSUME NEW n \in Nat
  PROVE  Max({n, 1}) = IF 1 < n THEN n ELSE 1
<1> DEFINE m == IF 1 < n THEN n ELSE 1
<1>1. m \in {n, 1} /\ \A y \in {n, 1} : m >= y
  OBVIOUS
<1>2. \A x \in {n, 1} : (\A y \in {n, 1} : x >= y) => x = m
  OBVIOUS
<1>3. Max({n, 1}) = CHOOSE x \in {n, 1} : \A y \in {n, 1} : x >= y
  BY DEF Max
<1> HIDE DEF m
<1>4. QED
  BY <1>1, <1>2, <1>3 DEF m

LEMMA InitControlInv == Init => ControlInv
<1> SUFFICES ASSUME Init PROVE ControlInv
  OBVIOUS
<1> USE DEF Init, LoopInit, NoTx
<1>1. InterruptEndsLoop
  BY DEF InterruptEndsLoop
<1>2. cutoffBlock # NoBlock => 0 <= Max({cutoffBlock, 1})
  BY OptionTypes, MaxWithOne
<1>3. CutoffEndsLoop
  BY <1>2, OptionTypes DEF CutoffEndsLoop, CutoffIsHonoured, InTX
<1>4. QED
  BY <1>1, <1>3 DEF ControlInv

(* The command line is read once. *)
LEMMA OptionsKept ==
  [Next]_vars => options' = options
BY DEF Next, Program, ABInitCallback, CrashInInitCallback, Quiet, ABStartBlock,
   ABEdge, ABEndOutput, ABEndTX, ABEndBlock, ABEndOfChain, ABWrapup, forceDone,
   Killed, Stopped, vars, balanceVars, move, MoveTo

LEMMA ControlStep == LoopInv /\ LedgerInv /\ ControlInv /\ [Next]_vars => ControlInv'
<1> SUFFICES ASSUME LoopInv, LedgerInv, ControlInv, [Next]_vars
             PROVE  ControlInv'
  OBVIOUS
<1> DEFINE cutoff == cutoffBlock  most == Max({cutoffBlock, 1})
<1>1. cutoff' = cutoff /\ most' = most
  BY OptionsKept DEF cutoffBlock
<1>2. cutoff # NoBlock => cutoff \in Nat /\ most = IF 1 < cutoff THEN cutoff ELSE 1
  BY OptionTypes, MaxWithOne DEF LedgerInv, Storage
<1>3. /\ height \in Nat /\ height <= MaxBlocks /\ nbTxs \in Nat
      /\ coins \subseteq Coin /\ tx.spent \subseteq coins
      /\ \A c \in tx.made : c.tx = nbTxs
  BY DEF LoopInv, LoopTypeOK
<1>4. /\ isDone \in BOOLEAN /\ interrupted \in BOOLEAN /\ handler \in BOOLEAN
      /\ late \in Nat /\ blockCoins \subseteq Coin
      /\ late <= 1 /\ (late > 0 => pc \in {"wrapup", "end", "killed"})
  BY DEF ControlInv, InterruptEndsLoop
<1>5. /\ pc \in {"init", "index", "start"} => height = 0 /\ ~isDone
      /\ pc \in {"first", "tx", "inputs", "outputs"} => height > 0
      /\ pc \in {"init", "index", "start", "block", "first"} => coins = blockCoins
  BY DEF ControlInv, CutoffEndsLoop
<1>6. ASSUME cutoff # NoBlock
      PROVE  /\ height > 0 /\ cutoff <= height => isDone
             /\ pc \in {"block", "tx"} => height = 0 \/ height < cutoff
             /\ pc \in {"inputs", "outputs"} /\ cutoff <= height
                   => coins = blockCoins
             /\ height <= most
             /\ cutoff <= height => \A c \in coins \ blockCoins : c.tx = nbTxs
  <2>1. cutoff \in Nat
    BY <1>2, <1>6
  <2>2. cutoff <= height <=> height >= cutoff
    BY <1>3, <2>1
  <2>3. QED
    BY <1>6, <2>2 DEF ControlInv, CutoffEndsLoop, CutoffIsHonoured, InTX
<1> HIDE DEF cutoff, most
<1>7. ASSUME /\ isDone' \in BOOLEAN /\ interrupted' \in BOOLEAN /\ handler' \in BOOLEAN
             /\ blockCoins' \subseteq Coin,
             late' \in Nat, late' <= 1,
             late' > 0 => pc' \in {"wrapup", "end", "killed"},
             pc' \in {"init", "index", "start"} => height' = 0 /\ ~isDone',
             pc' \in {"first", "tx", "inputs", "outputs"} => height' > 0,
             pc' \in {"init", "index", "start", "block", "first"}
                => coins' = blockCoins',
             height' \in Nat,
             cutoff # NoBlock =>
               /\ height' > 0 /\ cutoff <= height' => isDone'
               /\ pc' \in {"block", "tx"} => height' = 0 \/ height' < cutoff
               /\ pc' \in {"inputs", "outputs"} /\ cutoff <= height'
                     => coins' = blockCoins'
               /\ height' <= most
               /\ cutoff <= height' =>
                     \A c \in coins' \ blockCoins' : c.tx = nbTxs'
      PROVE  ControlInv'
  <2>1. InterruptEndsLoop'
    BY <1>7 DEF InterruptEndsLoop
  <2>2. cutoff # NoBlock => (cutoff <= height' <=> height' >= cutoff)
    BY <1>2, <1>7
  <2>3. CutoffIsHonoured'
    BY <1>1, <1>7, <2>2 DEF CutoffIsHonoured, cutoff, most
  <2>4. CutoffEndsLoop'
    BY <1>1, <1>7, <2>3 DEF CutoffEndsLoop, InTX, cutoff
  <2>5. QED
    BY <1>7, <2>1, <2>4 DEF ControlInv
<1>8. CASE \/ ABInitCallback
           \/ BuildIndex /\ UNCHANGED <<isDone, signalVars, ghosts>>
           \/ StartLongestChain /\ UNCHANGED <<isDone, signalVars, ghosts>>
  <2>1. /\ UNCHANGED <<height, nbTxs, coins, isDone, interrupted, handler>>
        /\ UNCHANGED <<late, blockCoins>>
        /\ pc \in {"init", "index", "start"} /\ pc' \in {"index", "start", "block"}
    BY <1>5, <1>8 DEF ABInitCallback, InitCallback, BuildIndex,
       StartLongestChain, Goto, signalVars, ghosts
  <2>2. late = 0 /\ height = 0
    BY <1>4, <1>5, <2>1
  <2>3. QED
    BY <1>3, <1>4, <1>5, <1>6, <1>7, <2>1, <2>2
<1>9. ASSUME UNCHANGED <<height, nbTxs, coins, isDone, handler, late, blockCoins>>,
             interrupted' = interrupted,
             pc' \in {"wrapup", "end", "killed", "crash"},
             pc' = "crash" => late = 0
      PROVE  ControlInv'
  BY <1>3, <1>4, <1>5, <1>6, <1>7, <1>9
<1>10. CASE CrashInInitCallback \/ ABEndOfChain \/ ABWrapup \/ Killed
  <2>1. UNCHANGED <<height, nbTxs, coins, isDone, handler, late, blockCoins>>
    BY <1>10 DEF CrashInInitCallback, ABEndOfChain, EndOfChain, ABWrapup, Wrapup,
       Killed, signalVars, ghosts
  <2>2. /\ interrupted' = interrupted
        /\ pc' \in {"wrapup", "end", "killed", "crash"}
        /\ pc' = "crash" => pc = "init"
    BY <1>10 DEF CrashInInitCallback, ABEndOfChain, EndOfChain, ABWrapup, Wrapup,
       Killed, Goto, signalVars
  <2>3. QED
    BY <1>4, <1>9, <2>1, <2>2
<1>11. CASE forceDone \/ Stopped \/ UNCHANGED vars
  <2>1. /\ UNCHANGED <<pc, height, nbTxs, coins, isDone, late, blockCoins>>
        /\ interrupted' \in BOOLEAN /\ handler' \in BOOLEAN
    BY <1>4, <1>11 DEF forceDone, Stopped, vars, loopVars, signalVars, ghosts
  <2>2. QED
    BY <1>3, <1>4, <1>5, <1>6, <1>7, <2>1
<1>12. CASE StartTX /\ UNCHANGED <<isDone, signalVars, ghosts>>
  <2>1. /\ pc \in {"first", "tx"} /\ pc' = "inputs"
        /\ UNCHANGED <<height, coins, isDone, interrupted, handler>>
        /\ UNCHANGED <<late, blockCoins>>
    BY <1>12 DEF StartTX, Goto, signalVars, ghosts
  <2>2. cutoff # NoBlock /\ cutoff <= height => coins = blockCoins
    <3>1. cutoff # NoBlock => ~(height < cutoff /\ cutoff <= height)
      BY <1>2, <1>3
    <3>2. QED
      BY <1>5, <1>6, <2>1, <3>1
  <2>3. QED
    BY <1>3, <1>4, <1>5, <1>6, <1>7, <2>1, <2>2
<1>13. CASE StartOutputs /\ UNCHANGED <<isDone, signalVars, ghosts>>
  <2>1. /\ pc = "inputs" /\ pc' = "outputs"
        /\ UNCHANGED <<height, nbTxs, coins, isDone, interrupted, handler>>
        /\ UNCHANGED <<late, blockCoins>>
    BY <1>13 DEF StartOutputs, Goto, signalVars, ghosts
  <2>2. QED
    BY <1>3, <1>4, <1>5, <1>6, <1>7, <2>1
<1>14. ASSUME NEW n \in 1 .. MaxTxs, ABStartBlock(n) PROVE ControlInv'
  <2>1. /\ pc = "block" /\ pc' = "first" /\ height' = height + 1
        /\ UNCHANGED <<nbTxs, coins, interrupted, handler, late, blockCoins>>
        /\ isDone' = (isDone \/ (cutoff # NoBlock /\ cutoff <= height'))
    BY <1>1, <1>14 DEF ABStartBlock, StartBlock, IsCutOff, Goto, signalVars,
       ghosts, cutoff
  <2>2. cutoff # NoBlock => height' <= most
    BY <1>2, <1>3, <1>6, <2>1
  <2>3. coins' = blockCoins' /\ height' \in Nat /\ height' > 0 /\ late' = 0
    BY <1>3, <1>4, <1>5, <2>1
  <2>4. isDone' \in BOOLEAN
    BY <1>4, <2>1
  <2>5. QED
    BY <1>4, <1>7, <2>1, <2>2, <2>3, <2>4
<1>15. ASSUME NEW coin \in coins, ABEdge(coin) PROVE ControlInv'
  <2>1. /\ pc = "inputs"
        /\ UNCHANGED <<pc, height, nbTxs, coins, isDone, interrupted, handler>>
        /\ UNCHANGED <<late, blockCoins>>
    BY <1>15 DEF ABEdge, Edge, signalVars, ghosts
  <2>2. QED
    BY <1>3, <1>4, <1>5, <1>6, <1>7, <2>1
<1>16. ASSUME NEW owner \in Owners, NEW value \in Amount,
              ABEndOutput(owner, value)
       PROVE  ControlInv'
  <2>1. /\ pc = "outputs"
        /\ UNCHANGED <<pc, height, nbTxs, coins, isDone, interrupted, handler>>
        /\ UNCHANGED <<late, blockCoins>>
    BY <1>4, <1>16 DEF ABEndOutput, EndOutput, signalVars, ghosts
  <2>2. QED
    BY <1>3, <1>4, <1>5, <1>6, <1>7, <2>1
<1>17. CASE ABEndTX
  <2>1. /\ pc = "outputs" /\ pc' = IF isDone \/ interrupted THEN "wrapup" ELSE "tx"
        /\ UNCHANGED <<height, nbTxs, interrupted, handler, blockCoins>>
        /\ coins' = (coins \ tx.spent) \union tx.made
        /\ isDone' = (isDone \/ interrupted)
        /\ late' = IF interrupted THEN late + 1 ELSE late
    BY <1>17 DEF ABEndTX, EndTX, AnswerAfterTX, DoneNow, done, Goto, signalVars,
       CoinsNow
  <2>2. late = 0 /\ height > 0
    BY <1>4, <1>5, <2>1
  <2>3. late' \in Nat /\ late' <= 1 /\ (late' > 0 => pc' = "wrapup")
    BY <1>4, <2>1, <2>2
  <2>4. isDone' \in BOOLEAN /\ pc' \in {"wrapup", "tx"}
    BY <1>4, <2>1
  <2>5. ASSUME cutoff # NoBlock
        PROVE  /\ cutoff <= height => isDone' /\ pc' = "wrapup"
               /\ pc' = "tx" => height < cutoff
               /\ cutoff <= height =>
                    \A c \in coins' \ blockCoins : c.tx = nbTxs
    <3>1. cutoff <= height => isDone' /\ pc' = "wrapup" /\ coins = blockCoins
      BY <1>6, <2>1, <2>2, <2>5
    <3>2. pc' = "tx" => height < cutoff
      BY <1>2, <1>3, <2>5, <3>1
    <3>3. QED
      BY <1>3, <2>1, <3>1, <3>2
  <2>6. QED
    BY <1>3, <1>4, <1>6, <1>7, <2>1, <2>2, <2>3, <2>4, <2>5
<1>18. CASE ABEndBlock
  <2>1. /\ pc = "tx" /\ pc' = IF isDone \/ interrupted THEN "wrapup" ELSE "block"
        /\ UNCHANGED <<height, nbTxs, coins, interrupted, handler, late>>
        /\ blockCoins' = coins
        /\ isDone' = (isDone \/ interrupted)
    BY <1>18 DEF ABEndBlock, EndBlock, DoneNow, done, Goto, signalVars
  <2>2. late = 0 /\ height > 0
    BY <1>4, <1>5, <2>1
  <2>3. isDone' \in BOOLEAN /\ pc' \in {"wrapup", "block"} /\ late' = 0
    BY <1>4, <2>1, <2>2
  <2>4. blockCoins' \subseteq Coin /\ coins' = blockCoins'
    BY <1>3, <2>1
  <2>5. QED
    BY <1>3, <1>4, <1>6, <1>7, <2>1, <2>2, <2>3, <2>4
<1>19. QED
  BY <1>8, <1>10, <1>11, <1>12, <1>13, <1>14, <1>15, <1>16, <1>17, <1>18
     DEF Next, Program, Quiet

-----------------------------------------------------------------------------
(* The report. *)

ReportInv ==
    /\ report \in Seq(Addr)
    /\ ReportIsLedger
    /\ TopBalances

(* The rows, before they are cut to the limit, are the entries of addrMap, *)
(* each of them once.                                                      *)
LEMMA RowsAreEntries ==
  ASSUME Storage, NEW order \in SetToSeqs(InMap),
         NEW rows, rows = [i \in DOMAIN order |-> addr[addrMap[order[i]]]],
         NEW n, n = Cardinality(InMap)
  PROVE  /\ n \in Nat /\ rows \in Seq(Addr) /\ Len(rows) = n
         /\ \A i \in 1 .. n : /\ order[i] \in InMap
                              /\ rows[i].hash = order[i]
                              /\ rows[i].sum = Balance(order[i])
                              /\ rows[i].sum \in Nat
         /\ \A i, j \in 1 .. n : i # j => order[i] # order[j]
         /\ \A a \in InMap : \E i \in 1 .. n : order[i] = a
<1> DEFINE D == 1 .. n
<1>1. IsFiniteSet(InMap) /\ n \in Nat
  BY OwnersAssumption, FS_Subset, FS_CardinalityType DEF InMap, Addrs
<1>2. /\ order \in [D -> InMap]
      /\ \A i, j \in D : i # j => order[i] # order[j]
  BY DEF SetToSeqs
<1>3. order \in Injection(D, InMap)
  BY <1>2 DEF Injection, IsInjective
<1>4. Cardinality(D) = Cardinality(InMap)
  BY <1>1, FS_Interval
<1>5. order \in Surjection(D, InMap)
  <2>1. Cardinality(D) = Cardinality(InMap) <=> order \in Surjection(D, InMap)
    BY <1>1, <1>3, FS_Injection
  <2>2. QED
    BY <1>4, <2>1
<1>6. \A a \in InMap : \E i \in D : order[i] = a
  BY <1>5 DEF Surjection
<1>7. rows = [i \in D |-> addr[addrMap[order[i]]]]
  BY <1>2
<1>8. \A a \in InMap : /\ addr[addrMap[a]] \in Addr
                       /\ addr[addrMap[a]].hash = a
                       /\ addr[addrMap[a]].sum = Balance(a)
                       /\ addr[addrMap[a]].sum \in Nat
  <2>1. \A a \in InMap : addr[addrMap[a]] \in Addr
    BY DEF Storage, InMap
  <2>2. \A a \in InMap : addr[addrMap[a]].hash = a
    BY DEF Storage, AddrsAreOwn, AddrOf
  <2>3. \A a \in InMap : addr[addrMap[a]].sum = Balance(a)
    BY DEF InMap, Balance
  <2>4. \A r \in Addr : r.sum \in Nat
    BY DEF Addr
  <2>5. QED
    BY <2>1, <2>2, <2>3, <2>4
<1>9. rows \in [D -> Addr]
  BY <1>2, <1>7, <1>8
<1>10. rows \in Seq(Addr) /\ Len(rows) = n
  <2>1. rows \in Seq(Addr)
    BY <1>1, <1>9, SeqDef
  <2>2. QED
    BY <1>1, <1>9, <2>1
<1>11. QED
  BY <1>1, <1>2, <1>6, <1>7, <1>8, <1>10

(* With -l the report is the beginning of the rows. *)
LEMMA ShownIsPrefix ==
  ASSUME options \in Options, NEW rows \in Seq(Addr)
  PROVE  /\ Shown(rows) \in Seq(Addr) /\ Len(Shown(rows)) <= Len(rows)
         /\ \A i \in 1 .. Len(Shown(rows)) : Shown(rows)[i] = rows[i]
         /\ limit # NoLimit => Len(Shown(rows)) <= limit
         /\ limit = NoLimit => Shown(rows) = rows
<1>1. Len(rows) \in Nat /\ \A i \in 1 .. Len(rows) : rows[i] \in Addr
  BY ElementOfSeq, LenProperties
<1>2. CASE limit = NoLimit \/ Len(rows) <= limit
  BY <1>1, <1>2 DEF Shown
<1>3. CASE ~(limit = NoLimit \/ Len(rows) <= limit)
  <2>1. limit \in Nat /\ limit <= Len(rows)
    BY <1>1, <1>3, OptionTypes
  <2>2. Shown(rows) = SubSeq(rows, 1, limit)
    BY <1>3 DEF Shown
  <2>3. \A i \in 1 .. limit : rows[i] \in Addr
    BY <1>1, <2>1
  <2>4. /\ SubSeq(rows, 1, limit) \in Seq(Addr)
        /\ Len(SubSeq(rows, 1, limit)) = IF 1 <= limit THEN limit - 1 + 1 ELSE 0
        /\ \A i \in 1 .. limit - 1 + 1 :
              SubSeq(rows, 1, limit)[i] = rows[1 + i - 1]
    BY <2>1, <2>3, SubSeqProperties
  <2>5. Len(Shown(rows)) = limit
    BY <2>1, <2>2, <2>4
  <2>6. \A i \in 1 .. limit : Shown(rows)[i] = rows[i]
    BY <2>1, <2>2, <2>4
  <2>7. QED
    BY <1>1, <1>3, <2>1, <2>2, <2>4, <2>5, <2>6
<1>4. QED
  BY <1>2, <1>3

LEMMA ReportStep ==
  LoopInv /\ LedgerInv /\ ControlInv /\ ReportInv /\ [Next]_vars => ReportInv'
<1> SUFFICES ASSUME LoopInv, LedgerInv, ControlInv, ReportInv, [Next]_vars
             PROVE  ReportInv'
  OBVIOUS
<1>1. options \in Options /\ options' = options
  BY OptionsKept DEF LedgerInv, Storage
<1>2. CASE ~ABWrapup /\ ~UNCHANGED vars
  <2>1. report' = report
    BY <1>2 DEF Next, Program, ABInitCallback, CrashInInitCallback, Quiet,
       ABStartBlock, ABEdge, ABEndOutput, ABEndTX, ABEndBlock, ABEndOfChain,
       forceDone, Killed, Stopped
  <2>2. pc' # "end"
    <3>1. CASE ABInitCallback
      BY <3>1 DEF ABInitCallback, InitCallback, Goto, ControlInv, CutoffEndsLoop
    <3>2. CASE CrashInInitCallback \/ Killed \/ forceDone
      BY <3>2 DEF CrashInInitCallback, Killed, forceDone, Over, loopVars
    <3>3. CASE Quiet \/ \E m \in 1 .. MaxTxs : ABStartBlock(m)
      BY <3>3 DEF Quiet, BuildIndex, StartLongestChain, StartTX, StartOutputs,
         ABStartBlock, StartBlock, Goto
    <3>4. CASE \/ \E coin \in coins : ABEdge(coin)
               \/ \E owner \in Owners, value \in Amount : ABEndOutput(owner, value)
      BY <3>4 DEF ABEdge, Edge, ABEndOutput, EndOutput
    <3>5. CASE ABEndTX \/ ABEndBlock \/ ABEndOfChain
      BY <3>5 DEF ABEndTX, EndTX, ABEndBlock, EndBlock, ABEndOfChain,
         EndOfChain, Goto
    <3>6. QED
      BY <1>2, <3>1, <3>2, <3>3, <3>4, <3>5 DEF Next, Program, Stopped
  <2>3. QED
    BY <2>1, <2>2 DEF ReportInv, ReportIsLedger, TopBalances, LimitShowsTop, Ended
<1>3. CASE UNCHANGED vars
  BY <1>3 DEF vars, loopVars, balanceVars, ReportInv, ReportIsLedger,
     TopBalances, LimitShowsTop, Ended, ShownRows, RowsOf, Followed, restrictMap, limit,
     detailed, csv
<1>4. CASE ABWrapup
  <2> DEFINE n == Cardinality(InMap)
  <2>1. PICK order \in SetToSeqs(InMap) :
          LET rows == [i \in DOMAIN order |-> addr[addrMap[order[i]]]] IN
            InOrder(rows) /\ report' = Shown(rows)
    BY <1>4 DEF ABWrapup
  <2> DEFINE rows == [i \in DOMAIN order |-> addr[addrMap[order[i]]]]
  <2>2. InOrder(rows) /\ report' = Shown(rows)
    BY <2>1
  <2>3. /\ n \in Nat /\ rows \in Seq(Addr) /\ Len(rows) = n
        /\ \A i \in 1 .. n : /\ order[i] \in InMap
                             /\ rows[i].hash = order[i]
                             /\ rows[i].sum = Balance(order[i])
                             /\ rows[i].sum \in Nat
        /\ \A i, j \in 1 .. n : i # j => order[i] # order[j]
        /\ \A a \in InMap : \E i \in 1 .. n : order[i] = a
    BY RowsAreEntries DEF LedgerInv
  <2> HIDE DEF rows, n
  <2>4. DOMAIN rows = 1 .. n
    BY <2>3, LenProperties
  <2>5. /\ report' \in Seq(Addr) /\ Len(report') <= n
        /\ \A i \in 1 .. Len(report') : report'[i] = rows[i]
        /\ limit # NoLimit => Len(report') <= limit
        /\ limit = NoLimit => report' = rows
    BY <1>1, <2>2, <2>3, ShownIsPrefix
  <2>6. Len(report') \in Nat /\ DOMAIN report' = 1 .. Len(report')
    BY <2>5, LenProperties
  <2>7. /\ pc = "wrapup" /\ coins' = coins
        /\ limit' = limit /\ detailed' = detailed /\ csv' = csv
        /\ \A b : Followed(b)' = Followed(b)
    BY <1>1, <1>4 DEF ABWrapup, Wrapup, limit, detailed, csv, Followed, restrictMap
  <2>8. CoinsNow = coins
    BY <2>7 DEF LoopInv, InTX, NoTx, CoinsNow
  <2>9. \A a \in Addrs : Followed(a) =>
            /\ Balance(a) = Value(Owned(coins, a)) /\ Balance(a) \in Nat
            /\ a \notin InMap => Balance(a) = 0
    BY <2>8, BalanceType DEF LedgerInv, InMap, Balance
  <2>10. \A a \in InMap : a \in Addrs /\ Followed(a) /\ (detailed \/ Balance(a) # 0)
    BY DEF LedgerInv, EntriesAreDue, InMap, Balance, AddrOf
  <2>11. RowsOf(coins) = {<<a, Balance(a)>> : a \in {b \in Addrs : Followed(b)}}
    BY <2>9 DEF RowsOf
  <2>12. RowsOf(coins)' = RowsOf(coins)
    BY <2>7 DEF RowsOf
  <2>13. ShownRows' =
            {<<order[i], Balance(order[i])>> : i \in 1 .. Len(report')}
    <3>1. 1 .. Len(report') \subseteq 1 .. n
      BY <2>3, <2>5, <2>6
    <3>2. ShownRows' = {<<report'[i].hash, report'[i].sum>> : i \in DOMAIN report'}
      BY DEF ShownRows
    <3>3. \A i \in DOMAIN report' :
            /\ report'[i].hash = order[i] /\ report'[i].sum = Balance(order[i])
      BY <2>3, <2>5, <2>6, <3>1
    <3>4. QED
      BY <2>6, <3>2, <3>3
  <2>14. ReportIsLedger'
    <3> SUFFICES ASSUME limit = NoLimit, ~detailed
                 PROVE  /\ ShownRows' = {r \in RowsOf(coins)' : r[2] > 0}
                        /\ Len(report') = Cardinality(ShownRows')
      BY <2>7 DEF ReportIsLedger
    <3>1. report' = rows /\ Len(report') = n
      BY <2>3, <2>5
    <3>2. ShownRows' = {<<a, Balance(a)>> : a \in InMap}
      BY <2>3, <2>13, <3>1
    <3>3. \A a \in Addrs : Followed(a) /\ Balance(a) > 0 <=> a \in InMap
      BY <2>9, <2>10
    <3>4. ShownRows' = {r \in RowsOf(coins) : r[2] > 0}
      BY <2>10, <2>11, <3>2, <3>3
    <3>5. Cardinality(ShownRows') = n
      <4> DEFINE f == [a \in InMap |-> <<a, Balance(a)>>]
      <4>1. f \in [InMap -> ShownRows']
        BY <3>2
      <4>2. \A a, b \in InMap : f[a] = f[b] => a = b
        OBVIOUS
      <4>3. \A r \in ShownRows' : \E a \in InMap : f[a] = r
        BY <3>2
      <4> HIDE DEF f
      <4>4. f \in Bijection(InMap, ShownRows')
        BY <4>1, <4>2, <4>3 DEF Bijection, Injection, Surjection, IsInjective
      <4>5. IsFiniteSet(InMap)
        BY OwnersAssumption, FS_Subset DEF InMap, Addrs
      <4>6. QED
        BY <4>4, <4>5, FS_Bijection DEF ExistsBijection, n
    <3>6. QED
      BY <2>12, <3>1, <3>4, <3>5
  <2>15. TopBalances'
    <3> SUFFICES ASSUME ~csv, limit # NoLimit
                 PROVE  /\ Len(report') <= limit
                        /\ \A r \in RowsOf(coins) \ ShownRows',
                              i \in DOMAIN report' : r[2] <= report'[i].sum
      BY <2>7, <2>12 DEF TopBalances, LimitShowsTop
    <3>1. SUFFICES ASSUME NEW r \in RowsOf(coins) \ ShownRows',
                          NEW i \in 1 .. Len(report')
                   PROVE  r[2] <= report'[i].sum
      BY <2>5, <2>6
    <3>2. PICK a \in Addrs : Followed(a) /\ r = <<a, Balance(a)>>
      BY <2>11
    <3>3. i \in 1 .. n /\ report'[i] = rows[i] /\ rows[i].sum \in Nat
      BY <2>3, <2>5, <2>6
    <3>4. CASE a \notin InMap
      BY <2>9, <3>2, <3>3, <3>4
    <3>5. CASE a \in InMap
      <4>1. PICK j \in 1 .. n : order[j] = a
        BY <2>3, <3>5
      <4>2. j \notin 1 .. Len(report')
        BY <2>13, <3>2, <4>1
      <4>3. i < j
        BY <2>3, <2>6, <4>1, <4>2
      <4>4. rows[j].sum <= rows[i].sum
        BY <2>2, <2>4, <3>3, <4>1, <4>3 DEF InOrder
      <4>5. rows[j].sum = r[2]
        BY <2>3, <3>2, <4>1
      <4>6. QED
        BY <3>3, <4>4, <4>5
    <3>6. QED
      BY <3>4, <3>5
  <2>16. QED
    BY <2>5, <2>14, <2>15 DEF ReportInv
<1>5. QED
  BY <1>2, <1>3, <1>4

-----------------------------------------------------------------------------
(* The detailed report. *)

LEMMA InitLinesAreKept == Init => LinesAreKept
BY DEF Init, LoopInit, NoTx, CoinsNow, CoinsFollowed, LinesAreKept

(* A line that points to the cell of its transaction shows its hash. *)
LEMMA UnspentHaveLines ==
  LoopInv /\ HashesAreKept /\ LinesAreKept => UnspentAreListed
<1> SUFFICES ASSUME LoopInv, HashesAreKept, LinesAreKept, detailed,
                    NEW c \in CoinsFollowed
             PROVE  /\ c.owner \in InMap
                    /\ \E line \in LinesIn(c.owner) :
                         /\ line.outputIndex = c.n
                         /\ line.value = c.value
                         /\ MayRead(line.upTXHash) = {c.tx}
  BY DEF UnspentAreListed
<1>1. c \in CoinsNow /\ c.tx \in 1 .. MaxTxs
  BY LoopSets, CoinValues DEF CoinsFollowed
<1>2. hashOf[cellOf[c.tx]] = c.tx
  BY <1>1 DEF HashesAreKept, IsHeld
<1>3. MayRead(InCell(cellOf[c.tx])) = {c.tx}
  BY <1>2 DEF MayRead, InCell
<1>4. IsListed(c)
  BY DEF LinesAreKept
<1>5. QED
  BY <1>3, <1>4 DEF IsListed

(* The lines of a list with one more at its end. *)
LEMMA LineAppended ==
  ASSUME NEW vec \in Seq(Line), NEW line \in Line
  PROVE  ToSet(Append(vec, line)) = ToSet(vec) \union {line}
<1> DEFINE n == Len(vec)  s == Append(vec, line)
<1>1. n \in Nat /\ DOMAIN vec = 1 .. n
  BY LenProperties
<1>2. /\ DOMAIN s = 1 .. n + 1 /\ s[n + 1] = line
      /\ \A i \in 1 .. n : s[i] = vec[i]
  BY <1>1
<1>3. 1 .. n + 1 = (1 .. n) \union {n + 1}
  BY <1>1
<1> HIDE DEF n, s
<1>4. ToSet(s) = {s[i] : i \in 1 .. n + 1} /\ ToSet(vec) = {vec[i] : i \in 1 .. n}
  BY <1>1, <1>2 DEF ToSet
<1>5. {s[i] : i \in 1 .. n + 1} = {s[i] : i \in 1 .. n} \union {s[n + 1]}
  BY <1>3
<1>6. {s[i] : i \in 1 .. n} = {vec[i] : i \in 1 .. n}
  BY <1>2
<1>7. QED
  BY <1>2, <1>4, <1>5, <1>6 DEF s

(* The steps that add no coin of an address that is followed. *)
LEMMA QuietLinesStep ==
  ASSUME LinesAreKept, UNCHANGED balanceVars,
         \A c \in CoinsFollowed' :
            c \in CoinsFollowed /\ cellOf'[c.tx] = cellOf[c.tx]
  PROVE  LinesAreKept'
<1>1. /\ InMap' = InMap /\ detailed' = detailed
      /\ \A a : LinesIn(a)' = LinesIn(a)
  BY DEF balanceVars, InMap, AddrOf, detailed, LinesIn
<1>2. ASSUME detailed, NEW c \in CoinsFollowed' PROVE IsListed(c)'
  <2>1. IsListed(c) /\ cellOf'[c.tx] = cellOf[c.tx]
    BY <1>2 DEF LinesAreKept
  <2>2. QED
    BY <1>1, <2>1 DEF IsListed
<1>3. QED
  BY <1>1, <1>2 DEF LinesAreKept

(* The steps that add a line, that of the coin they add if they do. *)
LEMMA MoveLinesStep ==
  ASSUME LoopInv, LedgerInv, LinesAreKept, height \in 0 .. MaxBlocks,
         NbMoves < MaxTxs * (MaxInputs + MaxOutputs), detailed,
         NEW a \in Owners, Followed(a), NEW delta \in Int, NEW line \in Line,
         move(a, delta, line), Balance(a) + delta \in Nat, cellOf' = cellOf,
         \A c \in CoinsNow' :
            \/ c \in CoinsNow
            \/ /\ c.owner = a /\ ~line.isDown
               /\ line.outputIndex = c.n /\ line.value = c.value
               /\ line.upTXHash = InCell(cellOf[c.tx])
  PROVE  LinesAreKept'
<1> DEFINE vec == IF a \in InMap THEN AddrOf(a).outputVec ELSE <<>>
<1>1. a \in Addrs /\ Balance(a) \in Nat /\ NbMoves \in Nat
  <2>1. a \in Addrs
    BY DEF Followed, Addrs
  <2>2. QED
    BY <2>1, BalanceType, NbMovesBound DEF LedgerInv
<1>2. /\ options' = options
      /\ a \in InMap'
      /\ AddrOf(a)'.outputVec = Append(vec, line)
      /\ \A b \in Addrs \ {a} : /\ b \in InMap' <=> b \in InMap
                                /\ b \in InMap => AddrOf(b)' = AddrOf(b)
  <2>1. MoveTo(a, delta, line)
    BY DEF move
  <2>2. /\ options' = options
        /\ a \in InMap' <=> detailed \/ Balance(a) + delta # 0
        /\ a \in InMap' /\ detailed => AddrOf(a)'.outputVec = Append(vec, line)
        /\ \A b \in Addrs \ {a} : /\ b \in InMap' <=> b \in InMap
                                  /\ b \in InMap => AddrOf(b)' = AddrOf(b)
    BY <1>1, <2>1, MoveToIsLocal DEF LedgerInv
  <2>3. QED
    BY <2>2
<1>3. vec \in Seq(Line)
  BY DEF LedgerInv, Storage, InMap, AddrOf, Addr
<1>4. a \in InMap => vec = AddrOf(a).outputVec
  OBVIOUS
<1> HIDE DEF vec
<1>5. ToSet(Append(vec, line)) = ToSet(vec) \union {line}
  BY <1>3, LineAppended
<1>6. /\ detailed' = detailed
      /\ \A b : Followed(b)' = Followed(b)
  BY <1>2 DEF detailed, Followed, restrictMap
<1>7. ~line.isDown => line \in LinesIn(a)'
  BY <1>2, <1>5 DEF LinesIn
<1>8. ASSUME NEW b \in InMap PROVE b \in InMap' /\ LinesIn(b) \subseteq LinesIn(b)'
  <2>1. CASE b = a
    BY <1>2, <1>4, <1>5, <2>1 DEF LinesIn
  <2>2. CASE b # a
    BY <1>2, <2>2 DEF LinesIn, InMap
  <2>3. QED
    BY <2>1, <2>2
<1>9. ASSUME NEW c \in CoinsFollowed' PROVE IsListed(c)'
  <2>1. c \in CoinsNow' /\ Followed(c.owner)
    BY <1>6 DEF CoinsFollowed
  <2>2. CASE c \in CoinsNow
    <3>1. IsListed(c)
      BY <2>1, <2>2 DEF LinesAreKept, CoinsFollowed
    <3>2. QED
      BY <1>8, <3>1 DEF IsListed
  <2>3. CASE c \notin CoinsNow
    <3>1. /\ c.owner = a /\ ~line.isDown
          /\ line.outputIndex = c.n /\ line.value = c.value
          /\ line.upTXHash = InCell(cellOf[c.tx])
      BY <2>1, <2>3
    <3>2. QED
      BY <1>2, <1>7, <3>1 DEF IsListed
  <2>4. QED
    BY <2>2, <2>3
<1>10. QED
  BY <1>9 DEF LinesAreKept

LEMMA LinesStep ==
  LoopInv /\ HashesAreKept /\ LedgerInv /\ LinesAreKept /\ [Next]_vars
    => LinesAreKept'
<1> SUFFICES ASSUME LoopInv, HashesAreKept, LedgerInv, LinesAreKept, [Next]_vars
             PROVE  LinesAreKept'
  OBVIOUS
<1>1. /\ height \in 0 .. MaxBlocks /\ nbTxs \in 0 .. MaxTxs
      /\ \A c \in CoinsNow : c.tx \in 1 .. MaxTxs /\ c.tx <= nbTxs
  <2>1. \A c \in CoinsNow : c.tx \in 1 .. MaxTxs
    BY LoopSets, CoinValues
  <2>2. nbTxs \in 0 .. MaxTxs /\ height \in 0 .. MaxBlocks
    BY DEF LoopInv, LoopTypeOK
  <2>3. \A c \in CoinsNow : c.tx <= nbTxs
    BY <2>2 DEF LoopInv, CoinsNow
  <2>4. QED
    BY <2>1, <2>2, <2>3
<1>2. ASSUME UNCHANGED balanceVars, CoinsNow' = CoinsNow,
             \A t \in 1 .. nbTxs : cellOf'[t] = cellOf[t]
      PROVE  LinesAreKept'
  <2>1. CoinsFollowed' = CoinsFollowed
    BY <1>2 DEF CoinsFollowed, Followed, restrictMap, balanceVars
  <2>2. \A c \in CoinsFollowed' :
            c \in CoinsFollowed /\ cellOf'[c.tx] = cellOf[c.tx]
    BY <1>1, <1>2, <2>1 DEF CoinsFollowed
  <2>3. QED
    BY <1>2, <2>2, QuietLinesStep
<1>3. CASE \/ ABInitCallback \/ CrashInInitCallback
           \/ BuildIndex /\ UNCHANGED balanceVars
           \/ StartLongestChain /\ UNCHANGED balanceVars
           \/ StartOutputs /\ UNCHANGED balanceVars
           \/ ABEndBlock \/ ABEndOfChain \/ ABWrapup \/ Killed
           \/ forceDone \/ Stopped \/ UNCHANGED vars
           \/ \E n \in 1 .. MaxTxs : ABStartBlock(n)
  <2>1. UNCHANGED <<tx, coins, cellOf, balanceVars>>
    BY <1>3 DEF ABInitCallback, CrashInInitCallback, BuildIndex, InitCallback,
       StartLongestChain, StartOutputs, ABEndBlock, EndBlock, ABEndOfChain,
       EndOfChain, ABWrapup, Wrapup, Killed, forceDone, Stopped, vars, loopVars,
       hashVars, ABStartBlock, StartBlock
  <2>2. QED
    BY <1>2, <2>1 DEF CoinsNow
<1>4. CASE StartTX /\ UNCHANGED balanceVars
  <2>1. CoinsNow' = CoinsNow
    BY <1>4, StartTXLoopStep
  <2>2. \A t \in 1 .. nbTxs : cellOf'[t] = cellOf[t]
    BY <1>1, <1>4 DEF StartTX, HashesAreKept
  <2>3. QED
    BY <1>2, <1>4, <2>1, <2>2
<1>5. CASE ABEndTX
  <2> DEFINE isOver == AnswerAfterTX(DoneNow)
  <2>1. EndTX(isOver) /\ UNCHANGED balanceVars
    BY <1>5 DEF ABEndTX
  <2>2. CoinsNow' = CoinsNow /\ cellOf' = cellOf
    BY <2>1, EndTXLoopStep DEF EndTX, hashVars
  <2>3. QED
    BY <1>2, <2>1, <2>2
<1>6. ASSUME NEW coin \in coins, ABEdge(coin) PROVE LinesAreKept'
  <2> DEFINE a == coin.owner  v == coin.value
             line == LineOf(InBlock(coin.tx), coin.n, -v, TRUE)
  <2>1. Edge(coin) /\ move(a, -v, line) /\ cellOf' = cellOf
    BY <1>6 DEF ABEdge, Edge
  <2>2. /\ a \in Owners /\ v \in Nat
        /\ NbMoves < MaxTxs * (MaxInputs + MaxOutputs)
        /\ coin \in Owned(CoinsNow, a)
    BY <2>1, EdgeCoins
  <2>3. CoinsNow' = CoinsNow \ {coin}
    BY <2>1, EdgeLoopStep
  <2>4. CASE detailed /\ Followed(a)
    <3>1. Balance(a) = Value(Owned(CoinsNow, a)) /\ IsPurse(Owned(CoinsNow, a))
      BY <2>2, <2>4, BalanceType DEF LedgerInv, Followed, Addrs
    <3>2. v <= Value(Owned(CoinsNow, a)) /\ Value(Owned(CoinsNow, a)) \in Nat
      BY <2>2, <3>1, ValueRemove, ValueType
    <3>3. line \in Line
      BY <1>1, <2>2, LoopSets, CoinValues, LineTypes
    <3> HIDE DEF a, v, line
    <3>4. -v \in Int /\ Balance(a) + (-v) \in Nat
      BY <2>2, <3>1, <3>2
    <3>5. QED
      BY <1>1, <2>1, <2>2, <2>3, <2>4, <3>3, <3>4, MoveLinesStep
  <2>5. CASE ~detailed
    <3>1. ~detailed'
      BY <2>5, OptionsKept DEF detailed
    <3>2. QED
      BY <3>1 DEF LinesAreKept
  <2>6. CASE ~Followed(a)
    <3>1. UNCHANGED balanceVars
      BY <2>1, <2>6 DEF move
    <3>2. \A c \in CoinsFollowed' :
              c \in CoinsFollowed /\ cellOf'[c.tx] = cellOf[c.tx]
      BY <2>1, <2>3, <3>1 DEF CoinsFollowed, Followed, restrictMap, balanceVars
    <3>3. QED
      BY <3>1, <3>2, QuietLinesStep
  <2>7. QED
    BY <2>4, <2>5, <2>6
<1>7. ASSUME NEW owner \in Owners, NEW value \in Amount,
             ABEndOutput(owner, value)
      PROVE  LinesAreKept'
  <2> DEFINE o == Output(owner, value)
             line == LineOf(InCell(cellOf[nbTxs]), o.n, value, FALSE)
  <2>1. EndOutput(owner, value) /\ move(owner, value, line) /\ cellOf' = cellOf
    BY <1>7 DEF ABEndOutput, EndOutput, hashVars
  <2>2. /\ o \in Coin /\ o.tx = nbTxs /\ o.owner = owner /\ o.value = value
        /\ CoinsNow' = CoinsNow \union {o}
    BY <2>1, EndOutputLoopStep
  <2>3. /\ NbMoves < MaxTxs * (MaxInputs + MaxOutputs)
        /\ value \in Nat /\ nbTxs \in 1 .. MaxTxs /\ o.n \in 1 .. MaxOutputs
    <3>1. NbMoves < MaxTxs * (MaxInputs + MaxOutputs)
      BY <2>1, OutputCoins
    <3> HIDE DEF o
    <3>2. QED
      BY <2>2, <3>1, CoinValues
  <2> HIDE DEF o
  <2>4. CASE detailed /\ Followed(owner)
    <3>1. Balance(owner) \in Nat
      BY <2>4, BalanceType DEF LedgerInv, Followed, Addrs
    <3>2. value \in Int /\ Balance(owner) + value \in Nat
      BY <2>3, <3>1
    <3>3. line \in Line
      BY <1>1, <2>3, LineTypes
    <3>4. /\ ~line.isDown /\ line.outputIndex = o.n /\ line.value = o.value
          /\ line.upTXHash = InCell(cellOf[o.tx])
      BY <2>2 DEF LineOf
    <3> HIDE DEF line
    <3>5. QED
      BY <1>1, <2>1, <2>2, <2>3, <2>4, <3>2, <3>3, <3>4, MoveLinesStep
  <2>5. CASE ~detailed
    <3>1. ~detailed'
      BY <2>5, OptionsKept DEF detailed
    <3>2. QED
      BY <3>1 DEF LinesAreKept
  <2>6. CASE ~Followed(owner)
    <3>1. UNCHANGED balanceVars
      BY <2>1, <2>6 DEF move
    <3>2. \A c \in CoinsFollowed' :
              c \in CoinsFollowed /\ cellOf'[c.tx] = cellOf[c.tx]
      BY <2>1, <2>2, <2>6, <3>1
         DEF CoinsFollowed, Followed, restrictMap, balanceVars
    <3>3. QED
      BY <3>1, <3>2, QuietLinesStep
  <2>7. QED
    BY <2>4, <2>5, <2>6
<1>8. QED
  BY <1>3, <1>4, <1>5, <1>6, <1>7 DEF Next, Program, Quiet

-----------------------------------------------------------------------------
(* The theorems. *)

LEMMA PartsAreTyped ==
  LoopInv /\ HashesAreKept /\ LedgerInv /\ ControlInv /\ ReportInv => TypeOK
<1> SUFFICES ASSUME LoopInv, HashesAreKept, LedgerInv, ControlInv, ReportInv
             PROVE  TypeOK
  OBVIOUS
<1>1. IsPool(addrPool, Cardinality(Addrs))
  <2>1. IsFiniteSet(Addrs) /\ Cardinality(Addrs) \in Nat
    BY OwnersAssumption, FS_Subset, FS_CardinalityType DEF Addrs
  <2>2. IsCellPool(addrPool) /\ IsSound(addrPool) /\ addrPool.cut <= Cardinality(Addrs)
    BY DEF LedgerInv, Storage, AddrsAreOwn, IsCellPool
  <2>3. QED
    BY <2>1, <2>2, SoundIsPool
<1>2. late \in 0 .. MaxTxs
  BY DEF ControlInv, InterruptEndsLoop
<1>3. HashTypeOK
  <2>1. IsCellPool(hashPool) /\ IsSound(hashPool) /\ hashPool.cut <= MaxTxs
    BY DEF HashesAreKept, IsCellPool, LoopInv, LoopTypeOK
  <2>2. IsPool(hashPool, MaxTxs)
    BY <2>1, MaxTxsAssumption, SoundIsPool
  <2>3. QED
    BY <2>2 DEF HashTypeOK, HashesAreKept
<1>4. QED
  BY <1>1, <1>2, <1>3
     DEF TypeOK, LoopInv, LedgerInv, Storage, ControlInv, ReportInv

(* The parts of the invariant hold together. *)
LEMMA PartsHold ==
  Spec => [](LoopInv /\ HashesAreKept /\ LedgerInv /\ ControlInv /\ ReportInv
             /\ LinesAreKept)
<1>1. Init => ReportInv
  <2> SUFFICES ASSUME Init PROVE ReportInv
    OBVIOUS
  <2>1. report \in Seq(Addr) /\ ~Ended
    BY DEF Init, LoopInit, NoReport, Ended
  <2>2. QED
    BY <2>1 DEF ReportInv, ReportIsLedger, TopBalances, LimitShowsTop
<1>2. QED
  BY <1>1, InitLoopInv, InitLedgerInv, InitControlInv, InitHashesAreKept,
     InitLinesAreKept, HashesStep, LedgerStep, ControlStep, ReportStep,
     LinesStep, PTL DEF Spec

(* Whatever the options, the chain and the moment of ^C, the state of the  *)
(* command is typed: no sum goes below zero, no counter leaves its bound,  *)
(* and no cell is cut beyond one per address.                              *)
THEOREM TypesHold == Spec => []TypeOK
BY PartsHold, PartsAreTyped, PTL

(* The inductive invariant that AllBalancesProperties lists. *)
THEOREM IndInvHolds == Spec => []IndInv
<1>1. LoopInv /\ HashesAreKept /\ LedgerInv /\ ControlInv /\ ReportInv /\ LinesAreKept
        => IndInv
  BY PartsAreTyped, UnspentHaveLines DEF IndInv, LedgerInv, ControlInv, ReportInv
<1>2. QED
  BY <1>1, PartsHold, PTL

(* The sum that move() keeps for an address is the value of its unspent    *)
(* outputs, at any point of any chain.                                     *)
THEOREM BalancesAreTheLedger == Spec => []BalanceIsLedger
<1>1. IndInv => BalanceIsLedger
  BY DEF IndInv
<1>2. QED
  BY <1>1, IndInvHolds, PTL

(* The entries of addrMap live in cells of their own, which PagedAllocator *)
(* neither hands out twice nor takes back.                                 *)
THEOREM EntriesKeepTheirCells == Spec => []AddrsAreOwn
<1>1. IndInv => AddrsAreOwn
  BY DEF IndInv, Storage
<1>2. QED
  BY <1>1, IndInvHolds, PTL

(* wrapup prints each address with a balance once, with that balance. *)
THEOREM ReportShowsTheLedger == Spec => []ReportIsLedger
<1>1. IndInv => ReportIsLedger
  BY DEF IndInv
<1>2. QED
  BY <1>1, IndInvHolds, PTL

(* With -l wrapup prints the greatest balances, if the output is sorted. *)
THEOREM LimitedReportShowsTheTop == Spec => []TopBalances
<1>1. IndInv => TopBalances
  BY DEF IndInv
<1>2. QED
  BY <1>1, IndInvHolds, PTL

(* done() ends the parse after at most one transaction since ^C. *)
THEOREM InterruptEndsTheRun == Spec => []InterruptIsPrompt
<1>1. IndInv => InterruptIsPrompt
  BY DEF IndInv, InterruptEndsLoop, InterruptIsPrompt
<1>2. QED
  BY <1>1, IndInvHolds, PTL

(* With -a the parse ends after the first transaction of that block. *)
THEOREM CutoffEndsTheRun == Spec => []CutoffIsHonoured
<1>1. IndInv => CutoffIsHonoured
  BY DEF IndInv, CutoffEndsLoop
<1>2. QED
  BY <1>1, IndInvHolds, PTL

(* With -d every unspent output of an address asked for has a line whose   *)
(* pointer still leads to the hash of its transaction.                     *)
THEOREM UnspentOutputsAreListed == Spec => []UnspentAreListed
<1>1. IndInv => UnspentAreListed
  BY DEF IndInv
<1>2. QED
  BY <1>1, IndInvHolds, PTL
=============================================================================
