-------------------------- MODULE BlockIndexProofs --------------------------
(***************************************************************************)
(* Proofs about the block index for any number of hashes, records and      *)
(* files: its types and the properties of its passes, then that it elects  *)
(* and delivers a longest chain, from what the heights of blocks say of    *)
(* the lines of their hashes (the refinement of LongestChain).             *)
(***************************************************************************)
EXTENDS BlockIndexProperties, DataLemmas

USE NbHashesAssumption, MaxBlocksAssumption, NbFilesAssumption,
    NoBlockAssumption
USE DEF gNullHash, gNullBlock, BlockHash, Hash, Block, BlockPtr, Allocated,
        Phases, Terminal

LEMMA InitIndInv == Init => IndInv
<1> SUFFICES ASSUME Init PROVE IndInv
  OBVIOUS
<1> USE DEF Init, Headers
<1>1. TypeOK
  BY DEF TypeOK
<1>2. Linked /\ Numbered /\ MaximumIsKept
  BY DEF Linked, Numbered, MaximumIsKept
<1>3. OnTrail /\ NextOfNumbered /\ OnChain /\ ParsedInOrder
  BY DEF OnTrail, NextOfNumbered, OnChain, ParsedInOrder
<1>4. QED
  BY <1>1, <1>2, <1>3 DEF IndInv

(* The step of pass 1 that allocates a block keeps every part. *)
LEMMA ReadHeaderStep ==
  ASSUME IndInv, NEW x \in BlockHash, ReadHeader(x)
  PROVE  IndInv'
<1> DEFINE n == nbBlocks + 1
<1> USE DEF ReadHeader, MoreFiles, files, maxima, IndInv
<1>0. /\ n \in Block /\ n # gNullBlock
      /\ nbBlocks \in 0 .. MaxBlocks
      /\ hashPrev[x] \in Hash /\ hashPrev[x] < x
  BY DEF TypeOK, Linked
<1>1. TypeOK'
  BY <1>0 DEF TypeOK
<1>2. Linked'
  <2>1. \A y \in Hash : gBlockMap[y] # NoBlock =>
            gBlockMap[y] \in 0 .. nbBlocks /\ hashOf[gBlockMap[y]] = y
    BY <1>0 DEF TypeOK, Linked
  <2>2. \A y \in Block : prev[y] # NoBlock =>
            y \in 1 .. nbBlocks /\ prev[y] \in 0 .. nbBlocks
    BY DEF Linked
  <2>3. todo = todo' /\ hashPrev' = hashPrev
    OBVIOUS
  <2>4. \A y \in Block : prev'[y] # NoBlock =>
            /\ y \in 1 .. n /\ prev'[y] \in 0 .. n
            /\ hashOf'[prev'[y]] = hashPrev[hashOf'[y]]
    BY SMTT(30), <1>0, <2>1, <2>2 DEF Linked, TypeOK
  <2>5. \A y \in BlockHash : gBlockMap'[y] # NoBlock =>
            gBlockMap'[y] \in 1 .. n /\ hashOf'[gBlockMap'[y]] = y
    <3> SUFFICES ASSUME NEW y \in BlockHash, gBlockMap'[y] # NoBlock
                 PROVE  gBlockMap'[y] \in 1 .. n /\ hashOf'[gBlockMap'[y]] = y
      OBVIOUS
    <3>1. CASE y = x
      BY <1>0, <3>1 DEF TypeOK
    <3>2. CASE y # x
      <4>1. gBlockMap'[y] = gBlockMap[y] /\ gBlockMap[y] \in 1 .. nbBlocks
        BY <3>2 DEF TypeOK, Linked
      <4>2. QED
        BY <1>0, <2>1, <4>1 DEF TypeOK
    <3>3. QED
      BY <3>1, <3>2
  <2>6. \A y \in todo : gBlockMap'[y] # NoBlock
    BY <1>0 DEF Linked, TypeOK
  <2>7. \A y \in 1 .. n : hashOf'[y] \in BlockHash
    BY <1>0 DEF Linked, TypeOK
  <2>8. gBlockMap'[0] = 0 /\ hashOf'[0] = 0
    BY <1>0 DEF Linked, TypeOK
  <2>9. nbBlocks' = n /\ \A y \in BlockHash : hashPrev[y] < y
    BY DEF Linked
  <2>10. QED
    BY <2>3, <2>4, <2>5, <2>6, <2>7, <2>8, <2>9 DEF Linked
<1>3. Numbered' /\ MaximumIsKept' /\ NextOfNumbered'
  BY <1>0 DEF Numbered, MaximumIsKept, NextOfNumbered, TypeOK, Linked
<1>4. OnTrail' /\ OnChain' /\ ParsedInOrder'
  BY <1>0 DEF OnTrail, OnChain, ParsedInOrder, TypeOK
<1>5. QED
  BY <1>1, <1>2, <1>3, <1>4

(* The end of a file, and the end of pass 1. *)
LEMMA EndOfFileStep ==
  ASSUME IndInv, EndBlockFile \/ EndPass1
  PROVE  IndInv'
<1> USE DEF EndBlockFile, EndPass1, MoreFiles, files, objects, maxima, IndInv
<1>1. TypeOK'
  <2>1. CASE EndBlockFile
    BY <2>1 DEF TypeOK
  <2>2. CASE EndPass1
    <3>1. pc' \in {"exit", "link"} /\ todo' \subseteq Hash
      BY <2>2 DEF TypeOK
    <3>2. QED
      BY <2>2, <3>1 DEF TypeOK
  <2>3. QED
    BY <2>1, <2>2
<1>2. Linked'
  BY DEF Linked
<1>3. Numbered' /\ MaximumIsKept' /\ NextOfNumbered'
  BY DEF Numbered, MaximumIsKept, NextOfNumbered
<1>4. OnTrail' /\ OnChain' /\ ParsedInOrder'
  BY DEF OnTrail, OnChain, ParsedInOrder
<1>5. QED
  BY <1>1, <1>2, <1>3, <1>4

(* The choice of the next block of pass 2. *)
LEMMA VisitStep ==
  ASSUME IndInv, VisitNullBlock \/ \E x \in Hash : StartClimb(x)
  PROVE  IndInv'
<1> USE DEF files, objects, maxima, IndInv
<1>1. CASE VisitNullBlock
  <2> USE <1>1 DEF VisitNullBlock
  <2>1. TypeOK' /\ Linked'
    BY DEF TypeOK, Linked
  <2>2. Numbered' /\ MaximumIsKept' /\ NextOfNumbered'
    BY DEF Numbered, MaximumIsKept, NextOfNumbered
  <2>3. OnTrail' /\ OnChain' /\ ParsedInOrder'
    BY DEF OnTrail, OnChain, ParsedInOrder
  <2>4. QED
    BY <2>1, <2>2, <2>3
<1>2. ASSUME NEW x \in Hash, StartClimb(x) PROVE IndInv'
  <2> USE <1>2 DEF StartClimb
  <2>1. b' \in 1 .. nbBlocks /\ b' = block'
    BY DEF TypeOK, Linked
  <2>2. TypeOK' /\ Linked'
    BY SMTT(30), <2>1 DEF TypeOK, Linked
  <2>3. Numbered' /\ MaximumIsKept' /\ NextOfNumbered'
    BY DEF Numbered, MaximumIsKept, NextOfNumbered
  <2>4. OnTrail'
    <3>1. {b'} \in SUBSET (0 .. nbBlocks')
      BY <2>1 DEF TypeOK
    <3>2. hashOf'[b'] <= hashOf'[b']
      BY <2>1 DEF Linked, TypeOK
    <3>3. IsTrail({b})'
      BY <2>1, <3>2 DEF IsTrail
    <3>4. QED
      BY <3>1, <3>3 DEF OnTrail
  <2>5. OnChain' /\ ParsedInOrder'
    BY DEF OnChain, ParsedInOrder
  <2>6. QED
    BY <2>2, <2>3, <2>4, <2>5
<1>3. QED
  BY <1>1, <1>2

(* What a climb may rely on at its current block. *)
LEMMA ClimbedBlock ==
  ASSUME IndInv, pc = "climb", height[b] < 0
  PROVE  /\ b \in 1 .. nbBlocks
         /\ hashOf[b] \in BlockHash
         /\ hashPrev[hashOf[b]] \in Hash
         /\ ParentOf(b) # NoBlock =>
                /\ ParentOf(b) \in 0 .. nbBlocks
                /\ hashOf[ParentOf(b)] = hashPrev[hashOf[b]]
                /\ hashOf[ParentOf(b)] < hashOf[b]
<1> USE DEF IndInv
<1>1. b \in 0 .. nbBlocks
  BY DEF OnTrail, IsTrail
<1>2. b \in 1 .. nbBlocks /\ hashOf[b] \in BlockHash
  BY <1>1 DEF Numbered, Linked, TypeOK
<1>3. hashPrev[hashOf[b]] \in Hash /\ hashPrev[hashOf[b]] < hashOf[b]
  BY <1>2 DEF TypeOK, Linked
<1>4. ASSUME ParentOf(b) # NoBlock
      PROVE  /\ ParentOf(b) \in 0 .. nbBlocks
             /\ hashOf[ParentOf(b)] = hashPrev[hashOf[b]]
  <2>1. CASE prev[b] # NoBlock
    BY <1>2, <2>1 DEF ParentOf, Linked, TypeOK
  <2>2. CASE prev[b] = NoBlock
    BY <1>2, <1>3, <1>4, <2>2 DEF ParentOf, Linked, TypeOK
  <2>3. QED
    BY <2>1, <2>2
<1>5. QED
  BY <1>2, <1>3, <1>4

LEMMA ClimbStep ==
  ASSUME IndInv, Climb
  PROVE  IndInv'
<1> DEFINE p == ParentOf(b)
<1>0. /\ b \in 1 .. nbBlocks /\ p \in 0 .. nbBlocks
      /\ nbBlocks \in 0 .. MaxBlocks
      /\ hashOf[b] \in BlockHash
      /\ hashOf[p] = hashPrev[hashOf[b]] /\ hashOf[p] < hashOf[b]
      /\ prev[b] \in {NoBlock, p}
      /\ height[b] = -1
      /\ \A x \in 0 .. nbBlocks : x \in Block
  BY SMTT(30), ClimbedBlock DEF Climb, IndInv, TypeOK, ParentOf
<1>a. /\ prev' = [prev EXCEPT ![b] = p] /\ next' = [next EXCEPT ![p] = b]
      /\ b' = p
      /\ pc = "climb"
      /\ UNCHANGED <<pc, hashPrev, nbFilesRead, nbBlocks, gBlockMap, hashOf,
                     height, todo, block, h, gMaxBlock, gMaxHeight, parsed>>
  BY DEF Climb, Trail, files, maxima
<1>b. /\ \A x \in Block : hashOf[x] \in Nat
      /\ b \in Block /\ p \in Block
  <2>1. hashOf \in [Block -> Hash] /\ Hash \subseteq Nat
    BY DEF IndInv, TypeOK
  <2>2. QED
    BY <1>0, <2>1
<1> HIDE DEF p
<1> USE <1>a DEF IndInv
<1>1. TypeOK'
  BY <1>0 DEF TypeOK
<1>2. Linked'
  BY <1>0 DEF Linked, TypeOK
<1>3. Numbered' /\ MaximumIsKept'
  BY <1>0 DEF Numbered, MaximumIsKept, TypeOK
<1>4. NextOfNumbered'
  <2>1. ASSUME NEW x \in Block, height'[x] >= 0, next'[x] # NoBlock
        PROVE  x = p
    <3> SUFFICES ASSUME x # p PROVE FALSE
      OBVIOUS
    <3>1. next'[x] = next[x] /\ height'[x] = height[x]
      BY <1>0 DEF TypeOK
    <3>2. x = b
      BY <2>1, <3>1 DEF NextOfNumbered
    <3>3. QED
      BY <1>0, <2>1, <3>1, <3>2
  <2>2. pc' = "climb"
    OBVIOUS
  <2>3. QED
    BY <1>0, <2>1, <2>2 DEF NextOfNumbered
<1>5. OnTrail'
  <2>1. PICK T \in SUBSET (0 .. nbBlocks) : IsTrail(T)
    BY DEF OnTrail
  <2>2. p \notin T /\ p # b /\ block # p
    <3>1. hashOf[p] \in Nat /\ hashOf[b] \in Nat
      BY <1>b
    <3>2. \A x \in T : hashOf[b] <= hashOf[x]
      BY <2>1 DEF IsTrail
    <3>3. p \notin T
      BY <1>0, <3>1, <3>2
    <3>4. QED
      BY <2>1, <3>3 DEF IsTrail
  <2>3. PICK U \in SUBSET (0 .. nbBlocks) : U = T \union {p}
    BY <1>0
  <2>4. \A x \in U \ {p} :
            height'[x] < 0 /\ prev'[x] \in U /\ next'[prev'[x]] = x
    <3> SUFFICES ASSUME NEW x \in T
                 PROVE  /\ height'[x] < 0
                        /\ prev'[x] \in U
                        /\ next'[prev'[x]] = x
      BY <2>3
    <3>1. CASE x = b
      BY <1>0, <2>1, <2>3, <3>1 DEF TypeOK
    <3>2. CASE x # b
      <4>1. /\ x \in Block /\ height[x] < 0
            /\ prev[x] \in T /\ next[prev[x]] = x
        BY <1>0, <2>1, <3>2 DEF IsTrail
      <4>2. prev[x] # p /\ prev[x] \in Block
        BY <1>0, <2>2, <4>1
      <4>3. prev'[x] = prev[x] /\ next'[prev[x]] = next[prev[x]]
        BY <3>2, <4>1, <4>2 DEF TypeOK
      <4>4. QED
        BY <2>3, <4>1, <4>3
    <3>3. QED
      BY <3>1, <3>2
  <2>5. \A x \in U \ {block} :
            next'[x] \in U \ {p} /\ prev'[next'[x]] = x
    <3> SUFFICES ASSUME NEW x \in U \ {block}
                 PROVE  next'[x] \in U \ {p} /\ prev'[next'[x]] = x
      OBVIOUS
    <3>1. CASE x = p
      BY <1>0, <2>1, <2>2, <2>3, <3>1 DEF IsTrail, TypeOK
    <3>2. CASE x # p
      <4>1. x \in Block /\ next[x] \in T \ {b} /\ prev[next[x]] = x
        BY <1>0, <2>1, <2>3, <3>2 DEF IsTrail
      <4>2. next[x] \in Block /\ next[x] # p /\ next[x] # b
        BY <1>0, <2>2, <4>1
      <4>3. next'[x] = next[x] /\ prev'[next[x]] = prev[next[x]]
        BY <3>2, <4>1, <4>2 DEF TypeOK
      <4>4. QED
        BY <2>3, <4>1, <4>2, <4>3
    <3>3. QED
      BY <3>1, <3>2
  <2>6. \A x \in U : hashOf'[p] <= hashOf'[x]
    <3>1. \A x \in T : hashOf[b] <= hashOf[x] /\ hashOf[x] \in Nat
      BY <1>0, <1>b, <2>1 DEF IsTrail
    <3>2. hashOf[p] \in Nat /\ hashOf[b] \in Nat
      BY <1>b
    <3>3. QED
      BY <1>0, <2>3, <3>1, <3>2
  <2>7. p \in U /\ block \in U
    BY <2>1, <2>3 DEF IsTrail
  <2>8. b' = p /\ block' = block /\ pc' = "climb" /\ nbBlocks' = nbBlocks
    BY <1>0
  <2>9. IsTrail(U)'
    BY <2>4, <2>5, <2>6, <2>7, <2>8 DEF IsTrail
  <2>10. QED
    BY <2>3, <2>8, <2>9 DEF OnTrail
<1>6. OnChain' /\ ParsedInOrder'
  BY DEF OnChain, ParsedInOrder
<1>7. QED
  BY <1>1, <1>2, <1>3, <1>4, <1>5, <1>6

LEMMA EndClimbStep ==
  ASSUME IndInv, GiveUp \/ EndClimb
  PROVE  IndInv'
<1> USE DEF GiveUp, EndClimb, FirstHeight, files, objects, maxima, IndInv
<1>0. b \in 0 .. nbBlocks /\ b \in Block
  BY DEF OnTrail, IsTrail, TypeOK
<1>1. TypeOK'
  <2>1. pc' \in {"link", "descend"} /\ h' \in Nat
    BY <1>0 DEF TypeOK
  <2>2. QED
    BY <2>1 DEF TypeOK
<1>2. Linked' /\ Numbered' /\ MaximumIsKept' /\ NextOfNumbered'
  <2>1. Linked' /\ Numbered' /\ MaximumIsKept'
    BY DEF Linked, Numbered, MaximumIsKept
  <2>2. NextOfNumbered'
    <3>1. CASE GiveUp
      <4>0. height[b] = -1
        BY <1>0, <3>1 DEF TypeOK
      <4>1. \A x \in Block : height[x] >= 0 => next[x] = NoBlock
        BY <3>1, <4>0 DEF NextOfNumbered
      <4>2. QED
        BY <3>1, <4>1 DEF NextOfNumbered
    <3>2. CASE EndClimb
      BY <3>2 DEF NextOfNumbered
    <3>3. QED
      BY <3>1, <3>2
  <2>3. QED
    BY <2>1, <2>2
<1>3. OnTrail'
  BY DEF OnTrail, IsTrail
<1>4. OnChain' /\ ParsedInOrder'
  BY DEF OnChain, ParsedInOrder
<1>5. QED
  BY <1>1, <1>2, <1>3, <1>4

(* What the descent does at its current block: the height it writes is the *)
(* one the block has, or one more than its parent's.                       *)
LEMMA DescentBlock ==
  ASSUME IndInv, pc = "descend"
  PROVE  /\ b \in 0 .. nbBlocks
         /\ nbBlocks \in 0 .. MaxBlocks
         /\ height[b] >= 0 => h = height[b]
         /\ height[b] < 0 =>
                /\ b # gNullBlock
                /\ prev[b] \in 0 .. nbBlocks
                /\ prev[b] # b
                /\ height[prev[b]] >= 0
                /\ h = height[prev[b]] + 1
BY DEF IndInv, OnTrail, IsTrail, TypeOK, Linked, Numbered

LEMMA DescendStep ==
  ASSUME IndInv, Descend
  PROVE  IndInv'
<1> USE DEF Descend, IsHigher, TrailCleared, files, maxima, IndInv
<1>0. /\ b \in 0 .. nbBlocks
      /\ nbBlocks \in 0 .. MaxBlocks
      /\ height[b] >= 0 => h = height[b]
      /\ height[b] < 0 =>
            /\ b # gNullBlock
            /\ prev[b] \in 0 .. nbBlocks
            /\ prev[b] # b
            /\ height[prev[b]] >= 0
            /\ h = height[prev[b]] + 1
  BY DescentBlock
<1>1. TypeOK'
  BY SMTT(30), <1>0 DEF TypeOK
<1>2. Linked'
  BY <1>0 DEF Linked, TypeOK
<1>3. Numbered'
  <2>1. height'[gNullBlock] = 0
    BY <1>0 DEF Numbered, TypeOK
  <2>2. ASSUME NEW x \in Block \ {gNullBlock}, height'[x] >= 0
        PROVE  /\ prev'[x] # NoBlock
               /\ height'[prev'[x]] >= 0
               /\ height'[x] = height'[prev'[x]] + 1
    <3>1. CASE height[x] >= 0
      BY <1>0, <2>2, <3>1 DEF Numbered, TypeOK, Linked
    <3>2. CASE height[x] < 0
      BY <1>0, <2>2, <3>2 DEF TypeOK
    <3>3. QED
      BY <3>1, <3>2, <2>2 DEF TypeOK
  <2>3. gMaxBlock' # NoBlock => gMaxBlock' \in 1 .. nbBlocks'
    BY <1>0 DEF Numbered, TypeOK
  <2>4. QED
    BY <2>1, <2>2, <2>3 DEF Numbered
<1>4. MaximumIsKept'
  <2>1. /\ b \in Block /\ h \in Nat /\ gMaxHeight \in Nat
        /\ height \in [Block -> Nat \union {-1}]
        /\ height' = [height EXCEPT ![b] = h]
        /\ \A x \in Block : height[x] <= gMaxHeight
        /\ gMaxBlock # NoBlock =>
              gMaxBlock \in Block /\ height[gMaxBlock] = gMaxHeight
    BY <1>0 DEF MaximumIsKept, TypeOK, Numbered
  <2>2. CASE gMaxHeight < h
    <3>1. gMaxHeight' = h /\ gMaxBlock' = b /\ b # NoBlock
      BY <1>0, <2>2 DEF TypeOK
    <3>2. \A x \in Block : height'[x] <= h
      BY <2>1, <2>2
    <3>3. QED
      BY <2>1, <3>1, <3>2 DEF MaximumIsKept
  <2>3. CASE ~(gMaxHeight < h)
    <3>1. UNCHANGED maxima
      BY <2>3
    <3>2. \A x \in Block : height'[x] <= gMaxHeight
      BY <2>1, <2>3
    <3>3. gMaxBlock # NoBlock => height'[gMaxBlock] = gMaxHeight
      BY <1>0, <2>1, <2>3
    <3>4. QED
      BY <3>1, <3>2, <3>3 DEF MaximumIsKept
  <2>4. QED
    BY <2>2, <2>3
<1>5. NextOfNumbered'
  BY <1>0 DEF NextOfNumbered, TypeOK
<1>6. OnTrail'
  <2>1. CASE b = block
    BY <2>1 DEF OnTrail
  <2>2. CASE b # block
    <3>1. PICK T \in SUBSET (0 .. nbBlocks) : IsTrail(T)
      BY DEF OnTrail
    <3>2. /\ next[b] \in T \ {b} /\ prev[next[b]] = b
          /\ height[next[b]] < 0
      BY <2>2, <3>1 DEF IsTrail
    <3>3. PICK U \in SUBSET (0 .. nbBlocks) : U = T \ {b}
      OBVIOUS
    <3>4. /\ b' = next[b] /\ block' = block /\ pc' = "descend"
          /\ nbBlocks' = nbBlocks
      BY <2>2
    <3>5. \A x \in U \ {b'} :
              height'[x] < 0 /\ prev'[x] \in U /\ next'[prev'[x]] = x
      BY <1>0, <3>1, <3>2, <3>3, <3>4 DEF IsTrail, TypeOK
    <3>6. \A x \in U \ {block} :
              next'[x] \in U \ {b'} /\ prev'[next'[x]] = x
      BY <1>0, <3>1, <3>2, <3>3, <3>4 DEF IsTrail, TypeOK
    <3>7. b' \in U /\ block \in U
      BY <2>2, <3>1, <3>2, <3>3, <3>4 DEF IsTrail
    <3>8. IsTrail(U)'
      BY <3>4, <3>5, <3>6, <3>7 DEF IsTrail
    <3>9. /\ height'[b'] = -1 /\ prev'[b'] # NoBlock
          /\ height'[prev'[b']] >= 0 /\ h' = height'[prev'[b']] + 1
      BY <1>0, <3>1, <3>2, <3>4 DEF TypeOK
    <3>10. QED
      BY <3>3, <3>4, <3>8, <3>9 DEF OnTrail
  <2>3. QED
    BY <2>1, <2>2
<1>7. OnChain' /\ ParsedInOrder'
  BY DEF OnChain, ParsedInOrder
<1>8. QED
  BY <1>1, <1>2, <1>3, <1>4, <1>5, <1>6, <1>7

LEMMA WireStep ==
  ASSUME IndInv, EndPass2 \/ Wire \/ WireNull
  PROVE  IndInv'
<1> USE DEF files, objects, maxima, IndInv
<1>1. CASE EndPass2 \/ WireNull
  <2> USE <1>1 DEF EndPass2, WireNull
  <2>1. /\ pc' \in {"wire", "crash"} /\ b' \in BlockPtr
        /\ b' # NoBlock => height[b'] >= 0
    BY DEF TypeOK, MaximumIsKept
  <2>2. TypeOK' /\ Linked'
    <3>1. TypeOK'
      BY <2>1 DEF TypeOK
    <3>2. QED
      BY <3>1 DEF Linked
  <2>3. Numbered' /\ MaximumIsKept' /\ NextOfNumbered'
    BY DEF Numbered, MaximumIsKept, NextOfNumbered
  <2>4. OnTrail' /\ OnChain' /\ ParsedInOrder'
    BY <2>1 DEF OnTrail, OnChain, ParsedInOrder
  <2>5. QED
    BY <2>2, <2>3, <2>4
<1>2. CASE Wire
  <2> USE <1>2 DEF Wire
  <2>1. /\ b \in Block /\ height[b] >= 0
        /\ prev[b] # NoBlock =>
              /\ prev[b] \in Block
              /\ height[prev[b]] >= 0
              /\ height[b] = height[prev[b]] + 1
    BY DEF OnChain, TypeOK, Numbered, Linked
  <2>2. TypeOK'
    BY <2>1 DEF TypeOK
  <2>3. Linked' /\ Numbered' /\ MaximumIsKept'
    BY DEF Linked, Numbered, MaximumIsKept
  <2>4. NextOfNumbered'
    BY <2>1 DEF NextOfNumbered, TypeOK
  <2>5. OnTrail' /\ OnChain' /\ ParsedInOrder'
    BY <2>1 DEF OnTrail, OnChain, ParsedInOrder
  <2>6. QED
    BY <2>2, <2>3, <2>4, <2>5
<1>3. QED
  BY <1>1, <1>2

LEMMA ParseStep ==
  ASSUME IndInv,
         StartLongestChain \/ EndOfChain \/ Terminated
            \/ \E isDone \in BOOLEAN : ParseBlock(isDone)
  PROVE  IndInv'
<1> USE DEF files, objects, maxima, IndInv
<1>1. CASE StartLongestChain
  <2> USE <1>1 DEF StartLongestChain, FirstBlock
  <2>1. TypeOK' /\ Linked'
    <3>1. b' \in BlockPtr
      BY DEF TypeOK
    <3>2. QED
      BY <3>1 DEF TypeOK, Linked
  <2>2. Numbered' /\ MaximumIsKept' /\ NextOfNumbered'
    BY DEF Numbered, MaximumIsKept, NextOfNumbered
  <2>3. OnChain'
    BY DEF OnChain, NextOfNumbered, Numbered, TypeOK
  <2>4. OnTrail' /\ ParsedInOrder'
    BY DEF OnTrail, ParsedInOrder
  <2>5. QED
    BY <2>1, <2>2, <2>3, <2>4
<1>2. CASE EndOfChain \/ Terminated
  <2> USE <1>2 DEF EndOfChain, Terminated, vars
  <2>1. TypeOK' /\ Linked'
    <3>1. pc' \in Phases
      BY DEF TypeOK
    <3>2. TypeOK'
      BY <3>1 DEF TypeOK
    <3>3. QED
      BY <3>2 DEF Linked
  <2>2. Numbered' /\ MaximumIsKept' /\ NextOfNumbered'
    BY DEF Numbered, MaximumIsKept, NextOfNumbered
  <2>3. OnTrail' /\ OnChain' /\ ParsedInOrder'
    BY DEF OnTrail, OnChain, ParsedInOrder
  <2>4. QED
    BY <2>1, <2>2, <2>3
<1>3. ASSUME NEW isDone \in BOOLEAN, ParseBlock(isDone) PROVE IndInv'
  <2> USE <1>3 DEF ParseBlock
  <2>1. /\ b \in Block /\ parsed \in Seq(Block)
        /\ height[b] = Len(parsed) + 1
        /\ prev[b] = IF parsed = <<>> THEN gNullBlock
                     ELSE parsed[Len(parsed)]
    BY DEF TypeOK, OnChain
  <2>2. /\ parsed' \in Seq(Block) /\ Len(parsed') = Len(parsed) + 1
        /\ parsed' # <<>> /\ parsed'[Len(parsed')] = b
        /\ \A i \in 1 .. Len(parsed) : parsed'[i] = parsed[i]
    BY <2>1
  <2>3. TypeOK'
    BY <2>1, <2>2 DEF TypeOK
  <2>4. Linked' /\ Numbered' /\ MaximumIsKept' /\ NextOfNumbered'
    BY DEF Linked, Numbered, MaximumIsKept, NextOfNumbered
  <2>5. OnTrail'
    BY DEF OnTrail
  <2>6. OnChain'
    <3>1. next[b] # NoBlock =>
            prev[next[b]] = b /\ height[next[b]] = height[b] + 1
      BY SMTT(30), <2>1 DEF NextOfNumbered, TypeOK
    <3>2. pc' \in {"parse", "done"} /\ (pc' = "parse" => b' = next[b])
      OBVIOUS
    <3>3. QED
      BY <2>1, <2>2, <3>1, <3>2 DEF OnChain
  <2>7. ParsedInOrder'
    <3>1. parsed # <<>> => Len(parsed) \in 1 .. Len(parsed)
      BY <2>1
    <3>2. parsed = <<>> => Len(parsed) = 0
      BY <2>1
    <3>3. QED
      BY <2>1, <2>2, <3>1, <3>2 DEF ParsedInOrder
  <2>8. QED
    BY <2>3, <2>4, <2>5, <2>6, <2>7
<1>4. QED
  BY <1>1, <1>2, <1>3

LEMMA NextIndInv == IndInv /\ [Next]_vars => IndInv'
<1> SUFFICES ASSUME IndInv, [Next]_vars PROVE IndInv'
  OBVIOUS
<1>1. CASE Next
  BY <1>1, ReadHeaderStep, EndOfFileStep, VisitStep, ClimbStep, EndClimbStep,
     DescendStep, WireStep, ParseStep DEF Next
<1>2. CASE UNCHANGED vars
  <2> USE <1>2 DEF vars, IndInv
  <2>1. TypeOK' /\ Linked' /\ Numbered' /\ MaximumIsKept'
    BY DEF TypeOK, Linked, Numbered, MaximumIsKept
  <2>2. OnTrail'
    BY DEF OnTrail, IsTrail
  <2>3. NextOfNumbered' /\ OnChain' /\ ParsedInOrder'
    BY DEF NextOfNumbered, OnChain, ParsedInOrder
  <2>4. QED
    BY <2>1, <2>2, <2>3
<1>3. QED
  BY <1>1, <1>2

LEMMA IndInvHolds == Spec => []IndInv
<1>1. QED
  BY InitIndInv, NextIndInv, PTL DEF Spec

-----------------------------------------------------------------------------
(* The variables of the block index keep their types through all passes:   *)
(* in particular every pointer is null or a Block object that was allocated. *)
THEOREM TypeCorrect == Spec => []TypeOK
<1>1. IndInv => TypeOK
  BY DEF IndInv
<1>2. QED
  BY IndInvHolds, <1>1, PTL

(* computeBlockHeight dereferences no null pointer, for any set of records *)
(* in any order (parser.cpp, the two loops of computeBlockHeight).         *)
THEOREM NoNullDereferenceHolds == Spec => []NoNullDereference
<1>1. IndInv => NoNullDereference
  BY DEF IndInv, NoNullDereference, OnTrail, IsTrail, TypeOK, Numbered
<1>2. QED
  BY IndInvHolds, <1>1, PTL

(* The trail of an abandoned climb never hangs on a block of known height  *)
(* when the next block is visited or the chain wired.                      *)
THEOREM TrailsAreOffChainHolds == Spec => []TrailsAreOffChain
<1>1. IndInv => TrailsAreOffChain
  BY DEF IndInv, TrailsAreOffChain, NextOfNumbered
<1>2. QED
  BY IndInvHolds, <1>1, PTL

(* gMaxBlock has height gMaxHeight and no block a greater one, throughout. *)
THEOREM MaximumIsKeptHolds == Spec => []MaximumIsKept
<1>1. IndInv => MaximumIsKept
  BY DEF IndInv
<1>2. QED
  BY IndInvHolds, <1>1, PTL

(* Block number i of pass 4 has height i and is the parent of number i + 1: *)
(* the callbacks see one unbroken chain that starts at the null block.      *)
THEOREM ParsedInOrderHolds == Spec => []ParsedInOrder
<1>1. IndInv => ParsedInOrder
  BY DEF IndInv
<1>2. QED
  BY IndInvHolds, <1>1, PTL

(* No step of any pass changes the height of a block that has one. *)
THEOREM HeightsAreFinalHolds == Spec => HeightsAreFinal
<1> DEFINE A == \A x \in Block : height[x] >= 0 => height'[x] = height[x]
<1>1. IndInv /\ [Next]_vars => [A]_vars
  <2> SUFFICES ASSUME IndInv, Next PROVE A
    OBVIOUS
  <2>1. ASSUME NEW x \in BlockHash, ReadHeader(x) PROVE A
    BY <2>1 DEF ReadHeader, MoreFiles, IndInv, TypeOK, Numbered
  <2>2. CASE Descend
    BY <2>2, DescentBlock DEF Descend, IndInv, TypeOK
  <2>3. CASE ~Descend /\ ~\E x \in BlockHash : ReadHeader(x)
    <3>1. height' = height
      BY <2>3 DEF Next, EndBlockFile, EndPass1, VisitNullBlock, StartClimb,
         Climb, GiveUp, EndClimb, EndPass2, Wire, WireNull, StartLongestChain,
         ParseBlock, EndOfChain, Terminated, vars, objects
    <3>2. QED
      BY <3>1
  <2>4. QED
    BY <2>1, <2>2, <2>3
<1>2. QED
  BY IndInvHolds, <1>1, PTL DEF Spec, HeightsAreFinal

-----------------------------------------------------------------------------
(* The lines of LongestChain. *)

(* The headers name earlier blocks as parents. *)
SoundHeaders ==
  /\ hashPrev \in [BlockHash -> Hash]
  /\ \A x \in BlockHash : hashPrev[x] < x

(* The recursive definition of Line has a solution: the ancestors of x are *)
(* what every set has that holds x and the parents of its members.         *)
LEMMA LineEquation ==
  ASSUME SoundHeaders
  PROVE  Chain!Line = [x \in Hash |->
            IF x = 0 THEN {0} ELSE {x} \union Chain!Line[hashPrev[x]]]
<1> DEFINE
      Closed(S) == \A y \in S : y # 0 => hashPrev[y] \in S
      L(x) == {y \in Hash : \A S \in SUBSET Hash : x \in S /\ Closed(S) => y \in S}
      f == [x \in Hash |-> L(x)]
<1>0. \A x \in Hash : x # 0 => hashPrev[x] \in Hash
  BY DEF SoundHeaders
<1>1. L(0) = {0}
  <2>1. {0} \in SUBSET Hash /\ Closed({0})
    OBVIOUS
  <2>2. QED
    BY <2>1
<1>2. ASSUME NEW x \in Hash, x # 0
      PROVE  L(x) = {x} \union L(hashPrev[x])
  <2> DEFINE p == hashPrev[x]  U == {x} \union L(p)
  <2>1. p \in Hash
    BY <1>0, <1>2
  <2> HIDE DEF p
  <2>2. p \in L(p) /\ Closed(L(p))
    BY <1>0, <2>1
  <2>3. U \in SUBSET Hash /\ x \in U /\ Closed(U)
    BY <2>2 DEF p
  <2>4. L(x) \subseteq U
    BY <2>3
  <2>5. \A S \in SUBSET Hash : x \in S /\ Closed(S) => p \in S
    BY <1>2 DEF p
  <2>6. U \subseteq L(x)
    BY <2>5
  <2>7. QED
    BY <2>4, <2>6 DEF p
<1> HIDE DEF L
<1>3. f = [x \in Hash |-> IF x = 0 THEN {0} ELSE {x} \union f[hashPrev[x]]]
  BY <1>0, <1>1, <1>2
<1>4. \E g : g = [x \in Hash |-> IF x = 0 THEN {0} ELSE {x} \union g[hashPrev[x]]]
  BY <1>3
<1>5. Chain!Line = CHOOSE g : g = [x \in Hash |->
                      IF x = 0 THEN {0} ELSE {x} \union g[hashPrev[x]]]
  BY DEF Chain!Line, Chain!Hash, Chain!BlockHash, Chain!gNullHash
<1>6. QED
  BY <1>4, <1>5

(* A line holds its hash and, but for the null hash, the parent of each of *)
(* its hashes; its hashes are no later than its own.                       *)
LEMMA LineOf ==
  ASSUME SoundHeaders, NEW x \in Hash
  PROVE  /\ Chain!Line[x] = IF x = 0 THEN {0}
                            ELSE {x} \union Chain!Line[hashPrev[x]]
         /\ Chain!Line[x] \subseteq 0 .. x
         /\ x \in Chain!Line[x]
         /\ \A y \in Chain!Line[x] :
                y # 0 => y \in BlockHash /\ hashPrev[y] \in Chain!Line[x]
<1> DEFINE L == Chain!Line
           IsLine(y) == /\ L[y] \subseteq 0 .. y
                        /\ \A z \in L[y] :
                              z # 0 => z \in BlockHash /\ hashPrev[z] \in L[y]
           Bad == {y \in Hash : ~ IsLine(y)}
<1>1. \A y \in Hash : L[y] = IF y = 0 THEN {0} ELSE {y} \union L[hashPrev[y]]
  BY LineEquation
<1>2. \A y \in Hash : y # 0 => hashPrev[y] \in Hash /\ hashPrev[y] < y
  BY DEF SoundHeaders
<1> HIDE DEF L
<1>3. \A y \in Hash : y \in L[y]
  BY <1>1
<1>4. ASSUME NEW y \in Hash, y # 0 => IsLine(hashPrev[y]) PROVE IsLine(y)
  <2>1. CASE y = 0
    <3>1. L[y] = {0}
      BY <1>1, <2>1
    <3>2. L[y] \subseteq 0 .. y
      BY <2>1, <3>1
    <3>3. \A z \in L[y] : z = 0
      BY <3>1
    <3>4. QED
      BY <3>2, <3>3
  <2>2. CASE y # 0
    <3> DEFINE p == hashPrev[y]
    <3>1. /\ L[y] = {y} \union L[p] /\ p \in Hash /\ p < y /\ p \in L[p]
          /\ IsLine(p)
      BY <1>1, <1>2, <1>3, <1>4, <2>2
    <3> HIDE DEF p
    <3>2. L[y] \subseteq 0 .. y
      BY <3>1
    <3>3. \A z \in L[y] : z # 0 => z \in BlockHash /\ hashPrev[z] \in L[y]
      BY <2>2, <3>1 DEF p
    <3>4. QED
      BY <3>2, <3>3
  <2>3. QED
    BY <2>1, <2>2
<1> HIDE DEF IsLine
<1>5. Bad = {}
  <2> SUFFICES ASSUME Bad # {} PROVE FALSE
    OBVIOUS
  <2>1. Bad \in SUBSET Nat
    OBVIOUS
  <2>2. PICK y \in Bad : \A z \in Bad : y <= z
    BY <2>1, LeastElement
  <2>3. y # 0 => hashPrev[y] \notin Bad
    BY <1>2, <2>1, <2>2
  <2>4. QED
    BY <1>2, <1>4, <2>2, <2>3
<1>6. IsLine(x)
  BY <1>5
<1>7. QED
  BY <1>1, <1>3, <1>6 DEF IsLine, L

(* Both modules mean one Cardinality. *)
LEMMA SameCardinality == \A S : Chain!Cardinality(S) = Cardinality(S)
BY DEF Chain!Cardinality, Cardinality

(* The depth of a hash is one more than that of its parent. *)
LEMMA DepthOf ==
  ASSUME SoundHeaders, NEW x \in Hash
  PROVE  Chain!Depth(x) = IF x = 0 THEN 0 ELSE Chain!Depth(hashPrev[x]) + 1
<1> DEFINE L == Chain!Line
<1>1. \A y \in Hash : IsFiniteSet(L[y]) /\ Cardinality(L[y]) \in Nat
  <2> SUFFICES ASSUME NEW y \in Hash
               PROVE  IsFiniteSet(L[y]) /\ Cardinality(L[y]) \in Nat
    OBVIOUS
  <2>1. IsFiniteSet(0 .. y)
    BY FS_Interval
  <2>2. L[y] \in SUBSET (0 .. y)
    BY LineOf
  <2>3. IsFiniteSet(L[y])
    BY <2>1, <2>2, FS_Subset
  <2>4. QED
    BY <2>3, FS_CardinalityType
<1>2. L[x] = IF x = 0 THEN {0} ELSE {x} \union L[hashPrev[x]]
  BY LineOf
<1>3. CASE x = 0
  <2>1. Cardinality({0}) = 1
    BY FS_Singleton
  <2>2. QED
    BY <1>2, <1>3, <2>1, SameCardinality DEF Chain!Depth
<1>4. CASE x # 0
  <2> DEFINE p == hashPrev[x]
  <2>1. p \in Hash /\ p < x
    BY <1>4 DEF SoundHeaders
  <2>2. L[p] \subseteq 0 .. p
    BY <2>1, LineOf
  <2>3. x \notin L[p]
    BY <2>1, <2>2
  <2> HIDE DEF L, p
  <2>4. Cardinality(L[p] \union {x}) = Cardinality(L[p]) + 1
    BY <1>1, <2>1, <2>3, FS_AddElement
  <2>5. Cardinality(L[x]) = Cardinality(L[p]) + 1
    <3>1. L[x] = L[p] \union {x}
      BY <1>2, <1>4 DEF p
    <3>2. QED
      BY <2>4, <3>1
  <2>6. QED
    BY <1>1, <1>4, <2>1, <2>5, SameCardinality DEF Chain!Depth, L, p
<1>5. QED
  BY <1>3, <1>4

(* The lines of earlier hashes of a line are part of it. *)
LEMMA LineContains ==
  ASSUME SoundHeaders, NEW x \in Hash, NEW y \in Chain!Line[x]
  PROVE  y \in Hash /\ Chain!Line[y] \subseteq Chain!Line[x]
<1> DEFINE L == Chain!Line
           Bad == {z \in Hash : z \in L[x] /\ ~ (L[z] \subseteq L[x])}
<1>1. \A z \in Hash : L[z] = IF z = 0 THEN {0} ELSE {z} \union L[hashPrev[z]]
  BY LineOf
<1>2. \A z \in L[x] : z # 0 => z \in BlockHash /\ hashPrev[z] \in L[x]
  BY LineOf
<1>3. \A z \in Hash : z # 0 => hashPrev[z] \in Hash /\ hashPrev[z] < z
  BY DEF SoundHeaders
<1> HIDE DEF L
<1>4. Bad = {}
  <2> SUFFICES ASSUME Bad # {} PROVE FALSE
    OBVIOUS
  <2>1. Bad \in SUBSET Nat
    OBVIOUS
  <2>2. PICK z \in Bad : \A u \in Bad : z <= u
    BY <2>1, LeastElement
  <2>3. z # 0
    <3>1. L[0] = {0}
      BY <1>1
    <3>2. z \in L[x] /\ ~ (L[z] \subseteq L[x])
      BY <2>2
    <3>3. QED
      BY <3>1, <3>2
  <2>4. hashPrev[z] \in L[x] /\ hashPrev[z] \notin Bad /\ hashPrev[z] \in Hash
    BY <1>2, <1>3, <2>1, <2>2, <2>3
  <2>5. L[z] \subseteq L[x]
    BY <1>1, <2>2, <2>3, <2>4
  <2>6. QED
    BY <2>2, <2>5
<1>5. y \in Hash
  BY <1>2 DEF L
<1>6. QED
  BY <1>4, <1>5 DEF L

-----------------------------------------------------------------------------
(* What the heights say. *)

Known == {hashOf[x] : x \in Allocated}

LEMMA ConnectedIs ==
  Chain!Connected = {x \in Known : Chain!Line[x] \subseteq Known \union {0}}
BY DEF Chain!Connected, Chain!gNullHash, Known

LEMMA HeadersAreSound == IndInv => SoundHeaders
BY DEF IndInv, TypeOK, Linked, SoundHeaders

(* A block with a height is at that depth, and its line is on disk. *)
LEMMA HeightsAreDepths ==
  ASSUME IndInv
  PROVE  \A x \in Allocated : height[x] >= 0 =>
            /\ height[x] = Chain!Depth(hashOf[x])
            /\ Chain!Line[hashOf[x]] \subseteq Known \union {0}
<1> DEFINE Good(x) == /\ height[x] = Chain!Depth(hashOf[x])
                      /\ Chain!Line[hashOf[x]] \subseteq Known \union {0}
           Bad == {x \in Allocated : height[x] >= 0 /\ ~ Good(x)}
           BadHash == {hashOf[x] : x \in Bad}
<1>0. SoundHeaders
  BY HeadersAreSound
<1>1. /\ nbBlocks \in 0 .. MaxBlocks
      /\ \A x \in Allocated : x \in Block /\ hashOf[x] \in BlockHash
      /\ height[0] = 0 /\ hashOf[0] = 0
  BY DEF IndInv, TypeOK, Linked, Numbered
<1>2. \A x \in Allocated : height[x] >= 0 =>
          /\ prev[x] \in 0 .. nbBlocks
          /\ hashOf[prev[x]] = hashPrev[hashOf[x]]
          /\ hashOf[prev[x]] < hashOf[x]
          /\ height[prev[x]] >= 0 /\ height[x] = height[prev[x]] + 1
  BY <1>1 DEF IndInv, Linked, Numbered
<1>3. Chain!Line[0] = {0} /\ Chain!Depth(0) = 0
  BY <1>0, LineOf, DepthOf
<1> HIDE DEF Good
<1>4. ASSUME NEW x \in Allocated, height[x] >= 0,
             prev[x] # 0 => Good(prev[x])
      PROVE  Good(x)
  <2> DEFINE hash == hashOf[x]  up == hashPrev[hash]
  <2>1. hash \in BlockHash /\ hash \in Hash /\ hash # 0 /\ hash \in Known
    BY <1>1 DEF Known
  <2>2. /\ Chain!Line[hash] = {hash} \union Chain!Line[up]
        /\ Chain!Depth(hash) = Chain!Depth(up) + 1
    BY <1>0, <2>1, LineOf, DepthOf
  <2>3. up = hashOf[prev[x]]
    BY <1>2, <1>4
  <2> HIDE DEF hash, up
  <2>4. /\ height[prev[x]] = Chain!Depth(up)
        /\ Chain!Line[up] \subseteq Known \union {0}
    <3>1. CASE prev[x] = 0
      BY <1>1, <1>3, <2>3, <3>1
    <3>2. CASE prev[x] # 0
      BY <1>4, <2>3, <3>2 DEF Good
    <3>3. QED
      BY <3>1, <3>2
  <2>5. height[x] = Chain!Depth(hash)
    BY <1>2, <1>4, <2>2, <2>4
  <2>6. Chain!Line[hash] \subseteq Known \union {0}
    BY <2>1, <2>2, <2>4
  <2>7. QED
    BY <2>5, <2>6 DEF Good, hash
<1>5. Bad = {}
  <2> SUFFICES ASSUME Bad # {} PROVE FALSE
    OBVIOUS
  <2>1. BadHash \in SUBSET Nat /\ BadHash # {}
    BY <1>1
  <2>2. PICK x \in Bad : \A y \in Bad : hashOf[x] <= hashOf[y]
    <3>1. PICK hash \in BadHash : \A other \in BadHash : hash <= other
      BY <2>1, LeastElement
    <3>2. \A y \in Bad : hashOf[y] \in BadHash
      OBVIOUS
    <3>3. QED
      BY <3>1, <3>2
  <2>3. x \in Allocated /\ height[x] >= 0 /\ ~ Good(x)
    BY <2>2
  <2>4. prev[x] # 0 => prev[x] \in Allocated /\ prev[x] \notin Bad
    <3> SUFFICES ASSUME prev[x] # 0
                 PROVE  prev[x] \in Allocated /\ prev[x] \notin Bad
      OBVIOUS
    <3>1. prev[x] \in Allocated
      BY <1>1, <1>2, <2>3
    <3>2. hashOf[prev[x]] \in Nat /\ hashOf[x] \in Nat
          /\ hashOf[prev[x]] < hashOf[x]
      BY <1>1, <1>2, <2>3, <3>1
    <3>3. QED
      BY <2>2, <3>1, <3>2
  <2>5. prev[x] # 0 => Good(prev[x])
    BY <1>2, <2>3, <2>4
  <2>6. QED
    BY <1>4, <2>3, <2>5
<1>6. \A x \in Allocated : height[x] >= 0 => Good(x)
  BY <1>5
<1>7. QED
  BY <1>6 DEF Good

(* The height computeBlockHeight gives a block is its distance from the    *)
(* null block along the headers, for every record of every file: those of  *)
(* superseded blocks, and of blocks read before their parents, too.        *)
THEOREM HeightIsDepthHolds == Spec => []HeightIsDepth
<1>1. IndInv => HeightIsDepth
  BY HeightsAreDepths DEF HeightIsDepth
<1>2. QED
  BY IndInvHolds, <1>1, PTL

-----------------------------------------------------------------------------
(* The invariant that links the program to LongestChain. *)

LEMMA InitChainInv == Init => ChainInv
<1> SUFFICES ASSUME Init PROVE ChainInv
  OBVIOUS
<1>1. IndInv
  BY InitIndInv
<1>2. Recorded
  BY DEF Init, Recorded
<1>3. ClimbsLine /\ Visited /\ OnTip
  BY DEF Init, ClimbsLine, Visited, OnTip
<1>4. QED
  BY <1>1, <1>2, <1>3 DEF ChainInv

(* The headers stay as the files have them; after pass 1 so do the hashes  *)
(* of the blocks and the map, and with them what is connected.             *)
LEMMA HeadersUntouched ==
  ASSUME [Next]_vars
  PROVE  hashPrev' = hashPrev /\ Chain!Line' = Chain!Line
<1>1. hashPrev' = hashPrev
  BY DEF Next, ReadHeader, EndBlockFile, EndPass1, VisitNullBlock, StartClimb,
     Climb, GiveUp, EndClimb, Descend, EndPass2, Wire, WireNull,
     StartLongestChain, ParseBlock, EndOfChain, Terminated, vars, files
<1>2. QED
  BY <1>1 DEF Chain!Line

LEMMA IndexUntouched ==
  ASSUME [Next]_vars, pc # "headers"
  PROVE  /\ UNCHANGED <<hashPrev, nbBlocks, hashOf, gBlockMap>>
         /\ Known' = Known /\ Chain!Connected' = Chain!Connected
         /\ Chain!Line' = Chain!Line
<1>1. UNCHANGED <<hashPrev, nbBlocks, hashOf, gBlockMap>>
  BY DEF Next, ReadHeader, EndBlockFile, EndPass1, VisitNullBlock, StartClimb,
     Climb, GiveUp, EndClimb, Descend, EndPass2, Wire, WireNull,
     StartLongestChain, ParseBlock, EndOfChain, Terminated, vars, files, objects
<1>2. Known' = Known
  BY <1>1 DEF Known
<1>3. Chain!Line' = Chain!Line
  BY HeadersUntouched
<1>4. Chain!Connected' = Chain!Connected
  BY <1>1, <1>3 DEF Chain!Connected
<1>5. QED
  BY <1>1, <1>2, <1>3, <1>4

LEMMA RecordedStep == IndInv /\ Recorded /\ [Next]_vars => Recorded'
<1> SUFFICES ASSUME IndInv, Recorded, [Next]_vars PROVE Recorded'
  OBVIOUS
<1>1. CASE pc # "headers"
  BY <1>1, IndexUntouched DEF Recorded
<1>2. ASSUME NEW x \in BlockHash, ReadHeader(x) PROVE Recorded'
  <2>1. /\ nbBlocks' = nbBlocks + 1 /\ nbBlocks \in 0 .. MaxBlocks
        /\ nbBlocks + 1 \in Block
        /\ hashOf' = [hashOf EXCEPT ![nbBlocks + 1] = x]
        /\ gBlockMap' = [gBlockMap EXCEPT ![x] = nbBlocks + 1]
        /\ hashOf \in [Block -> Hash] /\ gBlockMap \in [Hash -> BlockPtr]
    BY <1>2 DEF ReadHeader, IndInv, TypeOK
  <2> SUFFICES ASSUME NEW y \in 1 .. nbBlocks + 1
               PROVE  gBlockMap'[hashOf'[y]] # NoBlock
    BY <2>1 DEF Recorded
  <2>2. nbBlocks + 1 # NoBlock
    BY <2>1
  <2>3. CASE y = nbBlocks + 1
    BY <2>1, <2>2, <2>3
  <2>4. CASE y # nbBlocks + 1
    <3>1. /\ y \in Allocated /\ y \in Block /\ hashOf'[y] = hashOf[y]
          /\ hashOf[y] \in Hash
      BY <2>1, <2>4
    <3>2. gBlockMap[hashOf[y]] # NoBlock
      BY <3>1 DEF Recorded
    <3>3. QED
      BY <2>1, <2>2, <3>1, <3>2
  <2>5. QED
    BY <2>3, <2>4
<1>3. CASE pc = "headers" /\ ~ \E x \in BlockHash : ReadHeader(x)
  BY <1>3 DEF Next, EndBlockFile, EndPass1, VisitNullBlock, StartClimb,
     Climb, GiveUp, EndClimb, Descend, EndPass2, Wire, WireNull,
     StartLongestChain, ParseBlock, EndOfChain, Terminated, vars, objects,
     Recorded
<1>4. QED
  BY <1>1, <1>2, <1>3

LEMMA ClimbsLineStep == IndInv /\ ClimbsLine /\ [Next]_vars => ClimbsLine'
<1> SUFFICES ASSUME IndInv, ClimbsLine, [Next]_vars, pc' = "climb"
             PROVE  hashOf'[b'] \in Chain!Line'[hashOf'[block']]
  BY DEF ClimbsLine
<1>0. SoundHeaders
  BY HeadersAreSound
<1>1. ASSUME NEW x \in Hash, StartClimb(x)
      PROVE  hashOf'[b'] \in Chain!Line'[hashOf'[block']]
  <2>1. /\ pc = "link" /\ b' = block' /\ block' = gBlockMap[x]
        /\ gBlockMap[x] # NoBlock
    BY <1>1 DEF StartClimb, IndInv, Linked
  <2>2. hashOf[block'] \in Hash
    BY <2>1 DEF IndInv, TypeOK
  <2>3. hashOf[block'] \in Chain!Line[hashOf[block']]
    BY <1>0, <2>2, LineOf
  <2>4. QED
    BY <2>1, <2>3, IndexUntouched
<1>2. CASE Climb
  <2>1. /\ pc = "climb" /\ b' = ParentOf(b) /\ block' = block
        /\ height[b] < 0 /\ ParentOf(b) # NoBlock
    BY <1>2 DEF Climb
  <2>2. /\ hashOf[b] \in BlockHash /\ hashOf[b] # 0
        /\ hashOf[ParentOf(b)] = hashPrev[hashOf[b]]
    BY <2>1, ClimbedBlock
  <2>3. hashOf[b] \in Chain!Line[hashOf[block]] /\ hashOf[block] \in Hash
    BY <2>1 DEF ClimbsLine, IndInv, OnTrail, IsTrail, TypeOK
  <2>4. hashPrev[hashOf[b]] \in Chain!Line[hashOf[block]]
    BY <1>0, <2>2, <2>3, LineOf
  <2>5. QED
    BY <2>1, <2>2, <2>4, IndexUntouched
<1>3. CASE UNCHANGED vars
  <2>1. hashOf[b] \in Chain!Line[hashOf[block]] /\ pc = "climb"
    BY <1>3 DEF vars, ClimbsLine
  <2>2. QED
    BY <1>3, <2>1, IndexUntouched DEF vars
<1>4. QED
  BY <1>1, <1>2, <1>3
     DEF Next, ReadHeader, EndBlockFile, EndPass1, VisitNullBlock, GiveUp,
     EndClimb, Descend, EndPass2, Wire, WireNull, StartLongestChain,
     ParseBlock, EndOfChain, Terminated

(* Pass 2 gives up on a block only if its line is not all on disk: a hash  *)
(* of the line has no entry.                                               *)
LEMMA GivenUpIsNotConnected ==
  ASSUME IndInv, Recorded, ClimbsLine, GiveUp
  PROVE  hashOf[block] \notin Chain!Connected
<1> DEFINE hash == hashOf[b]  up == hashPrev[hash]
<1>0. SoundHeaders
  BY HeadersAreSound
<1>1. pc = "climb" /\ height[b] < 0 /\ ParentOf(b) = NoBlock
  BY DEF GiveUp
<1>2. hash \in BlockHash /\ hash # 0 /\ up \in Hash
  BY <1>1, ClimbedBlock
<1>3. hash \in Chain!Line[hashOf[block]] /\ hashOf[block] \in Hash
  BY <1>1 DEF ClimbsLine, IndInv, OnTrail, IsTrail, TypeOK
<1>4. up \in Chain!Line[hashOf[block]]
  BY <1>0, <1>2, <1>3, LineOf
<1>5. gBlockMap[up] = NoBlock
  BY <1>1 DEF ParentOf
<1>6. up \notin Known \union {0}
  BY <1>5 DEF Known, Recorded, IndInv, Linked
<1>7. QED
  BY <1>4, <1>6, ConnectedIs

LEMMA VisitedStep ==
  IndInv /\ Recorded /\ ClimbsLine /\ Visited /\ [Next]_vars => Visited'
<1> SUFFICES ASSUME IndInv, Recorded, ClimbsLine, Visited, [Next]_vars
             PROVE  Visited'
  OBVIOUS
<1>0. \A x \in Chain!Connected : /\ x \in BlockHash /\ x # 0
                                 /\ gBlockMap[x] # NoBlock
                                 /\ gBlockMap[x] \in Allocated
                                 /\ gBlockMap[x] \in Block
                                 /\ hashOf[gBlockMap[x]] = x
  <2>1. \A x \in Known : x \in BlockHash /\ gBlockMap[x] # NoBlock
    BY DEF Known, Recorded, IndInv, Linked
  <2>2. \A x \in BlockHash : gBlockMap[x] # NoBlock =>
            gBlockMap[x] \in Allocated /\ hashOf[gBlockMap[x]] = x
    BY DEF IndInv, Linked
  <2>3. nbBlocks \in 0 .. MaxBlocks
    BY DEF IndInv, TypeOK
  <2>4. QED
    BY <2>1, <2>2, <2>3, ConnectedIs
<1>1. CASE pc = "headers"
  <2>1. CASE pc' = "link"
    <3>1. /\ todo' = {x \in Hash : gBlockMap[x] # NoBlock}
          /\ UNCHANGED <<hashPrev, hashOf, nbBlocks>>
      BY <1>1, <2>1 DEF Next, ReadHeader, EndBlockFile, EndPass1, vars, files,
         objects, VisitNullBlock, StartClimb, Climb, GiveUp, EndClimb, Descend,
         EndPass2, Wire, WireNull, StartLongestChain, ParseBlock, EndOfChain,
         Terminated
    <3>2. Chain!Connected' = Chain!Connected
      BY <3>1, HeadersUntouched DEF Chain!Connected
    <3>3. Chain!Connected' \ todo' = {}
      BY <1>0, <3>1, <3>2
    <3>4. QED
      BY <2>1, <3>3 DEF Visited
  <2>2. CASE pc' # "link"
    <3>1. pc' \in {"headers", "exit"}
      BY <1>1, <2>2 DEF Next, ReadHeader, EndBlockFile, EndPass1, vars, files,
         objects, VisitNullBlock, StartClimb, Climb, GiveUp, EndClimb, Descend,
         EndPass2, Wire, WireNull, StartLongestChain, ParseBlock, EndOfChain,
         Terminated
    <3>2. QED
      BY <3>1 DEF Visited
  <2>3. QED
    BY <2>1, <2>2
<1>2. CASE pc # "headers"
  <2>0. UNCHANGED gBlockMap /\ Chain!Connected' = Chain!Connected
    BY <1>2, IndexUntouched
  <2> USE DEF files, objects, maxima
  <2>1. CASE VisitNullBlock
    BY <1>0, <2>0, <2>1 DEF VisitNullBlock, Visited
  <2>2. ASSUME NEW x \in Hash, StartClimb(x) PROVE Visited'
    BY <1>0, <2>0, <2>2 DEF StartClimb, Visited
  <2>3. CASE Climb \/ EndClimb
    BY <2>0, <2>3 DEF Climb, EndClimb, Visited
  <2>4. CASE GiveUp
    BY <1>0, <2>0, <2>4, GivenUpIsNotConnected DEF GiveUp, Visited
  <2>5. CASE Descend
    <3>1. /\ pc = "descend" /\ height' = [height EXCEPT ![b] = h]
          /\ height \in [Block -> Nat \union {-1}] /\ h \in Nat
          /\ UNCHANGED <<todo, block>>
          /\ IF b = block THEN pc' = "link" ELSE pc' = "descend"
      BY <2>5 DEF Descend, IndInv, TypeOK
    <3>2. ASSUME NEW x \in Chain!Connected \ todo
          PROVE  \/ height'[gBlockMap[x]] >= 0
                 \/ pc' \in {"climb", "descend"} /\ gBlockMap[x] = block
      <4>1. gBlockMap[x] \in Block
        BY <1>0
      <4>2. height[gBlockMap[x]] >= 0 \/ gBlockMap[x] = block
        BY <3>1 DEF Visited
      <4>3. QED
        BY <3>1, <4>1, <4>2
    <3>3. QED
      BY <2>0, <3>1, <3>2 DEF Visited
  <2>6. CASE EndPass2 \/ Wire \/ WireNull
    BY <2>0, <2>6 DEF EndPass2, Wire, WireNull, Visited
  <2>7. CASE StartLongestChain \/ EndOfChain
             \/ \E isDone \in BOOLEAN : ParseBlock(isDone)
    BY <2>0, <2>7 DEF StartLongestChain, EndOfChain, ParseBlock, Visited
  <2>8. CASE Terminated \/ UNCHANGED vars
    BY <2>0, <2>8 DEF Terminated, vars, Visited
  <2>9. QED
    BY <1>2, <2>1, <2>2, <2>3, <2>4, <2>5, <2>6, <2>7, <2>8
       DEF Next, ReadHeader, EndBlockFile, EndPass1
<1>3. QED
  BY <1>1, <1>2

(* Passes 3 and 4 walk the blocks wired, and pass 4 meets gMaxBlock last.  *)
LEMMA OnTipStep == IndInv /\ OnTip /\ [Next]_vars => OnTip'
<1> SUFFICES ASSUME IndInv, OnTip, [Next]_vars PROVE OnTip'
  OBVIOUS
<1> USE DEF files, objects, maxima
<1>0. /\ SoundHeaders
      /\ nbBlocks \in 0 .. MaxBlocks
      /\ height \in [Block -> Nat \union {-1}] /\ next \in [Block -> BlockPtr]
      /\ \A x \in 0 .. nbBlocks : x \in Block /\ hashOf[x] \in Hash
      /\ hashOf[0] = 0 /\ height[0] = 0
      /\ gMaxBlock # NoBlock =>
            gMaxBlock \in Allocated /\ height[gMaxBlock] = gMaxHeight
      /\ gMaxHeight \in Nat
  <2>1. TypeOK /\ Linked /\ Numbered /\ MaximumIsKept
    BY DEF IndInv
  <2>2. /\ nbBlocks \in 0 .. MaxBlocks
        /\ height \in [Block -> Nat \union {-1}] /\ next \in [Block -> BlockPtr]
        /\ \A x \in 0 .. nbBlocks : x \in Block /\ hashOf[x] \in Hash
        /\ gMaxHeight \in Nat
    BY <2>1 DEF TypeOK
  <2>3. /\ hashOf[0] = 0 /\ height[0] = 0
        /\ gMaxBlock # NoBlock =>
              gMaxBlock \in Allocated /\ height[gMaxBlock] = gMaxHeight
    BY <2>1 DEF Linked, Numbered, MaximumIsKept
  <2>4. QED
    BY <2>2, <2>3, HeadersAreSound
<1>1. CASE EndPass2
  <2>1. /\ pc = "link" /\ b' = gMaxBlock /\ pc' = "wire"
        /\ UNCHANGED <<hashPrev, nbBlocks, hashOf, height, next, gMaxBlock>>
    BY <1>1 DEF EndPass2
  <2>2. ASSUME gMaxBlock # NoBlock
        PROVE  \E C \in SUBSET (0 .. nbBlocks) : IsWired(C)'
    <3>0. hashOf[gMaxBlock] \in Hash
      BY <1>0, <2>2
    <3>1. hashOf[gMaxBlock] \in Chain!Line[hashOf[gMaxBlock]]
      BY <1>0, <3>0, LineOf
    <3>2. PICK C \in SUBSET (0 .. nbBlocks) : C = {gMaxBlock}
      <4>1. {gMaxBlock} \in SUBSET (0 .. nbBlocks)
        BY <1>0, <2>2
      <4>2. QED
        BY <4>1
    <3>3. IsWired(C)'
      BY <1>0, <2>1, <2>2, <3>1, <3>2, HeadersUntouched DEF IsWired
    <3>4. QED
      BY <3>2, <3>3
  <2>3. QED
    BY <2>1, <2>2 DEF OnTip
<1>2. CASE Wire
  <2>1. /\ pc = "wire" /\ b # NoBlock /\ gMaxBlock # NoBlock
        /\ UNCHANGED <<hashPrev, nbBlocks, hashOf, height, gMaxBlock>>
    BY <1>2 DEF Wire, OnTip
  <2>2. PICK C \in SUBSET (0 .. nbBlocks) : IsWired(C)
    BY <2>1 DEF OnTip
  <2>3. b \in C /\ b \in 0 .. nbBlocks /\ b \in Block /\ height[b] >= 0
    BY <1>0, <2>1, <2>2 DEF IsWired
  <2>4. CASE prev[b] = NoBlock
    <3>1. pc' = "start" /\ next' = next /\ b' = b
      BY <1>2, <2>4 DEF Wire
    <3>2. b = 0
      BY <2>3, <2>4 DEF IndInv, Numbered
    <3>3. IsWired(C)'
      BY <2>1, <2>2, <2>3, <3>1, <3>2, HeadersUntouched DEF IsWired
    <3>4. QED
      BY <2>1, <3>1, <3>3 DEF OnTip
  <2>5. CASE prev[b] # NoBlock
    <3> DEFINE p == prev[b]
    <3>1. pc' = "wire" /\ next' = [next EXCEPT ![p] = b] /\ b' = p
      BY <1>2, <2>1, <2>5 DEF Wire
    <3>2. /\ b \in Allocated /\ p \in 0 .. nbBlocks /\ p \in Block
          /\ hashOf[p] = hashPrev[hashOf[b]] /\ p # NoBlock
          /\ hashOf[b] \in BlockHash /\ hashOf[b] # 0
      BY <1>0, <2>3, <2>5 DEF IndInv, Linked
    <3>3. height[p] >= 0
      BY <1>0, <2>3, <3>2 DEF IndInv, Numbered
    <3> HIDE DEF p
    <3>4. hashOf[p] \in Chain!Line[hashOf[gMaxBlock]]
      <4>1. hashOf[b] \in Chain!Line[hashOf[gMaxBlock]]
        BY <2>2, <2>3 DEF IsWired
      <4>2. hashOf[gMaxBlock] \in Hash
        BY <1>0, <2>1
      <4>3. QED
        BY <1>0, <3>2, <4>1, <4>2, LineOf
    <3>5. PICK D \in SUBSET (0 .. nbBlocks) : D = C \union {p}
      BY <3>2
    <3>6. \A x \in D \ {gMaxBlock} : next'[x] \in D
      <4> SUFFICES ASSUME NEW x \in D, x # gMaxBlock PROVE next'[x] \in D
        OBVIOUS
      <4>1. x \in Block
        BY <1>0
      <4>2. CASE x = p
        BY <1>0, <2>3, <3>1, <3>5, <4>1, <4>2
      <4>3. CASE x # p
        <5>1. next'[x] = next[x]
          BY <1>0, <3>1, <4>1, <4>3
        <5>2. next[x] \in C
          BY <2>2, <3>5, <4>3 DEF IsWired
        <5>3. QED
          BY <3>5, <5>1, <5>2
      <4>4. QED
        BY <4>2, <4>3
    <3>7. IsWired(D)'
      <4>1. gMaxBlock' \in D /\ b' \in D /\ pc' # "start"
        BY <2>1, <2>2, <3>1, <3>5 DEF IsWired
      <4>2. \A x \in D : /\ height'[x] >= 0
                         /\ hashOf'[x] \in Chain!Line[hashOf[gMaxBlock]]
        BY <2>1, <2>2, <3>3, <3>4, <3>5 DEF IsWired
      <4>3. QED
        BY <2>1, <3>6, <4>1, <4>2, HeadersUntouched DEF IsWired
    <3>8. QED
      BY <2>1, <3>1, <3>2, <3>5, <3>7 DEF OnTip
  <2>6. QED
    BY <2>4, <2>5
<1>3. CASE WireNull
  BY <1>3 DEF WireNull, OnTip
<1>4. CASE StartLongestChain
  <2>1. /\ pc = "start" /\ pc' = "parse" /\ b' = next[0]
        /\ gMaxBlock # NoBlock /\ parsed' = parsed
        /\ UNCHANGED <<hashPrev, nbBlocks, hashOf, height, next, gMaxBlock>>
    BY <1>4 DEF StartLongestChain, FirstBlock, OnTip
  <2>2. PICK C \in SUBSET (0 .. nbBlocks) : IsWired(C)
    BY <2>1 DEF OnTip
  <2>3. 0 \in C \ {gMaxBlock}
    BY <1>0, <2>1, <2>2 DEF IsWired
  <2>4. b' \in C /\ b' # NoBlock
    BY <1>0, <2>1, <2>2, <2>3 DEF IsWired
  <2>5. IsWired(C)'
    BY <2>1, <2>2, <2>4, HeadersUntouched DEF IsWired
  <2>6. QED
    BY <2>1, <2>4, <2>5 DEF OnTip
<1>5. ASSUME NEW isDone \in BOOLEAN, ParseBlock(isDone) PROVE OnTip'
  <2>1. /\ pc = "parse" /\ b # NoBlock /\ gMaxBlock # NoBlock
        /\ parsed' = Append(parsed, b) /\ parsed \in Seq(Block)
        /\ UNCHANGED <<hashPrev, nbBlocks, hashOf, height, next, maxima>>
    BY <1>5 DEF ParseBlock, OnTip, IndInv, TypeOK
  <2>2. CASE isDone
    BY <1>5, <2>2 DEF ParseBlock, OnTip
  <2>3. CASE ~ isDone
    <3>1. pc' = "parse" /\ b' = next[b]
      BY <1>5, <2>3 DEF ParseBlock
    <3>2. PICK C \in SUBSET (0 .. nbBlocks) : IsWired(C)
      BY <2>1 DEF OnTip
    <3>3. b \in C /\ b \in Block
      BY <1>0, <2>1, <3>2 DEF IsWired
    <3>4. next[gMaxBlock] = NoBlock
      <4> SUFFICES ASSUME next[gMaxBlock] # NoBlock PROVE FALSE
        OBVIOUS
      <4>1. gMaxBlock \in Block /\ height[gMaxBlock] = gMaxHeight
        BY <1>0, <2>1
      <4>2. next[gMaxBlock] \in Block
        BY <1>0, <4>1
      <4>3. height[next[gMaxBlock]] = gMaxHeight + 1
        BY <1>0, <2>1, <4>1 DEF IndInv, NextOfNumbered
      <4>4. height[next[gMaxBlock]] <= gMaxHeight
        BY <4>2 DEF IndInv, MaximumIsKept
      <4>5. QED
        BY <1>0, <4>3, <4>4
    <3>5. b = gMaxBlock => b' = NoBlock
      BY <3>1, <3>4
    <3>6. b # gMaxBlock => b' \in C /\ b' # NoBlock
      <4>1. b # gMaxBlock => next[b] \in C
        BY <3>2, <3>3 DEF IsWired
      <4>2. \A x \in C : x # NoBlock
        BY <1>0
      <4>3. QED
        BY <3>1, <4>1, <4>2
    <3>7. b' \in C \union {NoBlock}
      BY <3>5, <3>6
    <3>8. IsWired(C)'
      BY <2>1, <3>1, <3>2, <3>7, HeadersUntouched DEF IsWired
    <3>9. b' = NoBlock => Len(parsed') = gMaxHeight'
      <4>1. height[b] = Len(parsed) + 1
        BY <2>1 DEF IndInv, OnChain
      <4>2. Len(parsed') = Len(parsed) + 1
        BY <2>1, <3>3
      <4>3. QED
        BY <1>0, <2>1, <3>5, <3>6, <4>1, <4>2
    <3>10. QED
      BY <2>1, <3>1, <3>8, <3>9 DEF OnTip
  <2>4. QED
    BY <2>2, <2>3
<1>6. CASE UNCHANGED vars
  <2>1. Chain!Line' = Chain!Line
    BY <1>6, HeadersUntouched
  <2>2. \A C : IsWired(C)' <=> IsWired(C)
    BY <1>6, <2>1 DEF vars, IsWired
  <2>3. QED
    BY <1>6, <2>2 DEF vars, OnTip
<1>7. CASE EndOfChain \/ Terminated
  BY <1>6, <1>7 DEF EndOfChain, Terminated, OnTip
<1>8. CASE \/ \E x \in BlockHash : ReadHeader(x)
           \/ EndBlockFile \/ EndPass1 \/ VisitNullBlock
           \/ \E x \in Hash : StartClimb(x)
           \/ Climb \/ GiveUp \/ EndClimb \/ Descend
  <2>1. pc' \in {"headers", "link", "exit", "climb", "descend"}
    BY <1>8 DEF ReadHeader, EndBlockFile, EndPass1, VisitNullBlock, StartClimb,
       Climb, GiveUp, EndClimb, Descend
  <2>2. QED
    BY <2>1 DEF OnTip
<1>9. QED
  BY <1>1, <1>2, <1>3, <1>4, <1>5, <1>6, <1>7, <1>8 DEF Next

LEMMA NextChainInv == ChainInv /\ [Next]_vars => ChainInv'
BY NextIndInv, RecordedStep, ClimbsLineStep, VisitedStep, OnTipStep
   DEF ChainInv

THEOREM ChainInvHolds == Spec => []ChainInv
<1>1. QED
  BY InitChainInv, NextChainInv, PTL DEF Spec

-----------------------------------------------------------------------------
(* What the invariant says when pass 2 is over.                            *)

(* Every connected hash has a block at its depth.                          *)
LEMMA ConnectedAreNumbered ==
  ASSUME ChainInv, pc \in {"link", "wire", "start", "parse", "done", "crash"},
         todo = {}, NEW x \in Chain!Connected
  PROVE  /\ x \in BlockHash
         /\ gBlockMap[x] \in Allocated /\ gBlockMap[x] \in Block
         /\ height[gBlockMap[x]] = Chain!Depth(x)
         /\ height[gBlockMap[x]] >= 1
<1>1. x \in Known
  BY ConnectedIs
<1>2. x \in BlockHash /\ gBlockMap[x] # NoBlock
  BY <1>1 DEF Known, ChainInv, Recorded, IndInv, Linked
<1>3. /\ gBlockMap[x] \in Allocated /\ hashOf[gBlockMap[x]] = x
      /\ nbBlocks \in 0 .. MaxBlocks
  BY <1>2 DEF ChainInv, IndInv, TypeOK, Linked
<1>4. height[gBlockMap[x]] >= 0
  BY DEF ChainInv, Visited
<1>5. height[gBlockMap[x]] = Chain!Depth(x)
  BY <1>3, <1>4, HeightsAreDepths DEF ChainInv
<1>6. height[gBlockMap[x]] >= 1
  <2> DEFINE y == gBlockMap[x]
  <2>1. /\ y \in Block \ {gNullBlock} /\ height[y] \in Int
        /\ \A z \in Block : height[z] \in Int
    BY <1>3 DEF ChainInv, IndInv, TypeOK
  <2>2. /\ prev[y] \in Block /\ height[prev[y]] >= 0
        /\ height[y] = height[prev[y]] + 1
    BY <1>3, <1>4, <2>1 DEF ChainInv, IndInv, TypeOK, Numbered
  <2> HIDE DEF y
  <2>3. height[y] >= 1
    BY <2>1, <2>2
  <2>4. QED
    BY <2>3 DEF y
<1>7. QED
  BY <1>2, <1>3, <1>5, <1>6

(* gMaxBlock is null when nothing is connected, and else the last block of *)
(* a longest chain.                                                        *)
LEMMA MaximumIsLongest ==
  ASSUME ChainInv, pc \in {"link", "wire", "start", "parse", "done", "crash"},
         todo = {}
  PROVE  /\ gMaxBlock = NoBlock => Chain!Connected = {}
         /\ gMaxBlock # NoBlock => /\ hashOf[gMaxBlock] \in BlockHash
                                   /\ hashOf[gMaxBlock] \in Chain!Longest
<1>0. /\ gMaxHeight \in Nat
      /\ \A x \in Block : height[x] \in Int /\ height[x] <= gMaxHeight
  BY DEF ChainInv, IndInv, TypeOK, MaximumIsKept
<1>1. ASSUME gMaxBlock = NoBlock PROVE Chain!Connected = {}
  <2> SUFFICES ASSUME NEW x \in Chain!Connected PROVE FALSE
    OBVIOUS
  <2>1. gMaxHeight = 0
    BY <1>1 DEF ChainInv, IndInv, MaximumIsKept
  <2>2. gBlockMap[x] \in Block /\ height[gBlockMap[x]] >= 1
    BY ConnectedAreNumbered
  <2>3. QED
    BY <1>0, <2>1, <2>2
<1>2. ASSUME gMaxBlock # NoBlock
      PROVE  hashOf[gMaxBlock] \in BlockHash /\ hashOf[gMaxBlock] \in Chain!Longest
  <2> DEFINE hash == hashOf[gMaxBlock]
  <2>1. /\ gMaxBlock \in Allocated /\ height[gMaxBlock] = gMaxHeight
        /\ hash \in BlockHash
    <3>1. gMaxBlock \in Allocated /\ height[gMaxBlock] = gMaxHeight
      BY <1>2 DEF ChainInv, IndInv, Numbered, MaximumIsKept
    <3>2. hash \in BlockHash
      BY <3>1 DEF ChainInv, IndInv, Linked
    <3>3. QED
      BY <3>1, <3>2
  <2>2. /\ gMaxHeight = Chain!Depth(hash)
        /\ Chain!Line[hash] \subseteq Known \union {0}
    BY <1>0, <2>1, HeightsAreDepths DEF ChainInv
  <2>3. hash \in Known
    BY <2>1 DEF Known
  <2>4. hash \in Chain!Connected
    BY <2>2, <2>3, ConnectedIs
  <2>5. \A y \in Chain!Connected : Chain!Depth(y) <= gMaxHeight
    BY <1>0, ConnectedAreNumbered
  <2> HIDE DEF hash
  <2>6. hash \in Chain!Longest
    BY <2>2, <2>4, <2>5 DEF Chain!Longest
  <2>7. QED
    BY <2>1, <2>6 DEF hash
<1>3. QED
  BY <1>1, <1>2

(* Giving up on an orphan loses no connected block, whatever the order in  *)
(* which pass 2 visits the hash table.                                     *)
THEOREM ConnectedHaveHeightsHolds == Spec => []ConnectedHaveHeights
<1>1. ChainInv => ConnectedHaveHeights
  <2> SUFFICES ASSUME ChainInv,
                      pc \in {"wire", "start", "parse", "done", "crash"},
                      NEW x \in BlockHash, gBlockMap[x] # NoBlock
               PROVE  height[gBlockMap[x]] >= 0 <=> x \in Chain!Connected
    BY DEF ConnectedHaveHeights, ChainInv, IndInv, TypeOK
  <2>1. todo = {}
    BY DEF ChainInv, Visited
  <2>2. gBlockMap[x] \in Allocated /\ hashOf[gBlockMap[x]] = x /\ x \in Known
    BY DEF ChainInv, IndInv, Linked, Known
  <2>3. ASSUME height[gBlockMap[x]] >= 0 PROVE x \in Chain!Connected
    <3>1. Chain!Line[x] \subseteq Known \union {0}
      BY <2>2, <2>3, HeightsAreDepths DEF ChainInv
    <3>2. QED
      BY <2>2, <3>1, ConnectedIs
  <2>4. ASSUME x \in Chain!Connected PROVE height[gBlockMap[x]] >= 0
    BY <2>1, <2>4 DEF ChainInv, Visited
  <2>5. QED
    BY <2>3, <2>4
<1>2. QED
  BY ChainInvHolds, <1>1, PTL

(* The null gMaxBlock is followed only when no chain on disk reaches the   *)
(* null block.                                                             *)
THEOREM CrashOnlyWithoutGenesisHolds == Spec => []CrashOnlyWithoutGenesis
<1>1. ChainInv => CrashOnlyWithoutGenesis
  <2> SUFFICES ASSUME ChainInv, pc = "crash" PROVE Chain!Connected = {}
    BY DEF CrashOnlyWithoutGenesis
  <2>1. todo = {} /\ gMaxBlock = NoBlock
    BY DEF ChainInv, Visited, OnTip
  <2>2. QED
    BY <2>1, MaximumIsLongest
<1>2. QED
  BY ChainInvHolds, <1>1, PTL

-----------------------------------------------------------------------------
(* The passes implement the election and the delivery, step by step.       *)

AbsPhase == IF pc \in Reading THEN "reading"
            ELSE IF pc \in Terminal \/ gMaxBlock = NoBlock THEN "ended"
            ELSE "delivering"
AbsTip == IF pc \in Reading \/ gMaxBlock = NoBlock THEN gNullHash
          ELSE hashOf[gMaxBlock]
AbsDelivered == [i \in 1 .. Len(parsed) |-> hashOf[parsed[i]]]
AbsVars == <<hashPrev, AbsPhase, Known, AbsTip, AbsDelivered>>

LEMMA InitElects == Init => Chain!Init
BY DEF Init, Headers, Chain!Init, Chain!Hash, Chain!BlockHash, Chain!gNullHash,
       Reading

(* Pass 1 records a hash. *)
LEMMA ReadHeaderElects ==
  ASSUME ChainInv, NEW x \in BlockHash, ReadHeader(x)
  PROVE  Chain!Record(x)
<1>1. /\ pc = "headers" /\ nbBlocks' = nbBlocks + 1 /\ nbBlocks \in 0 .. MaxBlocks
      /\ nbBlocks + 1 \in Block
      /\ hashOf' = [hashOf EXCEPT ![nbBlocks + 1] = x]
      /\ hashOf \in [Block -> Hash]
      /\ UNCHANGED <<pc, hashPrev, gMaxBlock, parsed>>
      /\ parsed = <<>>
  BY DEF ReadHeader, files, maxima, ChainInv, IndInv, TypeOK, OnChain
<1>2. Known' = Known \union {x}
  <2>1. \A y \in 1 .. nbBlocks : hashOf'[y] = hashOf[y]
    BY <1>1
  <2>2. hashOf'[nbBlocks + 1] = x
    BY <1>1
  <2>3. 1 .. nbBlocks' = (1 .. nbBlocks) \union {nbBlocks + 1}
    BY <1>1
  <2>4. QED
    BY <2>1, <2>2, <2>3 DEF Known
<1>3. AbsPhase = "reading" /\ AbsPhase' = "reading" /\ AbsTip = 0 /\ AbsTip' = 0
  BY <1>1 DEF AbsPhase, AbsTip, Reading
<1>4. AbsDelivered' = AbsDelivered
  BY <1>1 DEF AbsDelivered
<1>5. QED
  BY <1>1, <1>2, <1>3, <1>4
     DEF Chain!Record, AbsPhase, AbsTip, AbsDelivered, Known

(* What leaves the abstract state alone. *)
LEMMA Stutters ==
  ASSUME ChainInv, [Next]_vars, pc # "headers",
         UNCHANGED <<AbsPhase, AbsTip, parsed>>
  PROVE  UNCHANGED AbsVars
<1>1. hashPrev' = hashPrev /\ Known' = Known /\ hashOf' = hashOf
  BY IndexUntouched
<1>2. AbsDelivered' = AbsDelivered
  BY <1>1 DEF AbsDelivered
<1>3. QED
  BY <1>1, <1>2 DEF AbsVars

(* The end of pass 1: an empty index ends the run. *)
LEMMA EndPass1Elects ==
  ASSUME ChainInv, EndPass1
  PROVE  Chain!Abandon \/ UNCHANGED AbsVars
<1>1. /\ pc = "headers"
      /\ UNCHANGED <<hashPrev, nbBlocks, hashOf, gMaxBlock, parsed>>
  BY DEF EndPass1, files, objects, maxima
<1>2. Known' = Known /\ AbsDelivered' = AbsDelivered
  BY <1>1 DEF Known, AbsDelivered
<1>3. CASE nbBlocks = 0
  <2>1. pc' = "exit" /\ gMaxBlock = NoBlock
    BY <1>3 DEF EndPass1, ChainInv, IndInv, Numbered
  <2>2. /\ AbsPhase = "reading" /\ AbsPhase' = "ended"
        /\ AbsTip' = AbsTip
    BY <1>1, <2>1 DEF AbsPhase, AbsTip, Reading
  <2>3. Chain!Connected = {}
    BY <1>3, ConnectedIs DEF Known
  <2>4. Chain!Abandon
    BY <1>1, <1>2, <2>2, <2>3
       DEF Chain!Abandon, AbsPhase, AbsTip, AbsDelivered, Known
  <2>5. QED
    BY <2>4
<1>4. CASE nbBlocks # 0
  <2>1. pc' = "link"
    BY <1>4 DEF EndPass1
  <2>2. AbsPhase' = AbsPhase /\ AbsTip' = AbsTip
    BY <1>1, <2>1 DEF AbsPhase, AbsTip, Reading
  <2>3. QED
    BY <1>1, <1>2, <2>2 DEF AbsVars
<1>5. QED
  BY <1>3, <1>4

(* The end of pass 2 elects gMaxBlock, if there is one. *)
LEMMA EndPass2Elects ==
  ASSUME ChainInv, EndPass2
  PROVE  \/ \E x \in BlockHash : Chain!Elect(x)
         \/ Chain!Abandon
<1>1. /\ pc = "link" /\ todo = {} /\ pc' = "wire"
      /\ UNCHANGED <<hashPrev, nbBlocks, hashOf, gMaxBlock, parsed>>
  BY DEF EndPass2, files, objects, maxima
<1>2. Known' = Known /\ AbsDelivered' = AbsDelivered
  BY <1>1 DEF Known, AbsDelivered
<1>3. AbsPhase = "reading" /\ AbsTip = 0
  BY <1>1 DEF AbsPhase, AbsTip, Reading
<1>4. CASE gMaxBlock = NoBlock
  <2>1. AbsPhase' = "ended" /\ AbsTip' = 0
    BY <1>1, <1>4 DEF AbsPhase, AbsTip, Reading
  <2>2. Chain!Connected = {}
    BY <1>1, <1>4, MaximumIsLongest
  <2>3. Chain!Abandon
    BY <1>1, <1>2, <1>3, <2>1, <2>2
       DEF Chain!Abandon, AbsPhase, AbsTip, AbsDelivered, Known
  <2>4. QED
    BY <2>3
<1>5. CASE gMaxBlock # NoBlock
  <2> DEFINE hash == hashOf[gMaxBlock]
  <2>1. AbsPhase' = "delivering" /\ AbsTip' = hash
    BY <1>1, <1>5 DEF AbsPhase, AbsTip, Reading
  <2>2. hash \in BlockHash /\ hash \in Chain!Longest
    BY <1>1, <1>5, MaximumIsLongest
  <2> HIDE DEF hash
  <2>3. Chain!Elect(hash)
    BY <1>1, <1>2, <1>3, <2>1, <2>2
       DEF Chain!Elect, AbsPhase, AbsTip, AbsDelivered, Known
  <2>4. QED
    BY <2>2, <2>3
<1>6. QED
  BY <1>4, <1>5

(* Pass 4 delivers the block of the elected line that is next in depth. *)
LEMMA ParseBlockElects ==
  ASSUME ChainInv, NEW isDone \in BOOLEAN, ParseBlock(isDone)
  PROVE  \E x \in BlockHash : Chain!Deliver(x, isDone)
<1> DEFINE hash == hashOf[b]
<1>1. /\ pc = "parse" /\ b # NoBlock /\ gMaxBlock # NoBlock
      /\ parsed' = Append(parsed, b) /\ parsed \in Seq(Block)
      /\ pc' = IF isDone THEN "done" ELSE "parse"
      /\ UNCHANGED <<hashPrev, nbBlocks, hashOf, gMaxBlock>>
  BY DEF ParseBlock, files, objects, maxima, ChainInv, IndInv, TypeOK, OnTip
<1>2. PICK C \in SUBSET (0 .. nbBlocks) : IsWired(C)
  BY <1>1 DEF ChainInv, OnTip
<1>3. b \in 0 .. nbBlocks /\ b \in C /\ b \in Block
  BY <1>1, <1>2 DEF IsWired, ChainInv, IndInv, TypeOK
<1>4. hash \in Chain!Line[hashOf[gMaxBlock]]
  BY <1>2, <1>3 DEF IsWired
<1>5. height[b] = Len(parsed) + 1
  BY <1>1 DEF ChainInv, IndInv, OnChain
<1>6. b \in Allocated /\ hash \in BlockHash /\ Len(parsed) \in Nat
  <2>1. b # 0
    BY <1>1, <1>5 DEF ChainInv, IndInv, Numbered
  <2>2. b \in Allocated
    BY <1>3, <2>1
  <2>3. QED
    BY <1>1, <2>2 DEF ChainInv, IndInv, Linked
<1>7. Chain!Depth(hash) = Len(parsed) + 1
  <2>1. height[b] >= 0
    BY <1>5, <1>6
  <2>2. height[b] = Chain!Depth(hash)
    BY <1>6, <2>1, HeightsAreDepths DEF ChainInv
  <2>3. QED
    BY <1>5, <2>2
<1> HIDE DEF hash
<1>8. Known' = Known
  BY <1>1 DEF Known
<1>9. /\ AbsPhase = "delivering"
      /\ AbsPhase' = IF isDone THEN "ended" ELSE "delivering"
      /\ AbsTip = hashOf[gMaxBlock] /\ AbsTip' = AbsTip
  BY <1>1 DEF AbsPhase, AbsTip, Reading
<1>10. Len(AbsDelivered) = Len(parsed) /\ AbsDelivered' = Append(AbsDelivered, hash)
  <2>1. Len(AbsDelivered) = Len(parsed)
    BY <1>6 DEF AbsDelivered
  <2>2. Len(parsed') = Len(parsed) + 1 /\ parsed'[Len(parsed) + 1] = b
        /\ \A i \in 1 .. Len(parsed) : parsed'[i] = parsed[i]
    BY <1>1, <1>3
  <2>3. /\ AbsDelivered \in Seq(Hash)
        /\ AbsDelivered' \in Seq(Hash)
        /\ Len(AbsDelivered') = Len(parsed) + 1
        /\ \A i \in 1 .. Len(parsed) + 1 : AbsDelivered'[i] = hashOf[parsed'[i]]
    <3>1. \A i \in 1 .. Len(parsed) : hashOf[parsed[i]] \in Hash
      BY <1>1 DEF ChainInv, IndInv, TypeOK
    <3>2. AbsDelivered \in Seq(Hash)
      BY <1>6, <3>1 DEF AbsDelivered
    <3>3. AbsDelivered' = [i \in 1 .. Len(parsed) + 1 |-> hashOf[parsed'[i]]]
      BY <1>1, <2>2 DEF AbsDelivered
    <3>4. \A i \in 1 .. Len(parsed) + 1 : hashOf[parsed'[i]] \in Hash
      BY <1>1, <1>3, <1>6 DEF ChainInv, IndInv, TypeOK
    <3>5. QED
      BY <1>6, <3>2, <3>3, <3>4
  <2>4. /\ Append(AbsDelivered, hash) \in Seq(Hash)
        /\ Len(Append(AbsDelivered, hash)) = Len(parsed) + 1
        /\ \A i \in 1 .. Len(parsed) :
              Append(AbsDelivered, hash)[i] = hashOf[parsed[i]]
        /\ Append(AbsDelivered, hash)[Len(parsed) + 1] = hash
    <3>1. \A i \in 1 .. Len(parsed) : AbsDelivered[i] = hashOf[parsed[i]]
      BY DEF AbsDelivered
    <3>2. hash \in Hash
      BY <1>6
    <3>3. QED
      BY <2>1, <2>3, <3>1, <3>2, AppendProperties
  <2>5. \A i \in 1 .. Len(parsed) + 1 :
            AbsDelivered'[i] = Append(AbsDelivered, hash)[i]
    <3> SUFFICES ASSUME NEW i \in 1 .. Len(parsed) + 1
                 PROVE  AbsDelivered'[i] = Append(AbsDelivered, hash)[i]
      OBVIOUS
    <3>1. CASE i = Len(parsed) + 1
      BY <2>2, <2>3, <2>4, <3>1 DEF hash
    <3>2. CASE i # Len(parsed) + 1
      <4>1. i \in 1 .. Len(parsed)
        BY <1>6, <3>2
      <4>2. QED
        BY <2>2, <2>3, <2>4, <4>1
    <3>3. QED
      BY <3>1, <3>2
  <2>6. QED
    BY <2>1, <2>3, <2>4, <2>5, SeqEqual
<1>11. Chain!Deliver(hash, isDone)
  BY <1>1, <1>4, <1>7, <1>8, <1>9, <1>10
     DEF Chain!Deliver, AbsPhase, AbsTip, AbsDelivered, Known, hash
<1>12. QED
  BY <1>6, <1>11

(* The walk ends at the tip. *)
LEMMA EndOfChainElects ==
  ASSUME ChainInv, EndOfChain
  PROVE  Chain!EndOfChain
<1>1. /\ pc = "parse" /\ b = NoBlock /\ gMaxBlock # NoBlock /\ pc' = "done"
      /\ parsed \in Seq(Block)
      /\ UNCHANGED <<hashPrev, nbBlocks, hashOf, gMaxBlock, parsed>>
  BY DEF EndOfChain, files, objects, maxima, ChainInv, IndInv, TypeOK, OnTip
<1>2. Known' = Known /\ AbsDelivered' = AbsDelivered
  BY <1>1 DEF Known, AbsDelivered
<1>3. /\ AbsPhase = "delivering" /\ AbsPhase' = "ended"
      /\ AbsTip = hashOf[gMaxBlock] /\ AbsTip' = AbsTip
  BY <1>1 DEF AbsPhase, AbsTip, Reading
<1>4. Len(AbsDelivered) = Chain!Depth(hashOf[gMaxBlock])
  <2>1. Len(AbsDelivered) = Len(parsed)
    BY <1>1 DEF AbsDelivered
  <2>2. Len(parsed) = gMaxHeight
    BY <1>1 DEF ChainInv, OnTip
  <2>3. /\ gMaxBlock \in Allocated /\ height[gMaxBlock] = gMaxHeight
        /\ gMaxHeight \in Nat
    BY <1>1 DEF ChainInv, IndInv, TypeOK, Numbered, MaximumIsKept
  <2>4. gMaxHeight = Chain!Depth(hashOf[gMaxBlock])
    BY <2>3, HeightsAreDepths DEF ChainInv
  <2>5. QED
    BY <2>1, <2>2, <2>4
<1>5. QED
  BY <1>1, <1>2, <1>3, <1>4
     DEF Chain!EndOfChain, AbsPhase, AbsTip, AbsDelivered, Known

LEMMA NextElects == ChainInv /\ [Next]_vars => [Chain!Next]_(Chain!vars)
<1> SUFFICES ASSUME ChainInv, [Next]_vars
             PROVE  Chain!Next \/ UNCHANGED AbsVars
  BY DEF Chain!vars, AbsVars, AbsPhase, AbsTip, AbsDelivered, Known
<1> USE DEF Chain!BlockHash
<1>1. ASSUME NEW x \in BlockHash, ReadHeader(x) PROVE Chain!Next
  BY <1>1, ReadHeaderElects DEF Chain!Next
<1>2. CASE EndPass1
  BY <1>2, EndPass1Elects DEF Chain!Next
<1>3. CASE EndPass2
  BY <1>3, EndPass2Elects DEF Chain!Next
<1>4. ASSUME NEW isDone \in BOOLEAN, ParseBlock(isDone) PROVE Chain!Next
  BY <1>4, ParseBlockElects DEF Chain!Next
<1>5. CASE EndOfChain
  BY <1>5, EndOfChainElects DEF Chain!Next
<1>6. CASE EndBlockFile \/ UNCHANGED vars
  BY <1>6 DEF EndBlockFile, objects, maxima, vars, AbsVars, AbsPhase, AbsTip,
     AbsDelivered, Known
<1>7. CASE \/ VisitNullBlock \/ \E x \in Hash : StartClimb(x)
           \/ Climb \/ GiveUp \/ EndClimb \/ Descend
  <2>1. /\ pc # "headers" /\ pc \in Reading /\ pc' \in Reading
        /\ parsed' = parsed
    BY <1>7 DEF VisitNullBlock, StartClimb, Climb, GiveUp, EndClimb, Descend,
       Reading
  <2>2. UNCHANGED <<AbsPhase, AbsTip, parsed>>
    BY <2>1 DEF AbsPhase, AbsTip
  <2>3. QED
    BY <2>1, <2>2, Stutters
<1>8. CASE Wire \/ WireNull \/ StartLongestChain
  <2>1. /\ pc \in {"wire", "start"} /\ pc' \in {"wire", "start", "parse", "crash"}
        /\ pc' = "crash" => gMaxBlock = NoBlock
        /\ UNCHANGED <<parsed, hashOf, gMaxBlock>>
    BY <1>8 DEF Wire, WireNull, StartLongestChain, ChainInv, OnTip, objects,
       maxima
  <2>2. UNCHANGED <<AbsPhase, AbsTip, parsed>>
    BY <2>1 DEF AbsPhase, AbsTip, Reading
  <2>3. QED
    BY <2>1, <2>2, Stutters
<1>9. CASE Terminated
  BY <1>6, <1>9 DEF Terminated
<1>10. QED
  BY <1>1, <1>2, <1>3, <1>4, <1>5, <1>6, <1>7, <1>8, <1>9 DEF Next

(* Whatever the order of records and of the hash table, the parser elects  *)
(* a longest chain and delivers its blocks parents first, up to its tip or *)
(* to where the callback says stop (that it gets there is left to TLC).    *)
THEOREM IndexElectsLongestChain == Spec => Chain!SafeSpec
<1>1. Spec => [][Chain!Next]_(Chain!vars)
  BY ChainInvHolds, NextElects, PTL DEF Spec
<1>2. Spec => Chain!Init
  BY InitElects DEF Spec
<1>3. QED
  BY <1>1, <1>2 DEF Chain!SafeSpec
=============================================================================
