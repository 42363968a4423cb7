------------------------ MODULE BlockIndexProperties ------------------------
(***************************************************************************)
(* The correctness of the block index (BlockIndex), and the mapping under  *)
(* which it implements LongestChain.                                       *)
(***************************************************************************)
EXTENDS BlockIndex

Allocated == 1 .. nbBlocks
Reading   == {"headers", "link", "climb", "descend"}

(* The abstract state of a state of the program. *)
Chain == INSTANCE LongestChain WITH
    hashPrev  <- hashPrev,
    phase     <- IF pc \in Reading THEN "reading"
                 ELSE IF pc \in Terminal \/ gMaxBlock = NoBlock THEN "ended"
                 ELSE "delivering",
    known     <- {hashOf[x] : x \in Allocated},
    tip       <- IF pc \in Reading \/ gMaxBlock = NoBlock THEN gNullHash
                 ELSE hashOf[gMaxBlock],
    delivered <- [i \in 1 .. Len(parsed) |-> hashOf[parsed[i]]]

(* Whatever the order of records and of the hash table, the parser elects  *)
(* a longest chain, delivers its blocks parents first and comes to an end  *)
(* (buildBlockHeaders to parseLongestChain).                               *)
ImplementsLongestChain == Chain!Spec

-----------------------------------------------------------------------------
(* A height is the distance from the null block along the headers, also    *)
(* for the superseded Block of a hash recorded twice and for blocks read   *)
(* before their parent (computeBlockHeight, the late links).               *)
HeightIsDepth ==
    \A x \in Allocated : height[x] >= 0 => height[x] = Chain!Depth(hashOf[x])

(* When pass 2 is over, a hash whose whole line is on disk has a height,   *)
(* and no other: giving up on an orphan loses no connected block.          *)
ConnectedHaveHeights ==
    pc \notin {"headers", "link", "climb", "descend", "exit"} =>
        \A x \in BlockHash :
            gBlockMap[x] # NoBlock =>
                (height[gBlockMap[x]] >= 0 <=> x \in Chain!Connected)

(* Between two calls of computeBlockHeight only blocks without a height    *)
(* have a next: the trail of an abandoned climb cannot lead pass 4 from    *)
(* the main chain into an orphan branch.                                   *)
TrailsAreOffChain ==
    pc \in {"link", "wire"} =>
        \A x \in Block : next[x] # NoBlock /\ height[x] >= 0 =>
            pc = "wire" /\ height[next[x]] = height[x] + 1

(* computeBlockHeight never runs off the trail: the block it climbs from,  *)
(* or descends to, is a Block object, and so is its parent on the way down. *)
NoNullDereference ==
    /\ pc \in {"climb", "descend"} => b # NoBlock /\ block # NoBlock
    /\ pc = "descend" /\ b # gNullBlock => prev[b] # NoBlock

(* The block pass 4 hands over as number i has height i and is the parent  *)
(* of the next one (parseLongestChain over the links of wireLongestChain). *)
ParsedInOrder ==
    \A i \in 1 .. Len(parsed) :
        /\ height[parsed[i]] = i
        /\ prev[parsed[i]] = IF i = 1 THEN gNullBlock ELSE parsed[i - 1]

(* gMaxBlock is the block of greatest height, and gMaxHeight its height,   *)
(* at all times of passes 2 to 4.                                          *)
MaximumIsKept ==
    /\ \A x \in Block : height[x] <= gMaxHeight
    /\ IF gMaxBlock = NoBlock THEN gMaxHeight = 0
       ELSE height[gMaxBlock] = gMaxHeight

(* parser.cpp follows a null gMaxBlock (wireLongestChain) only when no     *)
(* chain on disk reaches the null block.                                   *)
CrashOnlyWithoutGenesis == pc = "crash" => Chain!Connected = {}

(* Descending renumbers the whole trail, the ancestor it starts from       *)
(* included; no block that has a height is ever given another.             *)
HeightsAreFinal ==
    [][\A x \in Block : height[x] >= 0 => height'[x] = height[x]]_vars

-----------------------------------------------------------------------------
(* The inductive invariant behind the proofs of BlockIndexProofs, in parts. *)

(* What pass 1 lays down and no later step disturbs: map entries and parent *)
(* links agree with the hashes in the headers.                              *)
Linked ==
    /\ \A x \in BlockHash : hashPrev[x] < x
    /\ gBlockMap[gNullHash] = gNullBlock
    /\ \A x \in BlockHash : gBlockMap[x] # NoBlock =>
            gBlockMap[x] \in Allocated /\ hashOf[gBlockMap[x]] = x
    /\ \A x \in todo : gBlockMap[x] # NoBlock
    /\ hashOf[gNullBlock] = gNullHash
    /\ \A x \in Allocated : hashOf[x] \in BlockHash
    /\ \A x \in Block : prev[x] # NoBlock =>
            /\ x \in Allocated
            /\ prev[x] \in 0 .. nbBlocks
            /\ hashOf[prev[x]] = hashPrev[hashOf[x]]

(* A height is one more than the height of the parent. *)
Numbered ==
    /\ height[gNullBlock] = 0
    /\ \A x \in Block \ {gNullBlock} : height[x] >= 0 =>
            /\ prev[x] # NoBlock
            /\ height[prev[x]] >= 0
            /\ height[x] = height[prev[x]] + 1
    /\ pc = "headers" => \A x \in Block \ {gNullBlock} : height[x] = -1
    /\ gMaxBlock # NoBlock => gMaxBlock \in Allocated

(* T is the trail of the climb in progress: it leads by next from b to the *)
(* block climbed from, over blocks without a height.                       *)
IsTrail(T) ==
    /\ b \in T
    /\ block \in T
    /\ \A x \in T \ {b} :
            height[x] < 0 /\ prev[x] \in T /\ next[prev[x]] = x
    /\ \A x \in T \ {block} : next[x] \in T \ {b} /\ prev[next[x]] = x
    /\ pc = "climb" => \A x \in T : hashOf[b] <= hashOf[x]

OnTrail ==
    /\ pc \in {"climb", "descend"} =>
            \E T \in SUBSET (0 .. nbBlocks) : IsTrail(T)
    /\ pc = "descend" =>
            IF height[b] >= 0 THEN h = height[b]
            ELSE prev[b] # NoBlock /\ height[prev[b]] >= 0
                 /\ h = height[prev[b]] + 1

(* Where a block that has a height may have a next. *)
NextOfNumbered ==
    \A x \in Block : height[x] >= 0 /\ next[x] # NoBlock =>
        /\ pc \notin {"headers", "link", "exit"}
        /\ pc \in {"climb", "descend"} => x = b
        /\ pc \notin {"climb", "descend"} =>
                prev[next[x]] = x /\ height[next[x]] = height[x] + 1

(* The cursor of passes 3 and 4. *)
OnChain ==
    /\ pc = "wire" /\ b # NoBlock => height[b] >= 0
    /\ pc \in Phases \ {"parse", "done"} => parsed = <<>>
    /\ pc = "parse" /\ b # NoBlock =>
            /\ height[b] = Len(parsed) + 1
            /\ prev[b] = IF parsed = <<>> THEN gNullBlock
                         ELSE parsed[Len(parsed)]

IndInv ==
    /\ TypeOK
    /\ Linked
    /\ Numbered
    /\ MaximumIsKept
    /\ OnTrail
    /\ NextOfNumbered
    /\ OnChain
    /\ ParsedInOrder

(* What links the block index to LongestChain, in parts.                   *)

(* Every hash recorded has an entry in gBlockMap. *)
Recorded == \A x \in Allocated : gBlockMap[hashOf[x]] # NoBlock

(* A climb stays on the line of the hash it started from. *)
ClimbsLine == pc = "climb" => hashOf[b] \in Chain!Line[hashOf[block]]

(* The connected hashes pass 2 is through with have heights. *)
Visited ==
    /\ pc \in {"wire", "start", "parse", "done", "crash"} => todo = {}
    /\ pc \notin {"headers", "exit"} =>
            \A x \in Chain!Connected \ todo :
                \/ height[gBlockMap[x]] >= 0
                \/ pc \in {"climb", "descend"} /\ gBlockMap[x] = block

(* C are the blocks wired: they lead by next to gMaxBlock, on its line. *)
IsWired(C) ==
    /\ gMaxBlock \in C
    /\ \A x \in C : /\ height[x] >= 0
                    /\ hashOf[x] \in Chain!Line[hashOf[gMaxBlock]]
    /\ \A x \in C \ {gMaxBlock} : next[x] \in C
    /\ b \in C \union {NoBlock}
    /\ pc = "start" => gNullBlock \in C

OnTip ==
    /\ pc = "wire" => (b = NoBlock <=> gMaxBlock = NoBlock)
    /\ pc = "crash" => gMaxBlock = NoBlock
    /\ pc \in {"start", "parse"} => gMaxBlock # NoBlock
    /\ pc \in {"wire", "start", "parse"} /\ gMaxBlock # NoBlock =>
            \E C \in SUBSET (0 .. nbBlocks) : IsWired(C)
    /\ pc = "parse" /\ b = NoBlock => Len(parsed) = gMaxHeight

ChainInv == IndInv /\ Recorded /\ ClimbsLine /\ Visited /\ OnTip
=============================================================================
