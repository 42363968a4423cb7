----------------------------- MODULE BlockIndex -----------------------------
(***************************************************************************)
(* The block index of parser.cpp: pass 1 (buildBlockHeaders) reads the     *)
(* 80-byte headers off the blk*.dat files and allocates one Block object   *)
(* per record, pass 2 (computeBlockHeights) links every Block to its       *)
(* parent and numbers it, pass 3 (wireLongestChain) turns the parent links *)
(* of the longest chain around, and pass 4 (parseLongestChain) follows     *)
(* them and hands every Block of that chain to the callback, in order.     *)
(*                                                                         *)
(* A block hash is a number whose order is the order of mining: a header   *)
(* contains the hash of its parent, so a parent is always smaller.         *)
(* Nothing else is assumed of the files: any hash may be recorded any      *)
(* number of times, in any order, and a parent may be missing.             *)
(***************************************************************************)
EXTENDS Integers, Sequences, FiniteSets

CONSTANTS
    NbHashes,   \* the hashes of the headers found on disk are 1..NbHashes
    MaxBlocks,  \* bound on the records of all block files together
    NbFiles,    \* number of block files found by getBlockFiles
    NoBlock     \* the null Block pointer

ASSUME NbHashesAssumption  == NbHashes \in Nat
ASSUME MaxBlocksAssumption == MaxBlocks \in Nat
ASSUME NbFilesAssumption   == NbFiles \in Nat \ {0}
ASSUME NoBlockAssumption   == NoBlock \notin Nat

gNullHash  == 0
gNullBlock == 0
BlockHash  == 1 .. NbHashes
Hash       == {gNullHash} \union BlockHash
Block      == gNullBlock .. MaxBlocks      \* Block objects, in allocation order
BlockPtr   == Block \union {NoBlock}

VARIABLES
    pc,         \* where the single thread of main() is
    hashPrev,   \* the parent hash written in each header, fixed by the files
    nbFilesRead,
    nbBlocks,   \* number of Block objects allocated in pass 1
    gBlockMap,  \* hash |-> Block object, NoBlock where the map has no entry
    hashOf, prev, next, height,   \* the fields of the Block objects
    todo,       \* hashes pass 2 has still to visit, in hash table order
    block, b, h,        \* the locals of computeBlockHeight and of the walks
    gMaxBlock, gMaxHeight,
    parsed      \* the Block objects passed to parseBlock so far

files   == <<hashPrev, nbFilesRead>>
objects == <<hashOf, prev, next, height>>
maxima  == <<gMaxBlock, gMaxHeight>>
vars    == <<pc, hashPrev, nbFilesRead, nbBlocks, gBlockMap, hashOf, prev,
             next, height, todo, block, b, h, gMaxBlock, gMaxHeight, parsed>>

Phases == {"headers", "link", "climb", "descend", "wire", "start", "parse",
           "done", "exit", "crash"}
Terminal == {"done", "exit", "crash"}

TypeOK ==
    /\ pc \in Phases
    /\ hashPrev \in [BlockHash -> Hash]
    /\ nbFilesRead \in 0 .. NbFiles
    /\ nbBlocks \in 0 .. MaxBlocks
    /\ gBlockMap \in [Hash -> BlockPtr]
    /\ hashOf \in [Block -> Hash]
    /\ prev \in [Block -> BlockPtr]
    /\ next \in [Block -> BlockPtr]
    /\ height \in [Block -> Nat \union {-1}]
    /\ todo \subseteq Hash
    /\ block \in BlockPtr
    /\ b \in BlockPtr
    /\ h \in Nat
    /\ gMaxBlock \in BlockPtr
    /\ gMaxHeight \in Nat
    /\ parsed \in Seq(Block)

-----------------------------------------------------------------------------
(* The state main() is in after buildNullBlock: the null block, of height  *)
(* 0, is the only entry of gBlockMap.                                      *)

Headers == {f \in [BlockHash -> Hash] : \A x \in BlockHash : f[x] < x}

Init ==
    /\ pc = "headers"
    /\ hashPrev \in Headers
    /\ nbFilesRead = 0
    /\ nbBlocks = 0
    /\ gBlockMap = [x \in Hash |-> IF x = gNullHash THEN gNullBlock ELSE NoBlock]
    /\ hashOf = [x \in Block |-> gNullHash]
    /\ prev = [x \in Block |-> NoBlock]
    /\ next = [x \in Block |-> NoBlock]
    /\ height = [x \in Block |-> IF x = gNullBlock THEN 0 ELSE -1]
    /\ todo = {}
    /\ block = NoBlock
    /\ b = NoBlock
    /\ h = 0
    /\ gMaxBlock = NoBlock
    /\ gMaxHeight = 0
    /\ parsed = <<>>

-----------------------------------------------------------------------------
(* In front of some operators stands a mutant of it, the same code with a  *)
(* plausible bug.  No action uses one: they show, by being put in its      *)
(* place, that the property named can fail.                                *)

MoreFilesOffByOne == nbFilesRead <= NbFiles     \* breaks TypeOK
MoreFiles == nbFilesRead < NbFiles

(* Pass 1.  A record is read: its parent is looked up among the blocks read *)
(* so far (a miss leaves prev null), a Block is allocated and entered in   *)
(* gBlockMap, over the entry of an earlier record of the same hash.        *)

ReadHeader(x) ==
    /\ pc = "headers"
    /\ MoreFiles
    /\ nbBlocks < MaxBlocks
    /\ nbBlocks' = nbBlocks + 1
    /\ hashOf' = [hashOf EXCEPT ![nbBlocks + 1] = x]
    /\ prev' = [prev EXCEPT ![nbBlocks + 1] = gBlockMap[hashPrev[x]]]
    /\ next' = [next EXCEPT ![nbBlocks + 1] = NoBlock]
    /\ height' = [height EXCEPT ![nbBlocks + 1] = -1]
    /\ gBlockMap' = [gBlockMap EXCEPT ![x] = nbBlocks + 1]
    /\ UNCHANGED <<pc, files, todo, block, b, h, maxima, parsed>>

(* A short read ends a file: its end, or a header cut off by a crash of the *)
(* node that wrote it.                                                      *)
EndBlockFile ==
    /\ pc = "headers"
    /\ MoreFiles
    /\ nbFilesRead' = nbFilesRead + 1
    /\ UNCHANGED <<pc, hashPrev, nbBlocks, gBlockMap, objects, todo, block, b,
                   h, maxima, parsed>>

EndPass1 ==
    /\ pc = "headers"
    /\ nbFilesRead = NbFiles
    /\ IF nbBlocks = 0
         THEN pc' = "exit" /\ UNCHANGED todo
         ELSE pc' = "link" /\ todo' = {x \in Hash : gBlockMap[x] # NoBlock}
    /\ UNCHANGED <<files, nbBlocks, gBlockMap, objects, block, b, h, maxima,
                   parsed>>

-----------------------------------------------------------------------------
(* Pass 2.  computeBlockHeight climbs from a block to its nearest ancestor *)
(* that has a height, leaving a trail of next pointers, and descends along *)
(* the trail, numbering.                                                   *)

VisitNullBlock ==
    /\ pc = "link"
    /\ gNullHash \in todo
    /\ todo' = todo \ {gNullHash}
    /\ UNCHANGED <<pc, files, nbBlocks, gBlockMap, objects, block, b, h,
                   maxima, parsed>>

StartClimb(x) ==
    /\ pc = "link"
    /\ x \in todo
    /\ gBlockMap[x] # gNullBlock
    /\ todo' = todo \ {x}
    /\ block' = gBlockMap[x]
    /\ b' = gBlockMap[x]
    /\ pc' = "climb"
    /\ UNCHANGED <<files, nbBlocks, gBlockMap, objects, h, maxima, parsed>>

EarlyParentOf(x) == prev[x]         \* breaks ConnectedHaveHeights

(* prev, or, when the parent was not known in pass 1, what findBlockParent *)
(* finds in gBlockMap now.                                                 *)
ParentOf(x) ==
    IF prev[x] # NoBlock THEN prev[x] ELSE gBlockMap[hashPrev[hashOf[x]]]

ForwardTrail == [next EXCEPT ![b] = ParentOf(b)]   \* breaks NoNullDereference
Trail == [next EXCEPT ![ParentOf(b)] = b]

Climb ==
    /\ pc = "climb"
    /\ height[b] < 0
    /\ ParentOf(b) # NoBlock
    /\ prev' = [prev EXCEPT ![b] = ParentOf(b)]
    /\ next' = Trail
    /\ b' = ParentOf(b)
    /\ UNCHANGED <<pc, files, nbBlocks, gBlockMap, hashOf, height, todo, block,
                   h, maxima, parsed>>

(* The parent is nowhere on disk: the block and all climbed from stay      *)
(* without a height, and the trail of next pointers stays behind.          *)
GiveUp ==
    /\ pc = "climb"
    /\ height[b] < 0
    /\ ParentOf(b) = NoBlock
    /\ pc' = "link"
    /\ UNCHANGED <<files, nbBlocks, gBlockMap, objects, todo, block, b, h,
                   maxima, parsed>>

HeightBelow == height[b] + 1        \* breaks HeightIsDepth, HeightsAreFinal
FirstHeight == height[b]

EndClimb ==
    /\ pc = "climb"
    /\ height[b] >= 0
    /\ h' = FirstHeight
    /\ pc' = "descend"
    /\ UNCHANGED <<files, nbBlocks, gBlockMap, objects, todo, block, b, maxima,
                   parsed>>

LatestIsMax == TRUE                 \* breaks MaximumIsKept, ImplementsLongestChain
HigherByTwo == gMaxHeight + 1 < h   \* breaks CrashOnlyWithoutGenesis
IsHigher == gMaxHeight < h

TrailKept == next                   \* breaks TrailsAreOffChain
TrailCleared == [next EXCEPT ![b] = NoBlock]

Descend ==
    /\ pc = "descend"
    /\ height' = [height EXCEPT ![b] = h]
    /\ h' = h + 1
    /\ IF IsHigher
         THEN gMaxHeight' = h /\ gMaxBlock' = b
         ELSE UNCHANGED maxima
    /\ next' = TrailCleared
    /\ IF b = block
         THEN pc' = "link" /\ UNCHANGED b
         ELSE b' = next[b] /\ UNCHANGED pc
    /\ UNCHANGED <<files, nbBlocks, gBlockMap, hashOf, prev, todo, block,
                   parsed>>

EndPass2 ==
    /\ pc = "link"
    /\ todo = {}
    /\ b' = gMaxBlock
    /\ pc' = "wire"
    /\ UNCHANGED <<files, nbBlocks, gBlockMap, objects, todo, block, h, maxima,
                   parsed>>

-----------------------------------------------------------------------------
(* Pass 3.  From gMaxBlock back to the null block, every block becomes the *)
(* next of its parent.                                                     *)

Wire ==
    /\ pc = "wire"
    /\ b # NoBlock
    /\ IF prev[b] = NoBlock
         THEN pc' = "start" /\ UNCHANGED <<next, b>>
         ELSE /\ next' = [next EXCEPT ![prev[b]] = b]
              /\ b' = prev[b]
              /\ UNCHANGED pc
    /\ UNCHANGED <<files, nbBlocks, gBlockMap, hashOf, prev, height, todo,
                   block, h, maxima, parsed>>

(* No block of the files has a height: gMaxBlock is still null and its     *)
(* field prev is read all the same.                                        *)
WireNull ==
    /\ pc = "wire"
    /\ b = NoBlock
    /\ pc' = "crash"
    /\ UNCHANGED <<files, nbBlocks, gBlockMap, objects, todo, block, b, h,
                   maxima, parsed>>

-----------------------------------------------------------------------------
(* Pass 4.                                                                 *)

NullBlockFirst == gNullBlock        \* breaks ParsedInOrder
FirstBlock == next[gNullBlock]

StartLongestChain ==
    /\ pc = "start"
    /\ b' = FirstBlock
    /\ pc' = "parse"
    /\ UNCHANGED <<files, nbBlocks, gBlockMap, objects, todo, block, h, maxima,
                   parsed>>

(* parseBlock; the callback may declare itself done in any block.          *)
ParseBlock(isDone) ==
    /\ pc = "parse"
    /\ b # NoBlock
    /\ parsed' = Append(parsed, b)
    /\ IF isDone
         THEN pc' = "done" /\ UNCHANGED b
         ELSE b' = next[b] /\ UNCHANGED pc
    /\ UNCHANGED <<files, nbBlocks, gBlockMap, objects, todo, block, h, maxima>>

EndOfChain ==
    /\ pc = "parse"
    /\ b = NoBlock
    /\ pc' = "done"
    /\ UNCHANGED <<files, nbBlocks, gBlockMap, objects, todo, block, b, h,
                   maxima, parsed>>

Terminated ==
    /\ pc \in Terminal
    /\ UNCHANGED vars

-----------------------------------------------------------------------------
Next ==
    \/ \E x \in BlockHash : ReadHeader(x)
    \/ EndBlockFile
    \/ EndPass1
    \/ VisitNullBlock
    \/ \E x \in Hash : StartClimb(x)
    \/ Climb
    \/ GiveUp
    \/ EndClimb
    \/ Descend
    \/ EndPass2
    \/ Wire
    \/ WireNull
    \/ StartLongestChain
    \/ \E isDone \in BOOLEAN : ParseBlock(isDone)
    \/ EndOfChain
    \/ Terminated

Spec == Init /\ [][Next]_vars

(* One thread runs the passes to their end: it never stops of itself.      *)
FairSpec == Spec /\ WF_vars(Next)
=============================================================================
