---------------------------- MODULE LongestChain ----------------------------
(***************************************************************************)
(* What the block index of parser.cpp promises, whatever the order of the  *)
(* records on disk and of the hash table: some chain of maximal length     *)
(* among those that reach the null block is elected, and its blocks are    *)
(* delivered one by one, parents first, until the callback says stop.      *)
(* BlockIndex implements this specification (BlockIndexProperties).        *)
(***************************************************************************)
EXTENDS Integers, Sequences, FiniteSets

CONSTANT NbHashes

gNullHash == 0
BlockHash == 1 .. NbHashes
Hash      == {gNullHash} \union BlockHash

VARIABLES
    hashPrev,   \* the parent hash in each header
    phase,      \* "reading", "delivering" or "ended"
    known,      \* the hashes found on disk so far
    tip,        \* the last block of the elected chain
    delivered   \* the hashes delivered so far, in order

vars == <<hashPrev, phase, known, tip, delivered>>

(* The line of a hash: itself and its ancestors down to the null hash.     *)
Line[x \in Hash] ==
    IF x = gNullHash THEN {gNullHash} ELSE {x} \union Line[hashPrev[x]]

Depth(x)  == Cardinality(Line[x]) - 1
Connected == {x \in known : Line[x] \subseteq known \union {gNullHash}}
Longest   == {x \in Connected : \A y \in Connected : Depth(y) <= Depth(x)}

Init ==
    /\ hashPrev \in [BlockHash -> Hash]
    /\ \A x \in BlockHash : hashPrev[x] < x
    /\ phase = "reading"
    /\ known = {}
    /\ tip = gNullHash
    /\ delivered = <<>>

Record(x) ==
    /\ phase = "reading"
    /\ known' = known \union {x}
    /\ UNCHANGED <<hashPrev, phase, tip, delivered>>

Elect(x) ==
    /\ phase = "reading"
    /\ x \in Longest
    /\ tip' = x
    /\ phase' = "delivering"
    /\ UNCHANGED <<hashPrev, known, delivered>>

(* No chain reaches the null block. *)
Abandon ==
    /\ phase = "reading"
    /\ Connected = {}
    /\ phase' = "ended"
    /\ UNCHANGED <<hashPrev, known, tip, delivered>>

Deliver(x, stop) ==
    /\ phase = "delivering"
    /\ x \in Line[tip]
    /\ Depth(x) = Len(delivered) + 1
    /\ delivered' = Append(delivered, x)
    /\ phase' = IF stop THEN "ended" ELSE "delivering"
    /\ UNCHANGED <<hashPrev, known, tip>>

EndOfChain ==
    /\ phase = "delivering"
    /\ Len(delivered) = Depth(tip)
    /\ phase' = "ended"
    /\ UNCHANGED <<hashPrev, known, tip, delivered>>

Next ==
    \/ \E x \in BlockHash : Record(x)
    \/ \E x \in BlockHash : Elect(x)
    \/ Abandon
    \/ \E x \in BlockHash, stop \in BOOLEAN : Deliver(x, stop)
    \/ EndOfChain

SafeSpec == Init /\ [][Next]_vars

Spec == SafeSpec /\ WF_vars(Next)
=============================================================================
