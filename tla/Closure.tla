------------------------------ MODULE Closure ------------------------------
(***************************************************************************)
(* The command closure: addresses that pay for one transaction together    *)
(* belong to one party.  boost's graph has vertices 0 .. n - 1, where      *)
(* n - 1 is the greatest an edge was added for, and the clusters are its   *)
(* connected components.  An address has a number from the first time it   *)
(* spends, whether an edge leads to it or not.                             *)
(***************************************************************************)
EXTENDS Integers, SequencesExt, FiniteSetsExt

(* allAddrs gives the address of a number; addrMap is its inverse. *)
init(rootHashes) ==
    [rootHashes |-> rootHashes, allAddrs |-> <<>>, vertices |-> <<>>, graph |-> {}]

IndexOf(self, addr) == CHOOSE k \in 0 .. Len(self.allAddrs) - 1 :
                            self.allAddrs[k + 1] = addr

startTX(self) == [self EXCEPT !.vertices = <<>>]

edge(self, addr, isSolved) ==
    LET known == addr \in ToSet(self.allAddrs)
        a     == IF known THEN IndexOf(self, addr) ELSE Len(self.allAddrs)
    IN  IF ~isSolved THEN self
        ELSE [self EXCEPT !.allAddrs = IF known THEN @ ELSE Append(@, addr),
                          !.vertices = Append(@, a)]

(* A mutant: the last address is left out. *)
ChainedButTheLast(vertices) ==              \* breaks ClustersAreComponents
    {<<vertices[i - 1], vertices[i]>> : i \in 2 .. Len(vertices) - 1}
Chained(vertices) ==
    {<<vertices[i - 1], vertices[i]>> : i \in 2 .. Len(vertices)}

endTX(self) == [self EXCEPT !.graph = @ \union Chained(self.vertices)]

NumVertices(self) ==
    IF self.graph = {} THEN 0 ELSE 1 + Max(UNION {ToSet(e) : e \in self.graph})

(* connected_components gives the vertices of a component one label, here  *)
(* the component itself: the vertices in every set that has this one and   *)
(* that no edge leaves.                                                    *)
NoEdgeLeaves(self, S) == \A e \in self.graph : e[1] \in S <=> e[2] \in S

Component(self, v) ==
    LET V == 0 .. NumVertices(self) - 1
    IN  {w \in V : \A S \in SUBSET V : v \in S /\ NoEdgeLeaves(self, S) => w \in S}

(* Whether cc has an element for the address. *)
InGraph(self, addr) == IndexOf(self, addr) < NumVertices(self)

(* What wrapup may print for an address that has spent: its cluster.  When *)
(* cc is read beyond its end the label is anything: that of any component, *)
(* or of none.                                                             *)
Listings(self, addr) ==
    LET Listed(vs) == {self.allAddrs[v + 1] : v \in vs} IN
    IF InGraph(self, addr) THEN {Listed(Component(self, IndexOf(self, addr)))}
    ELSE {{}} \union {Listed(Component(self, v)) : v \in 0 .. NumVertices(self) - 1}
=============================================================================
