------------------------------- MODULE Taint -------------------------------
(***************************************************************************)
(* The command taint: what fraction of each transaction stems from given   *)
(* ones.  A long double is a fraction without rounding.                    *)
(***************************************************************************)
EXTENDS HashKeyedMap

CONSTANT Threshold      \* the inverse of threshold, 1e20

Zero == [n |-> 0, d |-> 1]
One  == [n |-> 1, d |-> 1]

IsPositive(x) == x.n > 0
Same(x, y)    == x.n * y.d = y.n * x.d
(* x + v * y *)
AddTimes(x, v, y) == [n |-> x.n * y.d + v * y.n * x.d, d |-> x.d * y.d]
Over(x, v) == [x EXCEPT !.d = @ * v]

Rooted(rootHashes) ==
    [i \in DOMAIN rootHashes |->
        [place |-> rootHashes[i], key |-> OwnKey(rootHashes[i]), val |-> One]]

(* rootHashes: the hashes asked for, without duplicates.  srcTxMap has the *)
(* entries taintMap starts with and never gets another.                    *)
init(rootHashes) ==
    [srcTxMap |-> Rooted(rootHashes), taintMap |-> Rooted(rootHashes),
     txHash |-> 0, txTotal |-> 0, txBad |-> Zero, printed |-> <<>>]

startTX(self, hash) ==
    [self EXCEPT !.txHash = hash, !.txTotal = 0, !.txBad = Zero]

edge(self, mem, upTXHash, value) ==
    [self EXCEPT !.txTotal = @ + value,
                 !.txBad = IF Has(self.taintMap, mem, upTXHash)
                           THEN AddTimes(@, value, Get(self.taintMap, mem, upTXHash))
                           ELSE @]

PositiveIsShown(x) == x.n > 0               \* breaks TaintIsDownstream

(* threshold<taint *)
IsShown(x) == x.n * Threshold > x.d

(* Any taint is kept for the transactions downstream, but one that is not  *)
(* above the threshold is not printed.                                     *)
endTX(self, mem) ==
    LET isSrcTX == Has(self.srcTxMap, mem, Spelt(mem, self.txHash))
        isMixed == ~isSrcTX /\ self.txTotal > 0 /\ IsPositive(self.txBad)
        taint   == IF isSrcTX THEN One
                   ELSE IF isMixed THEN Over(self.txBad, self.txTotal) ELSE Zero
    IN  [self EXCEPT
            !.taintMap = IF isMixed THEN Put(@, mem, self.txHash, taint) ELSE @,
            !.printed = IF ~IsShown(taint) THEN @
                        ELSE Append(@, [hash |-> Spelt(mem, self.txHash),
                                        taint |-> taint, total |-> self.txTotal])]
=============================================================================
