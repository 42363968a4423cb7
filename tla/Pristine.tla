------------------------------ MODULE Pristine ------------------------------
(***************************************************************************)
(* The command pristine: the coinbase transactions nobody ever spent from. *)
(* Each handler takes the object and returns what it leaves behind.        *)
(***************************************************************************)
EXTENDS HashKeyedMap

Spent == 0          \* the value of a block that is not pristine any more

init == [txMap |-> <<>>, nbInputs |-> 0, hasGenInput |-> FALSE,
         currBlock |-> 0, currTXHash |-> 0, nbPristine |-> 0]

startBlock(self, height) == [self EXCEPT !.currBlock = height]

startTX(self, hash) == [self EXCEPT !.currTXHash = hash]

startInputs(self) == [self EXCEPT !.hasGenInput = FALSE, !.nbInputs = 0]

startInput(self, isGenInput) ==
    [self EXCEPT !.hasGenInput = @ \/ isGenInput, !.nbInputs = @ + 1]

(* A transaction with a null input among others would abort(). *)
endInputs(self, mem) ==
    IF ~self.hasGenInput THEN self
    ELSE [self EXCEPT !.txMap = Put(@, mem, self.currTXHash, self.currBlock),
                      !.nbPristine = @ + 1]

(* A mutant: the entry stays as it is. *)
edgeUnnoticed(self, mem, upTXHash) == self      \* breaks PristineAreUnspent

edge(self, mem, upTXHash) ==
    LET found == Has(self.txMap, mem, upTXHash) IN
    [self EXCEPT !.txMap = Set(@, mem, upTXHash, Spent),
                 !.nbPristine = IF found /\ Get(self.txMap, mem, upTXHash) # Spent
                                THEN @ - 1 ELSE @]

(* The rows of wrapup: a block, and the hash its key points to by now. *)
rows(self, mem) ==
    {[block |-> e.val, hash |-> Spelt(mem, e.key)] :
        e \in {e \in ToSet(self.txMap) : e.val # Spent}}
=============================================================================
