---------------------------- MODULE Transactions ----------------------------
(***************************************************************************)
(* The command transactions: a bank statement of the addresses given.      *)
(***************************************************************************)
EXTENDS Integers, Sequences

init(rootHashes) ==
    [addrMap |-> rootHashes, sum |-> 0, adds |-> 0, subs |-> 0, nbTX |-> 0,
     bTime |-> 0, rows |-> <<>>]

startBlock(self, time) == [self EXCEPT !.bTime = time]

NewSum(self, value, add) == IF add THEN self.sum + value ELSE self.sum - value

move(self, addr, txHash, value, add) ==
    IF addr \notin self.addrMap THEN self
    ELSE [self EXCEPT
            !.rows = Append(@, [time |-> self.bTime, addr |-> addr, tx |-> txHash,
                                old |-> self.sum, add |-> add, value |-> value,
                                new |-> NewSum(self, value, add)]),
            !.adds = IF add THEN @ + value ELSE @,
            !.subs = IF add THEN @ ELSE @ + value,
            !.sum = NewSum(self, value, add),
            !.nbTX = @ + 1]

endOutput(self, addr, txHash, value) == move(self, addr, txHash, value, TRUE)

(* A mutant: what is spent is taken for received. *)
edgeAdded(self, addr, downTXHash, value) ==     \* breaks TallyIsLedger
    move(self, addr, downTXHash, value, TRUE)

edge(self, addr, downTXHash, value) == move(self, addr, downTXHash, value, FALSE)
=============================================================================
