------------------------------- MODULE DumpTX -------------------------------
(***************************************************************************)
(* The command tx: prints the transactions asked for and stops after the   *)
(* last of them.                                                           *)
(***************************************************************************)
EXTENDS HashKeyedMap, BaseRewards

(* rootHashes: the hashes asked for, without duplicates. *)
init(rootHashes) ==
    [txMap |-> [i \in DOMAIN rootHashes |->
                    [place |-> rootHashes[i], key |-> OwnKey(rootHashes[i]), val |-> 1]],
     dump |-> FALSE, isDone |-> FALSE, isGenTX |-> FALSE,
     valueIn |-> 0, valueOut |-> 0, nbInputs |-> 0, nbOutputs |-> 0,
     currBlock |-> 0, nbDumped |-> 0, currTX |-> 0, dumped |-> <<>>]

startBlock(self, height) == [self EXCEPT !.currBlock = height]

(* currTX stands for the hash just printed. *)
startTX(self, mem, hash) ==
    [self EXCEPT !.nbInputs = 0, !.nbOutputs = 0,
                 !.currTX = Spelt(mem, hash),
                 !.dump = Has(self.txMap, mem, Spelt(mem, hash))]

startInput(self, isGenInput) ==
    IF ~self.dump THEN self
    ELSE [self EXCEPT !.nbInputs = @ + 1,
                      !.isGenTX = isGenInput,
                      !.valueIn = IF isGenInput THEN @ + getBaseReward(self.currBlock)
                                  ELSE @]

edge(self, value) ==
    IF self.dump THEN [self EXCEPT !.valueIn = @ + value] ELSE self

startOutput(self) ==
    IF self.dump THEN [self EXCEPT !.nbOutputs = @ + 1] ELSE self

endOutput(self, value) ==
    IF self.dump THEN [self EXCEPT !.valueOut = @ + value] ELSE self

Printed(self) ==
    [hash |-> self.currTX, block |-> self.currBlock - 1,
     nbInputs |-> self.nbInputs, nbOutputs |-> self.nbOutputs,
     valueIn |-> self.valueIn, valueOut |-> self.valueOut]

(* A mutant: done as soon as one transaction was dumped. *)
isDoneAfterOne(self) == self.nbDumped > 0           \* breaks DumpIsComplete
isDoneNow(self) == self.nbDumped = Len(self.txMap)

endTX(self) ==
    LET after == IF ~self.dump THEN self
                 ELSE [self EXCEPT !.dumped = Append(@, Printed(self)),
                                   !.nbDumped = @ + 1]
    IN  [after EXCEPT !.isDone = isDoneNow(after)]

done(self) == self.isDone
=============================================================================
