---------------------------- MODULE SimpleStats ----------------------------
(***************************************************************************)
(* The command simpleStats: counts of everything.  It does not ask for the *)
(* index of unspent outputs; its handlers would not look at it.            *)
(***************************************************************************)
EXTENDS Integers

init == [volume |-> 0, nbBlocks |-> 0, nbInputs |-> 0, nbOutputs |-> 0,
         nbBlockFiles |-> 0, nbValidBlocks |-> 0, nbTransactions |-> 0,
         maxInputCountInTx |-> 0, tmpMaxInputCountInTx |-> 0]

(* The calls of pass 1: startBlockFile, and startBlock for each record. *)
startBlockFile(self) == [self EXCEPT !.nbBlockFiles = @ + 1]
startRecord(self)    == [self EXCEPT !.nbBlocks = @ + 1]

startBlock(self) == [self EXCEPT !.nbValidBlocks = @ + 1]

startTX(self) ==
    [self EXCEPT
        !.nbTransactions = @ + 1,
        !.maxInputCountInTx = IF self.tmpMaxInputCountInTx > @
                              THEN self.tmpMaxInputCountInTx ELSE @,
        !.tmpMaxInputCountInTx = 0]

startInput(self) == [self EXCEPT !.nbInputs = @ + 1, !.tmpMaxInputCountInTx = @ + 1]

startOutput(self) == [self EXCEPT !.nbOutputs = @ + 1]

endOutput(self, value) == [self EXCEPT !.volume = @ + value]
=============================================================================
