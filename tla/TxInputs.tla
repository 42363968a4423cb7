------------------------------ MODULE TxInputs ------------------------------
(***************************************************************************)
(* The command txInputs: the transactions that had more inputs than any    *)
(* before.  The record is taken when the next transaction starts, under    *)
(* the hash pointer that came with the last output.                        *)
(***************************************************************************)
EXTENDS HashKeyedMap

init == [txMap |-> <<>>, maxInputCountInTx |-> 0, tmpTxHash |-> 0,
         tmpMaxInputCountInTx |-> 0, tmpOutputs |-> 0, tmpVolume |-> 0]

InputData(self) == [nbInputs |-> self.tmpMaxInputCountInTx,
                    nbOutputs |-> self.tmpOutputs,
                    volume |-> self.tmpVolume]

(* A mutant: as many inputs as the record are a record again. *)
IsRecordOrEqual(self) ==                    \* breaks StatisticsAreTrue
    self.tmpMaxInputCountInTx > 0 /\ self.tmpMaxInputCountInTx >= self.maxInputCountInTx
IsRecord(self) == self.tmpMaxInputCountInTx > self.maxInputCountInTx

startTX(self, mem) ==
    [self EXCEPT
        !.maxInputCountInTx = IF IsRecord(self) THEN self.tmpMaxInputCountInTx ELSE @,
        !.txMap = IF IsRecord(self) THEN Put(@, mem, self.tmpTxHash, InputData(self))
                  ELSE @,
        !.tmpMaxInputCountInTx = 0,
        !.tmpOutputs = 0,
        !.tmpVolume = 0]

startInput(self) == [self EXCEPT !.tmpMaxInputCountInTx = @ + 1]

startOutput(self) == [self EXCEPT !.tmpOutputs = @ + 1]

endOutput(self, txHash, value) ==
    [self EXCEPT !.tmpVolume = @ + value, !.tmpTxHash = txHash]

(* The rows of wrapup: the hash the key points to by now, and the data. *)
rows(self, mem) ==
    {[hash |-> Spelt(mem, e.key), data |-> e.val] : e \in ToSet(self.txMap)}
=============================================================================
