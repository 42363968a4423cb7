------------------------------ MODULE SqlDump ------------------------------
(***************************************************************************)
(* The command sqldump: four tables, whose rows refer to one another by    *)
(* number.  A file is the sequence of its rows.                            *)
(***************************************************************************)
EXTENDS Integers, Sequences

CONSTANT NoCutoff       \* option -a not given

NoRow == -1             \* txID before the first transaction

init(cutoffBlock) ==
    [cutoffBlock |-> cutoffBlock, txID |-> NoRow, blkID |-> 0, inputID |-> 0,
     outputID |-> 0, outputMap |-> <<>>, closed |-> FALSE, fatal |-> FALSE,
     blocks |-> <<>>, transactions |-> <<>>, inputs |-> <<>>, outputs |-> <<>>]

(* What is written to a file that was closed never gets there. *)
Written(self, file, row) == IF self.closed THEN file ELSE Append(file, row)

wrapup(self) == [self EXCEPT !.closed = TRUE]

IsCutOff(self, height) ==
    self.cutoffBlock # NoCutoff /\ self.cutoffBlock < height

(* At the cutoff the files are closed, and the handler goes on. *)
startBlock(self, height) ==
    LET files == IF IsCutOff(self, height) THEN wrapup(self) ELSE self IN
    [files EXCEPT !.blkID = height - 1,
                  !.blocks = Written(files, @, [id |-> height - 1])]

startTX(self, hash) ==
    [self EXCEPT !.txID = @ + 1,
                 !.transactions = Written(self, @,
                    [id |-> self.txID + 1, hash |-> hash, blockID |-> self.blkID])]

(* outputMap has copies of its own for keys: the hash with the index mixed *)
(* in.  An output that is made again goes under its new number.            *)
EntryOf(output, id) == [x \in {output} |-> id]
Merge(f, g) == [x \in DOMAIN f \union DOMAIN g |->
                    IF x \in DOMAIN f THEN f[x] ELSE g[x]]

(* A mutant: the first number stays. *)
FirstNumber(self, output) ==                \* breaks RowsAreConnected
    Merge(self.outputMap, EntryOf(output, self.outputID))
LastNumber(self, output) ==
    Merge(EntryOf(output, self.outputID), self.outputMap)

endOutput(self, output, value) ==
    [self EXCEPT !.outputs = Written(self, @,
                    [id |-> self.outputID, value |-> value, txID |-> self.txID,
                     offset |-> output[2]]),
                 !.outputMap = LastNumber(self, output),
                 !.outputID = @ + 1]

(* errFatal("unconnected input") *)
edge(self, output, inputIndex) ==
    IF output \notin DOMAIN self.outputMap THEN [self EXCEPT !.fatal = TRUE]
    ELSE [self EXCEPT !.inputs = Written(self, @,
                        [id |-> self.inputID, outputID |-> self.outputMap[output],
                         txID |-> self.txID, offset |-> inputIndex]),
                      !.inputID = @ + 1]
=============================================================================
