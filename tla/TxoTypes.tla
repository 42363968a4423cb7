------------------------------ MODULE TxoTypes ------------------------------
(***************************************************************************)
(* The command txotype: the first output of each of the four common types, *)
(* and every output of any other.                                          *)
(***************************************************************************)
EXTENDS Integers, Sequences

init == [seen |-> {}, currBlock |-> 0, printed |-> <<>>]

startBlock(self, height) == [self EXCEPT !.currBlock = height]

(* A mutant: type 3 is not among the common ones. *)
IsCommonBelow3(type) == type \in 0 .. 2         \* breaks FirstOfEachType
IsCommon(type) == type \in 0 .. 3

endOutput(self, type, output) ==
    [self EXCEPT
        !.seen = IF IsCommon(type) THEN @ \union {type} ELSE @,
        !.printed = IF IsCommon(type) /\ type \in self.seen THEN @
                    ELSE Append(@, [type |-> type, block |-> self.currBlock,
                                    output |-> output])]
=============================================================================
