------------------------------ MODULE Rewards ------------------------------
(***************************************************************************)
(* The command rewards: what each block's coinbase transaction hands out,  *)
(* beside the base reward of its height.  Blocks are numbered from 0 here, *)
(* while b->height is 1 for the first.                                     *)
(***************************************************************************)
EXTENDS BaseRewards, Sequences

init(fullDump) ==
    [fullDump |-> fullDump, reward |-> 0, nbInputs |-> 0, hasGenInput |-> FALSE,
     currBlock |-> 0, fatal |-> FALSE, details |-> <<>>, summary |-> <<>>]

startBlock(self, height) ==
    [self EXCEPT !.currBlock = height - 1, !.reward = 0]

startInputs(self) == [self EXCEPT !.hasGenInput = FALSE, !.nbInputs = 0]

startInput(self, isGenInput) ==
    [self EXCEPT !.hasGenInput = @ \/ isGenInput, !.nbInputs = @ + 1]

(* The type of solveOutputScript is negative for a script that pays        *)
(* nobody; -2 is the one p2pool made for a while, which is not counted.    *)
(* A full dump stops at any other with a value.                            *)
endOutput(self, value, type) ==
    IF ~self.hasGenInput \/ type = -2 THEN self
    ELSE IF type < 0 /\ value # 0 /\ self.fullDump
    THEN [self EXCEPT !.fatal = TRUE]
    ELSE [self EXCEPT
            !.reward = @ + value,
            !.details = IF self.fullDump
                        THEN Append(@, [block |-> self.currBlock, value |-> value])
                        ELSE @]

(* A block that claims less than its base reward has negative fees, which  *)
(* satoshisToNormaForm takes as unsigned.                                  *)
feesEarned(self) == (self.reward - getBaseReward(self.currBlock)) % Word

endBlock(self) ==
    [self EXCEPT !.summary = Append(@,
        [block |-> self.currBlock, base |-> getBaseReward(self.currBlock),
         fees |-> feesEarned(self), total |-> self.reward])]
=============================================================================
