---------------------------- MODULE BaseRewards ----------------------------
(* getBaseReward of util.cpp, and the width of its arithmetic. *)
EXTENDS Integers

CONSTANTS
    BaseReward,         \* of the first blocks; 50 coins
    HalvingInterval,    \* number of blocks between halvings; 210000
    Word                \* number of values of a uint64_t

ASSUME WordAssumption       == Word \in Nat \ {0}
ASSUME BaseRewardAssumption == BaseReward \in 0 .. Word - 1
ASSUME HalvingAssumption    == HalvingInterval \in Nat \ {0}

(* A mutant: the halving is a block late. *)
getLateReward(h) == BaseReward \div 2^(h \div (HalvingInterval + 1))
                                            \* breaks RewardsAreMinted
(* A shift by one bit per halving. *)
getBaseReward(h) == BaseReward \div 2^(h \div HalvingInterval)
=============================================================================
