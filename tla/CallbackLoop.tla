---------------------------- MODULE CallbackLoop ----------------------------
(***************************************************************************)
(* The order in which parser.cpp calls a callback that needs upstream:     *)
(* initCallback, then the passes over the headers, then parseLongestChain, *)
(* parseBlock, parseTX, parseInput and parseOutput.                        *)
(*                                                                         *)
(* Each action is one or several calls with no decision between them.  A   *)
(* callback is a module that extends this one and conjoins to each action  *)
(* what its handlers do.  The actions that ask the callback whether it is  *)
(* done() take the answer as a parameter.                                  *)
(*                                                                         *)
(* The chain is chosen as it is read.  It is clean (README.md:72): an      *)
(* input spends an unspent output, as the index of unspent outputs shows   *)
(* it (UtxoSet); a transaction hands out no more than it takes in; a block *)
(* starts with its coinbase transaction.                                   *)
(*                                                                         *)
(* A callback is shown the hash of a transaction by a pointer: to the cell *)
(* the hash was written to, or into the data of a block.                   *)
(***************************************************************************)
EXTENDS FiniteSetsExt, PagedAllocator

CONSTANTS
    Owners,         \* what an output script can pay to
    MaxBlocks,      \* bound on the height of the chain
    MaxTxs,         \* bound on the transactions of the chain
    MaxInputs,      \* bound on the inputs of a transaction
    MaxOutputs,     \* bound on its outputs
    Reward          \* bound on what a coinbase transaction hands out

ASSUME MaxBlocksAssumption  == MaxBlocks \in Nat \ {0}
ASSUME MaxTxsAssumption     == MaxTxs \in Nat \ {0}
ASSUME MaxInputsAssumption  == MaxInputs \in Nat \ {0}
ASSUME MaxOutputsAssumption == MaxOutputs \in Nat \ {0}
ASSUME RewardAssumption     == Reward \in Nat

VARIABLES
    pc,             \* what comes next
    height,         \* of the last block started; 0: none
    nbTX,           \* transactions of that block not started yet
    nbTxs,          \* transactions started, of all blocks
    tx,             \* the transaction being parsed
    coins,          \* ghost: the outputs unspent after whole transactions
    hashPool,       \* PagedAllocator<uint256_t>
    hashOf,         \* cell |-> the transaction whose hash it holds; 0: none
    cellOf,         \* transaction |-> the cell its hash was written to
    released        \* the last block whose data were freed; 0: none

hashVars == <<hashPool, hashOf, cellOf, released>>
loopVars == <<pc, height, nbTX, nbTxs, tx, coins, hashVars>>

Amount == 0 .. MaxBlocks * Reward
Coin   == [tx : 1 .. MaxTxs, n : 1 .. MaxOutputs, owner : Owners,
           value : Amount]
NoTx   == [first |-> FALSE, spent |-> {}, made |-> {}]

Value(someCoins) == MapThenSumSet(LAMBDA c : c.value, someCoins)
Owned(someCoins, owner) == {c \in someCoins : c.owner = owner}

(* The coins at this very point of a transaction. *)
CoinsNow == (coins \ tx.spent) \union tx.made

LoopTypeOK ==
    /\ pc \in {"init", "index", "start", "block", "first", "tx", "inputs",
               "outputs", "wrapup", "end", "killed", "crash"}
    /\ height \in 0 .. MaxBlocks
    /\ nbTX \in 0 .. MaxTxs
    /\ nbTxs \in 0 .. MaxTxs
    /\ tx.first \in BOOLEAN
    /\ tx.spent \subseteq Coin
    /\ tx.made \subseteq Coin
    /\ coins \subseteq Coin

HashTypeOK ==
    /\ IsPool(hashPool, MaxTxs)
    /\ hashOf \in [1 .. MaxTxs -> 0 .. MaxTxs]
    /\ cellOf \in [1 .. MaxTxs -> 0 .. MaxTxs]
    /\ released \in 0 .. MaxBlocks

(* Callback::init has returned. *)
LoopInit ==
    /\ pc = "init"
    /\ height = 0
    /\ nbTX = 0
    /\ nbTxs = 0
    /\ tx = NoTx
    /\ coins = {}
    /\ hashPool = EmptyPool
    /\ hashOf = [cell \in 1 .. MaxTxs |-> 0]
    /\ cellOf = [t \in 1 .. MaxTxs |-> NullCell]
    /\ released = 0

Goto(label) == pc' = label

(* initCallback asks once whether anything is left to do. *)
InitCallback(done) ==
    /\ pc = "init"
    /\ Goto(IF done THEN "end" ELSE "index")
    /\ UNCHANGED <<height, nbTX, nbTxs, tx, coins, hashVars>>

(* Passes 1 to 3, the subject of BlockIndex. *)
BuildIndex ==
    /\ pc = "index"
    /\ Goto("start")
    /\ UNCHANGED <<height, nbTX, nbTxs, tx, coins, hashVars>>

(* startLC, start *)
StartLongestChain ==
    /\ pc = "start"
    /\ Goto("block")
    /\ UNCHANGED <<height, nbTX, nbTxs, tx, coins, hashVars>>

(* startBlock, startTXs; the number of transactions is read. *)
StartBlock(n) ==
    /\ pc = "block"
    /\ height < MaxBlocks
    /\ nbTxs + n <= MaxTxs
    /\ height' = height + 1
    /\ nbTX' = n
    /\ Goto("first")
    /\ UNCHANGED <<nbTxs, tx, coins, hashVars>>

(* The hash is written to a cell; startTX, startInputs. *)
StartTX ==
    /\ pc \in {"first", "tx"}
    /\ nbTX > 0
    /\ nbTX' = nbTX - 1
    /\ nbTxs' = nbTxs + 1
    /\ tx' = [NoTx EXCEPT !.first = (pc = "first")]
    /\ hashPool' = Alloc(hashPool)
    /\ hashOf' = [hashOf EXCEPT ![Cell(hashPool)] = nbTxs']
    /\ cellOf' = [cellOf EXCEPT ![nbTxs'] = Cell(hashPool)]
    /\ Goto("inputs")
    /\ UNCHANGED <<height, coins, released>>

(* A mutant: the hash is freed with the first output spent, not the last.  *)
AnyIsLast(coin) == TRUE                     \* breaks UnspentAreListed

(* No other output of that transaction is unspent. *)
IsLast(coin) ==
    \A c \in coins \ (tx.spent \union {coin}) : c.tx # coin.tx

(* startInput, edge, endInput.  After edge, a transaction with no output   *)
(* left is dropped from the index, and the cell of its hash freed.         *)
Edge(coin) ==
    /\ pc = "inputs"
    /\ ~tx.first
    /\ Cardinality(tx.spent) < MaxInputs
    /\ coin \in coins \ tx.spent
    /\ tx' = [tx EXCEPT !.spent = @ \union {coin}]
    /\ hashPool' = IF IsLast(coin) THEN Free(hashPool, cellOf[coin.tx])
                   ELSE hashPool
    /\ UNCHANGED <<pc, height, nbTX, nbTxs, coins, hashOf, cellOf, released>>

(* endInputs, startOutputs.  In a coinbase transaction startInput and      *)
(* endInput come before, with no edge.                                     *)
StartOutputs ==
    /\ pc = "inputs"
    /\ tx.first \/ tx.spent # {}
    /\ Goto("outputs")
    /\ UNCHANGED <<height, nbTX, nbTxs, tx, coins, hashVars>>

Budget == IF tx.first THEN Reward ELSE Value(tx.spent)

(* The next output of the transaction. *)
Output(owner, value) ==
    [tx |-> nbTxs, n |-> Cardinality(tx.made) + 1, owner |-> owner,
     value |-> value]

(* startOutput, endOutput *)
EndOutput(owner, value) ==
    /\ pc = "outputs"
    /\ Cardinality(tx.made) < MaxOutputs
    /\ Value(tx.made) + value <= Budget
    /\ tx' = [tx EXCEPT !.made = @ \union {Output(owner, value)}]
    /\ UNCHANGED <<pc, height, nbTX, nbTxs, coins, hashVars>>

(* endOutputs, endTX, done.  A callback that is done gets wrapup next, in  *)
(* the middle of the block: no endTXs, no endBlock.                        *)
EndTX(done) ==
    /\ pc = "outputs"
    /\ tx.made # {}
    /\ coins' = CoinsNow
    /\ tx' = NoTx
    /\ Goto(IF done THEN "wrapup" ELSE "tx")
    /\ UNCHANGED <<height, nbTX, nbTxs, hashVars>>

(* endTXs; the data of the block are freed; endBlock, done *)
EndBlock(done) ==
    /\ pc = "tx"
    /\ nbTX = 0
    /\ released' = height
    /\ Goto(IF done THEN "wrapup" ELSE "block")
    /\ UNCHANGED <<height, nbTX, nbTxs, tx, coins, hashPool, hashOf, cellOf>>

(* The last block was parsed: pass 3 made sure there is at least one. *)
EndOfChain ==
    /\ pc = "block"
    /\ height > 0
    /\ Goto("wrapup")
    /\ UNCHANGED <<height, nbTX, nbTxs, tx, coins, hashVars>>

Wrapup ==
    /\ pc = "wrapup"
    /\ Goto("end")
    /\ UNCHANGED <<height, nbTX, nbTxs, tx, coins, hashVars>>

-----------------------------------------------------------------------------
(* The pointers to hashes that edge and endOutput hand out: to the cell of *)
(* the transaction being parsed, and to the input in the block's data.     *)
Pointer == [block : 0 .. MaxBlocks, at : 0 .. MaxTxs]

InCell(cell) == [block |-> 0, at |-> cell]
InBlock(t)   == [block |-> height, at |-> t]

(* What may be read through a pointer: a cell holds the hash last written  *)
(* to it, and freed data anything.                                         *)
MayRead(p) ==
    IF p.block = 0 THEN {hashOf[p.at]}
    ELSE IF released < p.block THEN {p.at} ELSE 0 .. MaxTxs

Over == pc \in {"end", "killed", "crash"}
=============================================================================
