# A verification project for blockparser

blockparser (`src/`) reads the block files of a bitcoin node and feeds the
longest chain to one of fourteen commands ("callbacks": `allBalances`, `taint`,
`sqldump`, ...).  This directory holds TLA+ models of its core, the TLC
configurations that check them, and proofs for TLAPS.

| file | what it is |
|---|---|
| `BlockIndex` | passes 1 to 4 of `parser.cpp` over the headers: links, heights, longest chain, walk |
| `LongestChain` | what that promises: a longest chain, delivered in order |
| `BlockIndexProperties` | its properties, the refinement mapping, the inductive invariants |
| `BlockIndexProofs` | proofs: `IndInv` and the properties of heights, trails and order; `ChainInv`, connected blocks, every step one of `LongestChain` |
| `PagedAllocator` | the free lists of `memory_manager.h` |
| `DataLemmas` | lemmas about least and greatest elements, minimal subsets, sums as cardinalities, and `Alloc` and `Free` |
| `TxoIndex` | `parseTX`, `gTXOMap` and the memory of the unspent outputs |
| `UtxoSet` | what that promises: every spent output is shown once, and is the right one |
| `TxoIndexProperties` | its properties, the refinement mapping, the inductive invariant |
| `TxoIndexProofs` | proofs: all of them |
| `CallbackLoop` | the calls a callback gets in pass 4, and when it is asked whether it is done |
| `AllBalances` | the command `allBalances`, composed with `CallbackLoop` and `PagedAllocator` |
| `AllBalancesProperties` | its properties, its inductive invariant, and what it says of itself and does not do |
| `AllBalancesProofs` | lemmas about sums over coins; proofs: all of the properties |
| `HashKeyedMap` | a hash table whose keys are pointers to hashes, as the commands keep them |
| `Pristine`, `Taint`, `TxInputs`, `SimpleStats`, `Rewards`, `DumpTX`, `SqlDump`, `Closure`, `Transactions`, `TxoTypes` | the handlers of one command each |
| `BaseRewards` | `getBaseReward` |
| `Commands` | pass 4 with any of these commands, composed with `TxoIndex` |
| `CommandsProperties` | what each command promises, compared with the chain; the inductive invariants |
| `CommandsProofs` | proofs: the index below any command, `pristine` and `transactions` |
| `SqlDumpProofs` | proofs: the tables of `sqldump` and their references |
| `ReportProofs` | proofs: `txotype`, `tx`, `simpleStats` and `txInputs` |
| `SummaryProofs` | proofs: `closure` and `rewards` |
| `Registry` | the words that name a command |
| `Numerals` | bytes and numbers as text, base 58 among them |
| `OutputScripts` | `solveOutputScript` and what it calls |
| `FunctionsProperties` | the functions without state and what they are for |
| `MC*` | instances for TLC |

## 1. The program

One thread runs `main` (`parser.cpp:1085-1104`) from beginning to end:

1. `initCallback` finds the command by a prefix of its name and calls its `init`.
2. Pass 1, `buildBlockHeaders`, reads the header of every record of every
   `blk*.dat` file, makes a `Block` object for it and enters it in `gBlockMap`
   by hash.  The parent is looked up right away and may not be there yet.
3. Pass 2, `computeBlockHeights`, goes over `gBlockMap` in hash table order,
   links the blocks that miss a parent and numbers every block that reaches the
   null block.  The highest one is kept in `gMaxBlock`.
4. Pass 3, `wireLongestChain`, sets the `next` pointers of the chain that ends
   in `gMaxBlock`.
5. Pass 4, `parseLongestChain`, follows them and parses each block, calling the
   command at the start and end of each block, transaction, input and output.
   With `needUpstream` it also keeps `gTXOMap`, the index of unspent outputs,
   and calls `edge` with the output each input spends.
6. `wrapup` prints the result.

The only other actor is the user, whose ^C `allBalances` handles.

**Which program this is.**  The repository is the unfinished merge of two
lines of blockparser and does not compile: `TXOMap` is declared twice
(`parser.cpp:19-34`), `upTXHashOrig` is never declared (331), a `Chunk` is
passed for a `TXChunk` (432-441), the head of a loop is lost in
`initHashtables` (894-905).  Where the two lines contradict each other the
models follow the one the rest of the code depends on:

* passes 1 to 3: the `BlockFile`/`Chunk` version that reads with `read` and
  `lseek`, which is all that `buildBlockHeaders` and `findBlockParent` contain;
* the outputs of pass 4: the `TXChunk` version, where `gTXOMap` holds copies of
  the outputs (`mRawData`) and frees them, which is all that `parseInput` and
  `parseOutputs` contain.  `txo->init(...)` (445-452) belongs to the other and
  has no effect on these;
* bitcoin: the variants for other coins add fields that are skipped.

### Inventory

| component | state | operations | what makes it correct |
|---|---|---|---|
| block index, `parser.cpp:504-886` | `gBlockMap`, fields of `Block`, `gMaxBlock`, `gMaxHeight` | `buildBlockHeaders`, `findBlockParent`, `computeBlockHeight`, `wireLongestChain`, `parseLongestChain` | a longest chain, whatever the order of the records and of the hash table, with duplicates and orphans |
| index of unspent outputs, `parser.cpp:221-464` | `gTXOMap`, keys, `TXChunk`s, arrays, copies | `parseTX`, `parseInput`, `parseOutputs` | the right bytes for each spent output; nothing shared, overwritten or lost |
| allocators, `memory_manager.h` | free lists | `alloc`, `free`, `allocPtrs`, `freePtrs`, `allocTX`, `freeTX` | no cell has two owners |
| callback loop, `parser.cpp:402-617` | position in the chain | every call of `gCallback` | the order of `callback.h`, prompt end when done |
| `allBalances` | `addrMap`, `Addr` cells, `isDone`, `interrupted` | `move`, `startBlock`, `done`, `forceDone`, `wrapup` | balances are those of the ledger, at the block asked for |
| `sqldump` | four files, four counters, `outputMap` | `startBlock`, `startTX`, `endOutput`, `edge`, `wrapup` | rows refer to rows that exist; files closed once |
| `pristine`, `taint`, `txInputs` | maps keyed by transaction hash pointers | `startTX`, `edge`, ... | keys outlive the hash they point to |
| `simpleStats`, `txInputs` | counters, running maxima | all `start...` calls | totals and maxima over the whole chain |
| `rewards`, `tx`, `rawdump` | reward and fee sums | `startBlock`, `endOutput`, `endBlock` | the halving at the right height, no negative wrap |
| `closure` | graph of addresses | `edge`, `endTX`, `wrapup` | clusters are the connected components |
| `transactions`, `txoTypes`, `headers`, `help` | little or none | printing | |
| script and address utilities, `util.cpp` | none | `solveOutputScript`, base 58, key lists, `pr128`, `getBaseReward` | pure functions with reference definitions |
| callback registry, `callback.cpp` | list of commands | `find` | the right command for a prefix |
| option parser, hashes, tables, log | | third-party, or output only | |

What is hard here is not concurrency between threads, for there is none.  It is

* the order in which data arrives: records in any order, twice, without parent;
  the hash table's own order in pass 2;
* pointers into memory that is recycled by hand at every spent output, while
  the hash tables hold keys in that same memory;
* the few places where a command may stop the loop, and ^C between any two
  steps;
* sums and counters that are folded in, forgotten and started afresh.

`PROJECT.json` lists these hazards one by one at their lines.

## 2. The block index

`BlockIndex` has one action per step of the loops.  `ReadHeader` is one round
of pass 1; `EndBlockFile` ends a file after any number of records (a short
read, a header that does not parse, the limit on heights).  `StartClimb`,
`Climb`, `GiveUp`, `EndClimb` and `Descend` are `computeBlockHeight`: it climbs
from a block to the nearest ancestor with a height, leaving a trail of `next`
pointers, and numbers the blocks on its way down the trail.  `ParentOf`
includes the late link of `findBlockParent`.  `Wire` and `WireNull` are pass 3,
`StartLongestChain`, `ParseBlock` and `EndOfChain` the walk of pass 4.
The order of the hash table is a free choice among the hashes still in `todo`.

A hash is a number, and the parent of a hash is a smaller one: a header
contains the hash of its parent, so the parent was mined first.  That is all
that is assumed of the files.

`LongestChain` is the promise: headers become known, one of the longest
chains is elected, its hashes are delivered in order.  It knows nothing of
`Block` objects; a hash recorded twice, which gives two objects, is one hash.
`BlockIndexProperties!Chain` maps the state: `known` are the hashes of the
objects allocated, `tip` the hash of `gMaxBlock` once pass 2 is over.

| run | instance | shows |
|---|---|---|
| `block_index` | 4 hashes, 4 records, 2 files | the invariants below, and that heights never change |
| `block_index_refinement` | 3 hashes, 4 records, 1 file, fairness | `LongestChain` is implemented, its liveness included, and `ChainInv`, the invariant of the proofs, holds |

Four hashes let two branches of two blocks compete and an orphan branch of two
blocks exist; four records over three hashes have a duplicate of any of them,
before or after its children.  A second file changes nothing but the count.
`CrashOnlyWithoutGenesis` says when pass 3 follows a null pointer: when no
chain reaches the null block, as with a block directory that was pruned.

Fairness: `WF_vars(Next)`.  The program has one thread, nothing to wait for,
and input that ends.

### Proofs

`BlockIndexProofs` proves, for any number of hashes, records and files:

* `TypeCorrect`, `MaximumIsKeptHolds`, `ParsedInOrderHolds`;
* `NoNullDereferenceHolds`: `computeBlockHeight` never leaves its trail;
* `TrailsAreOffChainHolds`: a climb that was given up leaves no pointer where
  pass 4 could follow it;
* `HeightsAreFinalHolds`: no step changes a height.

The assumptions are the four `ASSUME`s of `BlockIndex` (the bounds are natural
numbers, there is a file, the null pointer is not an object).

None of these is inductive.  `IndInv` adds: map entries and parent links agree
with the hashes in the headers (`Linked`); a block with a height has a parent
whose height is one less (`Numbered`); during a climb there *is* a set of
blocks, the trail, that `next` leads through from the current block to the one
climbed from, and the hash of the current block is smallest in it (`OnTrail`);
where a block with a height may have a `next` (`NextOfNumbered`); where the
cursor of passes 3 and 4 is (`OnChain`).  The trail is given by its existence
and not by a recursive definition, so that a step of the climb has only to name
the new one: the old one and the parent.  The parent is not on the old trail
because its hash is smaller than all of them, which is where the order of
hashes is needed.  Each action has a lemma (`ClimbStep`, `DescendStep`, ...),
`NextIndInv` collects them and `IndInvHolds` concludes.

Its second part goes from there to `LongestChain`:

* `HeightIsDepthHolds`: a height is the distance from the null block;
* `ConnectedHaveHeightsHolds`, `CrashOnlyWithoutGenesisHolds`: after pass 2 the
  blocks with a height are those whose whole line is on disk;
* `IndexElectsLongestChain`: every step is a step of `LongestChain` or a
  stutter (its `SafeSpec`).  The end of pass 2 elects a longest chain, or finds
  that no chain reaches the null block; pass 4 delivers its hashes in order.

`LongestChain` defines the line of a hash by recursion over its ancestors.  The
theorems for induction over data are out of the prover's reach; where one would
use them, the proofs take the least hash for which a claim fails
(`LeastElement`): its parent is smaller, so the claim holds there.
`LineEquation` shows in this way that the recursive definition has a solution,
the least set of ancestors.
`ChainInv` is `IndInv` and: every hash recorded has an entry (`Recorded`); a
climb stays on the line of the hash it started from (`ClimbsLine`), so that
an orphan at its end means no block on that line is connected; the connected
hashes pass 2 is through with have heights (`Visited`); and there is a set of
blocks wired to `gMaxBlock` and on its line (`OnTip`), which tells that the
walk of pass 4 ends at the tip and nowhere before.

Only model-checked: the liveness of `LongestChain`, that is, that the run ends.

## 3. The index of unspent outputs

`TxoIndex` parses a chain that is chosen transaction by transaction.  On a
clean chain, which the program assumes (`README.md:72` of the repository), an
input spends an output that is unspent.  Coinbase transactions may be repeated bit for bit, as happened twice on
the real chain, and then two transactions have one hash.

The memory is modelled down to the cell: the hash computed by `parseTX` goes
into a cell of `PagedAllocator<uint256_t>` that becomes the key of the entry,
and is freed with it; `TXChunk`s, arrays (one free list per size) and copies of
outputs likewise.  Cells taken again keep their contents.  An array of more than twelve pointers, or
a copy of unusual size, comes from `malloc` in the code; the model takes them
from a free list too, which reuses more.

`ParseInput` is the body of `parseInput` for an output found: the callback sees
the bytes, the copy is freed, the slot cleared, and when no slot is left
everything is given back (`Release`).  `MissingUpstream` and `NullOutput` are
the ways it can fail; `CleanChainIsParsed` says they are not taken on a clean chain.

`txo_index` checks all chains of four transactions of up to two inputs and two
outputs, one possibly a repeat: that is enough for an entry to be released, its
cells to be taken by another, and that one to be spent.  An input may also name
an output spent before or a transaction that is not there, as when a block file
is missing; `clean` records whether one did.  `IndexIsCoins` and
`CleanChainIsParsed` are about clean chains.  `EdgeIsGenuine`, `KeysAreIntact`,
`NoSharedMemory`, `NoLeak` and `FreeArraysAreNull` hold on all, and so does
`ImplementsUtxoSet`: the callbacks see a set of unspent outputs, and on a chain
that is not clean the program stops, by `errFatal` or on a null pointer, before
it shows an output twice.  `NoLeak` excepts repeats: the cell of the second
hash and all memory of the first entry are lost then.  No fairness is assumed:
nothing here could fail to go on but a loop over a finite file.

### Proofs

`TxoIndexProofs` proves every property above, for any number of transactions,
inputs, outputs and repeats: `HoldsTheCoins`, `NeverFailsOnCleanChain`,
`EdgeShowsTheOutput`, `KeysStayIntact`, `MemoryIsNotShared`, `NothingIsLost`,
`FreedArraysStayNull`, and `IndexImplementsUtxoSet`, which is all of
`UtxoSet`, as that has no liveness.  The assumptions are the bounds being
natural numbers and `NoTxoAssumption`: the null entry of the table is none of
the entries.

The properties are conjuncts of one invariant, for each needs the others: a
copy is not overwritten because no cell has two owners, and that depends on
the arrays being null where nothing is held.  `IndInv` adds: what the pools
have cut is bounded by the transactions so far (`PoolsAreSmall`), so the cells
exist; arrays have a slot for each output and copies are those of the outputs
(`EntriesAreFaithful`); which hashes were used (`ChainIsSound`); what the
locals of `parseTX` say between two of its steps (`LocalsAreSound`), among them
that no entry has the cell of the new hash as its key until the first output
puts it there; and that the inputs still to come are distinct coins
(`InputsAreCoins`).  The lemmas of `DataLemmas` say that `Alloc`
returns a cell not in use and adds it, and `Free` takes one away, from a list
without duplicates; `SlotCleared`, `EntriesAfterInput`, `MemoryAfterInput` and
their like say what each step does to the entries and pools, apart from what
it means.  TLC checked `IndInv` on the instance of `txo_index`.

The proof covers what the run cannot: arrays of more than two slots, and free
lists with several cells in them.

`FreeArraysAreNull` guards against losing copies: an array goes back to its free
list only when every output is spent.  Nothing relies on its contents later, for
`parseOutputs` fills every slot anew.

## 4. The callback loop and allBalances

`CallbackLoop` is the order of the calls: `Edge` for each input, then
`EndOutput` for each output, then `EndTX`, which asks `done()`.  A command
that is done gets `wrapup` at once, without `endTXs` or `endBlock`.  A module
for a command extends it and conjoins to each action what the handlers do.  The
output an `Edge` shows is an unspent one: that is `UtxoSet`, which `TxoIndex`
implements.  A transaction hands out no more than it took in.  The number
of transactions in a block is chosen when the block starts, where the code
reads it.

A callback is shown the hash of a transaction by a pointer, and `-d` keeps it:
`endOutput` has one to the cell that `parseTX` wrote the hash to, `edge` one into
the data of the block, where the input names its upstream.  So the loop has the
pool of these cells (`hashPool`, `hashOf`, `cellOf`): `StartTX` takes one, the
`Edge` of the last unspent output of a transaction frees its cell, which the
next `StartTX` may write to, and `EndBlock` frees the data of the block
(`released`).  `MayRead` is the set of hashes a pointer may show: the one now in
the cell, or anything once the block is released.  A chain has no repeated
coinbase here, so `parseTX` frees nothing else.

`AllBalances` adds `move`, with the cells of the `Addr` objects and, for `-d`, a
`Line` for each move, with its pointer and no hash; the cutoff of
`startBlock`; the handler of SIGINT, which may be called between any two steps
and disarms itself, so that a second ^C kills; and the report.  Time is the
height of the block.  The order of the hash table and the ties of the sort are
free choices.

| run | instance | shows |
|---|---|---|
| `all_balances` | 2 addresses, 3 blocks, 3 transactions of up to 2 inputs and 2 outputs, rewards up to 2; the options `-c`, `-a 2 -l 1`, or `-a 2 -d` with one address; ^C | `BalanceIsLedger` at every step; `ReportIsLedger`: the report is the ledger after a whole number of transactions; one `Addr` per address; ^C and the cutoff take effect within one transaction; `-l` shows the richest; `-d` lists each unspent output with a pointer that still shows its hash |

Three transactions are enough to pay two addresses, empty one, and use its cell
for the other or for itself again.  The amounts reach 2, so that a balance can
be split, and two balances above zero can differ; an output of value zero is
possible too.  An output whose script is not solved takes the same way out of
`move` as one to an address not asked for; the run `balances_last_out`
has some.
The two addresses are symmetric, and so is the set of options.
`CrashInInitCallback` is ^C in the moment between `init` and the first `done()`:
the message reads a current block that is null.

Two runs show where the program does not do what it says.  They are listed
under `findings` in `PROJECT.json`:

| run | the program says | the code does |
|---|---|---|
| `balances_cutoff` | "blocks strictly older than" the cutoff | counts the first transaction of the cutoff block: `done()` is asked after a transaction only |
| `balances_last_out` | columns "nbOut" and "lastTimeOut" | shows for an address with no output counted the time of one that was counted before, when the cell was another's or, in the shortest trace, when an output of value zero made `move` count it as going out and forget the address |

`UnspentAreListed` is what remains of the promise of `-d`, "also show all unspent
outputs" (`allBalances.cpp:124`): the line of an *unspent* output can be trusted,
because the index keeps the cell of a hash as long as the transaction has an
output left.  The spent ones are listed too; the line of one shows the hash of
whatever transaction took the cell, and the line of what spent it shows freed
memory when the report is printed, so a reader cannot tell them apart.

Other words of the program that its code does not keep are weighed here and not
run.  An address with balance zero is forgotten, against "all addresses that ever
appear" (`allBalances.cpp:96`).  With `-c` the rows are not sorted, and `-l` keeps
the first of the hash table (`allBalances.cpp:375`): `TopBalances` has the
exception.  After ^C the report may have a part of a block in it, against
"coherent state of ledger as of block" (`allBalances.cpp:155`): `ReportIsLedger`
promises whole transactions only.

### Proofs

`AllBalancesProofs` proves `BalancesAreTheLedger`, `EntriesKeepTheirCells`,
`ReportShowsTheLedger`, `LimitedReportShowsTheTop`, `InterruptEndsTheRun`,
`CutoffEndsTheRun` and `UnspentOutputsAreListed`, for any set of addresses, bounds,
rewards and options.  It assumes that the set of addresses is finite and
`NoAddr` is none of them and no number, that the bounds are positive, and of
the options what `OptionsAssumption` says (a limit or a cutoff is a number or
absent).  `IndInv` has these parts:

* `LoopInv`, of the chain alone: coins are numbered by transaction and output,
  those of the transaction being parsed come after all others;
* `Storage`, the types of the table and `AddrsAreOwn`: an entry has a cell of
  its own, so that `move` changes one balance;
* `EntriesAreDue`: only addresses asked for have an entry, and without `-d` none
  has balance zero, so that an address without an entry owns nothing;
* `BalanceIsLedger` itself;
* `CountersAreSmall`: a cell has counted no more moves than there were inputs
  and outputs, which is what bounds the type of its counters;
* `HashesAreKept`: each transaction with an unspent output, and the one being
  parsed, has its hash in a cell that is in use, which is therefore neither
  another's nor taken next;
* `LinesAreKept`: an unspent output has a line with a pointer to that cell.
  `UnspentAreListed` follows from the two;
* `InterruptEndsLoop`, `CutoffEndsLoop`: where `done()` is asked next once ^C
  came or the cutoff was reached;
* `ReportIsLedger`, `TopBalances`: a step of `wrapup` lists the entries, sorted,
  and the limit keeps a prefix.

A balance is a sum over a finite set of coins, a fold over that set.
`DataLemmas` shows that it is the number of *units* of the coins, a unit
being a pair of a coin and a number up to its value (`TotalIsTheSum`; of the sets
of coins for which the two differ it takes a minimal one).  That a coin more
adds its value (`ValueAdd`) and a coin less takes it away (`ValueRemove`) then
follows from the cardinality of disjoint unions.  TLC checked `IndInv` on the instance of `all_balances`.

A remark on heights: the null block has height 0, so the first block of bitcoin
has height 1 in this program, also in these options and messages.

## 5. The other commands

Each of the ten modules `Pristine` ... `TxoTypes` holds the object of one
command as a record and its handlers as operators that return the record they
leave behind; a handler the command does not override has no operator.
`Commands` is pass 4 with one of them: its `startBlock`, `startTX`, ... are the
virtual calls, and each of its actions is a step of `TxoIndex` together with
the calls `parseTX` and its helpers make in that step, in their order.  The
composition is needed because pristine, taint and txInputs keep hash pointers
of `parseTX` as keys, and the cells they point to are given to other
transactions.  `HashKeyedMap` models such a table: an entry stays where the
hash put it, while its key comes to spell another hash.

A session (`gCallback`) is a command with its options and a kind of chain: how
many transactions, whether a coinbase transaction may be repeated, which
scripts its outputs have, and what the coinbase of each block hands out.  The
chain itself is chosen step by step and kept in `chain` and `txo`, history
variables the program does not have; the properties compare the command's
object with them after each whole transaction.

| property of `commands` | says |
|---|---|
| `PristineAreUnspent` | the rows of pristine are the coinbase transactions nothing was spent from, each with its own hash and last block |
| `TaintIsDownstream` | taint prints the transactions downstream of the given ones with a taint above the threshold, with the weighted average of what they spend; a taint below it is carried on, too |
| `StatisticsAreTrue` | simpleStats has the totals of the chain; its maximum, and the rows of txInputs, are those of transactions of the chain, of which at most the last is left out |
| `RewardsAreMinted` | each summary of rewards is what the block's coinbase hands out, with base reward and fees; a full dump stops exactly at a script that pays nobody |
| `DumpIsComplete` | tx prints all that was asked for and is done right after the last of them |
| `RowsAreConnected` | rows of sqldump refer to the rows they should, and -a leaves whole blocks |
| `ClustersAreComponents` | closure lists the least set closed under paying together |
| `TallyIsLedger` | the statement of transactions adds up to what the addresses own |
| `FirstOfEachType` | txotype shows the first output of each common type and every other, in the order of the chain |

Bounds (`MCCommands`): four transactions of up to two inputs and two outputs,
so that a coinbase can be spent, its cells taken again, and the new owner be
spent or asked for.  `closure`, `rewards` and `transactions` have three, with
two or three kinds of scripts; `txotype` two, with four kinds.
The coinbases hand out 3, 2, 4 and 1, which can be shared evenly, unevenly or as
zero, and are more or less than the base rewards 4, 2, 2, 1 of a halving every
two blocks.  A transaction's outputs share what it takes in, so values are not
chosen freely; no command compares values.  `Threshold` is the inverse of the
fraction below which taint prints nothing: 4 in place of 1e20, so that the
mixture of two transactions can fall below it.  A coinbase is repeated only
while the first one has coins left, which is how it happened on the real chain.
`Word` is 256, so that a negative fee shows.  No fairness: all the properties
are about states, and the loop ends with its input.

What the runs assume and what they leave out:

* `PristineAreUnspent` compares the count `nbPristine` with the rows on chains
  without repeats.  A repeated coinbase is counted twice and listed once.
* `sqldump`: at the cutoff the files are closed in `startBlock`, written to
  afterwards, and closed again.  That is undefined; `WriteToClosedFile` is a
  crash, the other outcome is that nothing is written.
* `taint`: its table moves its entries when it outgrows the size it was given;
  an entry whose key was recycled by then goes astray.  `HashKeyedMap` does
  not grow.  A `long double` is an exact fraction; what rounding does is left out.
* `DumpIsComplete` is about chains without repeats, and `ClustersAreComponents`
  about the addresses that have an element in `cc`; the runs `dumptx_details` and
  `closure_listing` are about the others.
* `RewardsAreMinted` takes the fees as they are printed: `feesEarned` is a signed
  number that may be negative, as its comment says, but `satoshisToNormaForm`
  takes an unsigned one (`util.h:472`), and what comes out is near 2^64.
* `simpleStats` does not ask for the index of unspent outputs; the model keeps
  it beside it, and the command does not look at it.

| run | the program says | the code does |
|---|---|---|
| `txinputs_names` | a table of the transactions with the most inputs | shows the numbers next to the hash of a later transaction that was given the cell |
| `dumptx_details` | "all the details of the list of specified transactions" | never resets `valueIn` and `valueOut`: from the second transaction on they are sums over all dumped so far |
| `stats_maximum` | "global max" | lacks the last transaction: the fold is in the next `startTX` |
| `closure_listing` | "Address cluster for address" | reads `cc` beyond its end for an address that has paid alone, and may list a cluster without it |

The trace of `dumptx_details` has two dumped transactions.  Its property fails in
two more ways, which the other two lists of hashes in `MCDumps` lead to: the
reward of a coinbase transaction is looked up for the number of the next block
(`dumpTX.cpp:175`), half of it for the last block before a halving, here the
third; and a repeated coinbase is counted twice, so that `tx` stops before another
one asked for (`dumpTX.cpp:291`).  `stats_maximum` asks the same of `simpleStats`
and `txInputs`; its trace is of `simpleStats`.

### Proofs

`CommandsProofs` proves, for any number of transactions, inputs, outputs and
repeats and for any sessions:

* `IndexIsSound`: `IndInv` of section 3 holds with any command.  Each action of
  `Commands` is a step of `TxoIndex` or leaves the index alone
  (`CmdStepIsTxoStep`), so that everything proved of the index holds here too;
* `PristineIsRight`: `PristineAreUnspent`;
* `StatementIsRight`: `TallyIsLedger`.

`SqlDumpProofs`, which extends it, proves `RowsRefer`: `RowsAreConnected`, with
or without `-a`.  `ReportProofs`, which extends that, proves

* `TypesAreShownOnce`: `FirstOfEachType`;
* `DumpEndsWithTheLast`: `DumpIsComplete`;
* `RecordsAreReal`: `StatisticsAreTrue`,

and `SummaryProofs`, the last of the chain,

* `ClustersAreRight`: `ClustersAreComponents`;
* `RewardsAreRight`: `RewardsAreMinted`.

`CommandsProofs` adds to the assumptions of section 3 what `SessionsAssumption` says of a
session: the numbers of files and records are natural numbers, what the coinbase
transactions of a record hand out fits in a `uint64_t`, like the base reward,
and `tx` was asked for one transaction at least and for none twice (without
arguments `init` of `dumpTX.cpp` takes one of its own, and the table it keeps
them in has an entry per hash).

The argument for `pristine` has two invariants above `IndInv`.  `HistoryInv`
ties the chain, which the properties speak of, to the index: the hashes of the
chain are those counted, only coinbase transactions come twice, blocks do not
decrease (`ChainInv`), and the transaction being parsed is the last of the chain,
its inputs left the tail of that one's inputs (`LastInv`).  It is the same for
all commands.  `PristineInv` is about the table.  There is one entry for each
coinbase transaction whose inputs were parsed, in the place the hash led to
when it was made (`PristineTable`).  The key of an entry is the cell that
`gTXOMap` has as its key while it has one; afterwards the cell may belong to any
transaction, and nothing is said of it.  The value is the last block, or `Spent`
as soon as an output is missing.  This is what makes `edge` find the right entry:
the index still has the transaction an output is spent from, so the key is
intact (`KeysAreIntact`).  And it is why the report is right: an entry whose
key is not its own any more was spent from, and is not listed.
`PristineCount` is the count, for chains without repeats.

One lemma per command handler says what it does to the object
(`PristineInput`, `PristineEndInputs`, ...), one per step of the index which
places are still whole (`PlacesAfterInput`, `PlacesAtOutputs`), and one per
action that `PristineInv` is kept.

For `transactions` the invariant `TallyInv` compares the running sum with the
outputs *held by the index*, and so at every step and not only between
transactions: an input takes one from those and from the sum, an output adds one
to both.  Only where the entry of a repeated coinbase is overwritten do they
part, and then the sum stays above, which is why it is never negative.
`TxoInv` says that values are natural numbers: the shares of what a transaction
takes in are (`ShareType`, `WorthType`).

For `sqldump` the invariant is `SqlInv`, in four parts.  `SqlLocals` ties the
numbers of the object to the chain: `txID` and `blkID` are those of its last
transaction and block, the files are closed exactly once the chain is past the
cutoff, and until then `outputID` is the number of rows, so that a row can be
found by its number.  `RowTablesInv` says this of the transactions, blocks and
outputs already written.  `OutputMapInv` is what makes `edge` right: for each
output that the index holds, `outputMap` has the number of the row made *last*
for it.  An exception is made while the inputs of a coinbase transaction are
parsed that is there for the second time, for its outputs are about to be made
again; such a transaction has no spending inputs.  `outputMap` never forgets an
output, so one that is not held may have any number.  `InputRowsInv` follows the
inputs one by one: those parsed (`Parsed`) have a row that names the right
output, and there are no others.  Rows written stay as they are
(`LongerIsGrown`, `RowStays`), which is why they need to be looked at only once.
The number of inputs is a sum over the transactions in the files.  The proof
takes it as `Total`, which counts units and needs no induction (`SqlSound` is
`SqlInv` in that form), and `TotalIsTheSum` says that the fold of `SumOver`
computes the same.

For `txotype`, `TypesInv` compares what was printed with the *places* made so
far, a place being the number of a transaction in the chain and that of an
output.  A place is shown if its type is not one of the common four or no place
before it has that type, and the row of a place is found at its rank among those
shown.  A new place follows all others, so it changes neither which are shown
nor their ranks (`ShownAtOutput`).

For `tx`, `DumpInv` counts the transactions asked for that were printed.
`isDone` is set exactly when they are as many as the roots; as long as none is
repeated, those printed are distinct roots, so that the two are then the same set.
That the run ends in the step after is why no block can begin when it is set.

For `simpleStats` and `txInputs`, `LargestInv` says of the maximum that it is
that of the transactions before the last, and of `tmpMaxInputCountInTx` that it
counts the inputs of the last.  `CountsInv` adds the totals, which are sums over
the transactions, each a sum over its outputs so far.  `RecordsInv` is about the
table of `txInputs`, which is keyed by hash pointers.  A transaction that makes
a record has more inputs than any before it; a coinbase transaction has one,
so the only record one can make is the first, and a record is never the repeat
of one.  The place a record is put is therefore a new one, and each entry of the
table has the data of its own transaction, for ever.  Its key spells its hash
while the index has an entry for it (`IsRecordOf`), and `RecordsLocals` says
that `tmpTxHash` is such a key when the next `startTX` uses it.  That keys stay
right no longer than that is what `txinputs_names` shows.

For `closure`, `ClosureInv` has four parts.  The numbers are one for each address
that has paid so far, parsed inputs of the current transaction included
(`ClosureObject`).  The vertices of the current transaction are its payers
(`VerticesInv`), and what an input spends is in the chain, so that its owner
does not change later (`InputsAreKnown`).  `GraphInv` is about the graph, in two
halves: an edge joins addresses that paid for one transaction together, and a
set of addresses that no edge leaves has all payers of a transaction or none.
The second half is where it matters that `endTX` links each vertex with the next:
what agrees from one vertex to the next agrees throughout (`AllAgree`).  It speaks
of sets and not of paths, for there is no induction over paths here.
`Component` is the least set of vertices that no edge leaves, and the reference
the least set of addresses closed under paying together; `ClustersShow`
carries a closed set from one side to the other, in both directions.  An address
beyond the graph has no edge, so its own cluster is itself alone, whatever is
then listed.

For `rewards`, `RewardsInv` has the *minted outputs* of a block, those that its
coinbase transaction made so far, but for those of type -2, which `endOutput`
passes over.  The reward of the object is their worth in the block that goes on (`RewardsLocals`), and
each block that ended has a line with its own (`EndedBlocks`).  A line is not
touched by later blocks because each has one coinbase transaction and blocks
increase (`CoinbasesAreBounded`), so the minted outputs of earlier ones stay as
they are even when a coinbase transaction is repeated, whose outputs are those
of the first once more (`MintedKept`).  `hasGenInput` says throughout the
outputs whether they are of a coinbase transaction.  The sum in `uint64_t` does
not overflow since an output is worth a share of what the coinbase hands out,
and the shares add up to it (`SharesAddUp`).  The reference halves the base
reward step by step and the code shifts it once by the number of halvings;
`HalvedIsShifted` says that the two agree, from `PowersOfTwo`, which counts
subsets because the provers know powers of fixed numbers only.  `RewardsTally`
is `RewardsInv` with sums taken as `Total`.  `RewardsEnd` is about the full
dump: it goes on as long as no minted output pays nobody, and stops in the step
after one does.

TLC checked `HistoryInv`, `PristineInv`, `TxoInv`, `TallyInv`, `SqlInv`,
`TypesInv`, `DumpInv`, `CountsInv`, `RecordsInv`, `ClosureInv` and `RewardsInv` on
the instance of `commands`.

## 6. The functions without state

`Registry`, `Numerals` and `OutputScripts` are operators.  `FunctionsProperties`
grows an input for them, a word letter by letter, a string byte by byte, a
script token by token, and checks each step (run `functions`):

* `TypingOnKeepsTheCommand`: a word that names a command still names it, or
  nothing, when more letters are typed.  The rule is that one of the two is a
  prefix of the other, so `dumpTX`, `txshow`, `dump` and `txs` are ambiguous when
  typed in full: `dump` is a word for sqldump, and `txs` one for transactions.
  The command `dumpTX` can be reached as `txinfo`, `showtx` or `txdetails` only.
  Likewise "parser tx" and "parser tr", which the help (`help.cpp:85`) calls
  equivalent to "parser transactions", are ambiguous.
* `TextKeepsTheBytes`: base 58, hexadecimal, decimal and variable length
  numbers can be read back.  All strings of up to three bytes from eight chosen
  ones, and each of them continued with 255 to the 25 bytes of an address, where the
  rounded sizes of the buffers (`n * 138 / 100 + 1`, `n * 733 / 1000 + 1`) are
  tightest.
* `ScriptsPayByTheirTokens`: what a script pays is read off its tokens, does not
  depend on the order of the keys of a multiple signature, and not on what lies
  after the script in memory, although the walk over the pushes reads it.  All
  scripts of up to four of 18 tokens, and those that end in one of two opcodes
  at five, over four continuations.  A push of more than 512 Kb in place of a
  key is passed over; the reference definition has that case.  A push shorter
  than 20 bytes within a multiple signature, which reads before its own start,
  is not among the tokens.

The walks over a script are recursive functions of the position.  A script that
pays nothing leaves the kind of its address as it was (`LeftAlone`); no caller
looks at it then.

`hash160ToAddr` (`util.cpp:738`) writes the checksum over the last bytes of the
hash and computes it from offset 0, and `addrToHash160` uses `vchRet`, which is
not declared: both are halves of the merge described in section 1 and are
not modelled.

## 7. What is not modelled

* The contents of scripts, headers and files beyond what is named above, the
  hash functions (hashes are distinct), the third-party option parser, printing
  and progress messages, the memory statistics.
* I/O errors that end the program at once (`sysErrFatal`).
* The magic number at the start of a record: `seekForBlockStart`
  (`parser.cpp:765`) is called from nowhere.
* `rawdump`, `headers` and `help` print what they are shown as it comes; the
  only state of the first is the indentation and the numbers of its lines.
* The tables and code of the hash functions for other coins (`src/h9`,
  `src/scrypt`), the copies of OpenSSL headers (`src/windows`) and the option
  parser are most of the repository's lines.  They are third-party, and the
  program reaches them, if at all, through a call that returns a digest.

## 8. Proofs: what is left

Done: every property of `BlockIndex`, `TxoIndex` and `AllBalances` that TLC
checks, but for liveness; both refinements; and of the other commands all but
`taint`.  What stays with TLC, and why:

* liveness of `LongestChain` under fairness, which is beyond the prover;
* `TaintIsDownstream`: its reference is recursive over the whole chain, and
  fractions would need lemmas on products that the provers lack;
* the properties of `FunctionsProperties`: what recursive walks over strings
  compute for every input needs induction over data, which the prover's library
  states with an operator as a parameter.

Models to add: ^C, `-a` and `-d` of `allBalances` together with a repeated coinbase
(`CallbackLoop` has none), whose first cell is never freed; tables that grow.
