---------------------------- MODULE HashKeyedMap ----------------------------
(***************************************************************************)
(* A hash table whose keys are pointers to hashes (util.h, Hash256Hasher   *)
(* and Hash256Equal), as the commands keep them.                           *)
(*                                                                         *)
(* An entry sits where the hash pointed to belonged when it was put in.    *)
(* A search goes where the hash looked for belongs and compares it with    *)
(* what the keys there point to by then, which parser.cpp may have         *)
(* overwritten.  Different hashes belong in different places.              *)
(*                                                                         *)
(* A key is the number of a cell of PagedAllocator<uint256_t>, whose       *)
(* bytes are in mem, or for memory of the command's own the negative of    *)
(* the hash in it.  The table is the sequence of its entries.  It never    *)
(* grows past the size it was given, so no entry moves.                    *)
(***************************************************************************)
EXTENDS Integers, SequencesExt, FiniteSetsExt

OwnKey(hash) == -hash

Spelt(mem, key) == IF key < 0 THEN -key ELSE mem[key]

(* A mutant: any key that spells the hash by now will do, as if the table  *)
(* were arranged anew at every search.                                     *)
HitsAnywhere(table, mem, hash) ==           \* breaks TaintIsDownstream
    {i \in DOMAIN table : Spelt(mem, table[i].key) = hash}
Hits(table, mem, hash) ==
    {i \in DOMAIN table : /\ table[i].place = hash
                          /\ Spelt(mem, table[i].key) = hash}

Has(table, mem, hash) == Hits(table, mem, hash) # {}

(* find(hash)->second *)
Get(table, mem, hash) == table[Min(Hits(table, mem, hash))].val

(* find(hash)->second = val, if it is there *)
Set(table, mem, hash, val) ==
    IF Has(table, mem, hash)
    THEN [table EXCEPT ![Min(Hits(table, mem, hash))].val = val]
    ELSE table

(* table[key] = val: the key of an entry that is there stays. *)
Put(table, mem, key, val) ==
    LET hash == Spelt(mem, key) IN
    IF Has(table, mem, hash) THEN Set(table, mem, hash, val)
    ELSE Append(table, [place |-> hash, key |-> key, val |-> val])
=============================================================================
