---------------------------- MODULE MCBlockIndex ----------------------------
(* The block index on a few hashes, every record order and duplication.    *)
EXTENDS BlockIndexProperties
=============================================================================
