------------------------------ MODULE UtxoSet ------------------------------
(***************************************************************************)
(* What the index of unspent outputs promises to the callbacks: each call  *)
(* of Callback::edge shows an output that was created earlier and has not  *)
(* been shown since.  A repeated coinbase transaction starts its outputs   *)
(* afresh.  TxoIndex implements this specification.                        *)
(***************************************************************************)
CONSTANTS TxHash, Outpoint, NoOutpoint

VARIABLES
    unspent,    \* the outputs created and not yet spent
    shown       \* the output the last edge showed

vars == <<unspent, shown>>

Init ==
    /\ unspent = {}
    /\ shown = NoOutpoint

Create(o) ==
    /\ o \notin unspent
    /\ unspent' = unspent \union {o}
    /\ UNCHANGED shown

Spend(o) ==
    /\ o \in unspent
    /\ unspent' = unspent \ {o}
    /\ shown' = o

Restart(hash) ==
    /\ unspent' = {o \in unspent : o[1] # hash}
    /\ UNCHANGED shown

Next ==
    \/ \E o \in Outpoint : Create(o) \/ Spend(o)
    \/ \E hash \in TxHash : Restart(hash)

Spec == Init /\ [][Next]_vars
=============================================================================
