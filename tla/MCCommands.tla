----------------------------- MODULE MCCommands -----------------------------
(* Every command on every clean chain of three or four transactions. *)
EXTENDS CommandsProperties

(* What scripts pay to: type and address. *)
Pay(addr) == [type |-> 0, addr |-> addr]
Script(type) == [type |-> type, addr |-> IF type < 0 THEN "none" ELSE "a"]

(* Values that can be shared out in halves, to zero, and unevenly. *)
Run(cmd) == [command |-> cmd, txs |-> 4, repeats |-> 1, files |-> 1, records |-> 4,
             minted |-> <<3, 2, 4, 1>>, scripts |-> {Pay("a")}]
Short(cmd, n) == [Run(cmd) EXCEPT !.txs = n, !.repeats = 0]
Among(session, scripts) == [session EXCEPT !.scripts = scripts]

MCSessions ==
    {Run("pristine"), Run("txInputs"),
     [Short("simpleStats", 4) EXCEPT !.files = 2]}
    \union {Run("taint") @@ [roots |-> roots] : roots \in {<<1>>, <<2>>, <<1, 3>>}}
    \union {Run("tx") @@ [roots |-> roots] : roots \in {<<2>>, <<1, 3>>}}
    \union {Among(Short("rewards", 3), {Script(0), Script(-2)}) @@ [full |-> FALSE],
            Among(Short("rewards", 3), {Script(0), Script(-1)}) @@ [full |-> TRUE]}
    \union {Run("sqldump") @@ [cutoff |-> cutoff] : cutoff \in {NoCutoff, 1}}
    \union {Among(Short("closure", 3), {Pay("a"), Pay("b"), Pay("c")}) @@
                [addrs |-> {"a", "b", "c"}]}
    \union {Among([Run("transactions") EXCEPT !.txs = 3], {Pay("a"), Pay("b")}) @@
                [addrs |-> {"a"}]}
    \union {Among(Short("txotype", 2), {Script(0), Script(3), Script(4), Script(-1)})}

(* The commands a run asks one question of. *)
MCInputs  == {Run("txInputs")}
MCMaximum == {Short("simpleStats", 4), Run("txInputs")}
MCClosure == {Among(Short("closure", 3), {Pay("a"), Pay("b"), Pay("c")}) @@
                [addrs |-> {"a", "b", "c"}]}
MCDumps   == {Run("tx") @@ [roots |-> roots] : roots \in {<<1, 2>>, <<3>>, <<1, 3>>}}
=============================================================================
