------------------------------ MODULE Registry ------------------------------
(***************************************************************************)
(* The table of commands (callback.cpp): every command has a name and      *)
(* aliases, and the word typed by the user names a command when one of     *)
(* the two is the beginning of the other.  Case does not count, so the     *)
(* words are written in lower case here.                                   *)
(***************************************************************************)
EXTENDS Integers, Sequences, FiniteSets

\* name() and aliases() of every object in src/cb
Names ==
  [allBalances  |-> {"allbalances", "balances"},
   closure      |-> {"closure", "cluster", "wallet"},
   dumpTX       |-> {"dumptx", "txinfo", "txshow", "showtx", "txdetails"},
   headers      |-> {"headers"},
   help         |-> {"help", "-h", "-help", "--help", "manpage", "usage", "doc"},
   pristine     |-> {"pristine"},
   rawdump      |-> {"rawdump"},
   rewards      |-> {"rewards"},
   simpleStats  |-> {"simplestats", "stats"},
   sqldump      |-> {"sqldump", "dump"},
   taint        |-> {"taint", "trace"},
   transactions |-> {"transactions", "txs", "book", "tally"},
   txInputs     |-> {"txinputs", "tx_inputs"},
   txotype      |-> {"txotype"}]

callbacks == DOMAIN Names

\* strncasecmp over the length of the shorter word
Agree(nm, name) ==
  LET x == IF Len(nm) < Len(name) THEN Len(nm) ELSE Len(name)
  IN  SubSeq(nm, 1, x) = SubSeq(name, 1, x)

\* mutant: a word spelled out in full is preferred to the other matches
FoundInFull(name) ==
  LET full == {c \in callbacks : name \in Names[c]}
  IN  IF full # {} THEN full
      ELSE {c \in callbacks : \E nm \in Names[c] : Agree(nm, name)}

Found(name) == {c \in callbacks : \E nm \in Names[c] : Agree(nm, name)}

\* What becomes of the program: the one command found, no command, or too
\* many.  The last two end it, except for "help", which must not have a rival.
Unknown == "unknown command name"
Ambiguous == "ambiguous command name"
find(name) ==
  LET found == Found(name)
  IN  CASE Cardinality(found) = 1 -> CHOOSE c \in found : TRUE
        [] found = {}             -> Unknown
        [] OTHER                  -> Ambiguous

\* main() looks for help when nothing is typed
Command(name) == find(IF name = "" THEN "help" ELSE name)
=============================================================================
