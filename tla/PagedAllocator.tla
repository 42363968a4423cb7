--------------------------- MODULE PagedAllocator ---------------------------
(***************************************************************************)
(* PagedAllocator<T> of memory_manager.h: cells are cut from pages one     *)
(* after the other, and a freed cell goes on the list garbageCollection,   *)
(* whose last element the next allocation takes, contents and all.         *)
(* Cells are numbered from 1 in the order they are cut; 0 is the null      *)
(* pointer.  Pages only matter for the contents of a new cell (zeroes).    *)
(***************************************************************************)
EXTENDS Integers, SequencesExt

NullCell == 0

(* cut: number of cells cut from pages; garbage: the cells freed. *)
EmptyPool == [cut |-> 0, garbage |-> <<>>]

IsPool(pool, maxCells) ==
    /\ pool.cut \in 0 .. maxCells
    /\ pool.garbage \in Seq(1 .. maxCells)

(* The cell that alloc() returns, and the pool after it. *)
Cell(pool) ==
    IF pool.garbage = <<>> THEN pool.cut + 1 ELSE Last(pool.garbage)

Alloc(pool) ==
    IF pool.garbage = <<>> THEN [pool EXCEPT !.cut = @ + 1]
    ELSE [pool EXCEPT !.garbage = Front(@)]

(* A mutant of Free: the header in front of the object is forgotten. *)
FreeUnadjusted(pool, cell) ==       \* breaks TypeOK of TxoIndex
    [pool EXCEPT !.garbage = Append(@, cell - 1)]

(* The pool after free(cell). *)
Free(pool, cell) == [pool EXCEPT !.garbage = Append(@, cell)]

(* The cells handed out and not freed. *)
InUse(pool) == (1 .. pool.cut) \ ToSet(pool.garbage)

(* No cell is on the list twice: else it would be handed out twice. *)
IsSound(pool) ==
    /\ IsInjective(pool.garbage)
    /\ ToSet(pool.garbage) \subseteq 1 .. pool.cut
=============================================================================
