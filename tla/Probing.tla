------------------------------ MODULE Probing ------------------------------
(***************************************************************************)
(* Linear probing, the loop                                                *)
(*                                                                         *)
(*     while (...) slot = (slot + 1) & mask;                               *)
(*                                                                         *)
(* of the string table's index and of the trigram builder's two tables, in *)
(* one step: where it ends, from a home slot on.  HashTable.tla takes the  *)
(* same loop of hashLookup.ts turn by turn.                                *)
(***************************************************************************)
EXTENDS Naturals

\* The first of the slots `stops` from `home` on.
FirstStop(home, capacity, stops) ==
    LET Turn(d) == (home + d) % capacity
        turns == CHOOSE d \in 0 .. capacity - 1 :
                     Turn(d) \in stops /\ \A c \in 0 .. d - 1 : Turn(c) \notin stops
    IN  Turn(turns)
=============================================================================
