----------------------------- MODULE SharedRace -----------------------------
(***************************************************************************)
(* What lockstep promises: one race.  Every tick of it is decided once,    *)
(* by the first console to run it, and the other console runs exactly the  *)
(* same tick, at most Lead ticks later.                                    *)
(***************************************************************************)
EXTENDS Integers, Sequences

CONSTANTS
  Player,  (* the consoles                                                *)
  Lead     (* how many ticks one console may be ahead of another          *)

VARIABLES
  race,    (* the ticks of the race, each with the input it ran on        *)
  done     (* done[p]: how many of them p's simulation has run            *)

Init ==
  /\ race = <<>>
  /\ done = [p \in Player |-> 0]

(* The race gains one tick and keeps every earlier one.                    *)
Extend ==
  /\ Len(race') = Len(race) + 1
  /\ SubSeq(race', 1, Len(race)) = race

RunTick(p) ==
  /\ \A q \in Player : done[p] + 1 <= done[q] + Lead
  /\ IF done[p] = Len(race) THEN Extend ELSE UNCHANGED race
  /\ done' = [done EXCEPT ![p] = @ + 1]

Next == \E p \in Player : RunTick(p)

Spec == Init /\ [][Next]_<<race, done>>
=============================================================================
