-------------------------------- MODULE Repair --------------------------------
(***************************************************************************)
(* The desync repair, end to end.  At some tick of a race in real time a   *)
(* cell of one console's simulation differs from the other's, for whatever *)
(* reason: a checksum tells (DGCO2), RESET is pressed into the next wire   *)
(* byte (DGRSY), and D ticks later both consoles restage on the same tick. *)
(*                                                                         *)
(* Only samples of the same tick are compared, so how soon the desync is   *)
(* seen depends on how the two transports run past each other.  Here each  *)
(* console's transactions take a number of frames of its own, the same     *)
(* one throughout a race, and every pair of numbers is tried.              *)
(***************************************************************************)
EXTENDS PacedLockstep

CONSTANTS
  Few    (* ticks within which a divergence is to be over                  *)

ASSUME Soon == Few \in Nat

VARIABLES
  pace,   (* the frames a console's WRITE and STATUS take, and its READ    *)
  bent    (* how many ticks had run when the cell changed; 0 before that   *)

repairVars == <<pacedVars, pace, bent>>

RepairInit ==
  /\ PacedInit
  /\ pace \in [Console -> [trip : HostTrip \cup GuestTrip, fetch : HostFetch \cup GuestFetch]]
  /\ \A c \in Console : pace[c].trip \in Trip(c) /\ pace[c].fetch \in Fetch(c)
  /\ bent = 0

(* A transaction ends on the frame its console's pace says.                *)
InPace ==
  \A c \in Console :
    /\ trip'[c] - fetch'[c] <= pace[c].trip /\ fetch'[c] <= pace[c].fetch
    /\ nst[c] = "SACK" /\ nst'[c] # "SACK" => trip[c] = pace[c].trip
    /\ asked[c] /\ ~asked'[c] => fetch[c] = pace[c].fetch

(* A cell of the state the last tick left is no longer what the inputs     *)
(* make it: the tick's own byte stands for it.  The cell is one of those   *)
(* a restage rebuilds, or a SELECT nobody pressed has moved GameVar too.   *)
Astray == -2
Diverge(c) ==
  /\ bent = 0 /\ Racing(c) /\ applied[c] # <<>>
  /\ bent' = Len(applied[c])
  /\ \/ applied' = [applied EXCEPT ![c][bent'][1].at = Astray]
     \/ applied' = [applied EXCEPT ![c][bent'][1].sel = ~@]
  /\ UNCHANGED <<mode, phase, ran, tick, stall, err, loc, ring, rwat, crcv, rsy, clk, cap,
                 presses, xportVars, turn, steps, trip, asked, fetch, frozen, pace>>

RepairNext ==
  \/ PacedNext /\ InPace /\ UNCHANGED <<pace, bent>>
  \/ \E c \in Console : Diverge(c)

RepairSpec == RepairInit /\ [][RepairNext]_repairVars

-----------------------------------------------------------------------------
(* The ticks both consoles have run, and the cells the checksum covers as  *)
(* a console had them after n of them.                                     *)
BothRan == DOMAIN applied["host"] \cap DOMAIN applied["guest"]
CellsAfter(c, n) == DGCRC(SubSeq(applied[c], 1, n), 0)

(* The repair is quick and it ends: a few ticks after a divergence the two *)
(* consoles are "not merely consistent but equal" (dgcrc.inc:98-100),      *)
(* because "the ticks line up within a few of them" (dgnet.inc:386-387),   *)
(* and they stay equal with no repair left to press; unless GameVar is     *)
(* among the cells that differ, which no RESET restores.                   *)
Repaired ==
  bent # 0 /\ (\A c \in Console : Racing(c)) =>
    \A n \in BothRan :
      n >= bent + Few /\ CellsAfter("host", n).gameVar = CellsAfter("guest", n).gameVar =>
        /\ CellsAfter("host", n) = CellsAfter("guest", n)
        /\ \A c \in Console : tick[c] >= n => ~rsy[c]

(* "Every cell the checksum covers is either cleared by the restage or     *)
(* rewritten by StageRace, so the two consoles come back not merely        *)
(* consistent but equal" (dgcrc.inc:98-100): whichever cell it was.        *)
RepairIsTotal ==
  bent # 0 /\ (\A c \in Console : Racing(c)) =>
    \A n \in BothRan : n >= bent + Few => CellsAfter("host", n) = CellsAfter("guest", n)

HasPressed(c) == \E i \in DOMAIN cap[c] : i > bent /\ cap[c][i].rst

(* "A desync is persistent, and the ticks line up within a few of them"    *)
(* (dgnet.inc:386-387): within a few ticks one of the two consoles has     *)
(* compared two checksums of the same tick, and seen it.                   *)
TicksLineUp ==
  bent # 0 /\ (\A c \in Console : Racing(c) /\ tick[c] >= bent + Few) =>
    \E c \in Console : rsy[c] \/ HasPressed(c)

(* "One-shot ... the press lasts exactly one tick" (dgcrc.inc:94-95), and  *)
(* records from before the repair "must not arm it again on their way      *)
(* past" (dgnet.inc:399-401): a console that has pressed RESET for this    *)
(* divergence is not armed a second time.                                  *)
OneShot == [][\A c \in Console : HasPressed(c) /\ rsy'[c] => rsy[c]]_repairVars
=============================================================================
