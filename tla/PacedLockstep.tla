---------------------------- MODULE PacedLockstep ----------------------------
(***************************************************************************)
(* Lockstep in real time.  Both televisions draw sixty frames a second, so *)
(* the consoles take turns; a console's transport steps follow its own     *)
(* shim in the same overscan (DGWAIT); and the transactions of a trip      *)
(* round WRITE, STATUS and READ take a number of frames.  The relay and    *)
(* the network lose, damage and hold back nothing.                         *)
(*                                                                         *)
(* READ asks for what STATUS counted (DGRDN, dgnet.inc:226-276): all that  *)
(* has been written when the STATUS is answered, and nothing that comes    *)
(* later.  So the records leave the network at the STATUS, Lockstep's      *)
(* Read, and the first of them is consumed when the READ is answered.      *)
(***************************************************************************)
EXTENDS Lockstep

CONSTANTS
  Slack,         (* micro-steps that fit in one overscan                  *)
  HostTrip,      (* how many frames the host's WRITE and STATUS take      *)
  GuestTrip,     (* ... and the guest's: the possible numbers             *)
  HostFetch,     (* how many frames the host's READ takes                 *)
  GuestFetch     (* ... and the guest's                                   *)

ASSUME Pace ==
  /\ Slack \in Nat \ {0}
  /\ HostTrip \in SUBSET (Nat \ {0}) /\ GuestTrip \in SUBSET (Nat \ {0})
  /\ HostFetch \in SUBSET Nat /\ GuestFetch \in SUBSET Nat

VARIABLES
  turn,    (* the console whose video frame is next                       *)
  steps,   (* micro-steps made since the last frame                       *)
  trip,    (* frames since the WRITE of the trip in flight                *)
  asked,   (* its STATUS found records, and its READ is in flight         *)
  fetch,   (* frames that READ has taken                                  *)
  frozen   (* video frames drawn since the simulation last advanced       *)

pacedVars == <<vars, turn, steps, trip, asked, fetch, frozen>>

Trip(c) == IF c = "host" THEN HostTrip ELSE GuestTrip
Fetch(c) == IF c = "host" THEN HostFetch ELSE GuestFetch

PacedInit ==
  /\ Init
  /\ turn = "host"
  /\ steps = 0
  /\ trip = [c \in Console |-> 0]
  /\ asked = [c \in Console |-> FALSE]
  /\ fetch = [c \in Console |-> 0]
  /\ frozen = [c \in Console |-> 0]

(* The transaction in flight may still take another frame.                 *)
Travelling(c) ==
  \/ nst[c] = "SACK" /\ \E n \in Trip(c) : trip[c] < n
  \/ asked[c] /\ \E n \in Fetch(c) : fetch[c] < n

(* DGWLOOP ends when INTIM falls below DGGATE.  A machine that is waiting  *)
(* for the cartridge spends the rest of the overscan asking.               *)
OverscanOver(c) ==
  \/ ~Racing(c) \/ tick[c] < 0
  \/ steps = Slack
  \/ Travelling(c)

(* DGWAIT up to its loop: the shim of c, once the other has finished.      *)
Frame(c) ==
  /\ turn = c
  /\ OverscanOver(Peer(c))
  /\ turn' = Peer(c)
  /\ steps' = 0
  /\ \/ DGSHIM(c)
     \/ ~Racing(c) /\ UNCHANGED vars
  /\ LET p == Peer(c)
     IN  /\ trip' = [trip EXCEPT ![p] = IF Travelling(p) THEN @ + 1 ELSE @]
         /\ fetch' = [fetch EXCEPT ![p] = IF Travelling(p) /\ asked[p] THEN @ + 1 ELSE @]
  /\ UNCHANGED asked
  /\ frozen' = [frozen EXCEPT ![c] =
       IF clk'[c] > clk[c] THEN 0 ELSE IF Racing(c) THEN @ + 1 ELSE @]

(* DGSSACK: STATUS counts whatever has arrived, and READ asks for that.    *)
ReadAsked(c) == asked' = [asked EXCEPT ![c] = net[c] # <<>>]
Status(c) ==
  /\ nst[c] = "SACK"
  /\ trip[c] \in Trip(c)
  /\ net'[c] = <<>>
  /\ ReadAsked(c)

(* WRITE, or a record consumed: the first one ends the READ.               *)
Proceed(c) ==
  /\ nst[c] # "SACK"
  /\ nst[c] = "WISS" => net'[Peer(c)] # net[Peer(c)] \/ ~Racing(Peer(c))
  /\ asked[c] => fetch[c] \in Fetch(c)
  /\ asked' = [asked EXCEPT ![c] = FALSE]

(* DGWLOOP: transport steps of c until the timer runs out.                 *)
Overscan(c) ==
  /\ turn = Peer(c)
  /\ steps < Slack
  /\ DGNSTEP(c)
  /\ Status(c) \/ Proceed(c)
  /\ trip' = [trip EXCEPT ![c] = IF asked'[c] THEN @ ELSE 0]
  /\ fetch' = [fetch EXCEPT ![c] = 0]
  /\ steps' = steps + 1
  /\ UNCHANGED <<turn, frozen>>

Leave(c) == PowerOff(c) /\ UNCHANGED <<turn, steps, trip, asked, fetch, frozen>>

PacedNext == \E c \in Console : Frame(c) \/ Overscan(c) \/ Leave(c)

PacedSpec == PacedInit /\ [][PacedNext]_pacedVars

-----------------------------------------------------------------------------
(* As long as both consoles race, every tick they ran, they ran on the     *)
(* bytes both players captured: no gap, burst or stale slot gets past the  *)
(* gate (dgnet.inc:303-305 and 348-351 say so of any network).             *)
RacingAsOne == (\A c \in Console : Racing(c)) => SameInputs

(* The next record a READ can return is never more than a window ahead of  *)
(* the watermark: "a gap wider than that ... lockstep prevents it"         *)
(* (dgnet.inc:139-145).  The first D ticks are seeded on both consoles.    *)
Unfilled(c) == rwat[c] + Win < net[c][1].tick /\ D - 1 + Win < net[c][1].tick
WindowCovers ==
  \A c \in Console :
    ~ /\ Racing(c)
      /\ reply[c] = <<>> /\ net[c] # <<>>
      /\ net[c][1].type = "INPUT" /\ Unfilled(c)

(* No console gives up for gone a peer that is there (DGSTALL and DGGONE,  *)
(* dgcap.inc:77-92): the watchdog and the PEER LEFT frame tell the truth.  *)
NobodyLeft == \A c \in Console : mode[c] = "left" => mode[Peer(c)] = "off"

(* The watchdog waits a second: "fifteen in a row at four frames each"     *)
(* (dgcap.inc:77-79).                                                      *)
WaitsASecond ==
  \A c \in Console : mode[c] = "left" /\ err[c] # "peer" => frozen[c] >= StallMax * K

(* A clean leave is instant "instead of making the player wait out the     *)
(* same second an unplugged console would cost" (dgnet.inc:327-330): once  *)
(* PEER_LEFT has been consumed the watchdog is not counted up again.       *)
CleanLeaveInstant ==
  [][\A c \in Console : err[c] = "peer" => stall'[c] <= stall[c]]_pacedVars
=============================================================================
