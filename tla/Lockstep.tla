------------------------------ MODULE Lockstep ------------------------------
(***************************************************************************)
(* The lockstep core of networked Dragster: the per-frame gate (DGSHIM,    *)
(* dginput.inc), the capture and the stall watchdog (dgcap.inc, dgcrc.inc),*)
(* and the free-running transport machine (dgnet.inc) of two consoles      *)
(* joined by a relay that forwards records in order.                       *)
(*                                                                         *)
(* A console is one 6502 thread: DGSHIM once per video frame, then         *)
(* DGNSTEP as often as the overscan timer allows.  Each of those is one    *)
(* atomic step here, interleaved freely: how many micro-steps fit in a     *)
(* frame, how long the cartridge takes to answer and how long the network  *)
(* holds a record are all unknown to the code.                             *)
(*                                                                         *)
(* Ticks are kept as the unbounded integers they stand for; the code holds *)
(* them in one byte, so every comparison and every ring index below sees   *)
(* them only modulo TickMod, RingSize or LocSize.                          *)
(***************************************************************************)
EXTENDS Integers, Sequences, FiniteSets

CONSTANTS
  D,          (* DGD: input delay in ticks                               *)
  K,          (* DGK: video frames per tick                              *)
  Win,        (* DGWIN: ticks of input carried by one record             *)
  LocSize,    (* DGLM+1: slots of the local input ring                   *)
  RingSize,   (* slots of the remote input ring                          *)
  TickMod,    (* 2^8: the tick is one byte                               *)
  StallMax,   (* $F: the stall count that fits DGERR's high nibble       *)
  ReadCap,    (* 31: records in the largest READ                         *)
  MaxTick,    (* bound: the last tick explored                           *)
  MaxNet,     (* bound: unread records towards one console               *)
  MaxPresses, (* bound: presses of RESET and SELECT by the players       *)
  MaxFaults,  (* bound: failed transactions and corrupt records          *)
  MayLeave    (* the consoles that may be switched off during the race   *)

Console == {"host", "guest"}
Peer(c) == IF c = "host" THEN "guest" ELSE "host"

ASSUME Sizes ==
  /\ D \in Nat \ {0} /\ K \in Nat \ {0} /\ Win \in Nat \ {0}
  /\ LocSize \in Nat /\ RingSize \in Nat \ {0} /\ TickMod \in Nat
  /\ Win <= LocSize /\ D < LocSize /\ Win <= RingSize
  /\ StallMax \in Nat /\ ReadCap \in Nat \ {0}
  /\ MaxTick \in Nat /\ MaxNet \in Nat /\ MaxPresses \in Nat /\ MaxFaults \in Nat
  /\ MayLeave \subseteq Console

(* The byte's wrap is invisible as long as the distances that are compared *)
(* stay inside half of it, and the masks divide it.                        *)
ASSUME HalfRange ==
  /\ TickMod \div 2 >= 2 * D + 4
  /\ TickMod % RingSize = 0 /\ TickMod % LocSize = 0

(* The remote ring holds what a console and its peer can be apart.         *)
ASSUME RingFits == RingSize >= 2 * D + 2

(* It also holds the windows of two records a window apart, so an older    *)
(* record of one reply writes over no tick a newer one brought.            *)
ASSUME WindowsFit == 2 * Win <= RingSize

VARIABLES
  mode,     (* "race"; "left": the PEER LEFT screen; "off": no power      *)
  phase,    (* DGE_PH: frame within the tick                              *)
  ran,      (* DGE_RAN: the last boundary ran its tick                    *)
  tick,     (* DGTICK                                                     *)
  stall,    (* DGERR's high nibble                                        *)
  err,      (* DGERR's low nibble: the last transport error              *)
  loc,      (* DGLOC: own bytes, by tick                                  *)
  ring,     (* DGRING: the peer's bytes, by tick                          *)
  rwat,     (* DGRWAT: highest remote tick received                       *)
  crcv,     (* DGCRCV: checksum of the state entering tick                *)
  rsy,      (* DGE_RSY: a desync was seen, press RESET                    *)
  clk,      (* FrameCnt: simulated frames                                 *)
  nst,      (* DGNST: state of the transport machine                      *)
  reply,    (* the records of the reply window still to consume; DGRDN is *)
            (* their number                                               *)
  net,      (* net[c]: records on their way to c, oldest first            *)
  applied,  (* applied[c]: the pairs of bytes the simulation consumed     *)
  cap,      (* history: every byte captured, first for tick D             *)
  presses,  (* history: presses of RESET and SELECT so far                *)
  faults    (* history: faults so far                                     *)

gateVars == <<phase, ran, tick, loc, crcv, rsy, clk, applied, cap, presses>>
xportVars == <<nst, reply, net, faults>>
vars == <<mode, stall, err, ring, rwat, gateVars, xportVars>>

-----------------------------------------------------------------------------
(* An input byte.  "at" is the tick it was captured for, which the wire    *)
(* byte does not carry: it tells a byte of this lap of the ring from one   *)
(* of an earlier lap.  Of its bits the two switches matter to the netcode, *)
(* RESET and SELECT.                                                       *)
Idle == [at |-> -1, rst |-> FALSE, sel |-> FALSE]
Byte == [at : Nat \cup {-1}, rst : BOOLEAN, sel : BOOLEAN]

(* What the players' two bytes are once the lane decides their order.      *)
Pair(c, own, remote) == IF c = "host" THEN <<own, remote>> ELSE <<remote, own>>

(* The switches are ANDed in the mixer: either player may press them, and  *)
(* "a restage happens on every RESET and every SELECT" (dgdefs.inc:103).   *)
Selects(pair) == pair[1].sel \/ pair[2].sel
Restages(pair) == pair[1].rst \/ pair[2].rst \/ Selects(pair)

(* What a restage rebuilds is a function of the pairs applied since, so    *)
(* those pairs, by tick, stand for it.  GameVar, the one of two games that *)
(* is played, is not rebuilt: every SELECT ever applied moved it on.  The  *)
(* checksum covers both of these and FrameCnt, with no collisions.         *)
DGCRC(a, frames) ==
  [frames |-> frames,
   gameVar |-> Cardinality({i \in DOMAIN a : Selects(a[i])}) % 2,
   state |-> {<<i, a[i]>> : i \in {k \in DOMAIN a : \A j \in k .. Len(a) : ~Restages(a[j])}}]

(* sec / sbc / bpl: a - b as a signed byte is not negative.                *)
(* Mutant: the unsigned compare.                                           *)
UnsignedNotBehind(a, b) == a % TickMod >= b % TickMod
NotBehind(a, b) == (a - b) % TickMod < TickMod \div 2

Racing(c) == mode[c] = "race"

Init ==
  /\ mode = [c \in Console |-> "race"]
  /\ phase = [c \in Console |-> 0]
  /\ ran = [c \in Console |-> TRUE]
  /\ tick = [c \in Console |-> -1]
  /\ stall = [c \in Console |-> 0]
  /\ err = [c \in Console |-> "none"]
  /\ loc = [c \in Console |-> [i \in 0 .. LocSize - 1 |-> Idle]]
  /\ ring = [c \in Console |-> [i \in 0 .. RingSize - 1 |-> Idle]]
  /\ rwat = [c \in Console |-> -2]
  /\ crcv = [c \in Console |-> DGCRC(<<>>, 0)]
  /\ rsy = [c \in Console |-> FALSE]
  /\ clk = [c \in Console |-> 0]
  /\ nst = [c \in Console |-> "WISS"]
  /\ reply = [c \in Console |-> <<>>]
  /\ net = [c \in Console |-> <<>>]
  /\ applied = [c \in Console |-> <<>>]
  /\ cap = [c \in Console |-> <<>>]
  /\ presses = 0
  /\ faults = 0

-----------------------------------------------------------------------------
(* The gate: DGSHIM, once per video frame.                                 *)

(* Mid-tick: the shadows stay, the phase and the sim clock move.           *)
MidTick(c) ==
  /\ Racing(c)
  /\ phase[c] # 0
  /\ phase' = [phase EXCEPT ![c] = (@ + 1) % K]
  /\ clk' = [clk EXCEPT ![c] = @ + 1]
  /\ UNCHANGED <<mode, ran, tick, stall, err, loc, ring, rwat, crcv, rsy, applied,
                 cap, presses, xportVars>>

(* The switch the player holds down at a boundary, if any.                 *)
Switch == {"none", "RESET", "SELECT"}

(* DGCAP and DGRSY: a pending repair presses RESET once.                   *)
(* Mutant: the bit is cleared and RESET is not pressed.                    *)
ClearedOnly(c, t, press) ==
  [at |-> t + D, rst |-> press = "RESET", sel |-> press = "SELECT"]
DGCAP(c, t, press) ==
  [at |-> t + D, rst |-> press = "RESET" \/ rsy[c], sel |-> press = "SELECT"]

(* DGNT1: only a boundary whose predecessor ran moves the tick, samples    *)
(* the checksum and captures the stick, for D ticks ahead.                 *)
Commit(c, press) ==
  LET t == tick[c] + 1
      byte == DGCAP(c, t, press)
  IN  /\ t <= MaxTick
      /\ press # "none" => presses < MaxPresses
      /\ tick' = [tick EXCEPT ![c] = t]
      /\ crcv' = [crcv EXCEPT ![c] = DGCRC(applied[c], clk[c])]
      /\ loc' = [loc EXCEPT ![c][(t + D) % LocSize] = byte]
      /\ rsy' = [rsy EXCEPT ![c] = FALSE]
      /\ cap' = [cap EXCEPT ![c] = Append(@, byte)]
      /\ presses' = presses + (IF press = "none" THEN 0 ELSE 1)

(* A boundary that is retried changes none of it.                          *)
(* Mutant: the retry captures the stick again.                             *)
RecaptureOnRetry(c) ==
  LET Press(press) ==
        [at |-> tick[c] + D, rst |-> press = "RESET", sel |-> press = "SELECT"]
  IN  \E press \in Switch :
        /\ loc' = [loc EXCEPT ![c][(tick[c] + D) % LocSize] = Press(press)]
        /\ UNCHANGED <<tick, crcv, rsy, cap, presses>>
Retry(c) == UNCHANGED <<tick, crcv, loc, rsy, cap, presses>>

Advance(c) ==
  \/ ran[c] /\ \E press \in Switch : Commit(c, press)
  \/ ~ran[c] /\ Retry(c)

(* The gate: has the peer's input for tick t arrived?                      *)
(* Mutants: the gate opens one tick early, or late: a compare that leaves  *)
(* out the equal case.                                                     *)
ArrivedEarly(c, t) == NotBehind(rwat[c] + 1, t)
ArrivedLate(c, t) == NotBehind(rwat[c], t + 1)
Arrived(c, t) == NotBehind(rwat[c], t)

(* DGNT2 and DGMIX: the tick runs on our byte of D ticks ago and the       *)
(* remote ring's byte; the stall count is cleared.                         *)
RunTick(c) ==
  LET t == tick'[c]
  IN  /\ Arrived(c, t)
      /\ stall' = [stall EXCEPT ![c] = 0]
      /\ applied' = [applied EXCEPT ![c] =
           Append(@, Pair(c, loc'[c][t % LocSize], ring[c][t % RingSize]))]
      /\ ran' = [ran EXCEPT ![c] = TRUE]
      /\ phase' = [phase EXCEPT ![c] = (@ + 1) % K]
      /\ clk' = [clk EXCEPT ![c] = @ + 1]
      /\ UNCHANGED mode

(* The stall count fills DGERR's high nibble.  Mutant: one stall more.     *)
SaturatedLate(c) == stall[c] > StallMax
Saturated(c) == stall[c] >= StallMax

(* What a stalled frame leaves alone: neither the phase nor the sim clock  *)
(* moves.  Mutant: the clock counts every frame the television draws.      *)
ClockCountsStalls(c) ==
  /\ clk' = [clk EXCEPT ![c] = @ + 1]
  /\ UNCHANGED <<phase, applied>>
Frozen(c) == UNCHANGED <<phase, clk, applied>>

(* DGSTALL, and DGGONE once the count is saturated.                        *)
Stall(c) ==
  /\ ~Arrived(c, tick'[c])
  /\ \/ ~Saturated(c) /\ stall' = [stall EXCEPT ![c] = @ + 1] /\ UNCHANGED mode
     \/ Saturated(c) /\ mode' = [mode EXCEPT ![c] = "left"] /\ UNCHANGED stall
  /\ ran' = [ran EXCEPT ![c] = FALSE]
  /\ Frozen(c)

Boundary(c) ==
  /\ Racing(c)
  /\ phase[c] = 0
  /\ Advance(c)
  /\ RunTick(c) \/ Stall(c)
  /\ UNCHANGED <<err, ring, rwat, xportVars>>

DGSHIM(c) == MidTick(c) \/ Boundary(c)

-----------------------------------------------------------------------------
(* The transport machine: DGNSTEP.  DGWAIT runs the shim before the first  *)
(* step, so no step ever sees the tick the handover left.                  *)
(*                                                                         *)
(* The machine goes round WRITE, STATUS, READ, consume.  An ISSUE step     *)
(* only fills the mailbox, and a step that finds no answer yet does        *)
(* nothing, so what the two consoles can tell apart is when the WRITE's    *)
(* record is latched, how many records the STATUS counted when the READ    *)
(* took them, and each record consumed.                                    *)
(* Mutant: the transport is stepped only on frames the simulation took.    *)
SteppingUnstalled(c, s) == Racing(c) /\ ran[c] /\ tick[c] >= 0 /\ nst[c] = s
Stepping(c, s) == Racing(c) /\ tick[c] >= 0 /\ nst[c] = s

Goto(c, s) == nst' = [nst EXCEPT ![c] = s]

(* The record for tick + D: the window's newest byte first, the checksum   *)
(* of the last boundary.  "good" is what the check byte will say of it.    *)
RecordOf(c, good) ==
  LET t == tick[c] + D
  IN  [type |-> "INPUT", tick |-> t, good |-> good, crc |-> crcv[c],
       win |-> [i \in 1 .. Win |-> loc[c][(t - (i - 1)) % LocSize]]]

LeftFrame == [type |-> "LEFT"]

(* One more record on its way to p.  A copy of a record that is itself     *)
(* still unread may be left out: both would sit side by side in one reply. *)
(* Nobody reads what is sent to a console that is no longer in the race.   *)
Send(p, rec) ==
  \/ Racing(p) /\ Len(net[p]) < MaxNet /\ net' = [net EXCEPT ![p] = Append(@, rec)]
  \/ Racing(p) /\ net[p] # <<>> /\ net[p][Len(net[p])] = rec /\ UNCHANGED net
  \/ ~Racing(p) /\ UNCHANGED net

(* WRITE: the record is sent whole, or it reaches the peer damaged.        *)
Write(c) ==
  /\ Stepping(c, "WISS")
  /\ \/ Send(Peer(c), RecordOf(c, TRUE)) /\ UNCHANGED faults
     \/ /\ faults < MaxFaults /\ faults' = faults + 1
        /\ Send(Peer(c), RecordOf(c, FALSE))
  /\ Goto(c, "SACK")
  /\ UNCHANGED <<mode, stall, err, ring, rwat, gateVars, reply>>

(* STATUS and READ: n whole records have arrived, the rest is still in the *)
(* network; with none it is time to WRITE again.  At most ReadCap are read.*)
Read(c) ==
  /\ Stepping(c, "SACK")
  /\ \E n \in 0 .. Len(net[c]) :
       /\ n <= ReadCap
       /\ reply' = [reply EXCEPT ![c] = SubSeq(net[c], 1, n)]
       /\ net' = [net EXCEPT ![c] = SubSeq(@, n + 1, Len(@))]
       /\ Goto(c, IF n = 0 THEN "WISS" ELSE "CONS")
  /\ UNCHANGED <<mode, stall, err, ring, rwat, gateVars, faults>>

(* DGSFAIL: the WRITE is refused before it is sent, or the answer to the   *)
(* WRITE, the STATUS or the READ carries an error.  The cycle starts again *)
(* and nothing that is still in the socket is lost.                        *)
Fail(c) ==
  /\ Stepping(c, "WISS") \/ Stepping(c, "SACK")
  /\ faults < MaxFaults /\ faults' = faults + 1
  /\ err' = [err EXCEPT ![c] = "bad"]
  /\ Goto(c, "WISS")
  /\ UNCHANGED <<mode, stall, ring, rwat, gateVars, reply, net>>

(* The whole window goes into the ring, each byte into its own tick's slot. *)
(* Mutant: only the newest byte does.                                      *)
FillNewest(slots, rec) == [slots EXCEPT ![rec.tick % RingSize] = rec.win[1]]
Fill(slots, rec) ==
  [s \in 0 .. RingSize - 1 |->
     LET i == (rec.tick - s) % RingSize
     IN  IF i < Win THEN rec.win[i + 1] ELSE slots[s]]

(* A checksum is comparable only when it is of the tick we are on.         *)
(* Mutant: it is compared whatever its tick.                               *)
AlwaysComparable(c, rec) == TRUE
Comparable(c, rec) == (rec.tick - D - tick[c]) % TickMod = 0

(* Only a newer record moves the watermark.  Mutant: every record does.    *)
LatestReceived(mark, rec) == rec.tick
Watermark(mark, rec) == IF NotBehind(rec.tick, mark) THEN rec.tick ELSE mark

ConsumeInput(c, rec) ==
  /\ ring' = [ring EXCEPT ![c] = Fill(@, rec)]
  /\ rsy' = [rsy EXCEPT ![c] = @ \/ (Comparable(c, rec) /\ rec.crc # crcv[c])]
  /\ rwat' = [rwat EXCEPT ![c] = Watermark(@, rec)]

(* DGSCONS: one record a step, the last one of the reply window first;     *)
(* after the first one the machine goes back to WRITE.                     *)
Consume(c) ==
  LET rec == reply[c][Len(reply[c])]
  IN  /\ Stepping(c, "CONS")
      /\ reply' = [reply EXCEPT ![c] = SubSeq(@, 1, Len(@) - 1)]
      /\ Goto(c, IF Len(reply[c]) = 1 THEN "WISS" ELSE "CONS")
      /\ \/ /\ rec.type = "INPUT" /\ rec.good
            /\ ConsumeInput(c, rec)
            /\ UNCHANGED <<stall, err>>
         \/ /\ rec.type = "INPUT" /\ ~rec.good
            /\ UNCHANGED <<ring, rsy, rwat, stall, err>>
         \/ /\ rec.type = "LEFT"
            /\ stall' = [stall EXCEPT ![c] = StallMax]
            /\ err' = [err EXCEPT ![c] = "peer"]
            /\ UNCHANGED <<ring, rsy, rwat>>
      /\ UNCHANGED <<mode, phase, ran, tick, loc, crcv, clk, applied, cap, presses,
                     net, faults>>

DGNSTEP(c) == Write(c) \/ Read(c) \/ Fail(c) \/ Consume(c)

-----------------------------------------------------------------------------
(* A console is switched off or unplugged.  The relay tells the peer when  *)
(* it sees the socket close, and says nothing when it does not.            *)
PowerOff(c) ==
  /\ c \in MayLeave
  /\ Racing(c)
  /\ mode' = [mode EXCEPT ![c] = "off"]
  /\ \/ net' = [net EXCEPT ![Peer(c)] = Append(@, LeftFrame)]
     \/ UNCHANGED net
  /\ UNCHANGED <<stall, err, ring, rwat, gateVars, nst, reply, faults>>

Next == \E c \in Console : DGSHIM(c) \/ DGNSTEP(c) \/ PowerOff(c)

Spec == Init /\ [][Next]_vars

-----------------------------------------------------------------------------
(* The byte c captured for tick t; nobody captures for the first D ticks.  *)
Captured(c, t) == IF t < D THEN Idle ELSE cap[c][t - D + 1]

(* The input records c has still to consume, in the network or in its      *)
(* reply window.                                                           *)
Queued(c) == {net[c][i] : i \in DOMAIN net[c]}
Window(c) == {reply[c][i] : i \in DOMAIN reply[c]}
Unread(c) == {r \in Queued(c) \cup Window(c) : r.type = "INPUT"}

(* Type correctness: the cells hold what dgdefs.inc says they hold.        *)
Crc == [frames : Nat, gameVar : 0 .. 1, state : SUBSET (Nat \X (Byte \X Byte))]
Record == [type : {"INPUT"}, tick : Nat, good : BOOLEAN, crc : Crc, win : [1 .. Win -> Byte]]
Message == Record \cup {LeftFrame}

GateTypes ==
  /\ mode \in [Console -> {"race", "left", "off"}]
  /\ phase \in [Console -> 0 .. K - 1]
  /\ ran \in [Console -> BOOLEAN]
  /\ stall \in [Console -> 0 .. StallMax]
  /\ clk \in [Console -> Nat]
  /\ applied \in [Console -> Seq(Byte \X Byte)]
CaptureTypes ==
  /\ tick \in [Console -> Nat \cup {-1}]
  /\ loc \in [Console -> [0 .. LocSize - 1 -> Byte]]
  /\ crcv \in [Console -> Crc]
  /\ rsy \in [Console -> BOOLEAN]
  /\ cap \in [Console -> Seq(Byte)]
  /\ presses \in Nat
RemoteTypes ==
  /\ ring \in [Console -> [0 .. RingSize - 1 -> Byte]]
  /\ rwat \in [Console -> Int]
  /\ err \in [Console -> {"none", "bad", "peer"}]
TransportTypes ==
  /\ nst \in [Console -> {"WISS", "SACK", "CONS"}]
  /\ reply \in [Console -> Seq(Message)]
  /\ net \in [Console -> Seq(Message)]
  /\ faults \in Nat
TypeOK == GateTypes /\ CaptureTypes /\ RemoteTypes /\ TransportTypes

(* Neither simulation is ever more than D+1 ticks past the other: the gate *)
(* (dginput.inc:122-132) and the tick stamped into the records bound how   *)
(* far one console runs ahead, over every delay, burst and retry.          *)
SkewBound == \A c \in Console : tick[c] <= tick[Peer(c)] + D + 1

(* The eight-bit wrap is invisible (dginput.inc:125-127): the gate's       *)
(* signed compare, the watermark's and the checksum's tick match decide as *)
(* they would on unbounded ticks, for every record that is still unread.   *)
WrapInvisible ==
  \A c \in Console :
    /\ NotBehind(rwat[c], tick[c]) <=> rwat[c] >= tick[c]
    /\ \A r \in Unread(c) :
         /\ NotBehind(r.tick, rwat[c]) <=> r.tick >= rwat[c]
         /\ Comparable(c, r) <=> r.tick - D = tick[c]

(* A record once sent is immutable (dginput.inc:83-94): whatever is unread *)
(* carries the bytes its sender captured for those ticks, however often    *)
(* the boundary was retried and the record sent again since.               *)
RecordsImmutable ==
  \A c \in Console : \A r \in Unread(c) : \A i \in 1 .. Win :
    r.tick - (i - 1) >= 0 => r.win[i] = Captured(Peer(c), r.tick - (i - 1))

(* Every tick a console ran, it ran on the bytes both players captured for *)
(* that tick, in the same order: its own out of the local ring, the        *)
(* peer's out of the remote ring (dginput.inc:140-165).                    *)
SameInputs ==
  \A c \in Console : \A i \in DOMAIN applied[c] :
    applied[c][i] = Pair(c, Captured(c, i - 1), Captured(Peer(c), i - 1))

(* The remote ring never has to hold two ticks that share a slot: the tick *)
(* a console is on and the newest it received are less than a lap apart.   *)
RingHolds == \A c \in Console : rwat[c] - tick[c] < RingSize

(* The watermark only moves forward, whatever order records come in: a     *)
(* stale one does not pull it back (dgnet.inc:408-417).                    *)
WatermarkMonotone == [][\A c \in Console : rwat'[c] >= rwat[c]]_vars

(* A repair is armed only when the two simulations really consumed         *)
(* different inputs: "a false positive is impossible" (dgnet.inc:389-390), *)
(* whatever the two consoles' stalls, and whenever the records arrive.     *)
Diverged ==
  \E i \in DOMAIN applied["host"] \cap DOMAIN applied["guest"] :
    applied["host"][i] # applied["guest"][i]
NoFalseAlarm == \A c \in Console : rsy[c] => Diverged

-----------------------------------------------------------------------------
(* Under prompt delivery (PromptSpec, below), every tick the gate would    *)
(* let through has the peer's own byte in its slot of the remote ring      *)
(* (dgnet.inc:348-374): a later record's window fills what an earlier one  *)
(* left out.                                                               *)
RingCorrect ==
  \A c \in Console : \A t \in 0 .. rwat[c] :
    t >= tick[c] => ring[c][t % RingSize] = Captured(Peer(c), t)

(* The two simulations are one race: the longer history is the race, and   *)
(* each console has run a prefix of it.                                    *)
Race ==
  IF Len(applied["host"]) >= Len(applied["guest"]) THEN applied["host"] ELSE applied["guest"]
Shared == INSTANCE SharedRace WITH
  Player <- Console, Lead <- D + 1, race <- Race, done <- [c \in Console |-> Len(applied[c])]

(* Under prompt delivery the two consoles implement SharedRace: each tick  *)
(* is decided once, and both simulations run it.                           *)
OneRace == Shared!Spec

-----------------------------------------------------------------------------
(* A prompt network and cartridge: no console stamps a record more than a  *)
(* window ahead of what its peer has consumed, a copy of an unread record  *)
(* is not queued behind it, and no watchdog trips.                         *)
Current ==
  \A c \in Console : tick[c] + D <= rwat[Peer(c)] + Win \/ tick[c] < Win
NoCopies == \A c \in Console : \A i \in 1 .. Len(net[c]) - 1 : net[c][i] # net[c][i + 1]
Prompt(A) == A /\ Current' /\ NoCopies' /\ UNCHANGED mode
Delivers(c) == Read(c) /\ reply'[c] # <<>>

(* Fairness: the television keeps drawing and the overscan keeps stepping  *)
(* the transport of a console that is on, and the network does not report  *)
(* "nothing yet" for ever while a record waits.                            *)
PromptSpec ==
  /\ Init
  /\ [][Prompt(Next)]_vars
  /\ \A c \in Console :
       /\ WF_vars(Prompt(DGSHIM(c)))
       /\ WF_vars(Prompt(DGNSTEP(c)))
       /\ SF_vars(Prompt(Delivers(c)))

(* The gate never leaves both consoles waiting for each other: a stalled   *)
(* console keeps sending (dgnet.inc:141-145), so the race gets to the last *)
(* tick explored, on both.                                                 *)
RaceGoesOn == <>(\A c \in Console : Len(applied[c]) = MaxTick + 1)
=============================================================================
