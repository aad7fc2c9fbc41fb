---------------------------- MODULE RelayVerdict ----------------------------
(***************************************************************************)
(* One match seen from the relay's checksum log.  Two consoles in lockstep *)
(* send one record after the other, each stamped with a tick: the same one *)
(* again while the tick lasts or the gate is shut, a later one otherwise,  *)
(* and the transport may skip ticks.  What lockstep allows (Lockstep's     *)
(* SkewBound) is that a console stamps at most D+1 ticks past what its     *)
(* peer has stamped.                                                       *)
(*                                                                         *)
(* The simulations agree up to tick "split", and never after it.           *)
(***************************************************************************)
EXTENDS CrcPairing

CONSTANTS
  D,         (* DGD: input delay in ticks                                 *)
  MaxTick    (* bound: the last tick stamped                              *)

ASSUME TwoConsoles == \A c \in Client : \E p \in Client : p # c /\ Client = {c, p}

(* A console never jumps half the byte ahead of its own last record.       *)
ASSUME LapFits ==
  /\ D \in Nat /\ MaxTick \in Nat /\ TickMod \in Nat
  /\ TickMod \div 2 >= 2 * D + 3

(* The map has room for the D+1 ticks the peer may not have answered yet.   *)
ASSUME EnoughKept == Keep \in Nat /\ D + 1 <= Keep

VARIABLES
  sent,      (* the tick of c's latest record, as an unbounded integer    *)
  waiting,   (* ticks c has stamped and its peer has not got to           *)
  split      (* the first tick the two checksums differ for               *)

verdictVars == <<crcVars, sent, waiting, split>>

Other(c) == CHOOSE p \in Client : p # c
Host == CHOOSE c \in Client : TRUE

Checksum(c, t) == [tick |-> t, forked |-> t >= split /\ c = Host]

Init ==
  /\ CrcInit
  /\ sent = [c \in Client |-> -1]
  /\ waiting = [c \in Client |-> {}]
  /\ split \in D .. MaxTick + 1

(* A record of c for tick t is handled.  It is stamped D past the tick it  *)
(* was sent in, so D is the first there is.                                *)
Record(c) ==
  \E t \in D .. MaxTick :
    /\ sent[c] <= t /\ t <= sent[Other(c)] + D + 1
    /\ LogCrc(c, Other(c), t % TickMod, Checksum(c, t))
    /\ sent' = [sent EXCEPT ![c] = t]
    /\ waiting' = [k \in Client |->
         IF k = c THEN IF t > sent[Other(c)] THEN waiting[c] \cup {t} ELSE waiting[c]
         ELSE {u \in waiting[k] : u > t}]
    /\ UNCHANGED split

Next == \E c \in Client : Record(c)

Spec == Init /\ [][Next]_verdictVars

-----------------------------------------------------------------------------
(* The lap the relay rebuilds is the true one: key and tick are the same,  *)
(* on both sides of every wrap of the byte.                                *)
LapExact == \A c \in Client : sent[c] >= 0 => KeyOf(lap[c], lastTick[c]) = sent[c]

(* No false alarm: a mismatch is reported only for simulations that did    *)
(* differ at a tick both have sent.                                        *)
NoFalseMismatch == mismatch => \A c \in Client : sent[c] >= split

(* Eight are enough: a checksum the peer has yet to answer is not evicted. *)
KeptUntilAnswered == \A c \in Client : waiting[c] \subseteq Keys(crc[c])
=============================================================================
