----------------------------- MODULE CrcPairing -----------------------------
(***************************************************************************)
(* The relay's verdict: how it pairs the checksums of two consoles by tick *)
(* (Server.log_crc, dragster_relay_server.py; log_crc in dragster-relay.c).*)
(*                                                                         *)
(* A tick on the wire is one byte.  The relay rebuilds the lap from each   *)
(* console's own stream, keeps a small map from lap and tick to checksum,  *)
(* and compares an incoming checksum with the partner's of the same key.   *)
(* The map is a Python dict, so it is kept here in insertion order.        *)
(***************************************************************************)
EXTENDS Integers, Sequences

CONSTANTS
  Client,    (* the connections                                           *)
  NoClient,  (* None, where a partner is meant                            *)
  TickMod,   (* 2^8: the tick is one byte                                 *)
  Keep       (* 8: the checksums an unpaired console may have waiting     *)

ASSUME Someone == NoClient \notin Client

NoTick == -1

VARIABLES
  crc,       (* Client.crc: key and checksum, oldest first                *)
  lap,       (* Client.lap                                                *)
  lastTick,  (* Client.last_tick                                          *)
  mismatch   (* stats["crc_bad"] > 0; what stats["crc_ok"] counts is only *)
             (* ever printed                                              *)

crcVars == <<crc, lap, lastTick, mismatch>>

CrcInit ==
  /\ crc = [c \in Client |-> <<>>]
  /\ lap = [c \in Client |-> 0]
  /\ lastTick = [c \in Client |-> NoTick]
  /\ mismatch = FALSE

Keys(map) == {map[i].key : i \in DOMAIN map}
Get(map, key) == map[CHOOSE i \in DOMAIN map : map[i].key = key].crc

(* crc[key] = v: a key that is there keeps its place.                      *)
Put(map, key, v) ==
  IF key \in Keys(map)
  THEN [i \in DOMAIN map |-> IF map[i].key = key THEN [key |-> key, crc |-> v] ELSE map[i]]
  ELSE Append(map, [key |-> key, crc |-> v])

(* pop(key), of a key that is there: a dict has one entry of it.           *)
Without(map, key) ==
  LET i == CHOOSE i \in DOMAIN map : map[i].key = key
  IN  SubSeq(map, 1, i - 1) \o SubSeq(map, i + 1, Len(map))

(* What is left once the oldest beyond Keep are evicted.                   *)
(* Mutant: one too few is kept for the pace of lockstep.                   *)
TooFew(map) == IF Len(map) > 1 THEN SubSeq(map, Len(map), Len(map)) ELSE map
Newest(map) == IF Len(map) > Keep THEN SubSeq(map, Len(map) - Keep + 1, Len(map)) ELSE map

(* A tick that is ahead of the last one and yet a smaller byte has wrapped.*)
(* Mutant: any tick that is ahead has.                                     *)
Ahead(last, t) == last # NoTick /\ (t - last) % TickMod \in 1 .. (TickMod \div 2) - 1
Wrapped(last, t) ==
  /\ last # NoTick
  /\ t < last
  /\ (t - last) % TickMod \in 1 .. (TickMod \div 2) - 1

(* Mutant: checksums are paired by the byte on the wire.                   *)
WireKey(l, t) == t
KeyOf(l, t) == l * TickMod + t

(* c's record carries tick t and checksum v; p is c's partner or NoClient. *)
LogCrc(c, p, t, v) ==
  LET l == IF Wrapped(lastTick[c], t) THEN lap[c] + 1 ELSE lap[c]
      key == KeyOf(l, t)
      mine == Put(crc[c], key, v)
      answers == IF p = NoClient THEN FALSE ELSE key \in Keys(crc[p])
  IN  /\ lap' = [lap EXCEPT ![c] = l]
      /\ lastTick' = [lastTick EXCEPT ![c] = t]
      /\ IF answers
         THEN /\ crc' = [crc EXCEPT ![c] = mine, ![p] = Without(@, key)]
              /\ mismatch' = (mismatch \/ Get(crc[p], key) # v)
         ELSE /\ crc' = [crc EXCEPT ![c] = Newest(mine)]
              /\ UNCHANGED mismatch

(* A new match starts with empty maps; lap and last_tick stay.             *)
ClearCrc(c, p) ==
  /\ crc' = [crc EXCEPT ![c] = <<>>, ![p] = <<>>]
  /\ UNCHANGED <<lap, lastTick, mismatch>>
=============================================================================
