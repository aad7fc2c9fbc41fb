------------------------------ MODULE ServerDiff ------------------------------
(***************************************************************************)
(* The differential test of the two servers (tools/server_diff.py): one    *)
(* thread plays the clients of a scripted scenario against a server, and   *)
(* at every sync() waits until nothing moves and writes down what each     *)
(* client has received.  The transcripts of two servers are compared line  *)
(* by line, so a scenario is of use only if its transcript does not depend *)
(* on how the server's loop interleaves with the script.                   *)
(*                                                                         *)
(* The relay of module Relay runs the scenario on its own schedule.  A     *)
(* second one ("Atomic", the same handlers over variables of its own)      *)
(* handles every step of the script at once, as the script reads.          *)
(***************************************************************************)
EXTENDS Relay
LOCAL INSTANCE SequencesExt

CONSTANT Scenarios   (* the names of the scenarios to be played            *)

VARIABLES
  scenario,  (* the scenario of this behaviour                             *)
  at,        (* the step of its script that comes next                     *)
  arrived,   (* the clients that have called connect()                     *)
  rounds,    (* stats["crc_ok"] + stats["crc_bad"]: ends up in the log     *)
  aConn, aTx, aName, aPartner, aByName, aCur, aCrc, aLap, aLast, aMis, aRounds

scriptVars == <<scenario, at, arrived>>
atomicVars == <<aConn, aTx, aName, aPartner, aByName, aCur, aCrc, aLap, aLast, aMis, aRounds>>
diffVars == <<vars, scriptVars, rounds, atomicVars>>

Atomic == INSTANCE Relay WITH
  conn <- aConn, tx <- aTx, name <- aName, partner <- aPartner, byName <- aByName,
  curplayers <- aCur, crc <- aCrc, lap <- aLap, lastTick <- aLast, mismatch <- aMis,
  serving <- <<>>, client <- NoClient

-----------------------------------------------------------------------------
(* Client and Ctx: what a step of a script can be.  Clients are numbered   *)
(* as they connect; all of them come from one address.                     *)
Connect(c) == [op |-> "connect", c |-> c]
Send(c, f) == [op |-> "send", c |-> c, frame |-> f]
Close(c) == [op |-> "close", c |-> c]
Sync == [op |-> "sync"]

As(n) == [type |-> "HELLO", name |-> n, good |-> TRUE]
Refused == [type |-> "HELLO", name |-> "", good |-> FALSE]
Frame(type) == [type |-> type]
Part == Frame("PART")
Record(c, t, v) == [type |-> "INPUT", whole |-> TRUE, tick |-> t, crc |-> v, from |-> c]
Short == [type |-> "INPUT", whole |-> FALSE]

Hello(c, n) == <<Connect(c), Send(c, As(n)), Sync>>
Hellos(first, names) == FlattenSeq([i \in DOMAIN names |-> Hello(first + i - 1, names[i])])

(* s_lobby: LIST while paired, after a drop, and with ten at the door.     *)
LobbyScript ==
  Hellos(1, <<"ALICE", "BOB">>)
  \o <<Send(1, Frame("LIST")), Send(2, Frame("LIST")), Sync, Close(1), Sync>>
  \o Hellos(3, <<"CAROL", "DAVE">>)
  \o <<Send(2, Frame("LIST")), Send(3, Frame("LIST")), Send(4, Frame("LIST")), Sync>>
  \o Hellos(5, <<"P0", "P1", "P2", "P3", "P4", "P5", "P6">>)
  \o <<Send(5, Frame("LIST")), Sync>>

(* s_pairing: oldest first, and a JOIN when nobody is free.                *)
PairingScript ==
  Hellos(1, <<"ALICE", "BOB">>) \o <<Sync>>
  \o Hellos(3, <<"CAROL", "DAVE">>) \o <<Sync, Send(1, Frame("JOIN")), Sync>>
  \o Hellos(5, <<"EVE", "FRANK">>) \o <<Sync>>

(* s_dupname.                                                              *)
DupnameScript ==
  Hellos(1, <<"DUPE", "DUPE">>) \o <<Sync, Send(1, Frame("LIST")), Sync>>

(* s_relay: four ticks that agree, one that does not, the wrap one tick at *)
(* a time, a run nobody answers, and frames of odd lengths.  The wrap is   *)
(* one tick longer than what a map keeps (9 of 8), the run longer still.   *)
(* Mutant: the wrap in one go.                                             *)
Run(c, ticks) == [i \in DOMAIN ticks |-> Send(c, Record(c, ticks[i], ticks[i]))]
Both(t, v, w) == <<Send(1, Record(1, t, v)), Send(2, Record(2, t, w))>>
WrapAtOnce(ticks) == Run(1, ticks) \o Run(2, ticks) \o <<Sync>>
AcrossWrap(ticks) ==
  FlattenSeq([i \in DOMAIN ticks |-> Both(ticks[i], ticks[i], ticks[i]) \o <<Sync>>])
RelayScript ==
  Hellos(1, <<"ALICE", "BOB">>) \o <<Sync>>
  \o FlattenSeq([i \in 1 .. 4 |-> Both(i - 1, 15 + i, 15 + i)]) \o <<Sync>>
  \o Both(9, 85, 102) \o <<Sync>>
  \o AcrossWrap([i \in 1 .. Keep + 1 |-> (TickMod - 3 + i) % TickMod])
  \o Run(1, [i \in 1 .. Keep + 2 |-> 19 + i]) \o <<Sync>>
  \o <<Send(1, Short), Send(1, Frame("STATE")), Send(1, Frame("CRC")),
       Send(1, Frame("RESYNC")), Sync, Send(2, Frame("PING")), Sync,
       Send(1, Frame("LIST")), Sync>>

(* s_crcevict: three more than a map keeps (11 of 8), descending and       *)
(* unanswered, and then the last of them answered, with another checksum.  *)
CrcevictScript ==
  Hellos(1, <<"ALICE", "BOB">>) \o <<Sync>>
  \o Run(1, [i \in 1 .. Keep + 3 |-> 101 - i])
  \o <<Sync, Send(2, Record(2, 98 - Keep, 238)), Sync>>

(* s_drops: the survivor re-pairs, BYE, and a type nobody knows.           *)
DropsScript ==
  Hellos(1, <<"ALICE", "BOB">>) \o <<Sync, Close(1), Sync>>
  \o Hello(3, "CAROL") \o <<Send(2, Frame("BYE")), Sync, Send(3, Frame("ODD")), Sync,
                           Send(3, Frame("PING")), Sync>>

(* s_framing: a HELLO in ten pieces, one in two, two frames in one write,  *)
(* and two lengths no frame can have.                                      *)
FramingScript ==
  <<Connect(1)>> \o [i \in 1 .. 10 |-> Send(1, Part)] \o <<Send(1, As("DRIBBLE")), Sync,
    Connect(2), Send(2, Part), Sync, Send(2, As("SPLIT")), Sync,
    Send(2, Frame("PING")), Send(2, Frame("PING")), Sync,
    Connect(3), Send(3, Frame("BAD")), Sync, Connect(4), Send(4, Frame("BAD")), Sync>>

(* s_limits: five that are refused, two names that are put right, two more *)
(* refused in between, and nine connections that say nothing.              *)
LimitsScript ==
  FlattenSeq([i \in 1 .. 9 |-> <<Connect(i),
     Send(i, CASE i = 6 -> As("BOB") [] i = 9 -> As("PAD") [] OTHER -> Refused), Sync>>])
  \o [i \in 1 .. 9 |-> Connect(9 + i)] \o <<Sync>>

(* SCENARIOS, each with the sync() that run() puts at its end.             *)
Script(n) ==
  (CASE n = "lobby" -> LobbyScript [] n = "pairing" -> PairingScript
     [] n = "dupname" -> DupnameScript [] n = "relay" -> RelayScript
     [] n = "crcevict" -> CrcevictScript [] n = "drops" -> DropsScript
     [] n = "framing" -> FramingScript [] n = "limits" -> LimitsScript) \o <<Sync>>

-----------------------------------------------------------------------------
DiffInit ==
  /\ Init
  /\ Atomic!Init
  /\ scenario \in Scenarios
  /\ at = 1
  /\ arrived = {}
  /\ rounds = 0 /\ aRounds = 0

Running == at <= Len(Script(scenario))
Step == Script(scenario)[at]
Steps(op) == Running /\ Step.op = op /\ at' = at + 1 /\ UNCHANGED scenario

(* A checksum of c's that answers the partner's takes it out of that map.  *)
Answered(c, before, after, f) ==
  IF f.type = "INPUT" /\ \E p \in Client \ {c} : Len(after[p]) < Len(before[p]) THEN 1 ELSE 0

(* connect: the kernel takes the connection, the server will accept it.    *)
DoConnect ==
  /\ Steps("connect")
  /\ arrived' = arrived \cup {Step.c}
  /\ Atomic!Admit(Step.c)
  /\ UNCHANGED <<vars, rounds, aRounds>>

(* Client.send: nothing, once the client has seen the end of the stream.   *)
DoSend ==
  /\ Steps("send")
  /\ LET c == Step.c
         f == Step.frame
     IN  /\ up' = IF conn[c] \in {"closed", "refused"} THEN up ELSE [up EXCEPT ![c] = Append(@, f)]
         /\ IF aConn[c] = "open" THEN Atomic!Dispatch(c, f) ELSE UNCHANGED atomicVars
         /\ aRounds' = aRounds + Answered(c, aCrc, aCrc', f)
  /\ UNCHANGED <<serverVars, consoleVars, serving, client, down, arrived, rounds>>

DoClose ==
  /\ Steps("close")
  /\ hung' = [hung EXCEPT ![Step.c] = TRUE]
  /\ Atomic!Drop(Step.c)
  /\ UNCHANGED <<serverVars, sent, up, serving, client, down, arrived, rounds, aRounds>>

(* sync: QUIET seconds without a byte, taken for this: the server has      *)
(* accepted, read and sent all there is.  Mutant: it is only not busy.     *)
NotBusy == serving = <<>>
Quiet ==
  /\ serving = <<>>
  /\ \A c \in arrived : conn[c] # "new"
  /\ \A c \in Open : up[c] = <<>> /\ tx[c] = <<>> /\ ~hung[c]
AtSync == Running /\ Step.op = "sync" /\ Quiet

DoSync ==
  /\ AtSync
  /\ Steps("sync")
  /\ down' = [c \in Client |-> <<>>]
  /\ aTx' = [c \in Client |-> <<>>]
  /\ UNCHANGED <<serverVars, consoleVars, up, serving, client, arrived, rounds,
                 aConn, aName, aPartner, aByName, aCur, aCrc, aLap, aLast, aMis, aRounds>>

(* The server's own steps.  A scenario is over long before a sweep.        *)
Serves ==
  /\ \/ Handle /\ rounds' = rounds + Answered(client, crc, crc', Head(serving))
     \/ /\ UNCHANGED rounds
        /\ \/ \E c \in arrived : Accept(c)
           \/ \E c \in Client : Recv(c) \/ RecvEnd(c) \/ Flush(c) \/ FlushDrops(c)
  /\ UNCHANGED <<scriptVars, atomicVars>>

Finished == ~Running /\ UNCHANGED diffVars

DiffNext == DoConnect \/ DoSend \/ DoClose \/ DoSync \/ Serves \/ Finished

DiffSpec == DiffInit /\ [][DiffNext]_diffVars

-----------------------------------------------------------------------------
(* render and normalize_log: the digit of a duplicate name is masked (the  *)
(* seed of a START is not in the model).                                   *)
MaskedName(n) == IF n[2] = 0 THEN n ELSE <<n[1], "#">>
Masked(frames) ==
  [i \in DOMAIN frames |->
    LET f == frames[i]
    IN  CASE f.type = "START" -> [f EXCEPT !.opp = MaskedName(@)]
          [] f.type = "LOBBY" -> [f EXCEPT !.entries =
               [j \in DOMAIN @ |-> [@[j] EXCEPT !.name = MaskedName(@)]]]
          [] OTHER -> f]

(* What sync() writes down of a client that the script has not closed.     *)
Seen(frames, state) == [frames |-> Masked(frames), eof |-> state \in {"closed", "refused"}]

(* "Steps are strictly synchronous ... That determinism is what makes an   *)
(* exact diff possible" (server_diff.py:11-13): at every sync, whatever    *)
(* the server's loop did first, each client has received what the script   *)
(* read from top to bottom gives it.                                       *)
SameTranscript ==
  AtSync => \A c \in arrived : ~hung[c] => Seen(down[c], conn[c]) = Seen(aTx[c], aConn[c])

(* The verdicts of the server's log as well: as many rounds of checksums   *)
(* were paired, and a mismatch reported or not.  (Whose name leads the     *)
(* line of a mismatch does depend on the schedule.)                        *)
SameVerdict == AtSync => rounds = aRounds /\ mismatch = aMis

(* The cut of send_lobby at eight entries is never exercised, though "the  *)
(* count byte and the cut are both on the wire" (server_diff.py:327-328):  *)
(* the clients come from one address, of which only eight get in, so every *)
(* LOBBY names every console in the room.                                  *)
EveryoneListed ==
  \A c \in Client : \A i \in DOMAIN aTx[c] :
    aTx[c][i].type = "LOBBY" => Len(aTx[c][i].entries) = Cardinality(DOMAIN aByName)
=============================================================================
