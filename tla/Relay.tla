-------------------------------- MODULE Relay --------------------------------
(***************************************************************************)
(* The relay (class Server, dragster_relay_server.py): it accepts          *)
(* consoles, pairs the ones that say HELLO, hands both a START, forwards   *)
(* their records and tells the survivor when one leaves.                   *)
(*                                                                         *)
(* The server is one thread: it handles every whole frame of one recv()    *)
(* before it looks at another socket, so "serving" holds the frames of     *)
(* that recv() and nothing else moves in the server meanwhile.  The        *)
(* consoles send and hang up at any time.  A connection is named by its    *)
(* place in accept order, which is the order of Client.born and of the     *)
(* dict self.clients.                                                      *)
(***************************************************************************)
EXTENDS CrcPairing, FiniteSets

CONSTANTS
  Setup,       (* the mixes of clients explored: which of them are behind *)
               (* one IP address (the others have one each), and which do *)
               (* not run the ROM                                         *)
  MaxClients,  (* MAX_CLIENTS                                             *)
  MaxPerIP,    (* MAX_CONNECTIONS_PER_IP                                  *)
  Backlog,     (* MAX_TX_BACKLOG, in frames                               *)
  Name,        (* the names consoles come with                            *)
  Digits,      (* the digits a taken name can end in                      *)
  Extra,       (* frame types that the ROM never sends                    *)
  MaxInputs    (* bound: records the consoles send together               *)

ASSUME Limits ==
  /\ Client \subseteq Nat /\ IsFiniteSet(Client)
  /\ Setup \subseteq [behind : SUBSET Client, other : SUBSET Client]
  /\ MaxClients \in Nat /\ MaxPerIP \in Nat /\ Backlog \in Nat
  /\ Extra \subseteq {"BYE", "BAD", "LIST", "PING", "JOIN"}
  /\ MaxInputs \in Nat
  /\ "unnamed" \notin Name

VARIABLES
  conn,       (* "new", "open", "closed", or "refused" at the door        *)
  setup,      (* the mix of this behaviour: gives Client.addr             *)
  hung,       (* the console has closed its end, or is unplugged          *)
  sent,       (* history: every frame the console has sent                *)
  up,         (* frames on their way to the server                        *)
  serving,    (* frames of the recv() being handled                       *)
  client,     (* the client that recv() came from                         *)
  tx,         (* Client.tx: frames to be flushed                          *)
  down,       (* history: every frame handed to the socket of a console   *)
  name,       (* Client.name                                              *)
  partner,    (* Client.partner                                           *)
  byName,     (* by_name                                                  *)
  curplayers  (* what the Lobby publisher was last told                   *)

consoleVars == <<hung, sent>>
serverVars == <<conn, setup, name, partner, byName, curplayers, tx, crcVars>>
vars == <<serverVars, consoleVars, up, serving, client, down>>

NoName == <<"unnamed", 0>>

Init ==
  /\ CrcInit
  /\ conn = [c \in Client |-> "new"]
  /\ setup \in Setup
  /\ hung = [c \in Client |-> FALSE]
  /\ sent = [c \in Client |-> <<>>]
  /\ up = [c \in Client |-> <<>>]
  /\ serving = <<>>
  /\ client = NoClient
  /\ tx = [c \in Client |-> <<>>]
  /\ down = [c \in Client |-> <<>>]
  /\ name = [c \in Client |-> NoName]
  /\ partner = [c \in Client |-> NoClient]
  /\ byName = << >>
  /\ curplayers = 0

Open == {c \in Client : conn[c] = "open"}
Idle == client = NoClient

-----------------------------------------------------------------------------
(* What the server sends.                                                  *)
Start(role, opp) == [type |-> "START", role |-> role, opp |-> opp]
PeerLeft == [type |-> "PEER_LEFT"]

(* lobby_update.  Mutant: every update counts one more.                    *)
CountUp == curplayers' = curplayers + 1
LobbyUpdate == curplayers' = Cardinality(DOMAIN byName')

(* drop: the partner is told and is free again; c's own link stays.        *)
(* "out" is tx, less what the send() before the drop has taken.            *)
(* Mutant: the partner's link stays too.                                   *)
TellOnly(c, out) ==
  /\ tx' = IF partner[c] = NoClient THEN out ELSE [out EXCEPT ![partner[c]] = Append(@, PeerLeft)]
  /\ UNCHANGED partner
Tell(c, out) ==
  IF partner[c] = NoClient
  THEN tx' = out /\ UNCHANGED partner
  ELSE /\ partner' = [partner EXCEPT ![partner[c]] = NoClient]
       /\ tx' = [out EXCEPT ![partner[c]] = Append(@, PeerLeft)]

(* drop: its name is given back if it is still its own, the socket closed. *)
DropAfter(c, out) ==
  \/ c \notin Open /\ UNCHANGED serverVars
  \/ /\ c \in Open
     /\ conn' = [conn EXCEPT ![c] = "closed"]
     /\ byName' = [n \in {m \in DOMAIN byName : m = name[c] => byName[m] # c} |-> byName[n]]
     /\ Tell(c, out)
     /\ LobbyUpdate
     /\ UNCHANGED <<setup, name, crcVars>>
Drop(c) == DropAfter(c, tx)

-----------------------------------------------------------------------------
(* idle: the consoles that wait for an opponent.  Mutant: or have one.     *)
Named == {c \in Open : name'[c] # NoName}
Waiting == {c \in Named : partner[c] = NoClient}

(* try_pair: the oldest that waits is the host, c is the guest.            *)
TryPair(c) ==
  LET others == Waiting \ {c}
  IN  \/ others = {} /\ UNCHANGED <<partner, tx, crcVars>>
      \/ \E host \in others :
           /\ \A q \in others : host <= q
           /\ partner' = [partner EXCEPT ![host] = c, ![c] = host]
           /\ tx' = [tx EXCEPT ![host] = Append(@, Start(0, name'[c])),
                               ![c] = Append(@, Start(1, name'[host]))]
           /\ ClearCrc(host, c)

(* A name that is taken gets one random digit at its end until it is free; *)
(* when none is, the loop never ends.  Mutant: a taken name is taken over. *)
AnyName(n) == {<<n, 0>>}
FreeNames(n) ==
  IF <<n, 0>> \notin DOMAIN byName THEN {<<n, 0>>}
  ELSE {<<n, k>> : k \in Digits} \ DOMAIN byName

(* on_hello.  "good" is whether version, television and name pass.         *)
OnHello(c, f) ==
  \/ ~f.good /\ Drop(c)
  \/ /\ f.good
     /\ \E n \in FreeNames(f.name) :
          /\ name' = [name EXCEPT ![c] = n]
          /\ byName' = [m \in DOMAIN byName \cup {n} |-> IF m = n THEN c ELSE byName[m]]
     /\ TryPair(c)
     /\ LobbyUpdate
     /\ UNCHANGED <<conn, setup>>

(* on_join: it does not ask whether c has a partner already.               *)
OnJoin(c) ==
  /\ UNCHANGED <<conn, setup, name, byName>>
  /\ TryPair(c)
  /\ LobbyUpdate

(* A frame of play goes to the partner, and the checksum of a whole record *)
(* is logged.  What is forwarded is padded to one length, so nothing of it *)
(* depends on length.                                                      *)
RelayTypes == {"INPUT", "CRC", "STATE", "RESYNC"}
Forward(c, f) ==
  /\ tx' = IF partner[c] = NoClient THEN tx ELSE [tx EXCEPT ![partner[c]] = Append(@, f)]
  /\ IF f.type = "INPUT" /\ f.whole
     THEN LogCrc(c, partner[c], f.tick % TickMod, f.crc)
     ELSE UNCHANGED crcVars
  /\ UNCHANGED <<conn, setup, name, partner, byName, curplayers>>

(* send_lobby: the first eight that have a name, in accept order, and      *)
(* whether each is in a match.                                             *)
MaxListed == 8
Lobby ==
  LET named == {o \in Open : name[o] # NoName}
      Before(o) == Cardinality({q \in named : q < o})
      listed == {o \in named : Before(o) < MaxListed}
      At(i) == CHOOSE o \in listed : Before(o) = i - 1
  IN  [i \in 1 .. Cardinality(listed) |->
        [name |-> name[At(i)], busy |-> partner[At(i)] # NoClient]]

(* LIST is answered with LOBBY, PING with PONG.                            *)
Answer(c, f) ==
  /\ tx' = [tx EXCEPT ![c] = Append(@,
       IF f.type = "LIST" THEN [type |-> "LOBBY", entries |-> Lobby] ELSE [type |-> "PONG"])]
  /\ UNCHANGED <<conn, setup, name, partner, byName, curplayers, crcVars>>

(* The rest of an incomplete frame ("PART") is waited for, and an unknown  *)
(* type ("ODD") only logged.                                               *)
Dispatch(c, f) ==
  \/ f.type \in RelayTypes /\ Forward(c, f)
  \/ f.type = "HELLO" /\ OnHello(c, f)
  \/ f.type = "JOIN" /\ OnJoin(c)
  \/ f.type \in {"LIST", "PING"} /\ Answer(c, f)
  \/ f.type \in {"BYE", "BAD"} /\ Drop(c)
  \/ f.type \in {"PART", "ODD"} /\ UNCHANGED serverVars

(* service and handle: the next frame of the recv().  A frame with a bad   *)
(* length drops the connection and ends the loop; nothing else does.       *)
Handle ==
  /\ serving # <<>>
  /\ Dispatch(client, Head(serving))
  /\ serving' = IF Head(serving).type = "BAD" THEN <<>> ELSE Tail(serving)
  /\ client' = IF serving' = <<>> THEN NoClient ELSE client
  /\ UNCHANGED <<consoleVars, up, down>>

-----------------------------------------------------------------------------
(* accept: the next connection in line, unless the server is full.         *)
(* Mutant: an address may hold any number.                                 *)
AnyNumber(c) == {}
SameAddress(c) == IF c \in setup.behind THEN Open \cap setup.behind ELSE {}
Admit(c) ==
  /\ conn' = [conn EXCEPT ![c] =
       IF Cardinality(Open) >= MaxClients \/ Cardinality(SameAddress(c)) >= MaxPerIP
       THEN "refused" ELSE "open"]
  /\ UNCHANGED <<setup, name, partner, byName, curplayers, tx, crcVars>>
Accept(c) ==
  /\ Idle
  /\ conn[c] = "new" /\ \A o \in Client : o < c => conn[o] # "new"
  /\ Admit(c)
  /\ UNCHANGED <<consoleVars, up, serving, client, down>>

(* recv() returns some of what has arrived, up to 4096 bytes of it.        *)
Recv(c) ==
  /\ Idle
  /\ c \in Open
  /\ \E n \in 1 .. Len(up[c]) :
       /\ serving' = SubSeq(up[c], 1, n)
       /\ up' = [up EXCEPT ![c] = SubSeq(@, n + 1, Len(@))]
  /\ client' = c
  /\ UNCHANGED <<serverVars, consoleVars, down>>

(* recv() returns nothing, or fails: the console has hung up.              *)
RecvEnd(c) ==
  /\ Idle
  /\ c \in Open /\ hung[c] /\ up[c] = <<>>
  /\ Drop(c)
  /\ UNCHANGED <<consoleVars, up, serving, client, down>>

(* del c.tx[:sent].  Mutant: everything is taken for sent.                 *)
Emptied(out, n) == <<>>
Unsent(out, n) == SubSeq(out, n + 1, Len(out))

(* flush: one send() takes what the socket has room for.                   *)
Flush(c) ==
  /\ Idle
  /\ c \in Open /\ tx[c] # <<>>
  /\ \E n \in 0 .. Len(tx[c]) :
       /\ Len(tx[c]) - n <= Backlog
       /\ down' = [down EXCEPT ![c] = @ \o SubSeq(tx[c], 1, n)]
       /\ tx' = [tx EXCEPT ![c] = Unsent(@, n)]
  /\ UNCHANGED <<conn, setup, name, partner, byName, curplayers, crcVars, consoleVars, up,
                 serving, client>>

(* flush: too much is left over, or the send() fails.                      *)
FlushDrops(c) ==
  /\ Idle
  /\ c \in Open /\ tx[c] # <<>>
  /\ \/ \E n \in 0 .. Len(tx[c]) :
          /\ Len(tx[c]) - n > Backlog
          /\ down' = [down EXCEPT ![c] = @ \o SubSeq(tx[c], 1, n)]
          /\ DropAfter(c, [tx EXCEPT ![c] = Unsent(@, n)])
     \/ hung[c] /\ UNCHANGED down /\ Drop(c)
  /\ UNCHANGED <<consoleVars, up, serving, client>>

(* sweep: a console that has not said HELLO within a minute.               *)
Sweep(c) ==
  /\ Idle
  /\ c \in Open /\ name[c] = NoName
  /\ Drop(c)
  /\ UNCHANGED <<consoleVars, up, serving, client, down>>

Server == Handle \/ \E c \in Client :
  Accept(c) \/ Recv(c) \/ RecvEnd(c) \/ Flush(c) \/ FlushDrops(c) \/ Sweep(c)

-----------------------------------------------------------------------------
(* The consoles: HELLO once, records once START has come, until they hang  *)
(* up.  A console does not know that the relay has dropped it.  BYE is the  *)
(* last it says; JOIN, which the protocol reserves, comes after HELLO.     *)
Has(frames, types) == \E i \in DOMAIN frames : frames[i].type \in types
Types(frames, types) ==
  LET among[n \in 0 .. Len(frames)] ==
        IF n = 0 THEN <<>>
        ELSE IF frames[n].type \in types THEN Append(among[n - 1], frames[n]) ELSE among[n - 1]
  IN  among[Len(frames)]
Inputs(frames) == Types(frames, {"INPUT"})

Say(c, f) ==
  /\ conn[c] \in {"open", "closed"} /\ ~hung[c]
  /\ ~Has(sent[c], {"BYE", "BAD"})
  /\ sent' = [sent EXCEPT ![c] = Append(@, f)]
  /\ up' = [up EXCEPT ![c] = Append(@, f)]
  /\ UNCHANGED <<serverVars, hung, serving, client, down>>

SayHello(c) ==
  /\ ~Has(sent[c], {"HELLO"})
  /\ \E n \in Name, good \in {TRUE, c \notin setup.other} :
       Say(c, [type |-> "HELLO", name |-> n, good |-> good])

Said == {m \in Client \X (1 .. MaxInputs) : m[2] <= Len(Inputs(sent[m[1]]))}
SayInput(c) ==
  /\ Has(down[c], {"START"})
  /\ Cardinality(Said) < MaxInputs
  /\ LET t == Len(Inputs(sent[c]))
     IN  Say(c, [type |-> "INPUT", whole |-> TRUE, tick |-> t, crc |-> t, from |-> c])

(* Another client may look around first, and say goodbye.                  *)
SayExtra(c) ==
  /\ c \in setup.other
  /\ \E type \in Extra :
       /\ IF type \in {"LIST", "PING"} THEN sent[c] = <<>> ELSE sent[c] # <<>>
       /\ type = "JOIN" => Has(sent[c], {"HELLO"}) /\ ~Has(sent[c], {"JOIN"})
       /\ Say(c, [type |-> type])

(* The end of what it sent may be lost with the connection.                *)
HangUp(c) ==
  /\ conn[c] = "open" /\ ~hung[c]
  /\ hung' = [hung EXCEPT ![c] = TRUE]
  /\ \E n \in 0 .. Len(up[c]) : up' = [up EXCEPT ![c] = SubSeq(@, 1, n)]
  /\ UNCHANGED <<serverVars, sent, serving, client, down>>

Console(c) == SayHello(c) \/ SayInput(c) \/ SayExtra(c) \/ HangUp(c)

Next == Server \/ \E c \in Client : Console(c)

Spec == Init /\ [][Next]_vars

-----------------------------------------------------------------------------
(* Everything c has been sent, in order, delivered or still to be flushed. *)
Stream(c) == down[c] \o tx[c]

(* Where the last START of it is, or 0.                                    *)
LastStart(frames) ==
  CHOOSE i \in {0} \cup {j \in DOMAIN frames : frames[j].type = "START"} :
    \A j \in DOMAIN frames : frames[j].type = "START" => j <= i

(* The records in c's stream since its last START.                         *)
OfThisMatch(c) == Inputs(SubSeq(Stream(c), LastStart(Stream(c)) + 1, Len(Stream(c))))

(* The records of c the server has not handled yet.                        *)
Unhandled(c) == (IF client = c THEN Inputs(serving) ELSE <<>>) \o Inputs(up[c])

Suffix(s, t) == Len(s) <= Len(t) /\ s = SubSeq(t, Len(t) - Len(s) + 1, Len(t))

(* A match has two sides (try_pair and drop): partners are partners of     *)
(* each other, both connected, and the last START each was sent gives them *)
(* different lanes and each other's name.                                  *)
Matched ==
  \A c \in Open : partner[c] # NoClient =>
    LET p == partner[c]
        mine == LastStart(Stream(c))
        theirs == LastStart(Stream(p))
    IN  /\ p \in Open /\ partner[p] = c
        /\ mine # 0 /\ theirs # 0
        /\ {Stream(c)[mine].role, Stream(p)[theirs].role} = {0, 1}
        /\ Stream(c)[mine].opp = name[p]

(* What Lockstep takes the relay for: what a console has been sent in this *)
(* match, together with what its partner has sent that is not handled yet, *)
(* is what the partner sent, in order, nothing lost and nothing twice.     *)
InOrder ==
  \A c \in Open : partner[c] # NoClient /\ ~hung[c] =>
    LET passed == OfThisMatch(partner[c]) \o Unhandled(c)
    IN  /\ Suffix(passed, Inputs(sent[c]))
        /\ Len(Types(Stream(c), {"START"})) = 1 => passed = Inputs(sent[c])

(* A console is in one match at a time: its stream is START, records,      *)
(* PEER_LEFT, and only then another START, whatever is between them; and   *)
(* the records between a START and its PEER_LEFT are all of one console,   *)
(* the one that START named.  (What that console sent before it was told   *)
(* of its own START is among them: the relay forwards by partner alone.)   *)
Plays(frames) == {i \in DOMAIN frames : frames[i].type \in {"START", "INPUT", "PEER_LEFT"}}
Precedes(frames, j, i) == j < i /\ \A k \in Plays(frames) : k <= j \/ i <= k
OneByOne(frames) ==
  \A i \in Plays(frames) :
    frames[i].type = "START" <=>
      \A j \in Plays(frames) : Precedes(frames, j, i) => frames[j].type = "PEER_LEFT"
OneSender(frames) ==
  \A i, j \in Plays(frames) : frames[i].type = "INPUT" /\ Precedes(frames, j, i) =>
    \/ frames[j].type = "START" /\ frames[j].opp = name[frames[i].from]
    \/ frames[j].type = "INPUT" /\ frames[j].from = frames[i].from
OneMatchAtATime == \A c \in Client : OneByOne(Stream(c)) /\ OneSender(Stream(c))

(* The Lobby is told how many consoles are in the room (lobby_update):     *)
(* those connected that have said HELLO, whatever names they came with.    *)
Announced == curplayers = Cardinality({c \in Open : name[c] # NoName})

(* "EVERY FRAME A CONSOLE CAN RECEIVE DURING PLAY IS EXACTLY EIGHT BYTES"  *)
(* (dragster_relay_server.py:45): after its START, a console is sent       *)
(* records and PEER_LEFT.                                                  *)
GameFramesOnly ==
  \A c \in Client : \A i \in DOMAIN down[c] : \A j \in DOMAIN down[c] :
    i < j /\ down[c][i].type = "START" => down[c][j].type \in {"INPUT", "PEER_LEFT"}

TypeOK ==
  /\ conn \in [Client -> {"new", "open", "closed", "refused"}]
  /\ name \in [Client -> {NoName} \cup (Name \X ({0} \cup Digits))]
  /\ partner \in [Client -> Client \cup {NoClient}]
  /\ \A n \in DOMAIN byName : n \in Name \X ({0} \cup Digits) /\ byName[n] \in Client
  /\ curplayers \in 0 .. Cardinality(Client)
  /\ client \in Client \cup {NoClient}
=============================================================================
