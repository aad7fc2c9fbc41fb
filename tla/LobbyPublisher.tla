---------------------------- MODULE LobbyPublisher ----------------------------
(***************************************************************************)
(* The thread that registers the relay as a room on the FujiNet Lobby      *)
(* (class LobbyPublisher, dragster_relay_server.py).                       *)
(*                                                                         *)
(* Three parties run side by side: the relay's own thread, which changes   *)
(* the player count and shuts down on a signal; the worker, which posts    *)
(* what it last saw; and the Lobby, which shows whatever it heard last.    *)
(* A POST whose caller gave up, or whose process has ended, may still      *)
(* reach the Lobby, behind a later one.                                    *)
(***************************************************************************)
EXTENDS Integers

CONSTANTS
  Players,     (* the counts the relay reports                             *)
  MaxUpdates,  (* bound: calls of update()                                 *)
  MaxTrouble,  (* bound: POSTs that fail, are lost or are given up         *)
  MaxOdd,      (* bound: replies that are not HTTP                         *)
  MaxSignals   (* bound: SIGINT and SIGTERM delivered                      *)

ASSUME Bounds ==
  /\ Players \subseteq Nat /\ 0 \in Players
  /\ MaxUpdates \in Nat /\ MaxTrouble \in Nat /\ MaxOdd \in Nat /\ MaxSignals \in Nat

VARIABLES
  payload,   (* self.payload: what of it changes                           *)
  dirty,     (* self.dirty                                                 *)
  stop,      (* self.stop                                                  *)
  worker,    (* where the thread stands in run()                           *)
  body,      (* its snapshot of the payload                                *)
  main,      (* where the relay's thread stands: serving, or in shutdown() *)
  joined,    (* history: no POST of the worker was open when join returned *)
  answered,  (* history: shutdown's own POST was answered                  *)
  request,   (* the open POST of each thread: "none", "sent", "taken" by   *)
             (* the Lobby, or "lost" on the way                            *)
  late,      (* POSTs nobody waits for that may still reach the Lobby      *)
  room,      (* what the Lobby shows                                       *)
  updates, trouble, odd, signals   (* what the bounds count                *)

relayVars == <<payload, dirty, stop, main, joined, answered, updates, signals>>
workerVars == <<worker, body>>
netVars == <<request, late, room, trouble, odd>>
vars == <<relayVars, workerVars, netVars>>

Row == [status : {"online", "offline"}, curplayers : Players]
Nothing == [status |-> "none", curplayers |-> 0]

(* Mutant: the closing body is made anew, with the status alone.           *)
StatusAlone == [status |-> "offline"]
Offline == [payload EXCEPT !.status = "offline"]

Init ==
  /\ payload = [status |-> "online", curplayers |-> 0]
  /\ dirty = TRUE
  /\ stop = FALSE
  /\ worker = "check" /\ body = Nothing
  /\ main = "serving" /\ joined = FALSE /\ answered = FALSE
  /\ request = [worker |-> "none", main |-> "none"]
  /\ late = {} /\ room = Nothing
  /\ updates = 0 /\ trouble = 0 /\ odd = 0 /\ signals = 0

Gone == main \in {"gone", "killed"}
BodyOf(caller) == IF caller = "main" THEN Offline ELSE body

-----------------------------------------------------------------------------
(* post: urlopen with its timeout of 10 s, up to the answer.               *)
Open(caller) ==
  /\ request' = [request EXCEPT ![caller] = "sent"]
  /\ UNCHANGED <<late, room, trouble, odd>>

Answer(caller) ==
  /\ request[caller] = "taken"
  /\ request' = [request EXCEPT ![caller] = "none"]
  /\ UNCHANGED <<late, room, trouble>>

(* An OSError: the POST is not tried again.  What was sent is still on its *)
(* way.  Mutant: urlopen without a timeout, so that only a failure the     *)
(* network reports ends it.                                                *)
Reported(caller) == request[caller] = "sent" /\ trouble < MaxTrouble
TimesOut(caller) == request[caller] = "lost" \/ (request[caller] # "none" /\ trouble < MaxTrouble)
GiveUp(caller) ==
  /\ TimesOut(caller)
  /\ trouble' = IF request[caller] = "lost" THEN trouble ELSE trouble + 1
  /\ late' = IF request[caller] = "sent"
             THEN late \cup {[n |-> trouble', row |-> BodyOf(caller)]} ELSE late
  /\ request' = [request EXCEPT ![caller] = "none"]
  /\ UNCHANGED <<room, odd>>

(* The Lobby takes an open POST, and shows what it says.                   *)
Lands(caller) ==
  /\ ~Gone /\ request[caller] = "sent"
  /\ request' = [request EXCEPT ![caller] = "taken"]
  /\ room' = BodyOf(caller)
  /\ UNCHANGED <<relayVars, workerVars, late, trouble, odd>>

(* A POST or its answer is lost.                                           *)
Lost(caller) ==
  /\ ~Gone /\ request[caller] \in {"sent", "taken"} /\ trouble < MaxTrouble
  /\ request' = [request EXCEPT ![caller] = "lost"]
  /\ trouble' = trouble + 1
  /\ UNCHANGED <<relayVars, workerVars, late, room, odd>>

(* One that nobody waits for lands after all, or never.                    *)
LandsLate ==
  \E p \in late :
    /\ late' = late \ {p}
    /\ room' \in {room, p.row}
    /\ UNCHANGED <<relayVars, workerVars, request, trouble, odd>>

-----------------------------------------------------------------------------
(* run: "while not self.stop.is_set()".                                    *)
Check ==
  /\ worker = "check"
  /\ worker' = IF stop THEN "ended" ELSE "lock"
  /\ UNCHANGED <<relayVars, body, netVars>>

(* run, under the lock: the flag is cleared with the snapshot; the POST    *)
(* follows outside the lock.                                               *)
Snapshot ==
  /\ dirty' = FALSE
  /\ body' = payload
  /\ worker' = "posting"
  /\ Open("worker")
  /\ UNCHANGED <<payload, stop, main, joined, answered, updates, signals>>

Lock ==
  /\ worker = "lock"
  /\ \/ dirty /\ Snapshot
     \/ ~dirty /\ worker' = "waiting" /\ UNCHANGED <<relayVars, body, netVars>>

(* cv.wait ends with a notify, or after KEEPALIVE seconds, and then posts  *)
(* though nothing has changed.  Mutant: it waits for a notify only.        *)
Notified == worker = "woken"
WaitEnds == worker \in {"woken", "waiting"}
Wake == WaitEnds /\ Snapshot

Posted ==
  /\ worker = "posting"
  /\ \/ Answer("worker") /\ worker' = "pause" /\ UNCHANGED odd
     \/ GiveUp("worker") /\ worker' = "pause"
     \/ (* Only OSError is caught: an answer that is not HTTP raises       *)
        (* http.client.HTTPException, and the thread ends for good.        *)
        /\ Answer("worker") /\ odd < MaxOdd /\ odd' = odd + 1
        /\ worker' = "ended"
  /\ UNCHANGED <<relayVars, body>>

(* run: at most one POST a second, or at once when stopping.               *)
Pause ==
  /\ worker = "pause"
  /\ worker' = "check"
  /\ UNCHANGED <<relayVars, body, netVars>>

(* A daemon thread ends with the process.                                  *)
Worker == ~Gone /\ (Check \/ Lock \/ Wake \/ Posted \/ Pause)

-----------------------------------------------------------------------------
(* cv.notify: a waiting worker wakes, nobody else hears it.                *)
Notify ==
  /\ worker' = IF worker = "waiting" THEN "woken" ELSE worker
  /\ UNCHANGED body

(* update, called by lobby_update.  Mutant: it only notifies.              *)
NotifyOnly == UNCHANGED dirty
Mark == dirty' = TRUE
Update(n) ==
  /\ main = "serving" /\ updates < MaxUpdates
  /\ updates' = updates + 1
  /\ payload' = [payload EXCEPT !.curplayers = n]
  /\ Mark
  /\ Notify
  /\ UNCHANGED <<stop, main, joined, answered, signals, netVars>>

(* on_term: the signal ends the loop, and run()'s finally shuts down.  A   *)
(* second one interrupts the shutdown, and the process ends as it is, with *)
(* the POSTs it has sent still on their way.                               *)
Abandon ==
  /\ late' = late \cup {[n |-> trouble, row |-> BodyOf(c)] :
                          c \in {d \in {"worker", "main"} : request[d] = "sent"}}
  /\ request' = [worker |-> "none", main |-> "none"]

Signal ==
  /\ ~Gone /\ signals < MaxSignals
  /\ signals' = signals + 1
  /\ \/ main = "serving" /\ main' = "closing" /\ UNCHANGED <<late, request>>
     \/ main # "serving" /\ main' = "killed" /\ Abandon
  /\ UNCHANGED <<payload, dirty, stop, joined, answered, updates, workerVars, room, trouble, odd>>

(* shutdown: the new status and the snapshot, under the lock.  Mutant: the *)
(* status goes into its own body only.                                     *)
OwnBodyOnly == UNCHANGED payload
SetOffline == payload' = Offline
Closing ==
  /\ main = "closing"
  /\ SetOffline
  /\ main' = "stopping"
  /\ UNCHANGED <<dirty, stop, joined, answered, updates, signals, workerVars, netVars>>

(* Then the event, and then a notify that the worker may not hear: it can  *)
(* be on its way from the check of stop to its wait.                       *)
Stopping ==
  /\ main = "stopping"
  /\ stop' = TRUE
  /\ main' = "notifying"
  /\ UNCHANGED <<payload, dirty, joined, answered, updates, signals, workerVars, netVars>>

Notifying ==
  /\ main = "notifying"
  /\ Notify
  /\ main' = "joining"
  /\ UNCHANGED <<payload, dirty, stop, joined, answered, updates, signals, netVars>>

(* join(timeout=12): only a worker that sleeps or has a POST open, of which *)
(* each half may take 10 s, can outlast it.                                *)
Join ==
  /\ main = "joining" /\ worker \in {"ended", "waiting", "posting"}
  /\ main' = "posting"
  /\ joined' = (worker # "posting")
  /\ Open("main")
  /\ UNCHANGED <<payload, dirty, stop, answered, updates, signals, workerVars>>

(* The process ends, whether or not its own POST was answered.             *)
Leave ==
  /\ main = "posting"
  /\ main' = "gone"
  /\ \/ request["main"] = "taken" /\ answered' = TRUE /\ UNCHANGED trouble
     \/ TimesOut("main") /\ UNCHANGED answered
        /\ trouble' = IF request["main"] = "lost" THEN trouble ELSE trouble + 1
  /\ Abandon
  /\ UNCHANGED <<payload, dirty, stop, joined, updates, signals, workerVars, room, odd>>

Shutdown == Closing \/ Stopping \/ Notifying \/ Join \/ Leave

-----------------------------------------------------------------------------
Next ==
  \/ Worker \/ Shutdown \/ Signal \/ LandsLate
  \/ \E caller \in {"worker", "main"} : Lands(caller) \/ Lost(caller)
  \/ \E n \in Players : Update(n)

Spec == Init /\ [][Next]_vars

(* Fairness: both threads are scheduled, the timeouts of the condition,    *)
(* the pause, the join and urlopen expire, and the Lobby takes an open     *)
(* POST that is neither lost nor given up.                                 *)
FairSpec ==
  /\ Spec
  /\ WF_vars(Worker) /\ WF_vars(Shutdown)
  /\ WF_vars(Lands("worker")) /\ WF_vars(Lands("main"))

-----------------------------------------------------------------------------
TypeOK ==
  /\ payload \in Row
  /\ dirty \in BOOLEAN /\ stop \in BOOLEAN /\ joined \in BOOLEAN /\ answered \in BOOLEAN
  /\ worker \in {"check", "lock", "waiting", "woken", "posting", "pause", "ended"}
  /\ body \in Row \cup {Nothing}
  /\ main \in {"serving", "closing", "stopping", "notifying", "joining", "posting",
              "gone", "killed"}
  /\ request \in [{"worker", "main"} -> {"none", "sent", "taken", "lost"}]
  /\ \A p \in late : p.n \in 0 .. MaxTrouble /\ p.row \in Row
  /\ room \in Row \cup {Nothing}

(* No update is lost between the relay's thread and the worker's (update,  *)
(* run): unless the flag is up, the snapshot last posted has the count of  *)
(* the payload, wherever the worker was when it changed.                   *)
NoLostUpdate == dirty \/ body.curplayers = payload.curplayers

(* "the offline POST on shutdown is what takes it away", as far as it      *)
(* goes: it does, for good, when it is answered, none before it failed or  *)
(* was given up, and the worker had none open when join returned.          *)
OfflineLast ==
  main = "gone" /\ answered /\ joined /\ trouble = 0 /\ late = {} => room.status = "offline"

(* "... a server that stops POSTing stays in every client's list forever   *)
(* ... the offline POST on shutdown is what takes it away"                 *)
(* (dragster_relay_server.py:474-477): once it is answered and nothing is  *)
(* on its way any more, the room is offline.                               *)
TakenAway == main = "gone" /\ answered /\ late = {} => room.status = "offline"

(* "the keepalive re-POST is what keeps the room honest"                   *)
(* (dragster_relay_server.py:475-476): as long as the relay serves and the *)
(* worker lives, the Lobby comes to show the count, whatever POSTs failed. *)
KeptHonest == <>[](main = "serving" /\ worker # "ended") => <>[](room = payload)

(* shutdown always ends: neither a worker that missed the notify nor a     *)
(* Lobby that does not answer keeps the process.                           *)
ShutsDown == main = "closing" ~> Gone
=============================================================================
