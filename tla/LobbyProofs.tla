----------------------------- MODULE LobbyProofs -----------------------------
(***************************************************************************)
(* What is proved of the Lobby publisher, for any counts and any number of *)
(* updates, failures and signals: its types, and that no update is lost    *)
(* between the two threads.                                                *)
(***************************************************************************)
EXTENDS LobbyPublisher, TLAPS

Thread == {"worker", "main"}

(* A POST is open only once there is a snapshot, and trouble is counted    *)
(* up to its bound: what TypeOK needs to be inductive.                     *)
Snapped == request["worker"] # "none" => body \in Row
TroubleBounded == trouble \in 0 .. MaxTrouble
LobbyInv == TypeOK /\ Snapped /\ TroubleBounded

LEMMA InitInv == Init => LobbyInv
<1>. SUFFICES ASSUME Init PROVE LobbyInv
  OBVIOUS
<1>1. payload \in Row
  BY Bounds DEF Init, Row
<1>2. request \in [Thread -> {"none", "sent", "taken", "lost"}] /\ request["worker"] = "none"
  BY DEF Init, Thread
<1>3. \A p \in late : p.n \in 0 .. MaxTrouble /\ p.row \in Row
  BY DEF Init
<1>4. TypeOK
  BY <1>1, <1>2, <1>3 DEF Init, TypeOK, Thread
<1>5. Snapped /\ TroubleBounded
  BY <1>2, Bounds DEF Init, Snapped, TroubleBounded
<1>. QED  BY <1>4, <1>5 DEF LobbyInv

(* What a caller posts is a row.                                           *)
LEMMA BodyIsRow ==
  ASSUME LobbyInv, NEW c \in Thread, request[c] # "none"
  PROVE  BodyOf(c) \in Row
<1>1. CASE c = "main"
  BY <1>1 DEF LobbyInv, TypeOK, BodyOf, Offline, Row
<1>2. CASE c = "worker"
  BY <1>2 DEF LobbyInv, Snapped, BodyOf
<1>. QED  BY <1>1, <1>2 DEF Thread

(* Nobody gives up a POST while trouble is at its bound, unless it is lost.*)
LEMMA GiveUpKeeps ==
  ASSUME LobbyInv, NEW c \in Thread, GiveUp(c)
  PROVE  /\ request' \in [Thread -> {"none", "sent", "taken", "lost"}]
         /\ request'["worker"] = "none" \/ request'["worker"] = request["worker"]
         /\ \A p \in late' : p.n \in 0 .. MaxTrouble /\ p.row \in Row
         /\ TroubleBounded'
         /\ room' = room
<1>1. /\ request \in [Thread -> {"none", "sent", "taken", "lost"}]
      /\ trouble \in 0 .. MaxTrouble
      /\ request' = [request EXCEPT ![c] = "none"]
  BY DEF GiveUp, LobbyInv, TypeOK, TroubleBounded, Thread
<1>2. trouble' \in 0 .. MaxTrouble
  BY <1>1, Bounds DEF GiveUp, TimesOut
<1>3. \A p \in late' : p.n \in 0 .. MaxTrouble /\ p.row \in Row
  <2>1. CASE request[c] = "sent"
    <3>1. late' = late \cup {[n |-> trouble', row |-> BodyOf(c)]}
      BY <2>1 DEF GiveUp
    <3>2. BodyOf(c) \in Row
      BY <2>1, BodyIsRow
    <3>. QED  BY <3>1, <3>2, <1>2 DEF LobbyInv, TypeOK
  <2>2. CASE request[c] # "sent"
    BY <2>2 DEF GiveUp, LobbyInv, TypeOK
  <2>. QED  BY <2>1, <2>2
<1>. QED  BY <1>1, <1>2, <1>3 DEF TroubleBounded, Thread, GiveUp

(* What is on its way when the process ends.                               *)
LEMMA AbandonKeeps ==
  ASSUME LobbyInv, Abandon
  PROVE  /\ request' = [worker |-> "none", main |-> "none"]
         /\ \A p \in late' : p.n \in 0 .. MaxTrouble /\ p.row \in Row
<1>1. \A d \in Thread : request[d] = "sent" => BodyOf(d) \in Row
  BY BodyIsRow
<1>2. \A p \in late : p.n \in 0 .. MaxTrouble /\ p.row \in Row
  BY DEF LobbyInv, TypeOK
<1>3. trouble \in 0 .. MaxTrouble
  BY DEF LobbyInv, TroubleBounded
<1>. QED  BY <1>1, <1>2, <1>3 DEF Abandon, Thread

LEMMA NextInv == LobbyInv /\ [Next]_vars => LobbyInv'
<1>. SUFFICES ASSUME LobbyInv, [Next]_vars PROVE LobbyInv'
  OBVIOUS
<1>. USE Bounds
<1>1. CASE Check
  BY <1>1 DEF Check, LobbyInv, TypeOK, Snapped, TroubleBounded, relayVars, netVars
<1>2. ASSUME Snapshot PROVE LobbyInv'
  BY <1>2 DEF Snapshot, Open, LobbyInv, TypeOK, Snapped, TroubleBounded
<1>3. CASE Lock
  <2>1. CASE Snapshot
    BY <1>2, <2>1
  <2>2. CASE worker' = "waiting" /\ UNCHANGED <<relayVars, body, netVars>>
    BY <2>2 DEF LobbyInv, TypeOK, Snapped, TroubleBounded, relayVars, netVars
  <2>. QED  BY <1>3, <2>1, <2>2 DEF Lock
<1>4. CASE Wake
  BY <1>2, <1>4 DEF Wake
<1>5. CASE Posted
  <2>1. UNCHANGED <<payload, dirty, stop, main, joined, answered, body>>
    BY <1>5 DEF Posted, relayVars
  <2>2. worker' \in {"pause", "ended"}
    BY <1>5 DEF Posted
  <2>3. CASE Answer("worker")
    BY <2>1, <2>2, <2>3 DEF Answer, LobbyInv, TypeOK, Snapped, TroubleBounded
  <2>4. CASE GiveUp("worker")
    <3>1. "worker" \in Thread
      BY DEF Thread
    <3>. QED  BY <2>1, <2>2, <2>4, <3>1, GiveUpKeeps DEF LobbyInv, TypeOK, Snapped, Thread
  <2>. QED  BY <1>5, <2>3, <2>4 DEF Posted
<1>6. CASE Pause
  BY <1>6 DEF Pause, LobbyInv, TypeOK, Snapped, TroubleBounded, relayVars, netVars
<1>7. CASE Closing
  BY <1>7 DEF Closing, SetOffline, Offline, Row, LobbyInv, TypeOK, Snapped, TroubleBounded,
              workerVars, netVars
<1>8. CASE Stopping
  BY <1>8 DEF Stopping, LobbyInv, TypeOK, Snapped, TroubleBounded, workerVars, netVars
<1>9. CASE Notifying
  BY <1>9 DEF Notifying, Notify, LobbyInv, TypeOK, Snapped, TroubleBounded, netVars
<1>10. CASE Join
  BY <1>10 DEF Join, Open, LobbyInv, TypeOK, Snapped, TroubleBounded, workerVars
<1>11. CASE Leave
  <2>1. /\ request' = [worker |-> "none", main |-> "none"]
        /\ \A p \in late' : p.n \in 0 .. MaxTrouble /\ p.row \in Row
    BY <1>11, AbandonKeeps DEF Leave
  <2>2. trouble' \in 0 .. MaxTrouble
    BY <1>11 DEF Leave, TimesOut, LobbyInv, TroubleBounded
  <2>3. /\ UNCHANGED <<payload, dirty, stop, joined, worker, body, room>>
        /\ main' = "gone" /\ answered' \in BOOLEAN
    BY <1>11 DEF Leave, workerVars, LobbyInv, TypeOK
  <2>. QED  BY <2>1, <2>2, <2>3 DEF LobbyInv, TypeOK, Snapped, TroubleBounded
<1>12. CASE Signal
  <2>1. UNCHANGED <<payload, dirty, stop, joined, answered, worker, body, room, trouble>>
    BY <1>12 DEF Signal, workerVars
  <2>2. CASE main' = "closing" /\ UNCHANGED <<late, request>>
    BY <2>1, <2>2 DEF LobbyInv, TypeOK, Snapped, TroubleBounded
  <2>3. CASE main' = "killed" /\ Abandon
    BY <2>1, <2>3, AbandonKeeps DEF LobbyInv, TypeOK, Snapped, TroubleBounded
  <2>. QED  BY <1>12, <2>2, <2>3 DEF Signal
<1>13. CASE LandsLate
  BY <1>13 DEF LandsLate, LobbyInv, TypeOK, Snapped, TroubleBounded, relayVars, workerVars
<1>14. ASSUME NEW c \in Thread, Lands(c) PROVE LobbyInv'
  <2>1. BodyOf(c) \in Row
    BY <1>14, BodyIsRow DEF Lands
  <2>. QED  BY <1>14, <2>1 DEF Lands, Thread, LobbyInv, TypeOK, Snapped, TroubleBounded,
                               relayVars, workerVars
<1>15. ASSUME NEW c \in Thread, Lost(c) PROVE LobbyInv'
  BY <1>15 DEF Lost, Thread, LobbyInv, TypeOK, Snapped, TroubleBounded, relayVars, workerVars
<1>16. ASSUME NEW n \in Players, Update(n) PROVE LobbyInv'
  BY <1>16 DEF Update, Mark, Notify, Row, LobbyInv, TypeOK, Snapped, TroubleBounded, netVars
<1>17. CASE UNCHANGED vars
  BY <1>17 DEF vars, relayVars, workerVars, netVars, LobbyInv, TypeOK, Snapped, TroubleBounded
<1>. QED
  BY <1>1, <1>3, <1>4, <1>5, <1>6, <1>7, <1>8, <1>9, <1>10, <1>11, <1>12, <1>13, <1>14, <1>15,
     <1>16, <1>17 DEF Next, Worker, Shutdown, Thread

(* The publisher's variables keep their types, and what may still reach    *)
(* the Lobby is always a whole row.                                        *)
THEOREM TypeCorrect == Spec => []TypeOK
<1>1. LobbyInv => TypeOK
  BY DEF LobbyInv
<1>. QED  BY InitInv, NextInv, <1>1, PTL DEF Spec

-----------------------------------------------------------------------------
LEMMA InitNoLost == Init => NoLostUpdate
BY DEF Init, NoLostUpdate

(* Only a snapshot lowers the flag, and it takes the count with it; only   *)
(* an update changes the count, and it raises the flag.                    *)
LEMMA NextNoLost == LobbyInv /\ NoLostUpdate /\ [Next]_vars => NoLostUpdate'
<1>. SUFFICES ASSUME LobbyInv, NoLostUpdate, [Next]_vars PROVE NoLostUpdate'
  OBVIOUS
<1>1. ASSUME UNCHANGED <<payload, dirty, body>> PROVE NoLostUpdate'
  BY <1>1 DEF NoLostUpdate
<1>2. ASSUME Snapshot PROVE NoLostUpdate'
  BY <1>2 DEF Snapshot, NoLostUpdate
<1>3. CASE Worker
  BY <1>1, <1>2, <1>3 DEF Worker, Check, Lock, Wake, Posted, Pause, relayVars
<1>4. CASE Closing
  BY <1>4 DEF Closing, SetOffline, Offline, workerVars, NoLostUpdate, LobbyInv, TypeOK, Row
<1>5. CASE Stopping \/ Notifying \/ Join \/ Leave
  BY <1>1, <1>5 DEF Stopping, Notifying, Notify, Join, Leave, workerVars
<1>6. CASE Signal \/ LandsLate
  BY <1>1, <1>6 DEF Signal, LandsLate, relayVars, workerVars
<1>7. ASSUME NEW c \in Thread, Lands(c) \/ Lost(c) PROVE NoLostUpdate'
  BY <1>1, <1>7 DEF Lands, Lost, relayVars, workerVars
<1>8. ASSUME NEW n \in Players, Update(n) PROVE NoLostUpdate'
  BY <1>8 DEF Update, Mark, NoLostUpdate
<1>9. CASE UNCHANGED vars
  BY <1>1, <1>9 DEF vars, relayVars, workerVars
<1>. QED
  BY <1>3, <1>4, <1>5, <1>6, <1>7, <1>8, <1>9 DEF Next, Shutdown, Thread

(* No update is lost between update() and the worker's snapshot, however   *)
(* the two threads interleave (dragster_relay_server.py:505-519).          *)
THEOREM NothingLost == Spec => []NoLostUpdate
<1>. QED  BY InitInv, NextInv, InitNoLost, NextNoLost, PTL DEF Spec

-----------------------------------------------------------------------------
(* Why the room is offline in the end, when nothing goes wrong.  Once the  *)
(* status is set, whatever is posted from then on says offline; a worker   *)
(* that had no POST open when join returned can only post such a body; and *)
(* what is late at all is late because of trouble or because the process   *)
(* has ended on it.                                                        *)
StatusSet ==
  joined \/ main \in {"stopping", "notifying", "joining", "posting", "gone"} =>
    payload.status = "offline"

OnlyPosting ==
  /\ request["worker"] # "none" => worker = "posting"
  /\ request["main"] # "none" => main = "posting"

NothingLate ==
  /\ ~Gone /\ trouble = 0 => late = {}
  /\ joined /\ trouble = 0 => \A p \in late : p.row.status = "offline"

SaysOffline ==
  /\ joined => main \in {"posting", "gone", "killed"}
  /\ joined /\ request["worker"] # "none" => body.status = "offline"
  /\ joined /\ (request["main"] = "taken" \/ answered) /\ trouble = 0 => room.status = "offline"
  /\ answered => Gone

OfflineInv == StatusSet /\ OnlyPosting /\ NothingLate /\ SaysOffline

LEMMA InitOffline == Init => OfflineInv
BY DEF Init, OfflineInv, StatusSet, OnlyPosting, NothingLate, SaysOffline, Gone

LEMMA NextOffline == LobbyInv /\ OfflineInv /\ [Next]_vars => OfflineInv'
<1>. SUFFICES ASSUME LobbyInv, OfflineInv, [Next]_vars PROVE OfflineInv'
  OBVIOUS
<1>a. /\ trouble \in Nat /\ request \in [Thread -> {"none", "sent", "taken", "lost"}]
      /\ payload \in Row /\ "worker" \in Thread /\ "main" \in Thread
  BY Bounds DEF LobbyInv, TypeOK, TroubleBounded, Thread
<1>. USE DEF OfflineInv, StatusSet, OnlyPosting, NothingLate, SaysOffline, Gone
<1>1. CASE Check \/ Pause
  BY <1>1 DEF Check, Pause, relayVars, netVars
<1>2. ASSUME Snapshot, worker # "posting", ~Gone PROVE OfflineInv'
  <2>1. /\ request' = [request EXCEPT !["worker"] = "sent"] /\ body' = payload
        /\ worker' = "posting"
        /\ UNCHANGED <<payload, main, joined, answered, late, room, trouble>>
    BY <1>2 DEF Snapshot, Open
  <2>2. request'["worker"] = "sent" /\ request'["main"] = request["main"]
    BY <1>a, <2>1
  <2>. QED  BY <2>1, <2>2
<1>3. CASE Lock /\ ~Gone
  <2>1. worker = "lock"
    BY <1>3 DEF Lock
  <2>2. CASE Snapshot
    BY <1>2, <1>3, <2>1, <2>2
  <2>3. CASE worker' = "waiting" /\ UNCHANGED <<relayVars, body, netVars>>
    BY <2>1, <2>3 DEF relayVars, netVars
  <2>. QED  BY <1>3, <2>2, <2>3 DEF Lock
<1>4. CASE Wake /\ ~Gone
  BY <1>2, <1>4 DEF Wake, WaitEnds
<1>5. CASE Posted /\ ~Gone
  <2>1. /\ UNCHANGED <<payload, main, joined, answered, body>>
        /\ request' = [request EXCEPT !["worker"] = "none"]
        /\ UNCHANGED room
    BY <1>5 DEF Posted, relayVars, Answer, GiveUp
  <2>2. request'["worker"] = "none" /\ request'["main"] = request["main"]
    BY <1>a, <2>1
  <2>3. CASE Answer("worker")
    BY <2>1, <2>2, <2>3 DEF Answer
  <2>4. CASE GiveUp("worker")
    <3>1. CASE request["worker"] = "lost"
      BY <2>1, <2>2, <2>4, <3>1 DEF GiveUp
    <3>2. CASE request["worker"] # "lost"
      <4>1. trouble' # 0
        BY <1>a, <2>4, <3>2 DEF GiveUp
      <4>. QED  BY <1>5, <2>1, <2>2, <4>1
    <3>. QED  BY <3>1, <3>2
  <2>. QED  BY <1>5, <2>3, <2>4 DEF Posted
<1>6. CASE Closing
  <2>1. payload'.status = "offline"
    BY <1>6, <1>a DEF Closing, SetOffline, Offline, Row
  <2>. QED  BY <1>6, <2>1 DEF Closing, workerVars, netVars
<1>7. CASE Stopping
  BY <1>7 DEF Stopping, workerVars, netVars
<1>8. CASE Notifying
  BY <1>8 DEF Notifying, Notify, netVars
<1>9. CASE Join
  <2>1. /\ main = "joining" /\ main' = "posting" /\ joined' = (worker # "posting")
        /\ request' = [request EXCEPT !["main"] = "sent"]
        /\ UNCHANGED <<payload, answered, worker, body, late, room, trouble>>
    BY <1>9 DEF Join, Open, workerVars
  <2>2. request'["main"] = "sent" /\ request'["worker"] = request["worker"]
    BY <1>a, <2>1
  <2>3. ~joined /\ ~answered /\ payload.status = "offline"
    BY <2>1
  <2>4. joined' => request'["worker"] = "none"
    BY <2>1, <2>2
  <2>5. trouble = 0 => late = {}
    BY <2>1
  <2>. QED  BY <2>1, <2>2, <2>3, <2>4, <2>5
<1>10. ASSUME Abandon, ~Gone, joined, trouble = 0
       PROVE  \A p \in late' : p.row.status = "offline"
  <2>1. late = {}
    BY <1>10
  <2>2. Offline.status = "offline"
    BY <1>a DEF Offline, Row
  <2>3. request["worker"] = "sent" => body.status = "offline"
    BY <1>10
  <2>4. \A d \in {"worker", "main"} : request[d] = "sent" => BodyOf(d).status = "offline"
    BY <2>2, <2>3 DEF BodyOf
  <2>. QED  BY <1>10, <2>1, <2>4 DEF Abandon
<1>11. ASSUME Abandon PROVE request'["worker"] = "none" /\ request'["main"] = "none"
  BY <1>11 DEF Abandon
<1>12. CASE Leave
  <2>1. /\ main = "posting" /\ main' = "gone" /\ Abandon
        /\ UNCHANGED <<payload, joined, worker, body, room>>
    BY <1>12 DEF Leave, workerVars
  <2>2. /\ trouble' = 0 => trouble = 0
        /\ answered' => answered \/ request["main"] = "taken"
    BY <1>12, <1>a DEF Leave
  <2>3. joined' /\ trouble' = 0 => \A p \in late' : p.row.status = "offline"
    BY <1>10, <2>1, <2>2
  <2>. QED  BY <1>11, <2>1, <2>2, <2>3
<1>13. CASE Signal
  <2>1. ~Gone /\ UNCHANGED <<payload, joined, answered, worker, body, room, trouble>>
    BY <1>13 DEF Signal, workerVars
  <2>2. CASE main = "serving" /\ main' = "closing" /\ UNCHANGED <<late, request>>
    BY <2>1, <2>2
  <2>3. CASE main # "serving" /\ main' = "killed" /\ Abandon
    <3>1. joined' /\ trouble' = 0 => \A p \in late' : p.row.status = "offline"
      BY <1>10, <2>1, <2>3
    <3>. QED  BY <1>11, <2>1, <2>3, <3>1
  <2>. QED  BY <1>13, <2>2, <2>3 DEF Signal
<1>14. CASE LandsLate
  BY <1>14 DEF LandsLate, relayVars, workerVars
<1>15. ASSUME NEW c \in Thread, Lands(c) PROVE OfflineInv'
  <2>1. /\ ~Gone /\ request[c] = "sent" /\ request' = [request EXCEPT ![c] = "taken"]
        /\ room' = BodyOf(c)
        /\ UNCHANGED <<payload, main, joined, answered, worker, body, late, trouble>>
    BY <1>15 DEF Lands, relayVars, workerVars
  <2>2. CASE c = "main"
    <3>1. BodyOf(c).status = "offline"
      BY <1>a, <2>2 DEF BodyOf, Offline, Row
    <3>2. request'["main"] = "taken" /\ request'["worker"] = request["worker"]
      BY <1>a, <2>1, <2>2
    <3>. QED  BY <2>1, <2>2, <3>1, <3>2
  <2>3. CASE c = "worker"
    <3>1. BodyOf(c) = body
      BY <2>3 DEF BodyOf
    <3>2. request'["worker"] = "taken" /\ request'["main"] = request["main"]
      BY <1>a, <2>1, <2>3
    <3>. QED  BY <2>1, <2>3, <3>1, <3>2
  <2>. QED  BY <2>2, <2>3 DEF Thread
<1>16. ASSUME NEW c \in Thread, Lost(c) PROVE OfflineInv'
  <2>1. /\ ~Gone /\ request[c] \in {"sent", "taken"}
        /\ request' = [request EXCEPT ![c] = "lost"] /\ trouble' = trouble + 1
        /\ UNCHANGED <<payload, main, joined, answered, worker, body, late, room>>
    BY <1>16 DEF Lost, relayVars, workerVars
  <2>2. trouble' # 0
    BY <1>a, <2>1
  <2>3. \A d \in Thread : request'[d] # "none" => request[d] # "none"
    BY <1>a, <2>1
  <2>. QED  BY <1>a, <2>1, <2>2, <2>3
<1>17. ASSUME NEW n \in Players, Update(n) PROVE OfflineInv'
  <2>1. /\ main = "serving" /\ ~joined /\ UNCHANGED <<main, joined, answered, body, netVars>>
        /\ worker = "posting" => worker' = "posting"
    BY <1>17 DEF Update, Notify
  <2>. QED  BY <2>1 DEF netVars
<1>18. CASE UNCHANGED vars
  BY <1>18 DEF vars, relayVars, workerVars, netVars
<1>. QED
  BY <1>1, <1>3, <1>4, <1>5, <1>6, <1>7, <1>8, <1>9, <1>12, <1>13, <1>14, <1>15, <1>16, <1>17,
     <1>18 DEF Next, Worker, Shutdown, Thread

(* shutdown's own POST takes the room off the Lobby for good when nothing  *)
(* failed and the worker had no POST open when join returned, whatever a   *)
(* worker that missed the notify posts meanwhile.                          *)
THEOREM OfflineInTheEnd == Spec => []OfflineLast
<1>1. OfflineInv => OfflineLast
  BY DEF OfflineInv, SaysOffline, OfflineLast
<1>. QED  BY InitInv, NextInv, InitOffline, NextOffline, <1>1, PTL DEF Spec
=============================================================================
