---------------------------- MODULE PacedProofs ----------------------------
(***************************************************************************)
(* Lockstep in real time, for trips of the two transports that are long    *)
(* enough for a reply to be consumed in one overscan, and short enough for *)
(* a window to reach over the ticks captured meanwhile:                    *)
(*                                                                         *)
(* - No record is ever out of reach of the one before it and, as long as   *)
(*   both consoles race, they race the same race.                          *)
(* - When two trips and a READ are also no longer than the stalls the      *)
(*   watchdog counts, no console gives up a peer that is there.            *)
(***************************************************************************)
EXTENDS PacedLockstep, LockstepProofs, Induction

(***************************************************************************)
(* The hypothesis.                                                         *)
(***************************************************************************)

(* Every WRITE and STATUS take at least the shortest number of frames and, *)
(* with the longest READ, at most the longest; that is no longer than a    *)
(* window lasts; and the records a peer can write meanwhile, at most one   *)
(* in each shortest trip, are read, consumed and answered by the next      *)
(* WRITE in one overscan.  Nothing is damaged and no transaction fails.    *)
EvenTrips(shortest, longest, read) ==
  /\ shortest \in Nat \ {0} /\ longest \in Nat /\ read \in Nat /\ MaxFaults = 0
  /\ \A c \in Console : /\ Trip(c) # {} /\ \A n \in Trip(c) : shortest <= n /\ n + read <= longest
                        /\ Fetch(c) # {} /\ \A n \in Fetch(c) : n <= read
  /\ longest <= K * Win
  /\ longest < shortest * (Slack - 2)

(***************************************************************************)
(* The invariant.                                                          *)
(***************************************************************************)
Together == \A c \in Console : Racing(c)

Cadence ==
  /\ turn \in Console /\ steps \in 0 .. Slack
  /\ trip \in [Console -> Nat] /\ fetch \in [Console -> Nat] /\ asked \in [Console -> BOOLEAN]

(* Only a boundary is retried, and every record is good.                   *)
Settled ==
  /\ faults = 0
  /\ \A c \in Console : phase[c] # 0 => ran[c]
  /\ \A c \in Console : \A m \in Unread(c) : m.good

(* c's simulated frames, and the one it waits for.                         *)
Pos(c) == clk[c] + (IF ran[c] THEN 0 ELSE 1)

(* A transaction of c is in flight; and how many frames a record that has  *)
(* just come may have missed the STATUS by.                                *)
Away(c) == nst[c] = "SACK" \/ asked[c]
Since(c, read) == IF asked[c] THEN fetch[c] ELSE trip[c] + read

(* Once its own frame is over c is always travelling: what READ returned   *)
(* and the next WRITE fit in one overscan.                                 *)
Cycle(c, longest, read) ==
  /\ tick[c] = -1 => /\ nst[c] = "WISS" /\ trip[c] = 0 /\ net[Peer(c)] = <<>>
                     /\ turn = Peer(c) => net[c] = <<>>
  /\ tick[c] >= 0 =>
       /\ turn = c => Away(c) /\ trip[c] >= 1 /\ Since(c, read) >= 1
       /\ turn # c =>
            /\ nst[c] = "SACK" => trip[c] = 0 \/ steps = 0
            /\ nst[c] = "CONS" => Len(reply[c]) + 1 <= Slack - steps
            /\ nst[c] = "WISS" => steps < Slack
  /\ asked[c] => /\ nst[c] = "CONS" /\ Len(reply[c]) + 1 <= Slack
                 /\ fetch[c] <= read /\ \E n \in Trip(c) : trip[c] = n + fetch[c]
  /\ ~asked[c] => trip[c] + read <= longest
  /\ ~Away(c) => net[c] = <<>> \/ trip[c] = 0

(* The peer of c writes once in a trip of its own, so c's inbox grows no   *)
(* faster than the frames that pass.                                       *)
Elapsed(p, shortest) == IF nst[p] = "SACK" THEN trip[p] ELSE shortest
Sparse(c, shortest, read) ==
  net[c] # <<>> =>
    shortest * Len(net[c]) + Elapsed(Peer(c), shortest)
      <= Since(c, read) + shortest + (IF turn = c THEN 0 ELSE 1)

(* What waits for c was written since its last STATUS.                     *)
Recent(c, read) ==
  \A i \in DOMAIN net[c] : IsInput(net[c][i]) =>
    Pos(Peer(c)) <= K * (net[c][i].tick - D + 1) + Since(c, read)

(* A record of tick t or later has reached c or is among the first n of    *)
(* those that wait for it.                                                 *)
Seen(c, n, t) ==
  \/ t <= Newest(c)
  \/ \E m \in Inputs(c) : t <= m.tick
  \/ \E i \in 1 .. n : IsInput(net[c][i]) /\ t <= net[c][i].tick

(* Each record reaches back to one before it.                              *)
Chained(c) ==
  \A i \in DOMAIN net[c] : IsInput(net[c][i]) => Seen(c, i - 1, net[c][i].tick - Win)

(* c wrote its last record at most a trip ago.                             *)
Age(c, longest) ==
  IF ~Away(c) THEN longest ELSE IF turn = c THEN trip[c] - 1 ELSE trip[c]
Timely(c, longest) ==
  tick[c] >= 0 =>
    \E x \in Int : /\ Seen(Peer(c), Len(net[Peer(c)]), x)
                   /\ Pos(c) <= K * (x - D + 1) + Age(c, longest)

(* The remote ring holds, of the ticks from the one c is on to the newest  *)
(* c has or is consuming, all but those that what it is consuming brings.  *)
Right(slots, p, t) == slots[t % RingSize] = Captured(p, t)
Brings(m, t) == m.tick - Win < t /\ t <= m.tick
Due(c, t) == tick[c] <= t /\ (t <= Newest(c) \/ \E m \in Inputs(c) : t <= m.tick)
Filling(c) ==
  \A t \in Nat : Due(c, t) =>
    Right(ring[c], Peer(c), t) \/ \E m \in Inputs(c) : Brings(m, t)

(* No record is consumed before its READ is answered.                      *)
Untouched(c) == asked[c] => RingInv(c)

PacedInv(shortest, longest, read) ==
  /\ Cadence /\ Settled
  /\ \A c \in Console : Chained(c)
  /\ Together =>
       /\ \A c \in Console :
            /\ Cycle(c, longest, read) /\ Sparse(c, shortest, read)
            /\ Recent(c, read) /\ Timely(c, longest)
            /\ CloseInv(c) /\ Filling(c) /\ Untouched(c)
       /\ SameInputs

(***************************************************************************)
(* The steps are those of Lockstep.                                        *)
(***************************************************************************)
LEMMA PacedIsNext == [PacedNext]_pacedVars => [Next]_vars
<1> SUFFICES ASSUME [PacedNext]_pacedVars PROVE [Next]_vars
  OBVIOUS
<1>1. ASSUME NEW c \in Console, Frame(c) \/ Overscan(c) \/ Leave(c) PROVE [Next]_vars
  BY <1>1 DEF Frame, Overscan, Leave, Next
<1>2. UNCHANGED pacedVars => UNCHANGED vars
  BY DEF pacedVars
<1> QED
  BY <1>1, <1>2 DEF PacedNext

LEMMA PacedIsSpec == PacedSpec => Spec
<1>1. PacedInit => Init
  BY DEF PacedInit
<1> QED
  BY <1>1, PacedIsNext, PTL DEF PacedSpec, Spec

(* Of two consoles.                                                        *)
LEMMA TwoConsoles ==
  ASSUME NEW c \in Console
  PROVE  \A d \in Console : d = c \/ d = Peer(c)
BY DEF Peer, Console

(* A console that has started no tick has simulated no frame; one that is  *)
(* on tick t has simulated, or waits for, one of its K frames.             *)
LEMMA PosRange ==
  ASSUME HistInv, Settled, NEW c \in Console
  PROVE  /\ Pos(c) \in Int
         /\ K * tick[c] + 1 <= Pos(c) /\ Pos(c) <= K * (tick[c] + 1)
         /\ tick[c] = -1 => phase[c] = 0 /\ ran[c] /\ Pos(c) = 0
<1>1. PICK N \in Nat, f \in Nat, s \in 0 .. K - 1, t \in Int :
        N = Len(applied[c]) /\ f = clk[c] /\ s = phase[c] /\ t = tick[c] /\ t >= -1
  BY HistTypes DEF HistInv, SkewInv
<1>2. /\ K \in Nat \ {0} /\ ran[c] \in BOOLEAN
      /\ N = t + (IF ran[c] THEN 1 ELSE 0)
      /\ f = K * N - (IF s = 0 THEN 0 ELSE K - s)
      /\ s # 0 => ran[c]
      /\ t = -1 => ran[c]
  BY <1>1, HistTypes DEF HistInv, SkewInv, TickInv, GateInv, RunInv, Settled
<1>3. CASE ran[c]
  <2>1. N = t + 1 /\ Pos(c) = f
    BY <1>1, <1>2, <1>3 DEF Pos
  <2>2. f = K * (t + 1) - (IF s = 0 THEN 0 ELSE K - s)
    BY <1>2, <2>1
  <2>3. K * (t + 1) = K * t + K
    BY <1>1, <1>2
  <2>4. K * t \in Int
    BY <1>1, <1>2
  <2>5. K * t + 1 <= f /\ f <= K * (t + 1)
    BY <1>1, <1>2, <2>2, <2>3, <2>4
  <2>6. t = -1 => s = 0 /\ f = 0
    BY <1>1, <1>2, <2>1
  <2> QED
    BY <1>1, <1>3, <2>1, <2>5, <2>6
<1>4. CASE ~ran[c]
  <2>1. N = t /\ s = 0 /\ f = K * t /\ Pos(c) = f + 1 /\ t >= 0
    BY <1>1, <1>2, <1>4 DEF Pos
  <2>2. K * (t + 1) = K * t + K
    BY <1>1, <1>2
  <2>3. K * t \in Int
    BY <1>1, <1>2
  <2> QED
    BY <1>1, <1>2, <1>4, <2>1, <2>2, <2>3
<1> QED
  BY <1>2, <1>3, <1>4

(* What the drawing of a frame of c does.                                  *)
LEMMA FrameCells ==
  ASSUME HistInv, Settled, Cadence, Together, NEW c \in Console, Frame(c)
  PROVE  LET p == Peer(c)
         IN  /\ turn = c /\ turn' = p /\ steps' = 0 /\ OverscanOver(p)
             /\ UNCHANGED <<nst, reply, net, rwat, ring, faults, asked>>
             /\ trip' = [trip EXCEPT ![p] = IF Travelling(p) THEN trip[p] + 1 ELSE trip[p]]
             /\ fetch' = [fetch EXCEPT ![p] = IF Travelling(p) /\ asked[p] THEN fetch[p] + 1 ELSE fetch[p]]
             /\ trip'[c] = trip[c] /\ fetch'[c] = fetch[c]
             /\ tick'[p] = tick[p] /\ clk'[p] = clk[p] /\ ran'[p] = ran[p] /\ phase'[p] = phase[p]
             /\ tick'[c] >= 0 /\ tick'[c] \in Int /\ Pos(c)' <= Pos(c) + 1
             /\ phase'[c] # 0 => ran'[c]
             /\ DGSHIM(c)
<1> DEFINE p == Peer(c)
<1>1. p \in Console /\ p # c /\ TypeInv /\ trip \in [Console -> Nat] /\ fetch \in [Console -> Nat]
  BY Peers DEF HistInv, SkewInv, Cadence
<1>2. DGSHIM(c)
  BY DEF Frame, Together
<1>3. [Next]_vars
  BY <1>2 DEF Next
<1>4. UNCHANGED <<nst, reply, net, rwat, ring, faults>>
  BY <1>2 DEF DGSHIM, MidTick, Boundary, xportVars
<1>5. /\ tick[c] \in Int /\ tick[c] >= -1 /\ ran[c] \in BOOLEAN /\ clk[c] \in Nat
      /\ phase[c] \in 0 .. K - 1 /\ K \in Nat \ {0}
  BY <1>1, HistTypes
<1>6. /\ tick'[p] = tick[p] /\ clk'[p] = clk[p] /\ ran'[p] = ran[p] /\ phase'[p] = phase[p]
  <2>1. CASE MidTick(c)
    BY <1>1, <2>1 DEF MidTick, TypeInv, TypeOK, GateTypes
  <2>2. CASE Boundary(c)
    <3>1. tick'[p] = tick[p]
      BY <1>1, <2>2 DEF Boundary, Advance, Commit, Retry, TypeInv, TypeOK, CaptureTypes
    <3>2. clk'[p] = clk[p] /\ ran'[p] = ran[p] /\ phase'[p] = phase[p]
      BY <1>1, <2>2 DEF Boundary, RunTick, Stall, Frozen, TypeInv, TypeOK, GateTypes
    <3> QED
      BY <3>1, <3>2
  <2> QED
    BY <1>2, <2>1, <2>2 DEF DGSHIM
<1>7. tick'[c] >= 0 /\ tick'[c] \in Int /\ Pos(c)' <= Pos(c) + 1 /\ (phase'[c] # 0 => ran'[c])
  <2>1. CASE MidTick(c)
    <3>1. phase[c] # 0 /\ ran[c] /\ ran' = ran /\ tick' = tick /\ clk'[c] = clk[c] + 1
      BY <1>1, <2>1 DEF MidTick, Settled, TypeInv, TypeOK, GateTypes
    <3>2. tick[c] # -1
      BY <3>1, PosRange
    <3> QED
      BY <1>5, <3>1, <3>2 DEF Pos
  <2>2. CASE Boundary(c)
    <3>1. /\ \/ ran[c] /\ tick'[c] = tick[c] + 1
             \/ ~ran[c] /\ tick'[c] = tick[c]
          /\ \/ ran'[c] /\ clk'[c] = clk[c] + 1
             \/ ~ran'[c] /\ phase'[c] = 0 /\ clk'[c] = clk[c]
      BY <1>1, <2>2, BoundaryCells
    <3>2. tick[c] = -1 => ran[c]
      BY PosRange
    <3>3. Pos(c)' = clk'[c] + (IF ran'[c] THEN 0 ELSE 1)
      BY DEF Pos
    <3> QED
      BY <1>5, <3>1, <3>2, <3>3 DEF Pos
  <2> QED
    BY <1>2, <2>1, <2>2 DEF DGSHIM
<1>8. /\ turn = c /\ turn' = p /\ steps' = 0 /\ OverscanOver(p) /\ asked' = asked
      /\ trip' = [trip EXCEPT ![p] = IF Travelling(p) THEN trip[p] + 1 ELSE trip[p]]
      /\ fetch' = [fetch EXCEPT ![p] = IF Travelling(p) /\ asked[p] THEN fetch[p] + 1 ELSE fetch[p]]
  BY DEF Frame
<1>9. trip'[c] = trip[c] /\ fetch'[c] = fetch[c]
  BY <1>1, <1>8
<1> QED
  BY <1>2, <1>4, <1>6, <1>7, <1>8, <1>9

(* What a step of c's transport does: it writes, reads or consumes.        *)
LEMMA OverscanCells ==
  ASSUME HistInv, Settled, Cadence, MaxFaults = 0, NEW c \in Console, Overscan(c)
  PROVE  LET p == Peer(c)
         IN  /\ turn = p /\ turn' = turn /\ steps < Slack /\ steps' = steps + 1
             /\ Racing(c) /\ tick[c] >= 0 /\ mode' = mode
             /\ UNCHANGED <<phase, ran, tick, loc, crcv, clk, applied, cap, faults>>
             /\ trip'[p] = trip[p] /\ nst'[p] = nst[p] /\ reply'[p] = reply[p]
             /\ rwat'[p] = rwat[p] /\ ring'[p] = ring[p]
             /\ asked'[p] = asked[p] /\ fetch'[p] = fetch[p] /\ fetch'[c] = 0
             /\ \/ /\ nst[c] = "WISS" /\ nst'[c] = "SACK" /\ trip'[c] = 0 /\ reply' = reply
                   /\ ~asked'[c]
                   /\ rwat' = rwat /\ ring' = ring /\ net'[c] = net[c]
                   /\ \/ Racing(p) /\ net'[p] = Append(net[p], RecordOf(c, TRUE))
                      \/ ~Racing(p) /\ net'[p] = net[p]
                \/ /\ nst[c] = "SACK" /\ trip[c] \in Trip(c)
                   /\ asked'[c] = (net[c] # <<>>)
                   /\ trip'[c] = IF net[c] = <<>> THEN 0 ELSE trip[c]
                   /\ nst'[c] = IF net[c] = <<>> THEN "WISS" ELSE "CONS"
                   /\ rwat' = rwat /\ ring' = ring
                   /\ reply'[c] = net[c] /\ net'[c] = <<>> /\ net'[p] = net[p]
                \/ /\ nst[c] = "CONS" /\ trip'[c] = 0 /\ net' = net
                   /\ ~asked'[c] /\ (asked[c] => fetch[c] \in Fetch(c))
                   /\ nst'[c] = IF Len(reply[c]) = 1 THEN "WISS" ELSE "CONS"
                   /\ reply'[c] = SubSeq(reply[c], 1, Len(reply[c]) - 1)
                   /\ Consume(c)
<1> DEFINE p == Peer(c)
<1>0. ~(faults < MaxFaults)
  BY DEF Settled
<1>1. /\ p \in Console /\ p # c /\ Peer(p) = c /\ trip \in [Console -> Nat]
      /\ fetch \in [Console -> Nat] /\ asked \in [Console -> BOOLEAN]
      /\ reply \in [Console -> Seq(Message)] /\ net \in [Console -> Seq(Message)]
      /\ nst \in [Console -> {"WISS", "SACK", "CONS"}] /\ rwat \in [Console -> Int]
      /\ ring \in [Console -> [0 .. RingSize - 1 -> Byte]]
  BY Peers DEF HistInv, SkewInv, Cadence, TypeInv, TypeOK, TransportTypes, RemoteTypes
<1>2. /\ turn = p /\ turn' = turn /\ steps < Slack /\ steps' = steps + 1
      /\ DGNSTEP(c)
      /\ trip' = [trip EXCEPT ![c] = IF asked'[c] THEN trip[c] ELSE 0]
      /\ fetch' = [fetch EXCEPT ![c] = 0]
      /\ Status(c) \/ Proceed(c)
  BY DEF Overscan
<1>3. /\ trip'[p] = trip[p] /\ trip'[c] = IF asked'[c] THEN trip[c] ELSE 0
      /\ fetch'[p] = fetch[p] /\ fetch'[c] = 0
  BY <1>1, <1>2
<1>8. nst[c] # "SACK" =>
        /\ nst[c] = "WISS" => net'[p] # net[p] \/ ~Racing(p)
        /\ asked[c] => fetch[c] \in Fetch(c)
        /\ asked' = [asked EXCEPT ![c] = FALSE]
  BY <1>2 DEF Status, Proceed
<1>9. nst[c] = "SACK" =>
        /\ trip[c] \in Trip(c) /\ net'[c] = <<>>
        /\ asked' = [asked EXCEPT ![c] = (net[c] # <<>>)]
  BY <1>2 DEF Status, Proceed, ReadAsked
<1>10. asked'[p] = asked[p]
  BY <1>1, <1>8, <1>9
<1>4. ~Fail(c)
  BY <1>0 DEF Fail
<1>5. CASE Write(c)
  <2>1. nst[c] = "WISS" /\ Racing(c) /\ tick[c] >= 0 /\ nst' = [nst EXCEPT ![c] = "SACK"]
        /\ UNCHANGED <<mode, phase, ran, tick, loc, crcv, clk, applied, cap, rwat, ring, reply>>
    BY <1>5 DEF Write, Stepping, Goto, gateVars
  <2>2. Send(p, RecordOf(c, TRUE)) /\ faults' = faults
    BY <1>0, <1>5 DEF Write
  <2>3. (net'[p] # net[p] \/ ~Racing(p)) /\ ~asked'[c]
    BY <1>1, <1>8, <2>1
  <2>4. \/ Racing(p) /\ net' = [net EXCEPT ![p] = Append(net[p], RecordOf(c, TRUE))]
        \/ ~Racing(p) /\ net' = net
    BY <2>2, <2>3 DEF Send
  <2>5. /\ net'[c] = net[c]
        /\ \/ Racing(p) /\ net'[p] = Append(net[p], RecordOf(c, TRUE))
           \/ ~Racing(p) /\ net'[p] = net[p]
    BY <1>1, <2>4
  <2> QED
    BY <1>1, <1>2, <1>3, <1>10, <2>1, <2>2, <2>3, <2>5
<1>6. CASE Read(c)
  <2>1. /\ nst[c] = "SACK" /\ Racing(c) /\ tick[c] >= 0
        /\ UNCHANGED <<mode, phase, ran, tick, loc, crcv, clk, applied, cap, rwat, ring, faults>>
    BY <1>6 DEF Read, Stepping, gateVars
  <2>2. trip[c] \in Trip(c) /\ net'[c] = <<>> /\ asked'[c] = (net[c] # <<>>)
    BY <1>1, <1>9, <2>1
  <2>9. trip'[c] = IF net[c] = <<>> THEN 0 ELSE trip[c]
    BY <1>3, <2>2
  <2>3. PICK n \in 0 .. Len(net[c]) :
          /\ reply' = [reply EXCEPT ![c] = SubSeq(net[c], 1, n)]
          /\ net' = [net EXCEPT ![c] = SubSeq(net[c], n + 1, Len(net[c]))]
          /\ nst' = [nst EXCEPT ![c] = IF n = 0 THEN "WISS" ELSE "CONS"]
    BY <1>6 DEF Read, Goto
  <2>4. net[c] \in Seq(Message) /\ Len(net[c]) \in Nat
    BY <1>1
  <2>5. n = Len(net[c])
    <3>1. SubSeq(net[c], n + 1, Len(net[c])) = <<>>
      BY <1>1, <2>2, <2>3
    <3>2. Len(SubSeq(net[c], n + 1, Len(net[c]))) = Len(net[c]) - n
      BY <2>4, SplitSeq
    <3>3. Len(SubSeq(net[c], n + 1, Len(net[c]))) = 0
      BY <2>4, <3>1, SplitSeq, EmptyIffNoLength
    <3> QED
      BY <2>4, <3>2, <3>3
  <2>6. SubSeq(net[c], 1, n) = net[c]
    BY <2>4, <2>5
  <2>7. n = 0 <=> net[c] = <<>>
    BY <2>4, <2>5, EmptyIffNoLength
  <2>8. /\ reply'[c] = net[c] /\ reply'[p] = reply[p] /\ net'[p] = net[p]
        /\ nst'[p] = nst[p] /\ nst'[c] = IF net[c] = <<>> THEN "WISS" ELSE "CONS"
    BY <1>1, <2>3, <2>6, <2>7
  <2> QED
    BY <1>2, <1>3, <1>10, <2>1, <2>2, <2>8, <2>9
<1>7. CASE Consume(c)
  <2>1. /\ nst[c] = "CONS" /\ Racing(c) /\ tick[c] >= 0
        /\ UNCHANGED <<mode, phase, ran, tick, loc, crcv, clk, applied, cap, net, faults>>
        /\ reply' = [reply EXCEPT ![c] = SubSeq(reply[c], 1, Len(reply[c]) - 1)]
        /\ nst' = [nst EXCEPT ![c] = IF Len(reply[c]) = 1 THEN "WISS" ELSE "CONS"]
    BY <1>7 DEF Consume, Stepping, Goto
  <2>2. rwat'[p] = rwat[p] /\ ring'[p] = ring[p]
    BY <1>1, <1>7 DEF Consume, ConsumeInput
  <2>3. /\ reply'[c] = SubSeq(reply[c], 1, Len(reply[c]) - 1) /\ reply'[p] = reply[p]
        /\ nst'[c] = (IF Len(reply[c]) = 1 THEN "WISS" ELSE "CONS") /\ nst'[p] = nst[p]
    BY <1>1, <2>1
  <2>4. ~asked'[c] /\ (asked[c] => fetch[c] \in Fetch(c))
    BY <1>1, <1>8, <2>1
  <2> QED
    BY <1>2, <1>3, <1>7, <1>10, <2>1, <2>2, <2>3, <2>4
<1> QED
  BY <1>2, <1>4, <1>5, <1>6, <1>7 DEF DGNSTEP

(* What any step does to c's mail.                                         *)
LEMMA Mail ==
  ASSUME HistInv, Settled, Cadence, MaxFaults = 0, [PacedNext]_pacedVars, NEW c \in Console
  PROVE  \/ /\ rwat'[c] = rwat[c] /\ ring'[c] = ring[c] /\ reply'[c] = reply[c]
            /\ \/ net'[c] = net[c]
               \/ net'[c] = Append(net[c], LeftFrame) /\ ~Together'
               \/ /\ Overscan(Peer(c)) /\ Racing(c) /\ nst[Peer(c)] = "WISS"
                  /\ net'[c] = Append(net[c], RecordOf(Peer(c), TRUE))
         \/ /\ Overscan(c) /\ nst[c] = "SACK"
            /\ rwat'[c] = rwat[c] /\ ring'[c] = ring[c]
            /\ reply'[c] = net[c] /\ net'[c] = <<>> /\ reply[c] = <<>>
         \/ Overscan(c) /\ Consume(c) /\ nst[c] = "CONS" /\ net'[c] = net[c]
<1> DEFINE p == Peer(c)
<1>1. p \in Console /\ Peer(p) = c /\ (\A d \in Console : d = c \/ d = p)
  BY Peers, TwoConsoles
<1>2. CASE UNCHANGED vars
  BY <1>2 DEF vars, xportVars
<1>3. ASSUME NEW d \in Console, Frame(d), ~UNCHANGED vars
      PROVE  UNCHANGED <<rwat, ring, reply, net>>
  BY <1>3 DEF Frame, DGSHIM, MidTick, Boundary, xportVars
<1>4. ASSUME NEW d \in Console, Leave(d)
      PROVE  /\ UNCHANGED <<rwat, ring, reply>>
             /\ net'[c] = net[c] \/ net'[c] = Append(net[c], LeftFrame)
             /\ ~Together'
  <2>1. /\ UNCHANGED <<rwat, ring, reply>>
        /\ \/ net' = [net EXCEPT ![Peer(d)] = Append(net[Peer(d)], LeftFrame)]
           \/ net' = net
        /\ mode' = [mode EXCEPT ![d] = "off"]
    BY <1>4 DEF Leave, PowerOff
  <2>2. mode \in [Console -> {"race", "left", "off"}] /\ net \in [Console -> Seq(Message)]
    BY DEF HistInv, SkewInv, TypeInv, TypeOK, GateTypes, TransportTypes
  <2>3. mode'[d] = "off"
    BY <2>1, <2>2
  <2>4. ~Together'
    BY <2>3 DEF Together, Racing
  <2>5. net'[c] = net[c] \/ net'[c] = Append(net[c], LeftFrame)
    BY <2>1, <2>2
  <2> QED
    BY <2>1, <2>4, <2>5
<1>5. ASSUME Overscan(c)
      PROVE  \/ /\ rwat'[c] = rwat[c] /\ ring'[c] = ring[c] /\ reply'[c] = reply[c]
                /\ net'[c] = net[c]
             \/ /\ nst[c] = "SACK" /\ rwat'[c] = rwat[c] /\ ring'[c] = ring[c]
                /\ reply'[c] = net[c] /\ net'[c] = <<>> /\ reply[c] = <<>>
             \/ Consume(c) /\ nst[c] = "CONS" /\ net'[c] = net[c]
  <2>1. nst[c] = "SACK" => reply[c] = <<>>
    BY DEF HistInv, SkewInv, TypeInv, WindowInUse
  <2> QED
    BY <1>5, <2>1, OverscanCells
<1>6. ASSUME Overscan(p)
      PROVE  /\ rwat'[c] = rwat[c] /\ ring'[c] = ring[c] /\ reply'[c] = reply[c]
             /\ \/ net'[c] = net[c]
                \/ /\ Racing(c) /\ nst[p] = "WISS"
                   /\ net'[c] = Append(net[c], RecordOf(p, TRUE))
  BY <1>1, <1>6, OverscanCells
<1>7. CASE \E d \in Console : Frame(d) \/ Leave(d)
  BY <1>2, <1>3, <1>4, <1>7
<1>8. CASE \E d \in Console : Overscan(d)
  BY <1>1, <1>5, <1>6, <1>8
<1>9. UNCHANGED pacedVars => UNCHANGED vars
  BY DEF pacedVars
<1> QED
  BY <1>2, <1>7, <1>8, <1>9 DEF PacedNext

(* The elements of the mail, after each.                                   *)
LEMMA Grown ==
  ASSUME TypeInv, NEW c \in Console, NEW m, net'[c] = Append(net[c], m)
  PROVE  /\ Len(net[c]) \in Nat /\ DOMAIN net[c] = 1 .. Len(net[c])
         /\ Len(net'[c]) = Len(net[c]) + 1 /\ DOMAIN net'[c] = 1 .. Len(net[c]) + 1
         /\ \A i \in 1 .. Len(net[c]) : net'[c][i] = net[c][i]
         /\ net'[c][Len(net[c]) + 1] = m
<1>1. net[c] \in Seq(Message)
  BY DEF TypeInv, TypeOK, TransportTypes
<1> QED
  BY <1>1

LEMMA InputsOf ==
  ASSUME TypeInv, NEW c \in Console
  PROVE  /\ reply[c] = <<>> => Inputs(c) = {}
         /\ \A m \in Inputs(c) : IsInput(m) /\ m \in Unread(c) /\ m \in Window(c) /\ m.tick \in Int
<1>1. reply[c] \in Seq(Message) /\ DOMAIN reply[c] = 1 .. Len(reply[c])
  BY DEF TypeInv, TypeOK, TransportTypes
<1>2. \A i \in 1 .. Len(reply[c]) : IsInput(reply[c][i]) => reply[c][i].tick \in Int
  BY TickTypes
<1> QED
  BY <1>1, <1>2 DEF Inputs, Window, Unread, IsInput

(* The window after a READ is what was in the network; a consume takes the *)
(* last record of it.                                                      *)
LEMMA InputsRead ==
  ASSUME TypeInv, TypeInv', NEW c \in Console, reply'[c] = net[c]
  PROVE  Inputs(c)' = {net[c][i] : i \in {j \in 1 .. Len(net[c]) : IsInput(net[c][j])}}
<1>1. net[c] \in Seq(Message) /\ DOMAIN net[c] = 1 .. Len(net[c])
  BY DEF TypeInv, TypeOK, TransportTypes
<1> QED
  BY <1>1 DEF Inputs, Window, IsInput

LEMMA InputsConsumed ==
  ASSUME HistInv, HistInv', Settled, NEW c \in Console, Consume(c)
  PROVE  LET rec == reply[c][Len(reply[c])]
         IN  /\ Inputs(c)' \subseteq Inputs(c)
             /\ \/ /\ rec \in Inputs(c) /\ IsInput(rec) /\ rec.good /\ ConsumeInput(c, rec)
                   /\ Inputs(c) \subseteq Inputs(c)' \cup {rec}
                \/ Inputs(c) = Inputs(c)' /\ rwat'[c] = rwat[c] /\ ring'[c] = ring[c]
<1> DEFINE n == Len(reply[c])
           rec == reply[c][n]
<1>1. /\ TypeInv /\ TypeInv' /\ SkewInv
      /\ reply \in [Console -> Seq(Message)] /\ DOMAIN reply[c] = 1 .. n
  BY DEF HistInv, SkewInv, TypeInv, TypeOK, TransportTypes
<1>2. n \in 1 .. n /\ n \in Nat
  BY <1>1, MarkAfterConsume
<1>3. reply'[c] = SubSeq(reply[c], 1, n - 1)
  BY <1>1 DEF Consume
<1>4. n - 1 \in 0 .. n
  BY <1>2
<1>5. /\ Len(reply'[c]) = n - 1 /\ \A i \in 1 .. n - 1 : reply'[c][i] = reply[c][i]
  BY <1>1, <1>3, <1>4, SplitSeq
<1>6. DOMAIN reply'[c] = 1 .. n - 1
  <2>1. reply'[c] \in Seq(Message)
    BY <1>1 DEF TypeInv, TypeOK, TransportTypes
  <2> QED
    BY <1>5, <2>1
<1>7. 1 .. n = (1 .. n - 1) \cup {n}
  BY <1>2
<1>8. Window(c) = Window(c)' \cup {rec}
  <2>1. Window(c) = {reply[c][i] : i \in 1 .. n}
    BY <1>1 DEF Window
  <2>2. Window(c)' = {reply[c][i] : i \in 1 .. n - 1}
    <3>1. Window(c)' = {reply'[c][i] : i \in 1 .. n - 1}
      BY <1>6 DEF Window
    <3> QED
      BY <1>5, <3>1
  <2> QED
    BY <1>7, <2>1, <2>2
<1>9. Inputs(c)' \subseteq Inputs(c) /\ Inputs(c) \subseteq Inputs(c)' \cup {rec}
  BY <1>8 DEF Inputs
<1>10. CASE IsInput(rec)
  <2>1. rec \in Inputs(c) /\ rec \in Unread(c)
    BY <1>8, <1>10 DEF Inputs, IsInput, Unread
  <2>2. rec.good
    BY <2>1 DEF Settled
  <2>3. ConsumeInput(c, rec)
    BY <1>10, <2>2 DEF Consume, IsInput
  <2> QED
    BY <1>9, <1>10, <2>1, <2>2, <2>3
<1>11. CASE ~IsInput(rec)
  <2>1. rec \notin Inputs(c)
    BY <1>11 DEF Inputs, IsInput
  <2>2. rwat' = rwat /\ ring' = ring
    BY <1>11 DEF Consume, IsInput
  <2> QED
    BY <1>9, <2>1, <2>2
<1> QED
  BY <1>10, <1>11


(* Consuming an input record brings the watermark to it, if it was behind. *)
LEMMA NewestConsumed ==
  ASSUME HistInv, HistInv', Settled, NEW c \in Console, Consume(c)
  PROVE  LET rec == reply[c][Len(reply[c])]
         IN  /\ Newest(c) \in Int /\ Newest(c)' \in Int /\ Newest(c) <= Newest(c)'
             /\ Newest(c)' = Newest(c) \/ (rec \in Inputs(c) /\ Newest(c)' = rec.tick)
             /\ rec \in Inputs(c) => rec.tick <= Newest(c)'
             /\ rec \in Inputs(c) => rec.tick \in Int /\ D <= rec.tick
<1> DEFINE rec == reply[c][Len(reply[c])]
<1>1. TypeInv /\ SkewInv /\ TypeInv'
  BY DEF HistInv, SkewInv
<1>2. rwat[c] \in Int /\ rwat'[c] \in Int /\ D \in Nat \ {0}
  BY <1>1, RingSizes DEF TypeInv, TypeOK, RemoteTypes
<1>3. CASE Inputs(c) = Inputs(c)' /\ rwat'[c] = rwat[c] /\ rec \notin Inputs(c)
  BY <1>2, <1>3 DEF Newest
<1>4. CASE rec \in Inputs(c) /\ IsInput(rec) /\ ConsumeInput(c, rec)
  <2>1. rec \in Unread(c) /\ rec.tick \in Int /\ D <= rec.tick
    BY <1>1, <1>4, InputsOf, UnreadRange
  <2>2. NotBehind(rec.tick, rwat[c]) <=> rec.tick >= rwat[c]
    BY <1>1, <2>1, UnreadRange, MarkExact
  <2>3. rwat'[c] = Watermark(rwat[c], rec)
    BY <1>1, <1>4 DEF ConsumeInput, TypeInv, TypeOK, RemoteTypes
  <2>4. PICK r \in Int : r = rec.tick /\ D <= r
    BY <2>1
  <2>5. rwat'[c] = IF r >= rwat[c] THEN r ELSE rwat[c]
    BY <2>2, <2>3, <2>4 DEF Watermark
  <2>6. /\ Newest(c) = IF rwat[c] < D - 1 THEN D - 1 ELSE rwat[c]
        /\ Newest(c)' = IF rwat'[c] < D - 1 THEN D - 1 ELSE rwat'[c]
    BY DEF Newest
  <2>7. /\ Newest(c) \in Int /\ Newest(c)' \in Int /\ Newest(c) <= Newest(c)'
        /\ Newest(c)' = Newest(c) \/ Newest(c)' = r
        /\ r <= Newest(c)'
    BY <1>2, <2>4, <2>5, <2>6
  <2> QED
    BY <1>4, <2>1, <2>4, <2>7
<1>5. rec \in Inputs(c) => IsInput(rec)
  BY DEF Inputs, IsInput
<1>6. ~IsInput(rec) => rwat' = rwat
  BY DEF Consume, IsInput
<1>7. CASE rec \notin Inputs(c)
  BY <1>2, <1>3, <1>7, InputsConsumed
<1>8. CASE rec \in Inputs(c)
  <2>1. ConsumeInput(c, rec)
    <3>1. rec.good
      BY <1>1, <1>8, InputsOf DEF Settled
    <3> QED
      BY <1>5, <1>8, <3>1 DEF Consume, IsInput
  <2> QED
    BY <1>4, <1>5, <1>8, <2>1
<1> QED
  BY <1>7, <1>8

LEMMA SeenMore ==
  ASSUME NEW c, NEW n \in Nat, NEW m \in Nat, n <= m, NEW t, Seen(c, n, t)
  PROVE  Seen(c, m, t)
BY DEF Seen

LEMMA NewestInt ==
  ASSUME HistInv, NEW c \in Console
  PROVE  Newest(c) \in Int /\ rwat[c] \in Int
BY RingSizes, TickTypes DEF HistInv, SkewInv, Newest

(* What has been seen stays seen.                                          *)
LEMMA SeenKept ==
  ASSUME HistInv, HistInv', Settled, Cadence, MaxFaults = 0, [PacedNext]_pacedVars,
         NEW c \in Console, NEW n \in 0 .. Len(net[c]), NEW t \in Int, Seen(c, n, t)
  PROVE  \E m \in 0 .. n : m <= Len(net'[c]) /\ Seen(c, m, t)'
<1>1. /\ TypeInv /\ TypeInv' /\ SkewInv /\ Len(net[c]) \in Nat /\ n \in Nat /\ n <= Len(net[c])
      /\ Len(net'[c]) \in Nat
  <2>1. TypeInv /\ TypeInv' /\ SkewInv
    BY DEF HistInv, SkewInv
  <2>2. net'[c] \in Seq(Message)
    BY <2>1 DEF TypeInv, TypeOK, TransportTypes
  <2> QED
    BY <2>1, <2>2, TickTypes
<1>2. CASE /\ rwat'[c] = rwat[c] /\ reply'[c] = reply[c]
           /\ n <= Len(net'[c]) /\ \A i \in 1 .. n : net'[c][i] = net[c][i]
  <2>1. Newest(c)' = Newest(c) /\ Inputs(c)' = Inputs(c)
    BY <1>2 DEF Newest, Inputs, Window
  <2>2. Seen(c, n, t)'
    BY <1>2, <2>1 DEF Seen
  <2> QED
    BY <1>1, <1>2, <2>2
<1>3. CASE rwat'[c] = rwat[c] /\ reply'[c] = net[c] /\ reply[c] = <<>> /\ net'[c] = <<>>
  <2>1. Newest(c)' = Newest(c) /\ Inputs(c) = {}
    BY <1>1, <1>3, InputsOf DEF Newest
  <2>2. Inputs(c)' = {net[c][i] : i \in {j \in 1 .. Len(net[c]) : IsInput(net[c][j])}}
    BY <1>1, <1>3, InputsRead
  <2>3. Seen(c, 0, t)'
    <3>1. CASE t <= Newest(c)
      BY <2>1, <3>1 DEF Seen
    <3>2. ASSUME NEW i \in 1 .. n, IsInput(net[c][i]) /\ t <= net[c][i].tick
          PROVE  Seen(c, 0, t)'
      <4>1. i \in 1 .. Len(net[c])
        BY <1>1
      <4>2. net[c][i] \in Inputs(c)'
        BY <2>2, <3>2, <4>1
      <4> QED
        BY <3>2, <4>2 DEF Seen
    <3> QED
      BY <2>1, <3>1, <3>2 DEF Seen
  <2> QED
    BY <1>1, <2>3
<1>4. CASE Consume(c) /\ net'[c] = net[c]
  <2> DEFINE rec == reply[c][Len(reply[c])]
  <2>1. /\ Newest(c) \in Int /\ Newest(c)' \in Int /\ Newest(c) <= Newest(c)'
        /\ rec \in Inputs(c) => rec.tick \in Int /\ rec.tick <= Newest(c)'
        /\ Inputs(c) \subseteq Inputs(c)' \cup {rec}
    BY <1>4, NewestConsumed, InputsConsumed
  <2>2. Seen(c, n, t)'
    <3>1. CASE t <= Newest(c)
      <4>1. t <= Newest(c)'
        BY <2>1, <3>1
      <4> QED
        BY <4>1 DEF Seen
    <3>2. ASSUME NEW m \in Inputs(c), t <= m.tick PROVE Seen(c, n, t)'
      <4>1. CASE m \in Inputs(c)'
        BY <3>2, <4>1 DEF Seen
      <4>2. CASE m = rec
        <5>1. t <= Newest(c)'
          BY <2>1, <3>2, <4>2
        <5> QED
          BY <5>1 DEF Seen
      <4> QED
        BY <2>1, <4>1, <4>2
    <3>3. ASSUME NEW i \in 1 .. n, IsInput(net[c][i]) /\ t <= net[c][i].tick
          PROVE  Seen(c, n, t)'
      BY <1>4, <3>3 DEF Seen
    <3> QED
      BY <3>1, <3>2, <3>3 DEF Seen
  <2> QED
    BY <1>1, <1>4, <2>2
<1>5. ASSUME NEW m, net'[c] = Append(net[c], m)
      PROVE  n <= Len(net'[c]) /\ \A i \in 1 .. n : net'[c][i] = net[c][i]
  BY <1>1, <1>5, Grown
<1> QED
  BY <1>1, <1>2, <1>3, <1>4, <1>5, Mail


LEMMA SeenLess ==
  ASSUME TypeInv, NEW c \in Console, NEW n \in 0 .. Len(net[c]), NEW t \in Int, NEW x \in Int,
         t <= x, Seen(c, n, x)
  PROVE  Seen(c, n, t)
<1>1. Newest(c) \in Int
  BY RingSizes, TickTypes DEF Newest
<1>2. \A m \in Inputs(c) : m.tick \in Int
  BY InputsOf
<1>3. \A i \in 1 .. n : IsInput(net[c][i]) => net[c][i].tick \in Int
  BY TickTypes
<1>4. \A y \in Int : x <= y => t <= y
  OBVIOUS
<1> QED
  BY <1>1, <1>2, <1>3, <1>4 DEF Seen

(* Frames tell ticks.                                                      *)
LEMMA FewerFrames ==
  ASSUME NEW M \in Nat \ {0}, NEW a \in Int, NEW b \in Int, M * a + 1 <= M * b
  PROVE  a < b
<1>1. ASSUME b <= a PROVE FALSE
  <2>1. PICK d \in Nat : a = b + d
    BY <1>1
  <2>2. M * a = M * b + M * d
    BY <2>1
  <2>3. M * d \in Nat
    BY <2>1
  <2> QED
    BY <2>2, <2>3
<1> QED
  BY <1>1

LEMMA OfTrips ==
  ASSUME NEW shortest, NEW longest, NEW read, EvenTrips(shortest, longest, read)
  PROVE  /\ shortest \in Nat \ {0} /\ longest \in Nat \ {0} /\ read \in Nat /\ read <= longest
         /\ Slack \in Nat /\ Slack >= 3
         /\ K \in Nat \ {0} /\ Win \in Nat \ {0} /\ D \in Nat \ {0} /\ longest <= K * Win
         /\ longest < shortest * (Slack - 2) /\ MaxFaults = 0
         /\ \A c \in Console : \A n \in Trip(c) :
              n \in Nat /\ 1 <= n /\ shortest <= n /\ n + read <= longest /\ n <= longest
         /\ \A c \in Console : \A n \in Fetch(c) : n \in Nat /\ n <= read
         /\ \A c \in Console : Trip(c) # {} /\ Fetch(c) # {}
<1>1. /\ shortest \in Nat \ {0} /\ longest \in Nat /\ read \in Nat
      /\ Slack \in Nat \ {0} /\ MaxFaults = 0
      /\ K \in Nat \ {0} /\ Win \in Nat \ {0} /\ D \in Nat \ {0} /\ longest <= K * Win
      /\ longest < shortest * (Slack - 2)
      /\ \A c \in Console : Trip(c) # {} /\ \A n \in Trip(c) : shortest <= n /\ n + read <= longest
      /\ \A c \in Console : Fetch(c) # {} /\ \A n \in Fetch(c) : n <= read
  BY Pace, Sizes DEF EvenTrips
<1>2. ASSUME NEW c \in Console, NEW n \in Trip(c)
      PROVE  n \in Nat /\ 1 <= n /\ shortest <= n /\ n + read <= longest /\ n <= longest
  <2>1. n \in Nat
    BY Pace DEF Trip
  <2> QED
    BY <1>1, <2>1
<1>6. ASSUME NEW c \in Console, NEW n \in Fetch(c) PROVE n \in Nat /\ n <= read
  BY <1>1, Pace DEF Fetch
<1>3. PICK n \in Trip("host") : TRUE
  BY <1>1 DEF Console
<1>4. longest >= 1 /\ read <= longest
  BY <1>1, <1>2, <1>3 DEF Console
<1>5. Slack >= 3
  <2>1. ASSUME Slack <= 2 PROVE FALSE
    <3>1. PICK d \in Nat : Slack - 2 = -d
      BY <1>1, <2>1
    <3>2. shortest * (Slack - 2) = -(shortest * d) /\ shortest * d \in Nat
      BY <1>1, <3>1
    <3> QED
      BY <1>1, <3>2
  <2> QED
    BY <1>1, <2>1
<1> QED
  BY <1>1, <1>2, <1>4, <1>5, <1>6

(* When c writes, its last record has come within a window of the new one. *)
LEMMA WithinReach ==
  ASSUME HistInv, Settled, NEW shortest, NEW longest, NEW read, EvenTrips(shortest, longest, read),
         NEW c \in Console, Timely(c, longest), ~Away(c), tick[c] >= 0
  PROVE  Seen(Peer(c), Len(net[Peer(c)]), tick[c] + D - Win)
<1> DEFINE p == Peer(c)
<1>1. p \in Console /\ TypeInv /\ tick[c] \in Int /\ Len(net[p]) \in Nat
  BY Peers, TickTypes DEF HistInv, SkewInv
<1>2. PICK x \in Int : Seen(p, Len(net[p]), x) /\ Pos(c) <= K * (x - D + 1) + longest
  BY DEF Timely, Age
<1>3. /\ K \in Nat \ {0} /\ Win \in Nat \ {0} /\ D \in Nat \ {0} /\ longest \in Nat
      /\ longest <= K * Win
  BY OfTrips
<1>4. Pos(c) \in Int /\ K * tick[c] + 1 <= Pos(c)
  BY PosRange
<1>5. tick[c] < x - D + 1 + Win
  <2>1. K * (x - D + 1 + Win) = K * (x - D + 1) + K * Win
    BY <1>3
  <2>2. K * (x - D + 1) \in Int /\ K * Win \in Int /\ K * tick[c] \in Int
    BY <1>1, <1>3
  <2>3. K * tick[c] + 1 <= K * (x - D + 1 + Win)
    BY <1>2, <1>3, <1>4, <2>1, <2>2
  <2>4. x - D + 1 + Win \in Int
    BY <1>3
  <2> QED
    BY <1>1, <1>3, <2>3, <2>4, FewerFrames
<1>6. tick[c] + D - Win <= x /\ tick[c] + D - Win \in Int
  BY <1>1, <1>3, <1>5
<1> QED
  BY <1>1, <1>2, <1>6, SeenLess

LEMMA ChainedStep ==
  ASSUME NEW shortest, NEW longest, NEW read, EvenTrips(shortest, longest, read),
         HistInv, HistInv', PacedInv(shortest, longest, read), [PacedNext]_pacedVars, NEW c \in Console
  PROVE  Chained(c)'
<1> SUFFICES ASSUME NEW i \in DOMAIN net'[c], IsInput(net'[c][i]),
                    NEW t, t = net'[c][i].tick - Win
             PROVE  Seen(c, i - 1, t)'
  BY DEF Chained, Seen
<1>1. /\ TypeInv /\ TypeInv' /\ Settled /\ Cadence /\ MaxFaults = 0 /\ Win \in Nat /\ D \in Nat
      /\ net[c] \in Seq(Message) /\ net'[c] \in Seq(Message)
      /\ DOMAIN net[c] = 1 .. Len(net[c]) /\ DOMAIN net'[c] = 1 .. Len(net'[c])
      /\ Len(net[c]) \in Nat /\ Len(net'[c]) \in Nat /\ Chained(c)
  <2>1. TypeInv /\ TypeInv' /\ Settled /\ Cadence /\ MaxFaults = 0 /\ Win \in Nat /\ D \in Nat /\ Chained(c)
    BY OfTrips DEF HistInv, SkewInv, PacedInv
  <2>2. net[c] \in Seq(Message) /\ net'[c] \in Seq(Message)
    BY <2>1 DEF TypeInv, TypeOK, TransportTypes
  <2> QED
    BY <2>1, <2>2
<1>2. t \in Int
  <2>1. net'[c][i] \in Message
    BY <1>1
  <2>2. net'[c][i].tick \in Int
    BY <2>1 DEF Message, Record, LeftFrame, IsInput
  <2> QED
    BY <1>1, <2>2
<1>3. ASSUME NEW n \in 0 .. Len(net[c]), n <= i - 1, Seen(c, n, t)
      PROVE  Seen(c, i - 1, t)'
  <2>1. PICK m \in 0 .. n : m <= Len(net'[c]) /\ Seen(c, m, t)'
    BY <1>1, <1>3, SeenKept
  <2>2. m \in Nat /\ i - 1 \in Nat /\ m <= i - 1
    BY <1>1, <1>3
  <2> QED
    BY <2>1, <2>2 DEF Seen
(* A record that was there already.                                        *)
<1>4. ASSUME i \in 1 .. Len(net[c]), net'[c][i] = net[c][i]
      PROVE  Seen(c, i - 1, t)'
  <2>1. Seen(c, i - 1, t)
    BY <1>1, <1>2, <1>4 DEF Chained
  <2>2. i - 1 \in 0 .. Len(net[c])
    BY <1>1, <1>4
  <2> QED
    BY <1>3, <2>1, <2>2
(* The one that has just been written.                                     *)
<1>5. ASSUME Overscan(Peer(c)), Racing(c), nst[Peer(c)] = "WISS", i = Len(net[c]) + 1,
             net'[c][i] = RecordOf(Peer(c), TRUE)
      PROVE  Seen(c, i - 1, t)'
  <2> DEFINE p == Peer(c)
  <2>1. p \in Console /\ Peer(p) = c
    BY Peers
  <2>2. Racing(p) /\ tick[p] >= 0
    BY <1>1, <1>5, <2>1, OverscanCells
  <2>8. ~Away(p)
    <3>1. Cycle(p, longest, read)
      BY <1>5, <2>1, <2>2, TwoConsoles DEF PacedInv, Together
    <3> QED
      BY <1>5, <3>1 DEF Cycle, Away
  <2>3. Together
    BY <1>5, <2>2, TwoConsoles DEF Together
  <2>4. Timely(p, longest)
    BY <2>1, <2>3 DEF PacedInv
  <2>5. t = tick[p] + D - Win
    <3>1. RecordOf(p, TRUE).tick = tick[p] + D
      BY DEF RecordOf
    <3>2. tick[p] \in Int
      BY <1>1, <2>1, TickTypes
    <3>3. net'[c][i].tick = tick[p] + D
      BY <1>5, <3>1
    <3>4. PICK u \in Int : u = tick[p]
      BY <3>2
    <3> QED
      BY <1>1, <3>3, <3>4
  <2>6. Seen(c, Len(net[c]), t)
    BY <1>1, <1>5, <2>1, <2>2, <2>4, <2>5, <2>8, WithinReach
  <2>7. Len(net[c]) \in 0 .. Len(net[c]) /\ Len(net[c]) <= i - 1
    BY <1>1, <1>5
  <2> QED
    BY <1>3, <2>6, <2>7
<1>6. CASE net'[c] = net[c]
  BY <1>1, <1>2, <1>4, <1>6
<1>7. CASE net'[c] = <<>>
  BY <1>7
<1>8. ASSUME NEW m, net'[c] = Append(net[c], m), i # Len(net[c]) + 1
      PROVE  i \in 1 .. Len(net[c]) /\ net'[c][i] = net[c][i]
  BY <1>1, <1>8, Grown
<1>9. CASE net'[c] = Append(net[c], LeftFrame)
  <2>1. ~IsInput(LeftFrame)
    BY DEF LeftFrame, IsInput
  <2>2. i # Len(net[c]) + 1
    BY <1>1, <1>9, <2>1, Grown
  <2> QED
    BY <1>2, <1>4, <1>8, <1>9, <2>2
<1>10. CASE /\ Overscan(Peer(c)) /\ Racing(c) /\ nst[Peer(c)] = "WISS"
            /\ net'[c] = Append(net[c], RecordOf(Peer(c), TRUE))
  <2>1. CASE i = Len(net[c]) + 1
    BY <1>1, <1>2, <1>5, <1>10, <2>1, Grown
  <2>2. CASE i # Len(net[c]) + 1
    BY <1>2, <1>4, <1>8, <1>10, <2>2
  <2> QED
    BY <2>1, <2>2
<1> QED
  BY <1>1, <1>6, <1>7, <1>9, <1>10, Mail


LEMMA CadenceStep ==
  ASSUME Cadence, [PacedNext]_pacedVars
  PROVE  Cadence'
<1>1. /\ turn \in Console /\ steps \in 0 .. Slack /\ trip \in [Console -> Nat] /\ Slack \in Nat
      /\ fetch \in [Console -> Nat] /\ asked \in [Console -> BOOLEAN]
  BY Pace DEF Cadence
<1>2. ASSUME NEW c \in Console, Frame(c) PROVE Cadence'
  <2>1. turn' \in Console /\ steps' \in 0 .. Slack /\ asked' = asked
    BY <1>1, <1>2, Peers DEF Frame
  <2>2. trip' \in [Console -> Nat] /\ fetch' \in [Console -> Nat]
    BY <1>1, <1>2, Peers DEF Frame
  <2> QED
    BY <1>1, <2>1, <2>2 DEF Cadence
<1>3. ASSUME NEW c \in Console, Overscan(c) PROVE Cadence'
  <2>1. turn' \in Console /\ steps' \in 0 .. Slack
    BY <1>1, <1>3 DEF Overscan
  <2>2. trip' \in [Console -> Nat] /\ fetch' \in [Console -> Nat]
    BY <1>1, <1>3 DEF Overscan
  <2>3. asked' \in [Console -> BOOLEAN]
    <3>1. asked' = [asked EXCEPT ![c] = net[c] # <<>>] \/ asked' = [asked EXCEPT ![c] = FALSE]
      BY <1>3 DEF Overscan, Status, ReadAsked, Proceed
    <3>2. (net[c] # <<>>) \in BOOLEAN /\ FALSE \in BOOLEAN
      OBVIOUS
    <3> QED
      BY <1>1, <3>1, <3>2
  <2> QED
    BY <2>1, <2>2, <2>3 DEF Cadence
<1>4. ASSUME NEW c \in Console, Leave(c) PROVE Cadence'
  BY <1>4 DEF Leave, Cadence
<1>5. UNCHANGED pacedVars => Cadence'
  BY DEF pacedVars, Cadence
<1> QED
  BY <1>2, <1>3, <1>4, <1>5 DEF PacedNext

LEMMA SettledStep ==
  ASSUME HistInv, HistInv', Settled, Cadence, MaxFaults = 0, [PacedNext]_pacedVars
  PROVE  Settled'
<1>1. [Next]_vars /\ TypeInv /\ TypeInv'
  BY PacedIsNext DEF HistInv, SkewInv
<1>2. faults' = 0
  <2>1. faults = 0 /\ ~(faults < MaxFaults)
    BY DEF Settled
  <2>2. ASSUME NEW c \in Console, DGSHIM(c) \/ DGNSTEP(c) \/ PowerOff(c)
        PROVE  faults' = 0
    BY <2>1, <2>2 DEF DGSHIM, MidTick, Boundary, DGNSTEP, Write, Read, Fail, Consume, PowerOff,
         xportVars
  <2>3. UNCHANGED vars => faults' = 0
    BY <2>1 DEF vars, xportVars
  <2> QED
    BY <1>1, <2>2, <2>3 DEF Next
<1>3. ASSUME NEW c \in Console PROVE phase'[c] # 0 => ran'[c]
  <2>1. phase[c] # 0 => ran[c]
    BY DEF Settled
  <2>2. Boundary(c) => (phase'[c] # 0 => ran'[c])
    BY <1>1, BoundaryCells
  <2>3. MidTick(c) => ran'[c]
    BY <2>1 DEF MidTick
  <2> QED
    BY <1>1, <2>1, <2>2, <2>3, GateCases
<1>4. ASSUME NEW c \in Console, NEW m \in Unread(c)' PROVE m.good
  <2>1. m.type = "INPUT" /\ (m \in Queued(c)' \/ m \in Window(c)')
    BY <1>4 DEF Unread
  <2>2. \A k \in Queued(c) \cup Window(c) : k.type = "INPUT" => k.good
    BY DEF Settled, Unread
  <2>3. Window(c)' \subseteq Queued(c) \cup Window(c)
    BY <1>1, Flow
  <2>4. CASE m \in Window(c)'
    BY <2>1, <2>2, <2>3, <2>4
  <2>5. ASSUME NEW r, net'[c] = Append(net[c], r) PROVE Queued(c)' = Queued(c) \cup {r}
    <3>1. /\ Len(net[c]) \in Nat /\ DOMAIN net[c] = 1 .. Len(net[c])
          /\ DOMAIN net'[c] = 1 .. Len(net[c]) + 1
          /\ \A i \in 1 .. Len(net[c]) : net'[c][i] = net[c][i]
          /\ net'[c][Len(net[c]) + 1] = r
      BY <1>1, <2>5, Grown
    <3>2. 1 .. Len(net[c]) + 1 = (1 .. Len(net[c])) \cup {Len(net[c]) + 1}
      BY <3>1
    <3> QED
      BY <3>1, <3>2 DEF Queued
  <2>6. CASE m \in Queued(c)'
    <3>1. CASE net'[c] = net[c] \/ net'[c] = <<>>
      <4>1. Queued(c)' \subseteq Queued(c)
        BY <3>1 DEF Queued
      <4> QED
        BY <2>1, <2>2, <2>6, <4>1
    <3>2. CASE net'[c] = Append(net[c], LeftFrame)
      <4>1. LeftFrame.type # "INPUT"
        BY DEF LeftFrame
      <4> QED
        BY <2>1, <2>2, <2>5, <2>6, <3>2, <4>1
    <3>3. CASE net'[c] = Append(net[c], RecordOf(Peer(c), TRUE))
      <4>1. PICK r : r = RecordOf(Peer(c), TRUE)
        OBVIOUS
      <4>2. r.good
        BY <4>1 DEF RecordOf
      <4>3. Queued(c)' = Queued(c) \cup {r}
        BY <2>5, <3>3, <4>1
      <4> QED
        BY <2>1, <2>2, <2>6, <4>2, <4>3
    <3> QED
      BY <3>1, <3>2, <3>3, Mail
  <2> QED
    BY <2>1, <2>4, <2>6
<1> QED
  BY <1>2, <1>3, <1>4 DEF Settled

(* Both consoles race after a step: they did before it, and what happened  *)
(* was a frame of one of them or a step of one of their transports.        *)
LEMMA TogetherSteps ==
  ASSUME HistInv, [PacedNext]_pacedVars, Together'
  PROVE  /\ Together
         /\ \/ UNCHANGED pacedVars
            \/ \E c \in Console : Frame(c) \/ Overscan(c)
<1>1. [Next]_vars /\ mode \in [Console -> {"race", "left", "off"}]
  BY PacedIsNext DEF HistInv, SkewInv, TypeInv, TypeOK, GateTypes
<1>2. ASSUME NEW d \in Console, mode[d] # "race" PROVE mode'[d] # "race"
  <2>1. ASSUME NEW c \in Console, DGSHIM(c) \/ DGNSTEP(c) \/ PowerOff(c)
        PROVE  mode'[d] # "race"
    <3>1. CASE DGSHIM(c) \/ DGNSTEP(c)
      BY <1>1, <1>2, <3>1 DEF DGSHIM, MidTick, Boundary, RunTick, Stall, DGNSTEP, Write, Read,
           Fail, Consume, gateVars
    <3>2. CASE PowerOff(c)
      BY <1>1, <1>2, <3>2 DEF PowerOff
    <3> QED
      BY <2>1, <3>1, <3>2
  <2>2. UNCHANGED vars => mode'[d] # "race"
    BY <1>2 DEF vars
  <2> QED
    BY <1>1, <2>1, <2>2 DEF Next
<1>3. Together
  BY <1>2 DEF Together, Racing
<1>4. ASSUME NEW c \in Console, Leave(c) PROVE FALSE
  <2>1. mode'[c] = "off"
    BY <1>1, <1>4 DEF Leave, PowerOff
  <2> QED
    BY <2>1 DEF Together, Racing
<1> QED
  BY <1>3, <1>4 DEF PacedNext


(* When a console draws, the other is travelling, or has not started.      *)
LEMMA TheOtherTravels ==
  ASSUME HistInv, Settled, Cadence, Together, NEW c \in Console, Frame(c),
         NEW shortest, NEW longest, NEW read, EvenTrips(shortest, longest, read),
         Cycle(Peer(c), longest, read)
  PROVE  LET p == Peer(c)
         IN  /\ tick[p] \in Int /\ tick[p] >= -1 /\ trip[p] \in Nat
             /\ Since(p, read) \in Nat /\ asked' = asked /\ nst' = nst
             /\ tick[p] >= 0 => /\ Away(p) /\ Away(p)' /\ trip'[p] = trip[p] + 1
                                /\ Since(p, read)' = Since(p, read) + 1
                                /\ ~asked[p] => trip'[p] + read <= longest
                                /\ asked[p] => /\ fetch'[p] = fetch[p] + 1 /\ fetch'[p] <= read
                                               /\ \E n \in Trip(p) : trip'[p] = n + fetch'[p]
             /\ tick[p] = -1 => trip'[p] = 0 /\ ~Away(p) /\ ~asked[p] /\ trip[p] = 0
<1> DEFINE p == Peer(c)
<1>1. /\ p \in Console /\ Peer(p) = c /\ p # c /\ Racing(p)
      /\ tick[p] \in Int /\ tick[p] >= -1 /\ Len(reply[p]) \in Nat
      /\ nst[p] \in {"WISS", "SACK", "CONS"} /\ trip \in [Console -> Nat]
      /\ fetch \in [Console -> Nat] /\ asked \in [Console -> BOOLEAN]
  BY Peers, TickTypes DEF Together, HistInv, SkewInv, TypeInv, TypeOK, TransportTypes, Cadence
<1>2. /\ turn = c /\ OverscanOver(p) /\ nst' = nst /\ asked' = asked
      /\ trip'[p] = IF Travelling(p) THEN trip[p] + 1 ELSE trip[p]
      /\ fetch'[p] = IF Travelling(p) /\ asked[p] THEN fetch[p] + 1 ELSE fetch[p]
  <2>1. /\ trip' = [trip EXCEPT ![p] = IF Travelling(p) THEN trip[p] + 1 ELSE trip[p]]
        /\ fetch' = [fetch EXCEPT ![p] = IF Travelling(p) /\ asked[p] THEN fetch[p] + 1 ELSE fetch[p]]
    BY FrameCells
  <2> QED
    BY <1>1, <2>1, FrameCells
<1>3. read \in Nat /\ longest \in Nat /\ Slack \in Nat /\ Slack >= 3
  BY OfTrips
<1>4. Since(p, read) \in Nat
  BY <1>1, <1>3 DEF Since
<1>5. CASE tick[p] = -1
  <2>1. nst[p] = "WISS" /\ trip[p] = 0 /\ ~asked[p]
    BY <1>5 DEF Cycle
  <2>2. ~Travelling(p) /\ ~Away(p)
    BY <2>1 DEF Travelling, Away
  <2> QED
    BY <1>1, <1>2, <1>4, <1>5, <2>1, <2>2
<1>6. CASE tick[p] >= 0
  <2>1. steps \in 0 .. Slack
    BY DEF Cadence
  <2>2. /\ nst[p] = "SACK" => trip[p] = 0 \/ steps = 0
        /\ nst[p] = "CONS" => Len(reply[p]) + 1 <= Slack - steps
        /\ nst[p] = "WISS" => steps < Slack
    BY <1>1, <1>2, <1>6 DEF Cycle
  <2>3. steps = Slack \/ Travelling(p)
    BY <1>1, <1>2, <1>6 DEF OverscanOver
  <2>4. nst[p] # "SACK" => Travelling(p)
    BY <1>1, <1>3, <2>1, <2>2, <2>3
  <2>5. CASE asked[p]
    <3>1. /\ nst[p] = "CONS" /\ fetch[p] <= read /\ \E n \in Trip(p) : trip[p] = n + fetch[p]
      BY <2>5 DEF Cycle
    <3>2. Travelling(p)
      BY <2>4, <3>1
    <3>3. PICK n \in Fetch(p) : fetch[p] < n
      BY <3>1, <3>2 DEF Travelling
    <3>4. n \in Nat /\ n <= read
      BY <1>1, OfTrips
    <3>5. trip'[p] = trip[p] + 1 /\ fetch'[p] = fetch[p] + 1 /\ fetch'[p] <= read
      BY <1>1, <1>2, <1>3, <2>5, <3>2, <3>3, <3>4
    <3>6. PICK m \in Trip(p) : trip[p] = m + fetch[p]
      BY <3>1
    <3>7. m \in Nat
      BY <1>1, OfTrips
    <3>8. trip'[p] = m + fetch'[p]
      BY <1>1, <3>5, <3>6, <3>7
    <3>9. Since(p, read)' = Since(p, read) + 1
      BY <1>2, <2>5, <3>5 DEF Since
    <3> QED
      BY <1>1, <1>2, <1>4, <1>6, <2>5, <3>5, <3>8, <3>9 DEF Away
  <2>6. CASE ~asked[p]
    <3>1. nst[p] = "SACK"
      BY <1>1, <2>4, <2>6 DEF Travelling
    <3>2. Travelling(p)
      <4>1. CASE steps = Slack
        <5>1. trip[p] = 0
          BY <1>3, <2>2, <3>1, <4>1
        <5>2. PICK n \in Trip(p) : TRUE
          BY <1>1, OfTrips
        <5>3. n \in Nat \ {0}
          BY <5>2, Pace DEF Trip
        <5>4. 0 < n
          BY <5>3
        <5> QED
          BY <3>1, <5>1, <5>4 DEF Travelling
      <4> QED
        BY <2>3, <4>1
    <3>3. PICK n \in Trip(p) : trip[p] < n
      BY <2>6, <3>2 DEF Travelling
    <3>4. n \in Nat /\ n + read <= longest
      BY <1>1, OfTrips
    <3>5. trip'[p] = trip[p] + 1 /\ trip'[p] + read <= longest
      BY <1>1, <1>2, <1>3, <3>2, <3>3, <3>4
    <3>6. Since(p, read)' = Since(p, read) + 1
      <4>1. Since(p, read) = trip[p] + read /\ Since(p, read)' = trip'[p] + read
        BY <1>2, <2>6 DEF Since
      <4> QED
        BY <1>1, <1>3, <3>5, <4>1
    <3> QED
      BY <1>1, <1>2, <1>4, <1>6, <2>6, <3>1, <3>5, <3>6 DEF Away
  <2> QED
    BY <2>5, <2>6
<1> QED
  BY <1>1, <1>5, <1>6

(* A record waits at most the longest trip for the answer.                 *)
LEMMA SinceRange ==
  ASSUME HistInv, Cadence, NEW shortest, NEW longest, NEW read, EvenTrips(shortest, longest, read),
         NEW c \in Console, Cycle(c, longest, read)
  PROVE  /\ Since(c, read) \in Nat /\ Since(c, read) <= longest
         /\ trip[c] \in Nat /\ trip[c] <= longest /\ (~asked[c] => trip[c] + read <= longest)
         /\ asked[c] \in BOOLEAN /\ fetch[c] \in Nat
<1>1. /\ trip[c] \in Nat /\ fetch[c] \in Nat /\ asked[c] \in BOOLEAN
      /\ read \in Nat /\ longest \in Nat /\ read <= longest
  BY OfTrips DEF Cadence
<1>2. CASE asked[c]
  <2>1. PICK n \in Trip(c) : trip[c] = n + fetch[c]
    BY <1>2 DEF Cycle
  <2>2. fetch[c] <= read
    BY <1>2 DEF Cycle
  <2>3. n \in Nat /\ n + read <= longest
    BY OfTrips
  <2> QED
    BY <1>1, <1>2, <2>1, <2>2, <2>3 DEF Since
<1>3. CASE ~asked[c]
  BY <1>1, <1>3 DEF Cycle, Since
<1> QED
  BY <1>2, <1>3

(* No more records wait for a READ than one overscan consumes.             *)
LEMMA FewWait ==
  ASSUME HistInv, Settled, Cadence, NEW shortest, NEW longest, NEW read,
         EvenTrips(shortest, longest, read),
         NEW c \in Console, turn = Peer(c), Cycle(c, longest, read), Cycle(Peer(c), longest, read),
         Sparse(c, shortest, read), nst[c] = "SACK", trip[c] \in Trip(c)
  PROVE  Len(net[c]) \in Nat /\ Len(net[c]) <= Slack - 2
<1> DEFINE p == Peer(c)
<1>1. /\ p \in Console /\ Peer(p) = c /\ tick[p] \in Int /\ tick[p] >= -1
      /\ net[c] \in Seq(Message) /\ Len(net[c]) \in Nat /\ trip[p] \in Nat /\ trip[c] \in Nat
  BY Peers, TickTypes DEF HistInv, SkewInv, Cadence
<1>2. PICK lo \in Nat \ {0} : lo = shortest
  BY OfTrips
<1>3. /\ longest \in Nat /\ Slack \in Nat /\ Slack >= 3 /\ longest < lo * (Slack - 2)
      /\ Since(c, read) \in Nat /\ Since(c, read) <= longest
  BY <1>2, OfTrips, SinceRange
<1>4. CASE net[c] = <<>>
  BY <1>1, <1>3, <1>4
<1>5. CASE net[c] # <<>>
  <2>1. tick[p] # -1
    BY <1>1, <1>5 DEF Cycle
  <2>2. Elapsed(p, lo) \in Nat /\ Elapsed(p, lo) >= 1
    <3>1. trip[p] >= 1
      BY <1>1, <2>1 DEF Cycle
    <3> QED
      BY <1>1, <1>2, <3>1 DEF Elapsed
  <2>3. lo * Len(net[c]) + Elapsed(p, lo) <= Since(c, read) + lo + 1
    <3>1. turn # c
      BY Peers
    <3> QED
      BY <1>2, <1>5, <3>1 DEF Sparse
  <2>4. lo * Len(net[c]) \in Int /\ lo * (Slack - 2) \in Int
        /\ lo * (Slack - 1) = lo * (Slack - 2) + lo
    BY <1>1, <1>2, <1>3
  <2>5. lo * Len(net[c]) + 1 <= lo * (Slack - 1)
    <3>1. PICK w \in Int, y \in Int, z \in Int, e \in Int, q \in Int :
            w = lo * Len(net[c]) /\ y = lo * (Slack - 2) /\ z = lo * (Slack - 1)
            /\ e = Elapsed(p, lo) /\ q = Since(c, read)
      BY <1>2, <1>3, <2>2, <2>4
    <3>2. z = y + lo /\ longest < y /\ w + e <= q + lo + 1 /\ q <= longest /\ e >= 1
      BY <1>3, <2>2, <2>3, <2>4, <3>1
    <3>3. w + 1 <= z
      BY <1>2, <1>3, <3>2
    <3> QED
      BY <3>1, <3>3
  <2>6. Len(net[c]) < Slack - 1
    <3>1. PICK a \in Int, b \in Int : a = Len(net[c]) /\ b = Slack - 1
      BY <1>1, <1>3
    <3>2. lo * a + 1 <= lo * b
      BY <2>5, <3>1
    <3>3. a < b
      BY <1>2, <3>1, <3>2, FewerFrames
    <3> QED
      BY <3>1, <3>3
  <2> QED
    BY <1>1, <1>3, <2>6
<1> QED
  BY <1>4, <1>5

(***************************************************************************)
(* The cycle of each transport.                                            *)
(***************************************************************************)
LEMMA CycleFrame ==
  ASSUME HistInv, Settled, Cadence, Together, NEW d \in Console, Frame(d),
         NEW shortest, NEW longest, NEW read, EvenTrips(shortest, longest, read),
         \A e \in Console : Cycle(e, longest, read), NEW c \in Console
  PROVE  Cycle(c, longest, read)'
<1> DEFINE p == Peer(d)
<1>1. /\ p \in Console /\ p # d /\ Peer(p) = d /\ (\A e \in Console : e = d \/ e = p)
      /\ Slack \in Nat /\ Slack >= 3 /\ longest \in Nat /\ read \in Nat /\ read <= longest
      /\ tick[d] \in Int /\ tick[d] >= -1 /\ trip \in [Console -> Nat]
      /\ \A e \in Console : Len(reply[e]) \in Nat
  BY Peers, TwoConsoles, OfTrips, TickTypes DEF HistInv, SkewInv, Cadence
<1>2. /\ turn = d /\ turn' = p /\ steps' = 0 /\ nst' = nst /\ reply' = reply /\ net' = net
      /\ trip'[d] = trip[d] /\ fetch'[d] = fetch[d] /\ asked' = asked
      /\ tick'[p] = tick[p] /\ tick'[d] >= 0
  BY <1>1, FrameCells
<1>3. CASE c = d
  <2>1. /\ tick[d] >= 0 => Away(d) /\ trip[d] >= 1
        /\ tick[d] = -1 => nst[d] = "WISS" /\ trip[d] = 0
        /\ asked[d] => /\ nst[d] = "CONS" /\ Len(reply[d]) + 1 <= Slack
                       /\ fetch[d] <= read /\ \E n \in Trip(d) : trip[d] = n + fetch[d]
        /\ ~asked[d] => trip[d] + read <= longest
        /\ ~Away(d) => net[d] = <<>> \/ trip[d] = 0
    BY <1>2 DEF Cycle
  <2>2. /\ tick'[d] # -1 /\ turn' # d /\ steps' = 0 /\ Slack > 0
    BY <1>1, <1>2
  <2>3. Away(d)' <=> Away(d)
    BY <1>2 DEF Away
  <2>4. nst'[d] = "CONS" => Len(reply'[d]) + 1 <= Slack - steps'
    <3>1. nst[d] = "CONS" => asked[d]
      BY <1>1, <2>1 DEF Away
    <3> QED
      BY <1>1, <1>2, <2>1, <2>2, <3>1
  <2>5. nst'[d] = "WISS" => steps' < Slack
    BY <1>1, <2>2
  <2>6. /\ asked'[d] => /\ nst'[d] = "CONS" /\ Len(reply'[d]) + 1 <= Slack
                        /\ fetch'[d] <= read /\ \E n \in Trip(d) : trip'[d] = n + fetch'[d]
        /\ ~asked'[d] => trip'[d] + read <= longest
        /\ ~Away(d)' => net'[d] = <<>> \/ trip'[d] = 0
    BY <1>2, <2>1, <2>3
  <2> QED
    BY <1>3, <2>2, <2>4, <2>5, <2>6 DEF Cycle
<1>4. CASE c = p
  <2>1. /\ tick[p] \in Int /\ tick[p] >= -1 /\ trip[p] \in Nat /\ Since(p, read) \in Nat
        /\ tick[p] >= 0 => /\ Away(p) /\ Away(p)' /\ trip'[p] = trip[p] + 1
                           /\ Since(p, read)' = Since(p, read) + 1
                           /\ ~asked[p] => trip'[p] + read <= longest
                           /\ asked[p] => /\ fetch'[p] = fetch[p] + 1 /\ fetch'[p] <= read
                                          /\ \E n \in Trip(p) : trip'[p] = n + fetch'[p]
        /\ tick[p] = -1 => trip'[p] = 0 /\ ~Away(p) /\ ~asked[p] /\ trip[p] = 0
    BY <1>1, TheOtherTravels
  <2>2. CASE tick[p] >= 0
    <3>1. /\ tick'[p] # -1 /\ turn' = p /\ Away(p)' /\ trip'[p] >= 1 /\ Since(p, read)' >= 1
      BY <1>2, <2>1, <2>2
    <3>2. /\ asked'[p] => /\ nst'[p] = "CONS" /\ Len(reply'[p]) + 1 <= Slack
                          /\ fetch'[p] <= read /\ \E n \in Trip(p) : trip'[p] = n + fetch'[p]
          /\ ~asked'[p] => trip'[p] + read <= longest
      <4>1. asked[p] => nst[p] = "CONS" /\ Len(reply[p]) + 1 <= Slack
        BY <1>1 DEF Cycle
      <4> QED
        BY <1>2, <2>1, <2>2, <4>1
    <3> QED
      BY <1>4, <3>1, <3>2 DEF Cycle
  <2>3. CASE tick[p] = -1
    <3>1. nst[p] = "WISS" /\ trip'[p] = 0 /\ net[Peer(p)] = <<>> /\ ~asked[p]
      BY <1>1, <2>1, <2>3 DEF Cycle
    <3>2. /\ nst'[p] = "WISS" /\ net'[Peer(p)] = <<>> /\ turn' # Peer(p) /\ ~asked'[p]
          /\ ~(tick'[p] >= 0) /\ trip'[p] + read <= longest
      BY <1>1, <1>2, <2>3, <3>1
    <3> QED
      BY <1>4, <3>1, <3>2 DEF Cycle
  <2> QED
    BY <2>1, <2>2, <2>3
<1> QED
  BY <1>1, <1>3, <1>4

LEMMA CycleOverscan ==
  ASSUME HistInv, Settled, Cadence, Together, NEW d \in Console, Overscan(d),
         NEW shortest, NEW longest, NEW read, EvenTrips(shortest, longest, read),
         \A e \in Console : Cycle(e, longest, read), Sparse(d, shortest, read), NEW c \in Console
  PROVE  Cycle(c, longest, read)'
<1>0. MaxFaults = 0
  BY OfTrips
<1> DEFINE p == Peer(d)
<1>1. /\ p \in Console /\ p # d /\ Peer(p) = d /\ (\A e \in Console : e = d \/ e = p)
      /\ Slack \in Nat /\ Slack >= 3 /\ longest \in Nat /\ read \in Nat /\ read <= longest
      /\ tick[d] \in Int /\ tick[d] >= -1 /\ trip \in [Console -> Nat]
      /\ steps \in 0 .. Slack /\ Len(reply[d]) \in Nat
  BY Peers, TwoConsoles, OfTrips, TickTypes DEF HistInv, SkewInv, Cadence
<1>2. /\ turn = p /\ turn' = p /\ steps < Slack /\ steps' = steps + 1
      /\ tick' = tick /\ tick[d] >= 0 /\ trip'[p] = trip[p] /\ nst'[p] = nst[p]
      /\ reply'[p] = reply[p] /\ asked'[p] = asked[p] /\ fetch'[p] = fetch[p] /\ fetch'[d] = 0
  BY <1>0, OverscanCells
<1>3. CASE c = d
  <2>1. /\ nst[d] = "SACK" => trip[d] = 0 \/ steps = 0
        /\ nst[d] = "CONS" => Len(reply[d]) + 1 <= Slack - steps
    BY <1>1, <1>2 DEF Cycle
  <2>2. CASE nst[d] = "WISS" /\ nst'[d] = "SACK" /\ trip'[d] = 0 /\ ~asked'[d]
    <3>1. tick'[d] # -1 /\ turn' # d /\ trip'[d] + read <= longest /\ Away(d)'
      BY <1>1, <1>2, <2>2 DEF Away
    <3> QED
      BY <1>3, <2>2, <3>1 DEF Cycle
  <2>3. CASE /\ nst[d] = "SACK" /\ trip[d] \in Trip(d)
             /\ asked'[d] = (net[d] # <<>>) /\ trip'[d] = IF net[d] = <<>> THEN 0 ELSE trip[d]
             /\ nst'[d] = IF net[d] = <<>> THEN "WISS" ELSE "CONS"
             /\ reply'[d] = net[d] /\ net'[d] = <<>>
    <3>1. trip[d] >= 1 /\ trip[d] \in Nat
      BY <2>3, OfTrips
    <3>2. steps = 0 /\ steps' = 1
      BY <1>2, <2>1, <2>3, <3>1
    <3>3. Len(net[d]) \in Nat /\ Len(net[d]) <= Slack - 2
      BY <1>1, <1>2, <2>3, FewWait
    <3>4. /\ nst'[d] # "SACK" /\ Len(reply'[d]) + 1 <= Slack - steps' /\ steps' < Slack
          /\ Len(reply'[d]) + 1 <= Slack /\ tick'[d] # -1 /\ turn' # d
      BY <1>1, <1>2, <2>1, <2>3, <3>2, <3>3
    <3>5. asked'[d] => /\ nst'[d] = "CONS" /\ fetch'[d] <= read
                      /\ \E n \in Trip(d) : trip'[d] = n + fetch'[d]
      <4>1. ASSUME asked'[d] PROVE trip'[d] = trip[d] + fetch'[d]
        <5>1. net[d] # <<>>
          BY <2>3, <4>1, Zenon
        <5>2. trip'[d] = trip[d]
          BY <2>3, <5>1
        <5> QED
          BY <1>2, <3>1, <5>2
      <4>2. fetch'[d] <= read
        BY <1>1, <1>2
      <4> QED
        BY <2>3, <4>1, <4>2
    <3>6. ~asked'[d] => trip'[d] + read <= longest
      <4>1. ~asked'[d] => net[d] = <<>>
        BY <2>3, Zenon
      <4> QED
        BY <1>1, <2>3, <4>1
    <3> QED
      BY <1>3, <2>3, <3>4, <3>5, <3>6 DEF Cycle
  <2>4. CASE /\ nst[d] = "CONS" /\ trip'[d] = 0 /\ ~asked'[d]
             /\ nst'[d] = IF Len(reply[d]) = 1 THEN "WISS" ELSE "CONS"
             /\ reply'[d] = SubSeq(reply[d], 1, Len(reply[d]) - 1)
    <3>1. reply[d] \in Seq(Message) /\ reply[d] # <<>>
      BY <2>4 DEF HistInv, SkewInv, TypeInv, WindowInUse, TypeOK, TransportTypes
    <3>2. Len(reply[d]) \in Nat \ {0}
      BY <3>1
    <3>3. Len(reply[d]) - 1 \in 0 .. Len(reply[d])
      BY <3>2
    <3>4. Len(reply'[d]) = Len(reply[d]) - 1
      BY <2>4, <3>1, <3>3, SplitSeq
    <3>5. /\ nst'[d] # "SACK" /\ Len(reply'[d]) + 1 <= Slack - steps'
          /\ (nst'[d] = "WISS" => steps' < Slack)
          /\ tick'[d] # -1 /\ turn' # d /\ trip'[d] + read <= longest
      BY <1>1, <1>2, <2>1, <2>4, <3>2, <3>4
    <3> QED
      BY <1>3, <2>4, <3>5 DEF Cycle
  <2> QED
    BY <1>0, <2>2, <2>3, <2>4, OverscanCells
<1>4. CASE c = p
  <2>1. /\ tick[p] = -1 => nst[p] = "WISS" /\ trip[p] = 0 /\ net[d] = <<>>
        /\ tick[p] >= 0 => Away(p) /\ trip[p] >= 1 /\ Since(p, read) >= 1
        /\ asked[p] => /\ nst[p] = "CONS" /\ Len(reply[p]) + 1 <= Slack
                       /\ fetch[p] <= read /\ \E n \in Trip(p) : trip[p] = n + fetch[p]
        /\ ~asked[p] => trip[p] + read <= longest
        /\ tick[p] \in Int /\ tick[p] >= -1
    BY <1>1, <1>2, TickTypes DEF Cycle, HistInv, SkewInv
  <2>2. net'[d] = net[d] \/ net'[d] = <<>>
    BY <1>0, OverscanCells
  <2>5. /\ Away(p)' <=> Away(p)
        /\ Since(p, read)' = Since(p, read)
    BY <1>2 DEF Away, Since
  <2>6. /\ asked'[p] => /\ nst'[p] = "CONS" /\ Len(reply'[p]) + 1 <= Slack
                        /\ fetch'[p] <= read /\ \E n \in Trip(p) : trip'[p] = n + fetch'[p]
        /\ ~asked'[p] => trip'[p] + read <= longest
    BY <1>2, <2>1
  <2>3. CASE tick[p] >= 0
    <3>1. tick'[p] # -1 /\ Away(p)' /\ trip'[p] >= 1 /\ Since(p, read)' >= 1 /\ turn' = p
      BY <1>2, <2>1, <2>3, <2>5
    <3> QED
      BY <1>2, <1>4, <2>6, <3>1 DEF Cycle
  <2>4. CASE tick[p] = -1
    <3>1. /\ nst'[p] = "WISS" /\ trip'[p] = 0 /\ net'[Peer(p)] = <<>> /\ turn' # Peer(p)
          /\ ~(tick'[p] >= 0)
      BY <1>1, <1>2, <2>1, <2>2, <2>4
    <3> QED
      BY <1>4, <2>6, <3>1 DEF Cycle
  <2> QED
    BY <2>1, <2>3, <2>4
<1> QED
  BY <1>1, <1>3, <1>4

LEMMA SparseFrame ==
  ASSUME HistInv, Settled, Cadence, Together, NEW d \in Console, Frame(d),
         NEW shortest, NEW longest, NEW read, EvenTrips(shortest, longest, read),
         \A e \in Console : Cycle(e, longest, read), NEW c \in Console, Sparse(c, shortest, read)
  PROVE  Sparse(c, shortest, read)'
<1> DEFINE p == Peer(d)
           q == Peer(c)
<1>1. /\ p \in Console /\ p # d /\ Peer(p) = d /\ (\A e \in Console : e = d \/ e = p)
      /\ q \in Console /\ q # c /\ Peer(q) = c
      /\ tick[d] \in Int /\ tick[d] >= -1 /\ trip \in [Console -> Nat]
      /\ Len(net[c]) \in Nat /\ shortest \in Nat
      /\ \A e \in Console : Since(e, read) \in Nat
  <2>1. \A e \in Console : Since(e, read) \in Nat
    BY SinceRange
  <2> QED
    BY <2>1, Peers, TwoConsoles, TickTypes, OfTrips DEF HistInv, SkewInv, Cadence
<1>2. /\ turn = d /\ turn' = p /\ nst' = nst /\ net' = net /\ trip'[d] = trip[d]
      /\ fetch'[d] = fetch[d] /\ asked' = asked
  BY <1>1, FrameCells
<1>3. /\ tick[p] \in Int /\ tick[p] >= -1 /\ trip[p] \in Nat
      /\ tick[p] >= 0 => /\ trip'[p] = trip[p] + 1 /\ Since(p, read)' = Since(p, read) + 1
  BY <1>1, TheOtherTravels
<1>9. Since(d, read)' = Since(d, read) /\ Elapsed(d, shortest)' = Elapsed(d, shortest)
  BY <1>2 DEF Since, Elapsed
<1>4. PICK frames \in Int : frames = shortest * Len(net[c])
  BY <1>1
<1>10. \A e \in Console : Elapsed(e, shortest) \in Nat
  BY <1>1 DEF Elapsed
<1>6. SUFFICES ASSUME net[c] # <<>>
               PROVE  frames + Elapsed(q, shortest)'
                        <= Since(c, read)' + shortest + (IF turn' = c THEN 0 ELSE 1)
  BY <1>2, <1>4 DEF Sparse
<1>11. frames + Elapsed(q, shortest) <= Since(c, read) + shortest + (IF turn = c THEN 0 ELSE 1)
  BY <1>4, <1>6 DEF Sparse
<1>7. CASE c = d
  <2>1. tick[p] # -1
    BY <1>1, <1>6, <1>7 DEF Cycle
  <2>2. Elapsed(p, shortest)' <= Elapsed(p, shortest) + 1 /\ Elapsed(p, shortest)' \in Nat
    BY SMTT(30), <1>1, <1>2, <1>3, <2>1 DEF Elapsed
  <2> QED
    BY <1>1, <1>2, <1>7, <1>9, <1>10, <1>11, <2>2
<1>8. CASE c = p
  <2>1. tick[p] # -1
    BY <1>1, <1>2, <1>6, <1>8 DEF Cycle
  <2> QED
    BY <1>1, <1>2, <1>3, <1>8, <1>9, <1>10, <1>11, <2>1
<1> QED
  BY <1>1, <1>7, <1>8

LEMMA SparseOverscan ==
  ASSUME HistInv, Settled, Cadence, Together, NEW d \in Console, Overscan(d),
         NEW shortest, NEW longest, NEW read, EvenTrips(shortest, longest, read),
         \A e \in Console : Cycle(e, longest, read), NEW c \in Console, Sparse(c, shortest, read)
  PROVE  Sparse(c, shortest, read)'
<1>0. MaxFaults = 0
  BY OfTrips
<1> DEFINE p == Peer(d)
<1>1. /\ p \in Console /\ p # d /\ Peer(p) = d /\ (\A e \in Console : e = d \/ e = p)
      /\ trip \in [Console -> Nat] /\ Len(net[c]) \in Nat /\ net[c] \in Seq(Message) /\ TypeInv
      /\ fetch \in [Console -> Nat] /\ read \in Nat
      /\ \A e \in Console : Since(e, read) \in Nat
  <2>1. \A e \in Console : Since(e, read) \in Nat
    BY SinceRange
  <2> QED
    BY <2>1, Peers, TwoConsoles, TickTypes, OfTrips DEF HistInv, SkewInv, Cadence
<1>2. /\ turn = p /\ turn' = p /\ trip'[p] = trip[p] /\ nst'[p] = nst[p]
      /\ asked'[p] = asked[p] /\ fetch'[p] = fetch[p]
  BY <1>0, OverscanCells
<1>3. PICK lo \in Nat \ {0} : lo = shortest
  BY OfTrips
<1>4. PICK frames \in Int : frames = lo * Len(net[c])
  BY <1>1, <1>3
<1>7. /\ Since(p, read)' = Since(p, read) /\ Elapsed(p, lo)' = Elapsed(p, lo)
      /\ \A e \in Console : Elapsed(e, lo) \in Nat
  BY <1>1, <1>2, <1>3 DEF Since, Elapsed
<1>8. net[c] # <<>> =>
        frames + Elapsed(Peer(c), lo) <= Since(c, read) + lo + (IF turn = c THEN 0 ELSE 1)
  BY <1>3, <1>4 DEF Sparse
<1>5. CASE c = d
  <2>1. CASE net'[c] = <<>>
    BY <2>1 DEF Sparse
  <2>2. CASE net'[c] = net[c] /\ nst[c] # "SACK" /\ trip'[c] = 0 /\ ~asked'[c]
    <3>1. net[c] = <<>> \/ Since(c, read) <= read
      <4>1. CASE asked[c]
        BY <1>5, <4>1 DEF Cycle, Since
      <4>2. CASE ~asked[c]
        <5>1. net[c] = <<>> \/ trip[c] = 0
          BY <1>5, <2>2, <4>2 DEF Cycle, Away
        <5> QED
          BY <1>1, <4>2, <5>1 DEF Since
      <4> QED
        BY <4>1, <4>2
    <3>2. Since(c, read)' = read
      BY <1>1, <2>2 DEF Since
    <3>3. net[c] # <<>> => frames + Elapsed(p, lo)' <= Since(c, read)' + lo + (IF turn' = c THEN 0 ELSE 1)
      BY <1>1, <1>2, <1>3, <1>5, <1>7, <1>8, <3>1, <3>2
    <3> QED
      BY <1>3, <1>4, <1>5, <2>2, <3>3 DEF Sparse
  <2> QED
    BY <1>0, <1>5, <2>1, <2>2, OverscanCells
<1>6. CASE c = p
  <2>1. Peer(c) = d /\ turn' = c /\ turn = c
    BY <1>1, <1>2, <1>6
  <2>2. CASE nst[d] = "WISS" /\ nst'[d] = "SACK" /\ trip'[d] = 0 /\ Racing(p)
             /\ net'[p] = Append(net[p], RecordOf(d, TRUE))
    <3>1. Len(net'[c]) = Len(net[c]) + 1
      BY <1>1, <1>6, <2>2, Grown
    <3>2. frames <= Since(c, read)
      <4>1. CASE net[c] = <<>>
        <5>1. Len(net[c]) = 0
          BY <4>1
        <5> QED
          BY <1>1, <1>3, <1>4, <5>1
      <4>2. CASE net[c] # <<>>
        <5>1. Elapsed(d, lo) = lo
          BY <1>3, <2>2 DEF Elapsed
        <5> QED
          BY <1>1, <1>3, <1>8, <2>1, <4>2, <5>1
      <4> QED
        BY <4>1, <4>2
    <3>3. lo * Len(net'[c]) = frames + lo
      BY <1>1, <1>3, <1>4, <3>1
    <3>4. Elapsed(d, lo)' = 0
      BY <2>2 DEF Elapsed
    <3>5. lo * Len(net'[c]) + Elapsed(d, lo)' <= Since(c, read)' + lo + 0
      BY SMTT(30), <1>1, <1>3, <1>4, <1>6, <1>7, <3>2, <3>3, <3>4
    <3> QED
      BY <1>3, <2>1, <3>5 DEF Sparse
  <2>3. CASE /\ nst[d] = "SACK" /\ trip[d] \in Trip(d) /\ net'[p] = net[p] /\ nst'[d] # "SACK"
    <3>1. trip[d] \in Nat /\ lo <= trip[d]
      BY <1>3, <2>3, OfTrips
    <3>2. Elapsed(d, lo) = trip[d] /\ Elapsed(d, lo)' = lo
      BY <1>3, <2>3 DEF Elapsed
    <3>3. net[c] # <<>> => frames + Elapsed(d, lo)' <= Since(c, read)' + lo + 0
      BY SMTT(30), <1>1, <1>3, <1>4, <1>6, <1>7, <1>8, <2>1, <3>1, <3>2
    <3> QED
      BY <1>3, <1>4, <1>6, <2>1, <2>3, <3>3 DEF Sparse
  <2>4. CASE nst[d] = "CONS" /\ net' = net /\ nst'[d] # "SACK"
    <3>1. Elapsed(d, lo)' = Elapsed(d, lo)
      BY <1>3, <2>4 DEF Elapsed
    <3>2. net[c] # <<>> => frames + Elapsed(d, lo)' <= Since(c, read)' + lo + 0
      BY <1>1, <1>3, <1>4, <1>6, <1>7, <1>8, <2>1, <3>1
    <3> QED
      BY <1>3, <1>4, <1>6, <2>1, <2>4, <3>2 DEF Sparse
  <2>5. Racing(p)
    BY <1>1 DEF Together
  <2>6. /\ (IF net[d] = <<>> THEN "WISS" ELSE "CONS") # "SACK"
        /\ (IF Len(reply[d]) = 1 THEN "WISS" ELSE "CONS") # "SACK"
    OBVIOUS
  <2> QED
    BY <1>0, <2>2, <2>3, <2>4, <2>5, <2>6, OverscanCells
<1> QED
  BY <1>1, <1>5, <1>6

LEMMA RecentFrame ==
  ASSUME HistInv, HistInv', Settled, Cadence, Together, NEW d \in Console, Frame(d),
         NEW shortest, NEW longest, NEW read, EvenTrips(shortest, longest, read),
         \A e \in Console : Cycle(e, longest, read), NEW c \in Console, Recent(c, read)
  PROVE  Recent(c, read)'
<1> DEFINE p == Peer(d)
<1>1. /\ p \in Console /\ p # d /\ Peer(p) = d /\ (\A e \in Console : e = d \/ e = p)
      /\ trip \in [Console -> Nat] /\ D \in Nat /\ K \in Nat
      /\ DOMAIN net[c] = 1 .. Len(net[c])
      /\ \A i \in DOMAIN net[c] : IsInput(net[c][i]) => net[c][i].tick \in Int
      /\ \A e \in Console : Since(e, read) \in Nat
  <2>1. TypeInv /\ D \in Nat /\ K \in Nat
    BY OfTrips DEF HistInv, SkewInv
  <2>2. net[c] \in Seq(Message)
    BY <2>1, TickTypes
  <2>3. DOMAIN net[c] = 1 .. Len(net[c])
    BY <2>2
  <2>4. \A e \in Console : Since(e, read) \in Nat
    BY SinceRange
  <2> QED
    BY <2>1, <2>3, <2>4, Peers, TwoConsoles, TickTypes DEF Cadence
<1>2. /\ turn = d /\ net' = net /\ Since(d, read)' = Since(d, read)
      /\ Pos(p)' = Pos(p) /\ Pos(d)' <= Pos(d) + 1
  <2>1. clk'[p] = clk[p] /\ ran'[p] = ran[p]
    BY FrameCells
  <2> QED
    BY <1>1, <2>1, FrameCells DEF Pos, Since
<1>3. /\ Pos(d) \in Int /\ Pos(p) \in Int /\ Pos(d)' \in Int
  <2>1. ran'[d] \in BOOLEAN /\ clk'[d] \in Nat
    BY HistTypes DEF HistInv, SkewInv, TypeInv, TypeOK, GateTypes
  <2> QED
    BY <1>1, <2>1, PosRange DEF Pos
<1> SUFFICES ASSUME NEW i \in DOMAIN net[c], IsInput(net[c][i])
             PROVE  Pos(Peer(c))' <= K * (net[c][i].tick - D + 1) + Since(c, read)'
  BY <1>2 DEF Recent
<1>4. PICK reach \in Int : reach = K * (net[c][i].tick - D + 1)
  BY SMTT(30), <1>1
<1>5. Pos(Peer(c)) <= reach + Since(c, read)
  BY <1>4 DEF Recent
<1>6. CASE c = d
  BY <1>1, <1>2, <1>3, <1>4, <1>5, <1>6
<1>7. CASE c = p
  <2>1. tick[p] # -1
    <3>1. net[c] # <<>>
      OBVIOUS
    <3> QED
      BY <1>1, <1>2, <1>7, <3>1 DEF Cycle
  <2>2. Since(p, read)' = Since(p, read) + 1
    BY <1>1, <2>1, TheOtherTravels
  <2>3. Pos(Peer(c)) = Pos(d) /\ Pos(Peer(c))' = Pos(d)'
        /\ Since(c, read)' = Since(c, read) + 1
    BY <1>1, <1>7, <2>2
  <2>4. Since(c, read) \in Nat
    BY <1>1
  <2> QED
    BY <1>2, <1>3, <1>4, <1>5, <2>3, <2>4
<1> QED
  BY <1>1, <1>6, <1>7

LEMMA RecentOverscan ==
  ASSUME HistInv, HistInv', Settled, Cadence, Together, NEW d \in Console, Overscan(d),
         NEW shortest, NEW longest, NEW read, EvenTrips(shortest, longest, read),
         \A e \in Console : Cycle(e, longest, read), NEW c \in Console, Recent(c, read)
  PROVE  Recent(c, read)'
<1> DEFINE p == Peer(d)
<1>1. /\ p \in Console /\ p # d /\ Peer(p) = d /\ (\A e \in Console : e = d \/ e = p)
      /\ trip \in [Console -> Nat] /\ TypeInv /\ Racing(p)
      /\ MaxFaults = 0 /\ K \in Nat /\ D \in Nat /\ tick[d] \in Int /\ read \in Nat
      /\ \A e \in Console : Since(e, read) \in Nat
  <2>1. \A e \in Console : Since(e, read) \in Nat
    BY SinceRange
  <2> QED
    BY <2>1, OfTrips, Peers, TwoConsoles, TickTypes DEF Cadence, HistInv, SkewInv, Together
<1>2. Since(p, read)' = Since(p, read) /\ \A e \in Console : Pos(e)' = Pos(e) /\ Pos(e) \in Int
  BY <1>1, OverscanCells, PosRange DEF Pos, Since
<1>3. ASSUME net'[c] = net[c], Since(c, read)' \in Nat, Since(c, read) <= Since(c, read)'
      PROVE  Recent(c, read)'
  <2> SUFFICES ASSUME NEW i \in DOMAIN net[c], IsInput(net[c][i])
               PROVE  Pos(Peer(c))' <= K * (net[c][i].tick - D + 1) + Since(c, read)'
    BY <1>3 DEF Recent
  <2>2. net[c][i].tick \in Int
    <3>1. TypeInv
      BY <1>1
    <3>2. DOMAIN net[c] = 1 .. Len(net[c])
      BY <3>1, TickTypes
    <3> QED
      BY <3>1, <3>2, TickTypes
  <2>3. PICK reach \in Int : reach = K * (net[c][i].tick - D + 1)
    BY <1>1, <2>2
  <2>4. Pos(Peer(c)) <= reach + Since(c, read)
    BY <2>3 DEF Recent
  <2>5. Pos(Peer(c))' = Pos(Peer(c)) /\ Pos(Peer(c)) \in Int
    BY <1>2, Peers
  <2> QED
    BY <1>1, <1>3, <2>3, <2>4, <2>5
<1>4. ASSUME net'[c] = <<>> PROVE Recent(c, read)'
  BY <1>4 DEF Recent
<1>5. CASE c = d
  <2>1. CASE net'[c] = net[c] /\ nst[c] # "SACK" /\ trip'[c] = 0 /\ ~asked'[c]
    <3>1. net[c] = <<>> \/ Since(c, read) <= read
      <4>1. CASE asked[c]
        BY <4>1 DEF Cycle, Since
      <4>2. CASE ~asked[c]
        <5>1. net[c] = <<>> \/ trip[c] = 0
          BY <2>1, <4>2 DEF Cycle, Away
        <5> QED
          BY <1>1, <4>2, <5>1 DEF Since
      <4> QED
        BY <4>1, <4>2
    <3>2. Since(c, read)' = read
      BY <1>1, <2>1 DEF Since
    <3> QED
      BY <1>1, <1>3, <1>4, <2>1, <3>1, <3>2
  <2> QED
    BY <1>1, <1>4, <1>5, <2>1, OverscanCells
<1>6. CASE c = p
  <2>1. CASE net'[p] = net[p]
    BY <1>1, <1>2, <1>3, <1>6, <2>1
  <2>2. CASE net'[p] = Append(net[p], RecordOf(d, TRUE))
    <3>1. /\ Len(net[c]) \in Nat /\ DOMAIN net[c] = 1 .. Len(net[c])
          /\ DOMAIN net'[c] = 1 .. Len(net[c]) + 1
          /\ \A i \in 1 .. Len(net[c]) : net'[c][i] = net[c][i]
          /\ net'[c][Len(net[c]) + 1] = RecordOf(d, TRUE)
      BY <1>1, <1>6, <2>2, Grown
    <3>2. ASSUME NEW i \in DOMAIN net'[c], IsInput(net'[c][i])
          PROVE  Pos(Peer(c))' <= K * (net'[c][i].tick - D + 1) + Since(c, read)'
      <4>1. CASE i \in 1 .. Len(net[c])
        <5>1. Pos(Peer(c)) <= K * (net[c][i].tick - D + 1) + Since(c, read)
          BY <3>1, <3>2, <4>1 DEF Recent
        <5> QED
          BY <1>1, <1>2, <1>6, <3>1, <4>1, <5>1
      <4>2. CASE i = Len(net[c]) + 1
        <5>1. net'[c][i].tick = tick[d] + D
          <6>1. RecordOf(d, TRUE).tick = tick[d] + D
            BY DEF RecordOf
          <6> QED
            BY <3>1, <4>2, <6>1
        <5>2. net'[c][i].tick - D + 1 = tick[d] + 1
          BY <1>1, <5>1
        <5>3. Pos(d) \in Int /\ Pos(d) <= K * (tick[d] + 1)
          BY PosRange
        <5>4. Since(c, read)' \in Nat /\ K * (tick[d] + 1) \in Int
          BY <1>1, <1>2, <1>6
        <5>5. Pos(Peer(c))' = Pos(d)
          BY <1>1, <1>2, <1>6
        <5> QED
          BY <5>2, <5>3, <5>4, <5>5
      <4> QED
        BY <3>1, <4>1, <4>2
    <3> QED
      BY <3>2 DEF Recent
  <2> QED
    BY <1>1, <2>1, <2>2, OverscanCells
<1> QED
  BY <1>1, <1>5, <1>6

LEMMA TimelyFrame ==
  ASSUME HistInv, HistInv', Settled, Cadence, Together, NEW d \in Console, Frame(d),
         NEW shortest, NEW longest, NEW read, EvenTrips(shortest, longest, read),
         \A e \in Console : Cycle(e, longest, read), NEW c \in Console, Timely(c, longest)
  PROVE  Timely(c, longest)'
<1> DEFINE p == Peer(d)
           q == Peer(c)
<1>1. /\ p \in Console /\ p # d /\ Peer(p) = d /\ (\A e \in Console : e = d \/ e = p)
      /\ trip \in [Console -> Nat] /\ D \in Nat \ {0} /\ K \in Nat \ {0} /\ longest \in Nat \ {0}
      /\ tick[d] \in Int /\ tick[d] >= -1 /\ tick[p] \in Int /\ q \in Console
      /\ Pos(d) \in Int /\ Pos(p) \in Int /\ Pos(d)' \in Int
  <2>1. ran'[d] \in BOOLEAN /\ clk'[d] \in Nat
    BY HistTypes DEF HistInv, SkewInv, TypeInv, TypeOK, GateTypes
  <2>2. Pos(d)' \in Int
    BY <2>1 DEF Pos
  <2> QED
    BY <2>2, OfTrips, Peers, TwoConsoles, TickTypes, PosRange DEF Cadence, HistInv, SkewInv
<1>2. /\ turn = d /\ turn' = p /\ nst' = nst /\ net' = net /\ rwat' = rwat /\ reply' = reply
      /\ trip'[d] = trip[d] /\ asked' = asked /\ Pos(p)' = Pos(p) /\ Pos(d)' <= Pos(d) + 1
      /\ tick'[p] = tick[p] /\ tick'[d] >= 0
  <2>1. clk'[p] = clk[p] /\ ran'[p] = ran[p]
    BY FrameCells
  <2> QED
    BY <1>1, <2>1, FrameCells DEF Pos
<1>3. ASSUME NEW x \in Int, Seen(q, Len(net[q]), x) PROVE Seen(q, Len(net[q]), x)'
  <2>1. Newest(q)' = Newest(q) /\ Inputs(q)' = Inputs(q) /\ net'[q] = net[q]
    BY <1>2 DEF Newest, Inputs, Window
  <2> QED
    BY <1>3, <2>1 DEF Seen
<1>4. CASE c = d
  <2>1. CASE tick[d] = -1
    <3>1. ~Away(d)' /\ Pos(d) = 0
      <4>1. nst[d] = "WISS" /\ (asked[d] => nst[d] = "CONS")
        BY <1>1, <2>1 DEF Cycle
      <4> QED
        BY <1>1, <1>2, <2>1, <4>1, PosRange DEF Away
    <3>2. Seen(q, Len(net[q]), D - 1)
      <4>1. rwat[q] \in Int
        BY <1>1, NewestInt
      <4>2. D - 1 <= Newest(q)
        BY <1>1, <4>1 DEF Newest
      <4> QED
        BY <4>2 DEF Seen
    <3>3. D - 1 \in Int /\ K * ((D - 1) - D + 1) = 0
      BY <1>1
    <3>4. Age(c, longest)' = longest
      BY <1>2, <1>4, <3>1 DEF Age
    <3>5. Pos(c)' <= K * ((D - 1) - D + 1) + Age(c, longest)'
      BY <1>1, <1>2, <1>4, <3>1, <3>3, <3>4
    <3> QED
      BY <1>2, <1>3, <1>4, <3>2, <3>3, <3>5 DEF Timely
  <2>2. CASE tick[d] >= 0
    <3>1. Away(d) /\ Away(d)' /\ trip[d] \in Nat
      BY <1>1, <1>2, <2>2 DEF Cycle, Away
    <3>2. PICK x \in Int : Seen(q, Len(net[q]), x) /\ Pos(c) <= K * (x - D + 1) + Age(c, longest)
      BY <1>4, <2>2 DEF Timely
    <3>3. Age(c, longest) = trip[d] - 1 /\ Age(c, longest)' = trip[d]
      BY <1>1, <1>2, <1>4, <3>1 DEF Age
    <3>4. K * (x - D + 1) \in Int
      BY <1>1
    <3>5. Pos(c)' <= K * (x - D + 1) + Age(c, longest)'
      BY <1>1, <1>2, <1>4, <3>1, <3>2, <3>3, <3>4
    <3> QED
      BY <1>2, <1>3, <3>2, <3>5 DEF Timely
  <2> QED
    BY <1>1, <2>1, <2>2
<1>5. CASE c = p
  <2>1. ASSUME tick[p] >= 0
        PROVE  \E x \in Int : /\ Seen(q, Len(net[q]), x)'
                              /\ Pos(c)' <= K * (x - D + 1) + Age(c, longest)'
    <3>1. Away(p) /\ Away(p)' /\ trip'[p] = trip[p] + 1 /\ trip[p] \in Nat
      BY <1>1, <2>1, TheOtherTravels
    <3>2. PICK x \in Int : Seen(q, Len(net[q]), x) /\ Pos(c) <= K * (x - D + 1) + Age(c, longest)
      BY <1>5, <2>1 DEF Timely
    <3>3. Age(c, longest) = trip[p] /\ Age(c, longest)' = trip'[p] - 1
      BY <1>1, <1>2, <1>5, <3>1 DEF Age
    <3>4. Age(c, longest)' = Age(c, longest)
      BY <3>1, <3>3
    <3> QED
      BY <1>2, <1>3, <1>5, <3>2, <3>4
  <2> QED
    BY <1>2, <1>5, <2>1 DEF Timely
<1> QED
  BY <1>1, <1>4, <1>5

LEMMA TimelyOverscan ==
  ASSUME HistInv, HistInv', Settled, Cadence, Together, NEW d \in Console, Overscan(d),
         NEW shortest, NEW longest, NEW read, EvenTrips(shortest, longest, read),
         \A e \in Console : Cycle(e, longest, read), NEW c \in Console, Timely(c, longest)
  PROVE  Timely(c, longest)'
<1> DEFINE p == Peer(d)
           q == Peer(c)
<1>1. /\ p \in Console /\ p # d /\ Peer(p) = d /\ (\A e \in Console : e = d \/ e = p)
      /\ q \in Console /\ Peer(q) = c /\ q # c
      /\ trip \in [Console -> Nat] /\ TypeInv /\ Racing(p)
      /\ MaxFaults = 0 /\ K \in Nat \ {0} /\ D \in Nat /\ longest \in Nat
      /\ tick[c] \in Int /\ Len(net[q]) \in Nat /\ Len(net'[q]) \in Nat
  <2>1. TypeInv /\ TypeInv'
    BY DEF HistInv, SkewInv
  <2>2. Len(net'[q]) \in Nat
    <3>1. net'[q] \in Seq(Message)
      BY <2>1, Peers DEF TypeInv, TypeOK, TransportTypes
    <3> QED
      BY <3>1
  <2> QED
    BY <2>1, <2>2, OfTrips, Peers, TwoConsoles, TickTypes DEF Cadence, Together
<1>2. /\ turn = p /\ turn' = p /\ tick' = tick /\ trip'[p] = trip[p] /\ nst'[p] = nst[p]
      /\ asked'[p] = asked[p]
      /\ \A e \in Console : Pos(e)' = Pos(e)
  BY <1>1, OverscanCells DEF Pos
<1>3. [PacedNext]_pacedVars
  BY DEF PacedNext
<1>4. ASSUME NEW x \in Int, Seen(q, Len(net[q]), x) PROVE Seen(q, Len(net[q]), x)'
  <2>1. Len(net[q]) \in 0 .. Len(net[q])
    BY <1>1
  <2>2. PICK m \in 0 .. Len(net[q]) : m <= Len(net'[q]) /\ Seen(q, m, x)'
    BY <1>1, <1>3, <1>4, <2>1, SeenKept
  <2>3. \A i \in 1 .. m : i \in 1 .. Len(net'[q])
    BY <1>1, <2>2
  <2> QED
    BY <2>2, <2>3 DEF Seen
<1>5. ASSUME Age(c, longest) <= Age(c, longest)',
             Age(c, longest) \in Int, Age(c, longest)' \in Int
      PROVE  Timely(c, longest)'
  <2>1. ASSUME tick[c] >= 0
        PROVE  \E x \in Int : /\ Seen(q, Len(net[q]), x)'
                              /\ Pos(c)' <= K * (x - D + 1) + Age(c, longest)'
    <3>1. PICK x \in Int : Seen(q, Len(net[q]), x) /\ Pos(c) <= K * (x - D + 1) + Age(c, longest)
      BY <2>1 DEF Timely
    <3>2. K * (x - D + 1) \in Int /\ Pos(c) \in Int
      BY <1>1, PosRange
    <3>3. Pos(c)' <= K * (x - D + 1) + Age(c, longest)'
      BY <1>2, <1>5, <3>1, <3>2
    <3> QED
      BY <1>4, <3>1, <3>3
  <2> QED
    BY <1>2, <2>1 DEF Timely
<1>6. CASE c = p
  <2>1. Age(c, longest)' = Age(c, longest) /\ Age(c, longest) \in Int
    BY <1>1, <1>2, <1>6 DEF Age, Away
  <2> QED
    BY <1>5, <2>1
<1>7. CASE c = d
  <2>1. CASE nst[d] = "WISS" /\ nst'[d] = "SACK" /\ trip'[d] = 0 /\ net'[p] = Append(net[p], RecordOf(d, TRUE))
    <3>0. net'[q] = Append(net[q], RecordOf(c, TRUE))
      BY <1>7, <2>1
    <3>1. /\ Len(net'[q]) = Len(net[q]) + 1 /\ net'[q][Len(net[q]) + 1] = RecordOf(c, TRUE)
      BY <1>1, <3>0, Grown
    <3>2. PICK x \in Int : x = tick[c] + D
      BY <1>1
    <3>3. RecordOf(c, TRUE).tick = x /\ IsInput(RecordOf(c, TRUE))
      BY <3>2 DEF RecordOf, IsInput
    <3>4. Len(net[q]) + 1 \in 1 .. Len(net'[q])
      BY <1>1, <3>1
    <3>5. Seen(q, Len(net[q]), x)'
      <4>1. PICK i \in 1 .. Len(net'[q]) : IsInput(net'[q][i]) /\ x = net'[q][i].tick
        BY <3>1, <3>3, <3>4
      <4> QED
        BY <4>1 DEF Seen
    <3>6. Age(c, longest)' = 0
      BY <1>1, <1>2, <1>7, <2>1 DEF Age, Away
    <3>7. Pos(c) \in Int /\ Pos(c) <= K * (tick[c] + 1)
      BY PosRange
    <3>8. x - D + 1 = tick[c] + 1 /\ K * (x - D + 1) \in Int
      <4>1. PICK u \in Int, n \in Int, k \in Int : u = tick[c] /\ n = D /\ k = K
        BY <1>1
      <4>2. x = u + n
        BY <3>2, <4>1
      <4>3. x - n + 1 = u + 1 /\ k * (x - n + 1) \in Int
        BY <4>2
      <4> QED
        BY <4>1, <4>3
    <3>9. Pos(c)' <= K * (x - D + 1) + Age(c, longest)'
      <4>1. PICK z \in Int, y \in Int : z = K * (x - D + 1) /\ y = Pos(c)
        BY <3>7, <3>8
      <4>2. y <= z
        BY <3>7, <3>8, <4>1
      <4>3. y <= z + 0
        BY <4>2
      <4>4. Pos(c)' = y
        BY <1>2, <4>1
      <4> QED
        BY <3>6, <4>1, <4>3, <4>4
    <3> QED
      BY <3>5, <3>9 DEF Timely
  <2>2. CASE /\ nst[d] = "SACK" /\ trip[d] \in Trip(d) /\ nst'[d] # "SACK"
             /\ asked'[d] => trip'[d] = trip[d]
    <3>1. trip[d] \in Nat /\ trip[d] <= longest
      BY <1>7, SinceRange
    <3>2. Age(c, longest) = trip[d]
      BY <1>1, <1>2, <1>7, <2>2 DEF Age, Away
    <3>3. Age(c, longest)' \in {trip[d], longest}
      BY <1>1, <1>2, <1>7, <2>2 DEF Age, Away
    <3> QED
      BY <1>1, <1>5, <3>1, <3>2, <3>3
  <2>3. CASE nst[d] = "CONS" /\ nst'[d] # "SACK" /\ ~asked'[d]
    <3>1. Age(c, longest)' = longest
      BY <1>7, <2>3 DEF Age, Away
    <3>2. Age(c, longest) \in {trip[d], longest}
      BY <1>1, <1>2, <1>7 DEF Age
    <3>3. trip[d] \in Nat /\ trip[d] <= longest
      BY <1>7, SinceRange
    <3> QED
      BY <1>1, <1>5, <3>1, <3>2, <3>3
  <2>4. /\ (IF net[d] = <<>> THEN "WISS" ELSE "CONS") # "SACK"
        /\ (IF Len(reply[d]) = 1 THEN "WISS" ELSE "CONS") # "SACK"
    OBVIOUS
  <2>5. \/ /\ nst[d] = "WISS" /\ nst'[d] = "SACK" /\ trip'[d] = 0
           /\ net'[p] = Append(net[p], RecordOf(d, TRUE))
        \/ /\ nst[d] = "SACK" /\ trip[d] \in Trip(d) /\ nst'[d] # "SACK"
           /\ asked'[d] = (net[d] # <<>>) /\ trip'[d] = IF net[d] = <<>> THEN 0 ELSE trip[d]
        \/ nst[d] = "CONS" /\ nst'[d] # "SACK" /\ ~asked'[d]
    BY <1>1, <2>4, OverscanCells
  <2>6. asked'[d] = (net[d] # <<>>) => (asked'[d] => net[d] # <<>>)
    BY Zenon
  <2> QED
    BY <2>1, <2>2, <2>3, <2>5, <2>6
<1> QED
  BY <1>1, <1>6, <1>7


(***************************************************************************)
(* The windows and the remote ring.                                        *)
(***************************************************************************)

(* What waits for c is within a window of all its peer has captured.       *)
LEMMA StillNear ==
  ASSUME HistInv, Settled, NEW shortest, NEW longest, NEW read, EvenTrips(shortest, longest, read), Cadence,
         NEW c \in Console, Recent(c, read), Cycle(c, longest, read),
         NEW i \in DOMAIN net[c], IsInput(net[c][i]), NEW t \in Int, t = net[c][i].tick
  PROVE  tick[Peer(c)] + D <= t + Win
<1> DEFINE p == Peer(c)
<1>1. /\ p \in Console /\ tick[p] \in Int /\ Since(c, read) \in Nat /\ Since(c, read) <= longest
      /\ K \in Nat \ {0} /\ Win \in Nat \ {0} /\ D \in Nat \ {0} /\ longest \in Nat
      /\ longest <= K * Win
  BY Peers, TickTypes, OfTrips, SinceRange DEF HistInv, SkewInv
<1>2. Pos(p) <= K * (t - D + 1) + Since(c, read)
  BY DEF Recent
<1>3. Pos(p) \in Int /\ K * tick[p] + 1 <= Pos(p)
  BY <1>1, PosRange
<1>4. PICK a \in Int, b \in Int : a = tick[p] /\ b = t - D + 1 + Win
  BY <1>1
<1>5. K * b = K * (t - D + 1) + K * Win
  BY <1>1, <1>4
<1>6. K * (t - D + 1) \in Int /\ K * Win \in Int /\ K * a \in Int
  BY <1>1, <1>4
<1>7. K * a + 1 <= K * b
  BY <1>1, <1>2, <1>3, <1>4, <1>5, <1>6
<1>8. a < b
  BY <1>1, <1>4, <1>7, FewerFrames
<1> QED
  BY <1>1, <1>4, <1>8

LEMMA PacedClose ==
  ASSUME NEW shortest, NEW longest, NEW read, EvenTrips(shortest, longest, read),
         HistInv, HistInv', Settled, Cadence, [PacedNext]_pacedVars,
         NEW c \in Console, Recent(c, read), Cycle(c, longest, read), CloseInv(c)
  PROVE  CloseInv(c)'
<1>1. /\ TypeInv /\ TypeInv' /\ SkewInv /\ MaxFaults = 0 /\ Win \in Nat /\ rwat[c] \in Int
      /\ D \in Nat
  BY OfTrips, NewestInt DEF HistInv, SkewInv
<1>2. CASE rwat'[c] = rwat[c] /\ reply'[c] = reply[c]
  <2>1. Inputs(c)' = Inputs(c)
    BY <1>2 DEF Inputs, Window
  <2> QED
    BY <1>2, <2>1 DEF CloseInv
<1>3. CASE rwat'[c] = rwat[c] /\ reply'[c] = net[c]
  <2>1. Inputs(c)' = {net[c][i] : i \in {j \in 1 .. Len(net[c]) : IsInput(net[c][j])}}
    BY <1>1, <1>3, InputsRead
  <2>2. ASSUME NEW m \in Inputs(c)'
        PROVE  /\ m.tick \in Int /\ rwat[c] <= m.tick /\ m.tick <= tick[Peer(c)] + D
               /\ tick[Peer(c)] + D <= m.tick + Win
    <3>1. PICK i \in 1 .. Len(net[c]) : IsInput(net[c][i]) /\ m = net[c][i]
      BY <2>1, <2>2
    <3>2. i \in DOMAIN net[c]
      BY <1>1, TickTypes
    <3>3. m \in Queued(c) /\ m.type = "INPUT"
      BY <3>1, <3>2 DEF Queued, IsInput
    <3>4. m.tick \in Int /\ m.tick <= tick[Peer(c)] + D /\ rwat[c] <= m.tick
      BY <1>1, <3>3, InputRange
    <3>5. PICK t \in Int : t = net[c][i].tick
      BY <3>1, <3>4
    <3>6. tick[Peer(c)] + D <= t + Win
      BY <3>1, <3>2, <3>5, StillNear
    <3> QED
      BY <3>1, <3>4, <3>5, <3>6
  <2>3. tick[Peer(c)] \in Int
    BY <1>1, Peers, TickTypes
  <2>4. \A m, n \in Inputs(c)' : m.tick <= n.tick + Win
    BY <1>1, <2>2, <2>3
  <2>5. \A m \in Inputs(c)' : rwat'[c] <= m.tick + Win
    BY <1>1, <1>3, <2>2
  <2> QED
    BY <2>4, <2>5 DEF CloseInv
<1>4. CASE Consume(c)
  <2> DEFINE rec == reply[c][Len(reply[c])]
  <2>1. /\ Inputs(c)' \subseteq Inputs(c)
        /\ \/ rec \in Inputs(c)
           \/ rwat'[c] = rwat[c]
    BY <1>4, InputsConsumed
  <2>2. \/ rwat'[c] = rwat[c]
        \/ IsInput(rec) /\ rwat'[c] = rec.tick
    <3>1. rwat \in [Console -> Int]
      BY <1>1 DEF TypeInv, TypeOK, RemoteTypes
    <3> QED
      BY <1>1, <1>4, <3>1, MarkAfterConsume
  <2>3. CASE rwat'[c] = rwat[c]
    BY <2>1, <2>3 DEF CloseInv
  <2>4. CASE rec \in Inputs(c) /\ rwat'[c] = rec.tick
    BY <2>1, <2>4 DEF CloseInv
  <2> QED
    BY <2>1, <2>2, <2>3, <2>4
<1> QED
  BY <1>1, <1>2, <1>3, <1>4, Mail

(* What a record's window does to the slot of a tick c may still run: a    *)
(* tick in it gets its byte, and no other tick loses its own.              *)
LEMMA FillKeeps ==
  ASSUME NEW first \in Int, NEW p \in Console, NEW slots, NEW rec, NEW r \in Int, r = rec.tick,
         Genuine(p, rec), r <= first + 2 * D + 1,
         NEW t \in Nat, first <= t, t <= r + Win
  PROVE  /\ Brings(rec, t) => Right(Fill(slots, rec), p, t)
         /\ Right(slots, p, t) => Right(Fill(slots, rec), p, t)
<1>1. PICK i \in 0 .. RingSize - 1 :
        /\ i = (r - t) % RingSize
        /\ (r - i) % RingSize = t % RingSize
        /\ Fill(slots, rec)[t % RingSize] =
             (IF i < Win THEN rec.win[i + 1] ELSE slots[t % RingSize])
  BY FillSlot
<1>2. /\ D \in Nat \ {0} /\ Win \in Nat \ {0} /\ RingSize \in Nat \ {0}
      /\ 2 * Win <= RingSize /\ RingSize >= 2 * D + 2
  BY RingSizes
<1>3. CASE i < Win
  <2>1. PICK u \in Int : u = r - i
    BY <1>1
  <2>2. -RingSize < u - t /\ u - t < RingSize
    BY <1>1, <1>2, <1>3, <2>1
  <2>3. u = t
    BY <1>1, <1>2, <2>1, <2>2, SameSlot
  <2>4. i + 1 \in 1 .. Win /\ r - ((i + 1) - 1) = t
    BY <1>1, <1>2, <1>3, <2>1, <2>3
  <2>5. rec.win[i + 1] = Captured(p, t)
    BY <2>4 DEF Genuine
  <2> QED
    BY <1>1, <1>3, <2>5 DEF Right
<1>4. CASE ~(i < Win)
  <2>1. ~Brings(rec, t)
    <3>1. SUFFICES ASSUME Brings(rec, t) PROVE FALSE
      OBVIOUS
    <3>2. 0 <= r - t /\ r - t < Win /\ r - t < RingSize /\ r - t \in Int
      BY <1>2, <3>1 DEF Brings
    <3>3. (r - t) % RingSize = r - t
      BY <1>2, <3>2, SmallMod
    <3> QED
      BY <1>1, <1>4, <3>2, <3>3
  <2> QED
    BY <1>1, <1>4, <2>1 DEF Right
<1> QED
  BY <1>3, <1>4

(* What c is to run, its peer has captured.                                *)
LEMMA DueIsKnown ==
  ASSUME HistInv, NEW c \in Console, NEW t \in Nat, Due(c, t)
  PROVE  t <= tick[Peer(c)] + D
<1> DEFINE p == Peer(c)
<1>1. /\ p \in Console /\ tick[p] \in Int /\ tick[p] >= -1 /\ rwat[c] \in Int
      /\ D \in Nat \ {0} /\ MarkInv(c) /\ SkewInv /\ TypeInv
  BY Peers, TickTypes, RingSizes DEF HistInv, SkewInv, TickInv
<1>2. Newest(c) <= tick[p] + D /\ Newest(c) \in Int
  BY <1>1 DEF Newest, MarkInv
<1>3. \A m \in Inputs(c) : m.tick \in Int /\ m.tick <= tick[p] + D
  BY <1>1, InputsOf, UnreadRange
<1> QED
  BY <1>1, <1>2, <1>3 DEF Due

LEMMA FillingUnread ==
  ASSUME HistInv, HistInv', [Next]_vars, NEW c \in Console, Filling(c),
         rwat'[c] = rwat[c], ring'[c] = ring[c], reply'[c] = reply[c]
  PROVE  Filling(c)'
<1> DEFINE p == Peer(c)
<1>1. p \in Console /\ TypeInv /\ Len(cap[p]) = tick[p] + 1
  BY Peers DEF HistInv, SkewInv, CaptureInv
<1>2. Newest(c)' = Newest(c) /\ Inputs(c)' = Inputs(c)
  BY DEF Newest, Inputs, Window
<1>3. tick[c] \in Int /\ tick'[c] \in Int /\ tick[c] <= tick'[c]
  BY <1>1, Growth, TickTypes
<1> SUFFICES ASSUME NEW t \in Nat, Due(c, t)'
             PROVE  Right(ring[c], p, t)' \/ \E m \in Inputs(c)' : Brings(m, t)
  BY DEF Filling, Right, Brings
<1>4. Due(c, t)
  BY <1>2, <1>3 DEF Due
<1>5. Captured(p, t)' = Captured(p, t)
  BY <1>1, <1>4, DueIsKnown, PastIsFixed
<1> QED
  BY <1>2, <1>4, <1>5 DEF Filling, Right

LEMMA FillingRead ==
  ASSUME HistInv, HistInv', NEW c \in Console, Filling(c), Chained(c),
         rwat'[c] = rwat[c], ring'[c] = ring[c], tick'[c] = tick[c], cap' = cap,
         reply'[c] = net[c], reply[c] = <<>>
  PROVE  Filling(c)'
<1> DEFINE p == Peer(c)
<1>1. /\ TypeInv /\ TypeInv' /\ Win \in Nat /\ Newest(c) \in Int /\ Inputs(c) = {}
      /\ net[c] \in Seq(Message) /\ Len(net[c]) \in Nat /\ DOMAIN net[c] = 1 .. Len(net[c])
      /\ \A i \in 1 .. Len(net[c]) : IsInput(net[c][i]) => net[c][i].tick \in Int
  <2>1. TypeInv /\ TypeInv'
    BY DEF HistInv, SkewInv
  <2>2. net[c] \in Seq(Message)
    BY <2>1, TickTypes
  <2> QED
    BY <2>1, <2>2, TickTypes, NewestInt, InputsOf, RingSizes
<1>2. Inputs(c)' = {net[c][i] : i \in {j \in 1 .. Len(net[c]) : IsInput(net[c][j])}}
  BY <1>1, InputsRead
<1>3. Newest(c)' = Newest(c)
  BY DEF Newest
<1> SUFFICES ASSUME NEW t \in Nat, Due(c, t)'
             PROVE  Right(ring[c], p, t)' \/ \E m \in Inputs(c)' : Brings(m, t)
  BY DEF Filling, Right, Brings
<1>4. Captured(p, t)' = Captured(p, t)
  BY DEF Captured
<1>5. CASE t <= Newest(c)
  <2>1. Due(c, t)
    BY <1>5 DEF Due
  <2>2. Right(ring[c], p, t)
    BY <1>1, <2>1 DEF Filling
  <2> QED
    BY <1>4, <2>2 DEF Right
(* The first record that reaches t reaches it with its window.             *)
<1>6. CASE ~(t <= Newest(c))
  <2> DEFINE T == {i \in 1 .. Len(net[c]) : IsInput(net[c][i]) /\ t <= net[c][i].tick}
  <2>1. T # {} /\ T \subseteq Nat
    <3>1. PICK m \in Inputs(c)' : t <= m.tick
      BY <1>3, <1>6 DEF Due
    <3> QED
      BY <1>2, <3>1
  <2>2. PICK i \in T : \A j \in T : i <= j
    BY <2>1, LeastNatural
  <2>3. PICK x \in Int : x = net[c][i].tick
    BY <1>1
  <2>4. Seen(c, i - 1, x - Win)
    BY <1>1, <2>3 DEF Chained
  <2>5. x - Win < t
    <3>1. CASE x - Win <= Newest(c)
      <4>1. PICK n \in Int, w \in Int : n = Newest(c) /\ w = Win
        BY <1>1
      <4>2. ~(t <= n) /\ x - w <= n
        BY <1>6, <3>1, <4>1
      <4>3. x - w < t
        BY <2>3, <4>1, <4>2
      <4> QED
        BY <4>1, <4>3
    <3>2. ASSUME NEW j \in 1 .. i - 1, IsInput(net[c][j]), x - Win <= net[c][j].tick
          PROVE  x - Win < t
      <4>1. j \in 1 .. Len(net[c]) /\ ~(i <= j)
        BY <1>1
      <4>2. j \notin T
        BY <2>2, <4>1
      <4>3. ~(t <= net[c][j].tick) /\ net[c][j].tick \in Int
        BY <1>1, <3>2, <4>1, <4>2
      <4>4. PICK y \in Int, w \in Int : y = net[c][j].tick /\ w = Win
        BY <1>1, <4>3
      <4>5. ~(t <= y) /\ x - w <= y
        BY <3>2, <4>3, <4>4
      <4>6. x - w < t
        BY <4>5
      <4> QED
        BY <4>4, <4>6
    <3> QED
      BY <1>1, <2>4, <3>1, <3>2 DEF Seen
  <2>6. net[c][i] \in Inputs(c)' /\ Brings(net[c][i], t)
    BY <1>2, <2>3, <2>5 DEF Brings
  <2> QED
    BY <2>6
<1> QED
  BY <1>5, <1>6

LEMMA FillingConsume ==
  ASSUME HistInv, HistInv', Settled, NEW c \in Console, Filling(c), CloseInv(c), Consume(c)
  PROVE  Filling(c)'
<1> DEFINE p == Peer(c)
           rec == reply[c][Len(reply[c])]
<1>1. /\ p \in Console /\ SkewInv /\ TypeInv /\ tick' = tick /\ cap' = cap
      /\ tick[c] \in Int /\ tick[p] \in Int /\ tick[p] <= tick[c] + D + 1
      /\ D \in Nat \ {0} /\ Win \in Nat \ {0} /\ rwat[c] \in Int
  <2>1. SkewInv /\ TypeInv /\ p \in Console
    BY Peers DEF HistInv, SkewInv
  <2> QED
    BY <2>1, TickTypes, Distances, RingSizes DEF Consume
<1>2. Inputs(c)' \subseteq Inputs(c)
  BY InputsConsumed
<1>3. \A t : Captured(p, t)' = Captured(p, t)
  BY <1>1 DEF Captured
<1> SUFFICES ASSUME NEW t \in Nat, Due(c, t)'
             PROVE  Right(ring[c], p, t)' \/ \E m \in Inputs(c)' : Brings(m, t)
  BY DEF Filling, Right, Brings
<1>4. Due(c, t)
  BY <1>1, <1>2, NewestConsumed DEF Due
<1>5. Right(ring[c], p, t) \/ \E m \in Inputs(c) : Brings(m, t)
  BY <1>4 DEF Filling
<1>6. CASE Inputs(c) = Inputs(c)' /\ ring'[c] = ring[c]
  BY <1>3, <1>5, <1>6 DEF Right
<1>7. CASE /\ rec \in Inputs(c) /\ ConsumeInput(c, rec)
           /\ Inputs(c) \subseteq Inputs(c)' \cup {rec}
  <2>1. PICK r \in Int : r = rec.tick
    BY <1>1, <1>7, InputsOf
  <2>2. rec \in Unread(c) /\ Genuine(p, rec)
    BY <1>1, <1>7, InputsOf DEF HistInv
  <2>3. D <= r /\ r <= tick[p] + D
    BY <1>1, <2>1, <2>2, UnreadRange
  <2>4. r <= tick[c] + 2 * D + 1
    BY <1>1, <2>3
  <2>5. t <= r + Win
    <3>1. CASE t <= Newest(c)
      <4>1. rwat[c] <= r + Win
        BY <1>7, <2>1 DEF CloseInv
      <4> QED
        BY <1>1, <2>3, <3>1, <4>1 DEF Newest
    <3>2. ASSUME NEW m \in Inputs(c), t <= m.tick PROVE t <= r + Win
      <4>1. m.tick \in Int /\ m.tick <= r + Win
        BY <1>1, <1>7, <2>1, InputsOf DEF CloseInv
      <4> QED
        BY <1>1, <3>2, <4>1
    <3> QED
      BY <1>4, <3>1, <3>2 DEF Due
  <2>6. tick[c] <= t
    BY <1>4 DEF Due
  <2>7. ring'[c] = Fill(ring[c], rec)
    BY <1>1, <1>7 DEF ConsumeInput, TypeInv, TypeOK, RemoteTypes
  <2>8. /\ Brings(rec, t) => Right(ring'[c], p, t)
        /\ Right(ring[c], p, t) => Right(ring'[c], p, t)
    BY <1>1, <2>1, <2>2, <2>4, <2>5, <2>6, <2>7, FillKeeps
  <2>9. Right(ring'[c], p, t) \/ \E m \in Inputs(c)' : Brings(m, t)
    BY <1>5, <1>7, <2>8
  <2> QED
    BY <1>3, <2>9 DEF Right
<1> QED
  BY <1>6, <1>7, InputsConsumed

LEMMA FillingStep ==
  ASSUME HistInv, HistInv', Settled, Cadence, MaxFaults = 0, [PacedNext]_pacedVars,
         NEW c \in Console, CloseInv(c), Filling(c), Chained(c)
  PROVE  Filling(c)'
<1>1. [Next]_vars
  BY PacedIsNext
<1>2. ASSUME Overscan(c), reply'[c] = net[c], reply[c] = <<>>, rwat'[c] = rwat[c],
             ring'[c] = ring[c]
      PROVE  Filling(c)'
  <2>1. tick' = tick /\ cap' = cap
    BY <1>2, OverscanCells
  <2> QED
    BY <1>2, <2>1, FillingRead
<1> QED
  BY <1>1, <1>2, FillingUnread, FillingConsume, Mail

(* When nothing is being consumed the ring itself is right.                *)
LEMMA FillingAlone ==
  ASSUME HistInv, NEW c \in Console, Filling(c), reply[c] = <<>>
  PROVE  RingInv(c)
<1>1. TypeInv
  BY DEF HistInv, SkewInv
<1>2. Inputs(c) = {}
  BY <1>1, InputsOf
<1>3. ASSUME NEW t \in Nat, tick[c] <= t, t <= Newest(c)
      PROVE  ring[c][t % RingSize] = Captured(Peer(c), t)
  <2>1. Due(c, t)
    BY <1>3 DEF Due
  <2> QED
    BY <1>2, <2>1 DEF Filling, Right
<1> QED
  BY <1>3 DEF RingInv, Holds

LEMMA UntouchedStep ==
  ASSUME HistInv, HistInv', Settled, Cadence, Together, MaxFaults = 0,
         NEW d \in Console, Frame(d) \/ Overscan(d),
         NEW c \in Console, Filling(c), Untouched(c)
  PROVE  Untouched(c)'
<1> DEFINE p == Peer(c)
<1>1. /\ p \in Console /\ TypeInv /\ Len(cap[p]) = tick[p] + 1 /\ [PacedNext]_pacedVars
      /\ WindowInUse
  BY Peers DEF HistInv, SkewInv, CaptureInv, PacedNext, TypeInv
<1>2. [Next]_vars
  BY <1>1, PacedIsNext
<1>3. ASSUME RingInv(c), rwat'[c] = rwat[c], ring'[c] = ring[c] PROVE RingInv(c)'
  <2>1. tick[c] \in Int /\ tick'[c] \in Int /\ tick[c] <= tick'[c]
    BY <1>1, <1>2, Growth, TickTypes DEF HistInv, SkewInv
  <2>2. Newest(c)' = Newest(c)
    BY <1>3 DEF Newest
  <2> SUFFICES ASSUME NEW t \in Nat, tick'[c] <= t, t <= Newest(c)
               PROVE  ring[c][t % RingSize] = Captured(p, t)'
    BY <1>3, <2>2 DEF RingInv, Holds
  <2>3. Newest(c) \in Int
    BY NewestInt
  <2>4. tick[c] <= t
    BY <2>1
  <2>5. Due(c, t)
    BY <2>4 DEF Due
  <2>6. Captured(p, t)' = Captured(p, t)
    BY <1>1, <1>2, <2>5, DueIsKnown, PastIsFixed
  <2> QED
    BY <1>3, <2>4, <2>6 DEF RingInv, Holds
<1>4. CASE Frame(d)
  <2>1. asked' = asked /\ rwat' = rwat /\ ring' = ring
    BY <1>4, FrameCells
  <2> QED
    BY <1>3, <2>1 DEF Untouched
<1>5. CASE Overscan(d)
  <2>1. CASE d = c
    <3>1. CASE nst[c] = "SACK" /\ rwat' = rwat /\ ring' = ring
      <4>1. reply[c] = <<>>
        BY <1>1, <3>1 DEF WindowInUse
      <4>2. RingInv(c)
        BY <4>1, FillingAlone
      <4> QED
        BY <1>3, <3>1, <4>2 DEF Untouched
    <3>2. CASE ~asked'[c]
      BY <3>2 DEF Untouched
    <3> QED
      BY <1>5, <2>1, <3>1, <3>2, OverscanCells
  <2>2. CASE d # c
    <3>1. c = Peer(d)
      BY <2>2, TwoConsoles
    <3>2. asked'[c] = asked[c] /\ rwat'[c] = rwat[c] /\ ring'[c] = ring[c]
      BY <1>5, <3>1, OverscanCells
    <3> QED
      BY <1>3, <3>2 DEF Untouched
  <2> QED
    BY <2>1, <2>2
<1> QED
  BY <1>4, <1>5

(***************************************************************************)
(* The races.                                                              *)
(***************************************************************************)

(* When a console draws, both have consumed all that they read, and so the *)
(* tick that may run now runs on the right byte.                           *)
LEMMA FrameRuns ==
  ASSUME HistInv, NEW shortest, NEW longest, NEW read, EvenTrips(shortest, longest, read),
         PacedInv(shortest, longest, read), Together, NEW d \in Console, Frame(d)
  PROVE  SameInputs'
<1>1. /\ Settled /\ Cadence /\ SameInputs /\ WindowInUse /\ TypeInv
      /\ \A c \in Console : Cycle(c, longest, read) /\ CloseInv(c) /\ Filling(c) /\ Untouched(c)
  BY DEF PacedInv, HistInv, SkewInv, TypeInv
<1>2. [Next]_vars /\ turn = d
  BY FrameCells, <1>1 DEF Next
<1>3. ASSUME NEW c \in Console, ~asked[c] PROVE reply[c] = <<>>
  <2>1. tick[c] \in Int /\ tick[c] >= -1 /\ Peer(d) \in Console
    BY <1>1, TickTypes, Peers
  <2>2. tick[c] = -1 => nst[c] # "CONS"
    BY <1>1 DEF Cycle
  <2>3. tick[c] >= 0 => nst[c] # "CONS"
    <3>1. CASE c = d
      BY <1>1, <1>2, <1>3, <3>1 DEF Cycle, Away
    <3>2. CASE c = Peer(d)
      BY <1>1, <1>3, <2>1, <3>2, TheOtherTravels DEF Away
    <3> QED
      BY <3>1, <3>2, TwoConsoles
  <2> QED
    BY <1>1, <2>1, <2>2, <2>3 DEF WindowInUse
<1>4. ASSUME NEW c \in Console PROVE RingInv(c)
  BY <1>1, <1>3, FillingAlone DEF Untouched
<1>5. RaceInv
  BY <1>1, <1>4 DEF RaceInv
<1> QED
  BY <1>2, <1>5, InputsStep

LEMMA OverscanRuns ==
  ASSUME HistInv, Settled, Cadence, MaxFaults = 0, SameInputs, NEW d \in Console, Overscan(d)
  PROVE  SameInputs'
<1>1. applied' = applied /\ cap' = cap
  BY OverscanCells
<1> QED
  BY <1>1 DEF SameInputs, Captured

(***************************************************************************)
(* The invariant holds.                                                    *)
(***************************************************************************)
LEMMA PacedStarts ==
  ASSUME NEW shortest, NEW longest, NEW read, EvenTrips(shortest, longest, read), PacedInit
  PROVE  PacedInv(shortest, longest, read)
<1>1. /\ Init /\ turn = "host" /\ steps = 0 /\ trip = [c \in Console |-> 0]
      /\ asked = [c \in Console |-> FALSE] /\ fetch = [c \in Console |-> 0]
      /\ RaceInv /\ longest \in Nat /\ Slack \in Nat /\ read \in Nat /\ read <= longest
  BY RaceInit, OfTrips DEF PacedInit
<1>2. ASSUME NEW c \in Console
      PROVE  /\ tick[c] = -1 /\ nst[c] = "WISS" /\ net[c] = <<>> /\ reply[c] = <<>>
             /\ phase[c] = 0 /\ trip[c] = 0 /\ ~asked[c] /\ Inputs(c) = {} /\ Unread(c) = {}
  <2>1. /\ tick[c] = -1 /\ nst[c] = "WISS" /\ net[c] = <<>> /\ reply[c] = <<>>
        /\ phase[c] = 0 /\ trip[c] = 0 /\ ~asked[c]
    BY <1>1 DEF Init
  <2>2. Window(c) = {} /\ Queued(c) = {}
    BY <2>1 DEF Window, Queued
  <2> QED
    BY <2>1, <2>2 DEF Inputs, Unread
<1>3. Cadence
  BY <1>1 DEF Cadence, Console
<1>4. Settled
  BY <1>1, <1>2 DEF Settled, Init
<1>5. ASSUME NEW c \in Console PROVE Chained(c) /\ Recent(c, read) /\ Sparse(c, shortest, read)
  <2>1. DOMAIN net[c] = {}
    BY <1>2
  <2> QED
    BY <1>2, <2>1 DEF Chained, Recent, Sparse
<1>6. ASSUME NEW c \in Console PROVE Cycle(c, longest, read) /\ Timely(c, longest)
  <2>1. Peer(c) \in Console
    BY Peers
  <2> QED
    BY <1>1, <1>2, <2>1 DEF Cycle, Timely
<1>7. ASSUME NEW c \in Console PROVE CloseInv(c) /\ Filling(c) /\ Untouched(c)
  <2>1. CloseInv(c) /\ RingInv(c)
    BY <1>1 DEF RaceInv
  <2>2. \A t \in Nat : Due(c, t) => Right(ring[c], Peer(c), t)
    BY <1>2, <2>1 DEF Due, Right, RingInv, Holds
  <2> QED
    BY <1>2, <2>1, <2>2 DEF Filling, Untouched
<1>8. SameInputs
  BY <1>1 DEF RaceInv
<1> QED
  BY <1>3, <1>4, <1>5, <1>6, <1>7, <1>8 DEF PacedInv

LEMMA PacedStep ==
  ASSUME NEW shortest, NEW longest, NEW read, EvenTrips(shortest, longest, read), HistInv, HistInv',
         PacedInv(shortest, longest, read), [PacedNext]_pacedVars
  PROVE  PacedInv(shortest, longest, read)'
<1>1. /\ Cadence /\ Settled /\ MaxFaults = 0 /\ (\A c \in Console : Chained(c))
      /\ Together => /\ \A c \in Console : /\ Cycle(c, longest, read) /\ Sparse(c, shortest, read)
                                           /\ Recent(c, read) /\ Timely(c, longest)
                                           /\ CloseInv(c) /\ Filling(c) /\ Untouched(c)
                     /\ SameInputs
  BY OfTrips DEF PacedInv
<1>2. Cadence' /\ Settled' /\ \A c \in Console : Chained(c)'
  BY <1>1, CadenceStep, SettledStep, ChainedStep
<1>3. ASSUME Together'
      PROVE  /\ \A c \in Console : /\ Cycle(c, longest, read)' /\ Sparse(c, shortest, read)'
                                   /\ Recent(c, read)' /\ Timely(c, longest)'
                                   /\ CloseInv(c)' /\ Filling(c)' /\ Untouched(c)'
             /\ SameInputs'
  <2>1. /\ Together
        /\ \/ UNCHANGED pacedVars
           \/ \E d \in Console : Frame(d) \/ Overscan(d)
    BY <1>3, TogetherSteps
  <2>2. ASSUME NEW c \in Console PROVE CloseInv(c)' /\ Filling(c)'
    BY <1>1, <2>1, PacedClose, FillingStep
  <2>3. ASSUME NEW d \in Console, Frame(d), NEW c \in Console
        PROVE  /\ Cycle(c, longest, read)' /\ Sparse(c, shortest, read)'
               /\ Recent(c, read)' /\ Timely(c, longest)'
    BY <1>1, <2>1, <2>3, CycleFrame, SparseFrame, RecentFrame, TimelyFrame
  <2>4. ASSUME NEW d \in Console, Overscan(d), NEW c \in Console
        PROVE  /\ Cycle(c, longest, read)' /\ Sparse(c, shortest, read)'
               /\ Recent(c, read)' /\ Timely(c, longest)'
    BY <1>1, <2>1, <2>4, CycleOverscan, SparseOverscan, RecentOverscan, TimelyOverscan
  <2>5. ASSUME NEW d \in Console, Frame(d) \/ Overscan(d), NEW c \in Console PROVE Untouched(c)'
    BY <1>1, <2>1, <2>5, UntouchedStep
  <2>8. ASSUME NEW d \in Console, Frame(d) \/ Overscan(d) PROVE SameInputs'
    BY <1>1, <2>1, <2>8, FrameRuns, OverscanRuns
  <2>6. CASE UNCHANGED pacedVars
    <3>1. UNCHANGED <<tick, nst, trip, asked, fetch, net, turn, steps, reply, clk, ran, rwat, ring, applied, cap>>
      BY <2>6 DEF pacedVars, vars, gateVars, xportVars
    <3>2. ASSUME NEW c \in Console
          PROVE  /\ Cycle(c, longest, read)' /\ Sparse(c, shortest, read)'
                 /\ Recent(c, read)' /\ Timely(c, longest)'
      <4>1. /\ Cycle(c, longest, read) /\ Sparse(c, shortest, read)
            /\ Recent(c, read) /\ Timely(c, longest)
        BY <1>1, <2>1
      <4>2. Cycle(c, longest, read)' /\ Sparse(c, shortest, read)'
        BY <3>1, <4>1 DEF Cycle, Sparse, Away, Since, Elapsed
      <4>3. Recent(c, read)'
        BY <3>1, <4>1 DEF Recent, Pos, Since
      <4>4. Timely(c, longest)'
        <5>1. Pos(c)' = Pos(c) /\ Age(c, longest)' = Age(c, longest)
          BY <3>1 DEF Pos, Age, Away
        <5>2. ASSUME NEW x \in Int, Seen(Peer(c), Len(net[Peer(c)]), x)
              PROVE  Seen(Peer(c), Len(net[Peer(c)]), x)'
          BY <3>1, <5>2 DEF Seen, Newest, Inputs, Window
        <5> QED
          BY <3>1, <4>1, <5>1, <5>2 DEF Timely
      <4> QED
        BY <4>2, <4>3, <4>4
    <3>3. SameInputs'
      BY <1>1, <2>1, <3>1 DEF SameInputs, Captured
    <3>4. ASSUME NEW c \in Console PROVE Untouched(c)'
      BY <1>1, <2>1, <3>1 DEF Untouched, RingInv, Holds, Newest, Captured
    <3> QED
      BY <2>2, <3>2, <3>3, <3>4
  <2>7. CASE \E d \in Console : Frame(d) \/ Overscan(d)
    BY <2>2, <2>3, <2>4, <2>5, <2>7, <2>8
  <2> QED
    BY <2>1, <2>6, <2>7
<1> QED
  BY <1>2, <1>3 DEF PacedInv

LEMMA PacedInvariant ==
  ASSUME NEW CONSTANT shortest, NEW CONSTANT longest, NEW CONSTANT read,
         EvenTrips(shortest, longest, read)
  PROVE  PacedSpec => [](HistInv /\ PacedInv(shortest, longest, read))
<1>1. PacedInit => PacedInv(shortest, longest, read)
  BY PacedStarts
<1>2. /\ HistInv /\ HistInv' /\ PacedInv(shortest, longest, read) /\ [PacedNext]_pacedVars
      => PacedInv(shortest, longest, read)'
  BY PacedStep
<1> QED
  BY <1>1, <1>2, PacedIsSpec, HistInvariant, PTL DEF PacedSpec

(***************************************************************************)
(* The theorems.                                                           *)
(***************************************************************************)

(* A READ that finds a record finds one whose window reaches back to the   *)
(* newest tick c has: "a gap wider than that ... lockstep prevents it"     *)
(* (dgnet.inc:139-145).                                                    *)
THEOREM NoRecordOutOfReach ==
  ASSUME NEW CONSTANT shortest, NEW CONSTANT longest, NEW CONSTANT read,
         EvenTrips(shortest, longest, read)
  PROVE  PacedSpec => []WindowCovers
<1>1. HistInv /\ PacedInv(shortest, longest, read) => WindowCovers
  <2> SUFFICES ASSUME HistInv, PacedInv(shortest, longest, read), NEW c \in Console,
                      reply[c] = <<>>, net[c] # <<>>, net[c][1].type = "INPUT", Unfilled(c)
               PROVE  FALSE
    BY DEF WindowCovers
  <2>1. TypeInv /\ Chained(c) /\ Win \in Nat /\ D \in Nat
    BY RingSizes DEF HistInv, SkewInv, PacedInv
  <2>2. 1 \in DOMAIN net[c] /\ net[c][1].tick \in Int /\ IsInput(net[c][1])
    <3>1. net[c] \in Seq(Message) /\ Len(net[c]) \in Nat
      BY <2>1, TickTypes
    <3>2. Len(net[c]) # 0
      BY <3>1, EmptyIffNoLength
    <3>3. 1 \in 1 .. Len(net[c])
      BY <3>1, <3>2
    <3> QED
      BY <2>1, <3>1, <3>3, TickTypes DEF IsInput
  <2>3. PICK t \in Int : t = net[c][1].tick
    BY <2>2
  <2>4. Seen(c, 0, t - Win)
    <3>1. Seen(c, 1 - 1, t - Win)
      BY <2>1, <2>2, <2>3 DEF Chained
    <3>2. 1 - 1 = 0
      OBVIOUS
    <3> QED
      BY <3>1, <3>2
  <2>5. Inputs(c) = {}
    BY <2>1, InputsOf
  <2>6. t - Win <= Newest(c)
    BY <2>4, <2>5 DEF Seen
  <2>7. rwat[c] \in Int
    BY NewestInt
  <2> QED
    BY <2>1, <2>3, <2>6, <2>7 DEF Unfilled, Newest
<1> QED
  BY <1>1, PacedInvariant, PTL

(* While both consoles race, every tick they ran they ran on the bytes     *)
(* both players captured for it: nothing the frames, the trips and the     *)
(* order of the two consoles' steps can do gets a stale byte past the gate *)
(* (dgnet.inc:303-305 and 348-351).                                        *)
THEOREM PacedRacesAsOne ==
  ASSUME NEW CONSTANT shortest, NEW CONSTANT longest, NEW CONSTANT read,
         EvenTrips(shortest, longest, read)
  PROVE  PacedSpec => []RacingAsOne
<1>1. PacedInv(shortest, longest, read) => RacingAsOne
  BY DEF PacedInv, Together, RacingAsOne
<1> QED
  BY <1>1, PacedInvariant, PTL

(***************************************************************************)
(* The watchdog.  A console waits at most while its peer's trip ends, a    *)
(* READ asked for before that is answered, and its own next trip ends: so  *)
(* when two trips and a READ are no longer than the stall count lasts no   *)
(* console gives up a peer that is there.                                  *)
(***************************************************************************)

(* Two trips and a READ are no longer than twice the delay, nor than the   *)
(* stalls the watchdog counts.                                             *)
Quick(longest, read) ==
  2 <= longest /\ 2 * longest + read <= 2 * (K * D) /\ 2 * longest + read - 1 <= StallMax

(* A record of tick t or later has been consumed, counted by a STATUS, or  *)
(* written.                                                                *)
Taken(c, t) == t <= Newest(c)
Heard(c, t) == Seen(c, 0, t)
Known(c, t) == Seen(c, Len(net[c]), t)

(* The tick a console at a closed gate waits for: any record opens the     *)
(* first D.                                                                *)
Wanted(c) == IF tick[c] < D THEN D ELSE tick[c]

(* While both race nobody is told that the other has left.                 *)
Silent(c) == \A m \in Queued(c) \cup Window(c) : IsInput(m)

(* The start.  One console draws one frame before the other's first; each  *)
(* writes in its first overscan; and before c has heard the first record   *)
(* its peer has hardly moved.                                              *)
Begin(c) ==
  tick[Peer(c)] = -1 => /\ Pos(c) <= 1 /\ stall[c] <= 1 /\ trip[c] = 0
                        /\ turn = c => Pos(c) = 0 /\ stall[c] = 0
Greeted(c) == tick[Peer(c)] >= 0 /\ Away(Peer(c)) => Known(c, D)
Fresh(c) ==
  /\ ~Taken(c, D) /\ ~Away(c) => trip[c] = 0
  /\ tick[c] = -1 => ~Heard(c, D)
First(c) ==
  LET p == Peer(c)
  IN  ~Taken(c, D) /\ tick[p] >= 0 =>
        /\ Pos(p) <= 1 \/ Pos(p) <= trip[c] - 1
        /\ trip[c] <= 1 => ~ran[p]
        /\ trip[c] = 0 => ~Heard(p, D)

(* What waits for c was written since its last STATUS, and what READ is to *)
(* return a trip before, by a peer that had then captured t at most a trip *)
(* ago.                                                                    *)
Flight(c, longest, read) ==
  \A t \in Int :
    /\ ~Heard(c, t) /\ Known(c, t) =>
         Pos(Peer(c)) <= K * (t - D) + longest + Since(c, read) - 1
    /\ ~Taken(c, t) /\ Heard(c, t) /\ asked[c] =>
         Pos(Peer(c)) <= K * (t - D) + 2 * longest + fetch[c] - 1

(* Neither is further ahead of the other than the delay.                   *)
Lead(c) ==
  Pos(Peer(c)) - Pos(c) <=
    K * D - 1 - (IF ran[c] THEN 0 ELSE 1) + (IF turn = c THEN 1 ELSE 0)

(* So what a console waits for has been captured, ...                      *)
Reached(c) == ~ran[c] /\ tick[Peer(c)] >= 0 => tick[Peer(c)] >= Wanted(c) - D

(* ... is written when the peer's trip ends, counted when its own does,    *)
(* and consumed when the READ is answered.                                 *)
Stalls(c, longest, read) ==
  LET p == Peer(c)
      t == Wanted(c)
      drawn == IF turn = c THEN 1 ELSE 0
  IN  /\ ran[c] => stall[c] = 0
      /\ ~ran[c] /\ ~Known(c, t) =>
           stall[c] <= (IF Away(p) THEN trip[p] ELSE longest) - 1
      /\ ~ran[c] /\ Known(c, t) /\ ~Heard(c, t) =>
           stall[c] <= longest - 1 + Since(c, read) - drawn
      /\ ~ran[c] /\ Heard(c, t) /\ ~Taken(c, t) /\ asked[c] =>
           stall[c] <= 2 * longest - 1 + fetch[c] - drawn

PatientInv(longest, read) ==
  /\ NobodyLeft
  /\ Together =>
       \A c \in Console :
         /\ Silent(c) /\ Begin(c) /\ Greeted(c) /\ Fresh(c) /\ First(c)
         /\ Flight(c, longest, read) /\ Lead(c) /\ Stalls(c, longest, read)

LEMMA OfQuick ==
  ASSUME NEW shortest, NEW longest, NEW read, EvenTrips(shortest, longest, read), Quick(longest, read)
  PROVE  /\ longest \in Nat /\ longest >= 2 /\ read \in Nat /\ K \in Nat \ {0} /\ D \in Nat \ {0}
         /\ K * D \in Nat /\ longest <= K * D /\ 2 * longest + read <= 2 * (K * D)
         /\ StallMax \in Nat /\ 2 * longest + read - 1 <= StallMax /\ MaxFaults = 0
<1>1. /\ longest \in Nat /\ read \in Nat /\ K \in Nat \ {0} /\ D \in Nat \ {0}
      /\ StallMax \in Nat /\ MaxFaults = 0
  BY OfTrips, Sizes
<1>2. PICK m \in Nat : m = K * D
  BY <1>1
<1>3. 2 * longest + read <= 2 * m
  BY <1>2 DEF Quick
<1>4. longest <= m
  BY <1>1, <1>2, <1>3
<1> QED
  BY <1>1, <1>2, <1>3, <1>4 DEF Quick

LEMMA Wider ==
  ASSUME NEW M \in Nat \ {0}, NEW a \in Int, NEW b \in Int, a <= b
  PROVE  M * a \in Int /\ M * b \in Int /\ M * a <= M * b
<1>1. PICK d \in Nat : b = a + d
  BY SMT
<1>2. M * b = M * a + M * d /\ M * d \in Nat /\ M * a \in Int
  BY <1>1
<1> QED
  BY <1>2

(* What is heard is known, and only a record that waits is not heard.      *)
LEMMA HeardIsKnown ==
  ASSUME HistInv, NEW c \in Console, NEW t, Heard(c, t)
  PROVE  Known(c, t)
<1>1. Len(net[c]) \in Nat
  BY TickTypes DEF HistInv, SkewInv
<1> QED
  BY <1>1, SeenMore DEF Heard, Known

(* What c does not know its peer has captured at most the age of its last  *)
(* record ago.                                                             *)
LEMMA NotLongAgo ==
  ASSUME HistInv, Settled, Cadence, NEW longest \in Nat, NEW c \in Console,
         Timely(Peer(c), longest), tick[Peer(c)] >= 0, NEW t \in Int, ~Known(c, t)
  PROVE  /\ Age(Peer(c), longest) \in Int
         /\ Pos(Peer(c)) <= K * (t - D) + Age(Peer(c), longest)
<1> DEFINE p == Peer(c)
<1>1. /\ p \in Console /\ Peer(p) = c /\ TypeInv /\ Len(net[c]) \in Nat
      /\ K \in Nat \ {0} /\ D \in Nat \ {0} /\ trip[p] \in Nat
  BY Peers, TickTypes, Sizes DEF HistInv, SkewInv, Cadence
<1>2. PICK x \in Int : Seen(c, Len(net[c]), x) /\ Pos(p) <= K * (x - D + 1) + Age(p, longest)
  BY <1>1 DEF Timely
<1>3. x < t
  <2>1. ASSUME t <= x PROVE FALSE
    <3>1. Len(net[c]) \in 0 .. Len(net[c])
      BY <1>1
    <3>2. Seen(c, Len(net[c]), t)
      BY <1>1, <1>2, <2>1, <3>1, SeenLess
    <3> QED
      BY <3>2 DEF Known
  <2> QED
    BY <2>1
<1>4. PICK a \in Int, b \in Int : a = x - D + 1 /\ b = t - D
  BY <1>1
<1>5. a <= b
  BY <1>1, <1>3, <1>4
<1>6. K * a \in Int /\ K * b \in Int /\ K * a <= K * b
  BY <1>1, <1>5, Wider
<1>7. Age(p, longest) \in Int /\ Pos(p) \in Int
  BY <1>1, PosRange DEF Age
<1> QED
  BY <1>2, <1>4, <1>6, <1>7

(* A console that has consumed nothing is stopped at its first tick.       *)
LEMMA Unmoved ==
  ASSUME HistInv, Settled, NEW d \in Console, ~Taken(d, D), tick[d] >= 0
  PROVE  ~ran[d] /\ tick[d] = 0 /\ Pos(d) = 1 /\ rwat[d] = -2
<1>1. /\ TypeInv /\ GateInv(d) /\ MarkInv(d) /\ RunInv(d) /\ tick[d] \in Int /\ rwat[d] \in Int
      /\ D \in Nat \ {0} /\ K \in Nat /\ phase[d] \in 0 .. K - 1 /\ clk[d] \in Nat
      /\ Len(applied[d]) \in Nat
  <2>1. TypeInv /\ SkewInv
    BY DEF HistInv, SkewInv
  <2> QED
    BY <2>1, HistTypes, TickTypes, RingSizes DEF HistInv, SkewInv, TickInv
<1>2. ~(D <= Newest(d))
  BY DEF Taken
<1>3. rwat[d] = -2
  BY <1>1, <1>2 DEF Newest, MarkInv
<1>4. ~ran[d] /\ tick[d] = 0
  BY <1>1, <1>3 DEF GateInv
<1>5. phase[d] = 0 /\ Len(applied[d]) = 0
  BY <1>1, <1>4 DEF Settled, RunInv
<1>6. clk[d] = 0
  BY <1>1, <1>5 DEF RunInv
<1> QED
  BY <1>3, <1>4, <1>6 DEF Pos

(***************************************************************************)
(* The steps.                                                              *)
(***************************************************************************)

(* What the gate of d decides.                                             *)
LEMMA FrameGate ==
  ASSUME HistInv, Settled, Cadence, Together, NEW d \in Console, Frame(d)
  PROVE  LET p == Peer(d)
         IN  /\ stall'[p] = stall[p]
             /\ Pos(d)' = Pos(d) + (IF ran[d] THEN 1 ELSE 0)
             /\ \/ /\ ran'[d] /\ mode' = mode
                   /\ stall'[d] = 0 \/ (ran[d] /\ stall'[d] = stall[d])
                \/ /\ ~ran'[d] /\ ~Arrived(d, tick'[d])
                   /\ tick'[d] = tick[d] + (IF ran[d] THEN 1 ELSE 0)
                   /\ \/ stall'[d] = stall[d] + 1 /\ mode' = mode
                      \/ stall'[d] = stall[d] /\ stall[d] >= StallMax /\ mode'[d] = "left"
<1> DEFINE p == Peer(d)
<1>1. /\ p \in Console /\ p # d /\ TypeInv
      /\ tick[d] \in Int /\ ran[d] \in BOOLEAN /\ clk[d] \in Nat
      /\ mode \in [Console -> {"race", "left", "off"}] /\ stall \in [Console -> 0 .. StallMax]
      /\ ran \in [Console -> BOOLEAN]
  <2>1. TypeInv
    BY DEF HistInv, SkewInv
  <2> QED
    BY <2>1, Peers, HistTypes DEF TypeInv, TypeOK, GateTypes
<1>2. DGSHIM(d)
  BY FrameCells
<1>3. CASE MidTick(d)
  <2>1. phase[d] # 0 /\ ran[d] /\ ran' = ran /\ stall' = stall /\ mode' = mode /\ clk'[d] = clk[d] + 1
    BY <1>1, <1>3 DEF MidTick, Settled, TypeInv, TypeOK, GateTypes
  <2>2. Pos(d)' = Pos(d) + 1
    BY <1>1, <2>1 DEF Pos
  <2> QED
    BY <1>1, <2>1, <2>2
<1>4. CASE Boundary(d)
  <2>1. /\ \/ ran[d] /\ tick'[d] = tick[d] + 1
           \/ ~ran[d] /\ tick'[d] = tick[d]
        /\ \/ ran'[d] /\ clk'[d] = clk[d] + 1
           \/ ~ran'[d] /\ phase'[d] = 0 /\ clk'[d] = clk[d]
    BY <1>1, <1>4, BoundaryCells
  <2>2. tick'[d] = tick[d] + (IF ran[d] THEN 1 ELSE 0)
    BY <1>1, <2>1
  <2>3. CASE RunTick(d)
    <3>1. ran'[d] /\ stall'[d] = 0 /\ stall'[p] = stall[p] /\ mode' = mode
      BY <1>1, <2>3 DEF RunTick
    <3>2. Pos(d)' = Pos(d) + (IF ran[d] THEN 1 ELSE 0)
      BY <1>1, <2>1, <3>1 DEF Pos
    <3> QED
      BY <3>1, <3>2
  <2>4. CASE Stall(d)
    <3>1. ~ran'[d] /\ ~Arrived(d, tick'[d])
      BY <1>1, <2>4 DEF Stall
    <3>2. \/ stall' = [stall EXCEPT ![d] = stall[d] + 1] /\ mode' = mode
          \/ stall' = stall /\ stall[d] >= StallMax /\ mode' = [mode EXCEPT ![d] = "left"]
      BY <2>4 DEF Stall, Saturated
    <3>3. stall'[p] = stall[p]
      BY <1>1, <3>2
    <3>4. \/ stall'[d] = stall[d] + 1 /\ mode' = mode
          \/ stall'[d] = stall[d] /\ stall[d] >= StallMax /\ mode'[d] = "left"
      BY <1>1, <3>2
    <3>5. Pos(d)' = Pos(d) + (IF ran[d] THEN 1 ELSE 0)
      BY <1>1, <2>1, <3>1 DEF Pos
    <3> QED
      BY <2>2, <3>1, <3>3, <3>4, <3>5
  <2> QED
    BY <1>4, <2>3, <2>4 DEF Boundary
<1> QED
  BY <1>2, <1>3, <1>4 DEF DGSHIM

(* When a console draws it has consumed all that its READs returned.       *)
LEMMA AllConsumed ==
  ASSUME HistInv, NEW shortest, NEW longest, NEW read, EvenTrips(shortest, longest, read),
         PacedInv(shortest, longest, read), Together, NEW d \in Console, Frame(d),
         NEW c \in Console, ~asked[c]
  PROVE  /\ reply[c] = <<>> /\ Inputs(c) = {}
         /\ \A t : Heard(c, t) => Taken(c, t)
<1>1. /\ Settled /\ Cadence /\ WindowInUse /\ TypeInv /\ Cycle(c, longest, read) /\ Cycle(Peer(d), longest, read)
      /\ Peer(d) \in Console /\ turn = d
  <2>1. Settled /\ Cadence /\ (\A e \in Console : Cycle(e, longest, read)) /\ Peer(d) \in Console
    BY Peers DEF PacedInv
  <2> QED
    BY <2>1, FrameCells DEF HistInv, SkewInv, TypeInv
<1>2. tick[c] \in Int /\ tick[c] >= -1
  BY <1>1, TickTypes
<1>3. tick[c] = -1 => nst[c] # "CONS"
  BY <1>1 DEF Cycle
<1>4. tick[c] >= 0 => nst[c] # "CONS"
  <2>1. CASE c = d
    BY <1>1, <2>1 DEF Cycle, Away
  <2>2. CASE c = Peer(d)
    BY <1>1, <2>2, TheOtherTravels DEF Away
  <2> QED
    BY <2>1, <2>2, TwoConsoles
<1>5. reply[c] = <<>> /\ Inputs(c) = {}
  BY <1>1, <1>2, <1>3, <1>4, InputsOf DEF WindowInUse
<1>6. \A t : Heard(c, t) => Taken(c, t)
  BY <1>5 DEF Heard, Taken, Seen
<1> QED
  BY <1>5, <1>6

(* A frame brings no news; a step of d's transport writes to the other,    *)
(* reads, or consumes.                                                     *)
LEMMA NewsFrame ==
  ASSUME HistInv, Settled, Cadence, Together, NEW d \in Console, Frame(d), NEW c \in Console
  PROVE  \A t : /\ Heard(c, t)' <=> Heard(c, t)
                /\ Known(c, t)' <=> Known(c, t)
                /\ Taken(c, t)' <=> Taken(c, t)
<1>1. UNCHANGED <<reply, net, rwat>>
  BY FrameCells
<1>2. Newest(c)' = Newest(c) /\ Inputs(c)' = Inputs(c) /\ net'[c] = net[c]
  BY <1>1 DEF Newest, Inputs, Window
<1> QED
  BY <1>2 DEF Heard, Known, Taken, Seen

LEMMA NewsOverscan ==
  ASSUME HistInv, HistInv', Settled, Cadence, MaxFaults = 0, Together, NEW d \in Console, Overscan(d)
  PROVE  LET p == Peer(d)
         IN  /\ \A t \in Int : (Heard(p, t)' <=> Heard(p, t)) /\ (Taken(p, t)' <=> Taken(p, t))
             /\ \/ /\ nst[d] = "WISS" /\ nst'[d] = "SACK" /\ trip'[d] = 0 /\ ~asked'[d]
                   /\ \A t \in Int : /\ Taken(d, t)' <=> Taken(d, t)
                                     /\ Heard(d, t)' <=> Heard(d, t)
                                     /\ Known(d, t)' <=> Known(d, t)
                                     /\ Known(p, t)' <=> (Known(p, t) \/ t <= tick[d] + D)
                \/ /\ nst[d] = "SACK" /\ nst'[d] # "SACK" /\ trip[d] \in Trip(d)
                   /\ asked'[d] => trip'[d] = trip[d]
                   /\ ~asked'[d] => trip'[d] = 0 /\ \A t \in Int : Known(d, t) => Taken(d, t)
                   /\ \A t \in Int : /\ Taken(d, t)' <=> Taken(d, t)
                                     /\ Heard(d, t) => Taken(d, t)
                                     /\ Heard(d, t)' <=> Known(d, t)
                                     /\ Known(d, t)' <=> Known(d, t)
                                     /\ Known(p, t)' <=> Known(p, t)
                \/ /\ nst[d] = "CONS" /\ nst'[d] # "SACK" /\ trip'[d] = 0 /\ ~asked'[d] /\ Consume(d)
                   /\ \A t \in Int : /\ Taken(d, t) => Taken(d, t)'
                                     /\ Heard(d, t)' <=> Heard(d, t)
                                     /\ Known(d, t)' <=> Known(d, t)
                                     /\ Known(p, t)' <=> Known(p, t)
<1> DEFINE p == Peer(d)
<1>1. /\ p \in Console /\ Peer(p) = d /\ Racing(p) /\ TypeInv /\ TypeInv'
      /\ tick[d] \in Int /\ D \in Nat /\ Len(net[p]) \in Nat /\ Len(net[d]) \in Nat
  BY Peers, TickTypes DEF HistInv, SkewInv, Together
<1>2. /\ reply'[p] = reply[p] /\ rwat'[p] = rwat[p] /\ tick[d] >= 0
  BY OverscanCells
<1>3. Newest(p)' = Newest(p) /\ Inputs(p)' = Inputs(p)
  BY <1>2 DEF Newest, Inputs, Window
<1>4. \A t \in Int : (Heard(p, t)' <=> Heard(p, t)) /\ (Taken(p, t)' <=> Taken(p, t))
  BY <1>3 DEF Heard, Taken, Seen
<1>5. net'[p] = net[p] => \A t \in Int : Known(p, t)' <=> Known(p, t)
  BY <1>3 DEF Known, Seen
<1>6. CASE /\ nst[d] = "WISS" /\ nst'[d] = "SACK" /\ trip'[d] = 0 /\ reply' = reply
           /\ ~asked'[d]
           /\ rwat' = rwat /\ net'[d] = net[d] /\ net'[p] = Append(net[p], RecordOf(d, TRUE))
  <2>1. Newest(d)' = Newest(d) /\ Inputs(d)' = Inputs(d)
    BY <1>6 DEF Newest, Inputs, Window
  <2>2. \A t \in Int : /\ Taken(d, t)' <=> Taken(d, t)
                       /\ Heard(d, t)' <=> Heard(d, t)
                       /\ Known(d, t)' <=> Known(d, t)
    <3>1. \A t \in Int : Taken(d, t)' <=> Taken(d, t)
      BY <2>1 DEF Taken
    <3>2. \A t \in Int : Heard(d, t)' <=> Heard(d, t)
      BY <2>1 DEF Heard, Seen
    <3>3. \A t \in Int : Known(d, t)' <=> Known(d, t)
      BY <1>6, <2>1 DEF Known, Seen
    <3> QED
      BY <3>1, <3>2, <3>3
  <2>3. PICK n \in Nat : n = Len(net[p])
    BY <1>1
  <2>4. /\ Len(net'[p]) = n + 1
        /\ \A i \in 1 .. n : net'[p][i] = net[p][i]
        /\ net'[p][n + 1] = RecordOf(d, TRUE)
    BY <1>1, <1>6, <2>3, Grown
  <2>5. IsInput(net'[p][n + 1]) /\ net'[p][n + 1].tick = tick[d] + D
    BY <2>4 DEF IsInput, RecordOf
  <2>6. 1 .. n + 1 = (1 .. n) \cup {n + 1}
    BY <2>3
  <2>7. ASSUME NEW t \in Int PROVE Known(p, t)' <=> (Known(p, t) \/ t <= tick[d] + D)
    <3>1. Known(p, t)' <=>
            \/ t <= Newest(p)
            \/ \E m \in Inputs(p) : t <= m.tick
            \/ \E i \in 1 .. n + 1 : IsInput(net'[p][i]) /\ t <= net'[p][i].tick
      BY <1>3, <2>4 DEF Known, Seen
    <3>2. Known(p, t) <=>
            \/ t <= Newest(p)
            \/ \E m \in Inputs(p) : t <= m.tick
            \/ \E i \in 1 .. n : IsInput(net[p][i]) /\ t <= net[p][i].tick
      BY <2>3 DEF Known, Seen
    <3> QED
      BY <2>4, <2>5, <2>6, <3>1, <3>2
  <2> QED
    BY <1>4, <1>6, <2>2, <2>7, Zenon
<1>7. CASE /\ nst[d] = "SACK" /\ trip[d] \in Trip(d)
           /\ asked'[d] = (net[d] # <<>>)
           /\ trip'[d] = (IF net[d] = <<>> THEN 0 ELSE trip[d])
           /\ nst'[d] = (IF net[d] = <<>> THEN "WISS" ELSE "CONS")
           /\ rwat' = rwat /\ reply'[d] = net[d] /\ net'[d] = <<>> /\ net'[p] = net[p]
  <2>1. reply[d] = <<>>
    BY <1>7 DEF HistInv, SkewInv, TypeInv, WindowInUse
  <2>2. Newest(d)' = Newest(d) /\ Inputs(d) = {} /\ Len(net'[d]) = 0
    BY <1>1, <1>7, <2>1, InputsOf DEF Newest
  <2>3. Inputs(d)' = {net[d][i] : i \in {j \in 1 .. Len(net[d]) : IsInput(net[d][j])}}
    BY <1>1, <1>7, InputsRead
  <2>4. ASSUME NEW t \in Int
        PROVE  (Heard(d, t)' <=> Known(d, t)) /\ (Known(d, t)' <=> Known(d, t))
    <3>1. Known(d, t) <=>
            \/ t <= Newest(d)
            \/ \E i \in 1 .. Len(net[d]) : IsInput(net[d][i]) /\ t <= net[d][i].tick
      BY <2>2 DEF Known, Seen
    <3>2. /\ Heard(d, t)' <=> (t <= Newest(d) \/ \E m \in Inputs(d)' : t <= m.tick)
          /\ Known(d, t)' <=> (t <= Newest(d) \/ \E m \in Inputs(d)' : t <= m.tick)
      BY <2>2 DEF Heard, Known, Seen
    <3>3. (\E m \in Inputs(d)' : t <= m.tick)
          <=> \E i \in 1 .. Len(net[d]) : IsInput(net[d][i]) /\ t <= net[d][i].tick
      BY <2>3
    <3> QED
      BY <3>1, <3>2, <3>3
  <2>5. \A t \in Int : (Taken(d, t)' <=> Taken(d, t)) /\ (Heard(d, t) => Taken(d, t))
    BY <2>2 DEF Taken, Heard, Seen
  <2>6. CASE net[d] = <<>>
    <3>1. \A t \in Int : Known(d, t) => Taken(d, t)
      <4>1. Len(net[d]) = 0
        BY <2>6
      <4> QED
        BY <2>2, <4>1 DEF Known, Taken, Seen
    <3>2. ~asked'[d]
      BY <1>7, <2>6
    <3>3. trip'[d] = 0 /\ nst'[d] # "SACK"
      BY <1>7, <2>6
    <3> QED
      BY <1>4, <1>5, <1>7, <2>4, <2>5, <3>1, <3>2, <3>3
  <2>7. CASE net[d] # <<>>
    <3>1. asked'[d]
      BY <1>7, <2>7
    <3>2. trip'[d] = trip[d] /\ nst'[d] # "SACK"
      BY <1>7, <2>7
    <3> QED
      BY <1>4, <1>5, <1>7, <2>4, <2>5, <3>1, <3>2
  <2> QED
    BY <2>6, <2>7
<1>8. CASE /\ nst[d] = "CONS" /\ trip'[d] = 0 /\ ~asked'[d] /\ net' = net
           /\ nst'[d] = (IF Len(reply[d]) = 1 THEN "WISS" ELSE "CONS") /\ Consume(d)
  <2> DEFINE rec == reply[d][Len(reply[d])]
  <2>1. /\ Newest(d) \in Int /\ Newest(d)' \in Int /\ Newest(d) <= Newest(d)'
        /\ Newest(d)' = Newest(d) \/ (rec \in Inputs(d) /\ Newest(d)' = rec.tick)
        /\ rec \in Inputs(d) => rec.tick \in Int /\ rec.tick <= Newest(d)'
        /\ Inputs(d)' \subseteq Inputs(d) /\ Inputs(d) \subseteq Inputs(d)' \cup {rec}
    BY <1>8, NewestConsumed, InputsConsumed
  <2>2. ASSUME NEW t \in Int
        PROVE  /\ t <= Newest(d)' \/ (\E m \in Inputs(d)' : t <= m.tick)
               <=> (t <= Newest(d) \/ \E m \in Inputs(d) : t <= m.tick)
    <3>1. ASSUME t <= Newest(d) PROVE t <= Newest(d)'
      BY <2>1, <3>1
    <3>2. ASSUME NEW m \in Inputs(d), t <= m.tick
          PROVE  t <= Newest(d)' \/ \E k \in Inputs(d)' : t <= k.tick
      <4>1. CASE m = rec
        BY <2>1, <3>2, <4>1
      <4> QED
        BY <2>1, <3>2, <4>1
    <3> QED
      BY <2>1, <3>1, <3>2
  <2>3. \A t \in Int : (Heard(d, t)' <=> Heard(d, t)) /\ (Known(d, t)' <=> Known(d, t))
    BY <1>8, <2>2 DEF Heard, Known, Seen
  <2>4. nst'[d] # "SACK" /\ net'[p] = net[p]
    BY <1>8
  <2>5. \A t \in Int : Taken(d, t) => Taken(d, t)'
    BY <2>1 DEF Taken
  <2> QED
    BY <1>4, <1>5, <1>8, <2>3, <2>4, <2>5
<1> QED
  BY <1>1, <1>6, <1>7, <1>8, OverscanCells

(* The two consoles' counters.                                             *)
LEMMA Counters ==
  ASSUME HistInv, Settled, Cadence, NEW c \in Console
  PROVE  /\ tick[c] \in Int /\ tick[c] >= -1 /\ ran[c] \in BOOLEAN /\ stall[c] \in Int
         /\ trip[c] \in Nat /\ Pos(c) \in Int
         /\ tick[c] = -1 => ran[c] /\ Pos(c) = 0
         /\ tick[c] >= 0 => Pos(c) >= 1
         /\ ~ran[c] => Pos(c) = K * tick[c] + 1
         /\ K * tick[c] + 1 <= Pos(c) /\ Pos(c) <= K * (tick[c] + 1)
<1>1. /\ TypeInv /\ trip[c] \in Nat /\ stall[c] \in Int
  <2>1. TypeInv /\ StallMax \in Nat /\ trip[c] \in Nat
    BY Sizes DEF HistInv, SkewInv, Cadence
  <2>2. stall[c] \in 0 .. StallMax
    BY <2>1 DEF TypeInv, TypeOK, GateTypes
  <2> QED
    BY <2>1, <2>2
<1>2. PICK N \in Nat, f \in Nat, s \in 0 .. K - 1, t \in Int, k \in Nat \ {0} :
        N = Len(applied[c]) /\ f = clk[c] /\ s = phase[c] /\ t = tick[c] /\ t >= -1 /\ k = K
  BY <1>1, HistTypes
<1>3. /\ Pos(c) \in Int /\ k * t + 1 <= Pos(c) /\ Pos(c) <= k * (t + 1)
      /\ t = -1 => ran[c] /\ Pos(c) = 0
  BY <1>2, PosRange
<1>4. t >= 0 => k * t >= 0 /\ k * t \in Int
  BY <1>2
<1>5. t >= 0 => Pos(c) >= 1
  <2>1. PICK y \in Int : y = k * t
    BY <1>2
  <2> QED
    BY <1>3, <1>4, <2>1
<1>6. ~ran[c] => Pos(c) = k * t + 1
  <2> SUFFICES ASSUME ~ran[c] PROVE Pos(c) = k * t + 1
    OBVIOUS
  <2>1. s = 0 /\ N = t + 0 /\ f = k * N - 0
    BY <1>2 DEF HistInv, RunInv, Settled
  <2>2. N = t /\ f = k * t
    BY <1>2, <2>1
  <2> QED
    BY <1>2, <2>2 DEF Pos
<1> QED
  BY <1>1, <1>2, <1>3, <1>5, <1>6, TickTypes

(* The same of the next state.                                             *)
Counted ==
  \A c \in Console :
    /\ tick[c] \in Int /\ ran[c] \in BOOLEAN /\ stall[c] \in Int /\ Pos(c) \in Int
    /\ tick[c] >= 0 => Pos(c) >= 1
    /\ ~ran[c] => Pos(c) = K * tick[c] + 1
    /\ ~Taken(c, D) /\ tick[c] >= 0 => ~ran[c]

LEMMA AlwaysCounted == HistInv /\ Settled /\ Cadence => Counted
BY Counters, Unmoved DEF Counted

LEMMA CountedNext == HistInv' /\ Settled' /\ Cadence' => Counted'
BY AlwaysCounted, PTL

(* What a console at a closed gate waits for has not been consumed.        *)
LEMMA StopsUnheard ==
  ASSUME HistInv, NEW shortest, NEW longest, NEW read, EvenTrips(shortest, longest, read),
         PacedInv(shortest, longest, read), Together, NEW d \in Console, Frame(d), ~ran'[d]
  PROVE  /\ ~Taken(d, Wanted(d)')
         /\ ~asked[d] => ~Heard(d, Wanted(d)')
         /\ ~ran[d] => Wanted(d)' = Wanted(d)
<1>1. /\ SkewInv /\ Settled /\ Cadence /\ tick[d] \in Int /\ rwat[d] \in Int /\ D \in Nat \ {0}
      /\ MarkInv(d) /\ ran[d] \in BOOLEAN
  <2>1. SkewInv /\ Settled /\ Cadence /\ TypeInv /\ MarkInv(d)
    BY DEF HistInv, SkewInv, TickInv, PacedInv
  <2> QED
    BY <2>1, TickTypes, RingSizes
<1>2. ~Arrived(d, tick'[d]) /\ tick'[d] = tick[d] + (IF ran[d] THEN 1 ELSE 0)
  BY <1>1, FrameGate
<1>3. tick'[d] = tick[d] \/ (ran[d] /\ tick'[d] = tick[d] + 1)
  BY <1>1, <1>2
<1>4. PICK t \in Int, x \in Int : t = tick'[d] /\ x = rwat[d]
  BY <1>1, <1>3
<1>5. ~(t <= x)
  BY <1>1, <1>2, <1>3, <1>4, GateExact
<1>6. x = -2 \/ D <= x
  BY <1>1, <1>4 DEF MarkInv
<1>7. ~(Wanted(d)' <= Newest(d))
  BY <1>1, <1>4, <1>5, <1>6 DEF Wanted, Newest
<1>8. ~Taken(d, Wanted(d)')
  BY <1>7 DEF Taken
<1>9. ~ran[d] => Wanted(d)' = Wanted(d)
  BY <1>1, <1>2 DEF Wanted
<1> QED
  BY <1>8, <1>9, AllConsumed

(* The frame of d, and the overscan of d, as the parts below need them.    *)
Draws(d, longest, read) ==
  LET p == Peer(d)
  IN  /\ p \in Console /\ p # d /\ Peer(p) = d /\ \A e \in Console : e = d \/ e = p
      /\ turn = d /\ turn' = p
      /\ trip'[d] = trip[d] /\ trip[d] <= longest /\ (Away(d)' <=> Away(d))
      /\ Since(d, read) \in Nat /\ Since(d, read) <= longest /\ Since(d, read)' = Since(d, read)
      /\ \A e \in Console : fetch[e] \in Nat /\ (asked'[e] <=> asked[e])
      /\ fetch'[d] = fetch[d] /\ (asked[d] => fetch[d] <= read)
      /\ ~asked[d] => \A t : Heard(d, t) => Taken(d, t)
      /\ tick'[p] = tick[p] /\ ran'[p] = ran[p] /\ Pos(p)' = Pos(p) /\ stall'[p] = stall[p]
      /\ tick'[d] >= 0 /\ Pos(d)' = Pos(d) + (IF ran[d] THEN 1 ELSE 0)
      /\ tick[p] >= 0 => /\ Away(p) /\ Away(p)' /\ trip'[p] = trip[p] + 1 /\ trip'[p] <= longest
                         /\ Since(p, read) \in Nat /\ Since(p, read)' = Since(p, read) + 1
                         /\ asked[p] => fetch'[p] = fetch[p] + 1
      /\ tick[p] = -1 => /\ ~Away(p) /\ ~Away(p)' /\ ~asked[p] /\ trip[p] = 0 /\ trip'[p] = 0
                         /\ net[p] = <<>>
      /\ tick[d] = -1 => ~Away(d) /\ trip[d] = 0 /\ net[p] = <<>>
      /\ tick[d] >= 0 => Away(d) /\ trip[d] >= 1 /\ Since(d, read) >= 1
      /\ ran'[d] => stall'[d] = 0 \/ (ran[d] /\ stall'[d] = stall[d])
      /\ ~ran'[d] => \/ stall'[d] = stall[d] + 1
                     \/ stall[d] >= StallMax /\ mode'[d] = "left"

LEMMA DrawsFrame ==
  ASSUME HistInv, NEW shortest, NEW longest, NEW read, EvenTrips(shortest, longest, read),
         PacedInv(shortest, longest, read), Together, NEW d \in Console, Frame(d)
  PROVE  Draws(d, longest, read)
<1> DEFINE p == Peer(d)
<1>1. /\ p \in Console /\ p # d /\ Peer(p) = d /\ (\A e \in Console : e = d \/ e = p)
      /\ Settled /\ Cadence /\ Cycle(d, longest, read) /\ Cycle(p, longest, read)
      /\ turn = d /\ longest \in Nat /\ read \in Nat
  <2>1. p \in Console /\ p # d /\ Peer(p) = d /\ (\A e \in Console : e = d \/ e = p)
    BY Peers, TwoConsoles
  <2> QED
    BY <2>1, FrameCells, OfTrips DEF PacedInv
<1>2. /\ turn' = p /\ nst' = nst /\ asked' = asked /\ tick'[p] = tick[p] /\ ran'[p] = ran[p]
      /\ clk'[p] = clk[p] /\ tick'[d] >= 0 /\ trip'[d] = trip[d] /\ fetch'[d] = fetch[d]
  BY <1>1, FrameCells
<1>3. Pos(p)' = Pos(p)
  BY <1>2 DEF Pos
<1>4. /\ tick[p] >= 0 => /\ Away(p) /\ Away(p)' /\ trip'[p] = trip[p] + 1 /\ trip'[p] <= longest
                         /\ Since(p, read) \in Nat /\ Since(p, read)' = Since(p, read) + 1
                         /\ asked[p] => fetch'[p] = fetch[p] + 1
      /\ tick[p] = -1 => ~Away(p) /\ ~Away(p)' /\ ~asked[p] /\ trip[p] = 0 /\ trip'[p] = 0
  <2>1. /\ trip[p] \in Nat /\ Since(p, read) \in Nat
        /\ tick[p] >= 0 => /\ Away(p) /\ Away(p)' /\ trip'[p] = trip[p] + 1
                           /\ Since(p, read)' = Since(p, read) + 1
                           /\ ~asked[p] => trip'[p] + read <= longest
                           /\ asked[p] => /\ fetch'[p] = fetch[p] + 1 /\ fetch'[p] <= read
                                          /\ \E n \in Trip(p) : trip'[p] = n + fetch'[p]
        /\ tick[p] = -1 => trip'[p] = 0 /\ ~Away(p) /\ ~asked[p] /\ trip[p] = 0
    BY <1>1, TheOtherTravels
  <2>2. ASSUME tick[p] >= 0 PROVE trip'[p] <= longest
    <3>1. CASE ~asked[p]
      BY <1>1, <2>1, <2>2, <3>1
    <3>2. CASE asked[p]
      <4>1. PICK n \in Trip(p) : trip'[p] = n + fetch'[p]
        BY <2>1, <2>2, <3>2
      <4>2. n \in Nat /\ n + read <= longest
        BY <1>1, OfTrips
      <4>3. fetch[p] \in Nat /\ fetch'[p] = fetch[p] + 1 /\ fetch'[p] <= read
        BY <1>1, <2>1, <2>2, <3>2 DEF Cadence
      <4> QED
        BY <1>1, <4>1, <4>2, <4>3
    <3> QED
      BY <3>1, <3>2
  <2>3. Away(p)' <=> Away(p)
    BY <1>2 DEF Away
  <2> QED
    BY <2>1, <2>2, <2>3
<1>5. /\ tick[p] = -1 => net[p] = <<>>
      /\ tick[d] = -1 => ~Away(d) /\ trip[d] = 0 /\ net[p] = <<>>
      /\ tick[d] >= 0 => Away(d) /\ trip[d] >= 1 /\ Since(d, read) >= 1
      /\ asked[d] => fetch[d] <= read
  <2>1. tick[d] = -1 => ~Away(d)
    BY <1>1 DEF Cycle, Away
  <2> QED
    BY <1>1, <2>1 DEF Cycle
<1>6. /\ stall'[p] = stall[p]
      /\ Pos(d)' = Pos(d) + (IF ran[d] THEN 1 ELSE 0)
      /\ ran'[d] => stall'[d] = 0 \/ (ran[d] /\ stall'[d] = stall[d])
      /\ ~ran'[d] => \/ stall'[d] = stall[d] + 1
                     \/ stall[d] >= StallMax /\ mode'[d] = "left"
  BY <1>1, FrameGate
<1>7. /\ Since(d, read) \in Nat /\ Since(d, read) <= longest /\ trip[d] <= longest
      /\ Since(d, read)' = Since(d, read) /\ (Away(d)' <=> Away(d))
      /\ \A e \in Console : fetch[e] \in Nat /\ (asked'[e] <=> asked[e])
  <2>1. Since(d, read) \in Nat /\ Since(d, read) <= longest /\ trip[d] <= longest
    BY <1>1, SinceRange
  <2>2. Since(d, read)' = Since(d, read) /\ (Away(d)' <=> Away(d))
    BY <1>2 DEF Since, Away
  <2>3. \A e \in Console : fetch[e] \in Nat /\ (asked'[e] <=> asked[e])
    BY <1>1, <1>2 DEF Cadence
  <2> QED
    BY <2>1, <2>2, <2>3
<1>8. ~asked[d] => \A t : Heard(d, t) => Taken(d, t)
  BY AllConsumed
<1> QED
  BY <1>1, <1>2, <1>3, <1>4, <1>5, <1>6, <1>7, <1>8 DEF Draws

(* Only a frame that ends the race leaves a stalled console's count.       *)
LEMMA Counting ==
  ASSUME NEW d \in Console, NEW longest, NEW read, Draws(d, longest, read), Together', ~ran'[d]
  PROVE  stall'[d] = stall[d] + 1
BY DEF Draws, Together, Racing


(* A console that is not too far behind has written what the other waits   *)
(* for, or is about to.                                                    *)
LEMMA LeadReaches ==
  ASSUME HistInv, Settled, Cadence, NEW c \in Console, Lead(Peer(c))
  PROVE  Reached(c)
<1> DEFINE p == Peer(c)
<1> SUFFICES ASSUME ~ran[c], tick[p] >= 0 PROVE tick[p] >= Wanted(c) - D
  BY DEF Reached
<1>1. p \in Console /\ Peer(p) = c
  BY Peers
<1>2. PICK k \in Nat \ {0}, n \in Nat \ {0}, t \in Int, u \in Int, x \in Int, y \in Int :
        k = K /\ n = D /\ t = tick[c] /\ u = tick[p] /\ x = Pos(c) /\ y = Pos(p)
  BY <1>1, Sizes, Counters
<1>3. x = k * t + 1 /\ y <= k * (u + 1) /\ ran[p] \in BOOLEAN
  BY <1>1, <1>2, Counters
<1>4. x - y <= k * n
  <2>1. x - y <= k * n - 1 - (IF ran[p] THEN 0 ELSE 1) + (IF turn = p THEN 1 ELSE 0)
    BY <1>1, <1>2 DEF Lead
  <2>2. k * n \in Int
    BY <1>2
  <2> QED
    BY <1>2, <1>3, <2>1, <2>2
<1>5. t - n < u + 1
  <2>1. k * (t - n) = k * t - k * n /\ k * t \in Int /\ k * n \in Int /\ k * (u + 1) \in Int
    BY <1>2
  <2>2. k * (t - n) + 1 <= k * (u + 1)
    BY <1>2, <1>3, <1>4, <2>1
  <2>3. t - n \in Int /\ u + 1 \in Int
    BY <1>2
  <2> QED
    BY <1>2, <2>2, <2>3, FewerFrames
<1> QED
  BY <1>2, <1>5 DEF Wanted

LEMMA AlwaysReached ==
  HistInv /\ Settled /\ Cadence => \A c \in Console : Lead(Peer(c)) => Reached(c)
BY LeadReaches

LEMMA ReachedStays ==
  HistInv' /\ Settled' /\ Cadence' => (\A c \in Console : Lead(Peer(c)) => Reached(c))'
BY AlwaysReached, PTL

LEMMA ReachedNext ==
  ASSUME HistInv', Settled', Cadence', NEW c \in Console, Lead(Peer(c))'
  PROVE  Reached(c)'
BY ReachedStays

(***************************************************************************)
(* The parts of the invariant after a frame of d.                          *)
(***************************************************************************)
Parts(c, longest, read) ==
  /\ Silent(c) /\ Begin(c) /\ Greeted(c) /\ Fresh(c) /\ First(c)
  /\ Flight(c, longest, read) /\ Lead(c) /\ Stalls(c, longest, read)

LEMMA StartFrame ==
  ASSUME HistInv, HistInv', NEW shortest, NEW longest, NEW read, EvenTrips(shortest, longest, read),
         PacedInv(shortest, longest, read), Settled', Cadence', Together, Together',
         NEW d \in Console, Frame(d), \A c \in Console : Parts(c, longest, read), NEW c \in Console
  PROVE  Begin(c)' /\ Greeted(c)' /\ Fresh(c)'
<1> DEFINE p == Peer(d)
<1>1. /\ Settled /\ Cadence /\ Draws(d, longest, read)
      /\ \A e \in Console : Begin(e) /\ Greeted(e) /\ Fresh(e)
  BY DrawsFrame DEF PacedInv, Parts
<1>2. /\ p \in Console /\ p # d /\ Peer(p) = d /\ turn = d /\ turn' = p /\ (Away(d)' <=> Away(d))
      /\ trip'[d] = trip[d] /\ tick'[p] = tick[p] /\ tick'[d] >= 0
      /\ tick[p] >= 0 => Away(p) /\ Away(p)'
      /\ tick[p] = -1 => trip'[p] = 0 /\ ~Away(p) /\ ~Away(p)'
      /\ tick[d] = -1 => ~Away(d)
      /\ Pos(d)' = Pos(d) + (IF ran[d] THEN 1 ELSE 0)
  BY <1>1 DEF Draws
<1>3. /\ tick[d] \in Int /\ tick[d] >= -1 /\ tick[p] \in Int /\ tick[p] >= -1
      /\ stall[d] \in Int /\ Pos(d) \in Int /\ ran[d] \in BOOLEAN
  BY <1>1, <1>2, Counters
<1>4. \A e \in Console : /\ Heard(e, D)' <=> Heard(e, D)
                         /\ Known(e, D)' <=> Known(e, D)
                         /\ Taken(e, D)' <=> Taken(e, D)
  BY <1>1, NewsFrame
<1>5. stall'[d] <= stall[d] \/ stall'[d] <= stall[d] + 1 \/ stall'[d] = 0
  BY SMTT(30), <1>1, <1>3, Counting DEF Draws
<1>6. CASE c = d
  <2>1. Begin(d)'
    <3> SUFFICES ASSUME tick'[p] = -1
                 PROVE  Pos(d)' <= 1 /\ stall'[d] <= 1 /\ trip'[d] = 0 /\ turn' # d
      BY <1>2 DEF Begin
    <3>1. Pos(d) = 0 /\ stall[d] = 0 /\ trip[d] = 0
      BY <1>1, <1>2 DEF Begin
    <3>2. stall'[d] \in Int
      BY CountedNext DEF Counted
    <3> QED
      BY <1>1, <1>2, <1>3, <1>5, <3>1, <3>2
  <2>2. Greeted(d)'
    BY <1>1, <1>2, <1>4 DEF Greeted
  <2>3. Fresh(d)'
    <3>1. tick'[d] # -1
      BY <1>2
    <3> QED
      BY <1>1, <1>2, <1>4, <3>1 DEF Fresh
  <2> QED
    BY <1>6, <2>1, <2>2, <2>3
<1>7. CASE c = p
  <2>1. Begin(p)'
    <3>1. tick'[d] # -1
      BY <1>2
    <3> QED
      BY <1>2, <3>1 DEF Begin
  <2>2. Greeted(p)'
    <3> SUFFICES ASSUME Away(d) PROVE Known(p, D)
      BY <1>2, <1>4 DEF Greeted
    <3>1. tick[d] >= 0
      BY <1>2, <1>3
    <3> QED
      BY <1>1, <1>2, <3>1 DEF Greeted
  <2>3. Fresh(p)'
    <3>1. ~Away(p)' => trip'[p] = 0
      BY <1>2, <1>3
    <3>2. tick[p] = -1 => ~Heard(p, D)
      BY <1>1, <1>2 DEF Fresh
    <3> QED
      BY <1>2, <1>4, <3>1, <3>2 DEF Fresh
  <2> QED
    BY <1>7, <2>1, <2>2, <2>3
<1> QED
  BY <1>1, <1>6, <1>7 DEF Draws

LEMMA FirstFrame ==
  ASSUME HistInv, HistInv', NEW shortest, NEW longest, NEW read, EvenTrips(shortest, longest, read),
         PacedInv(shortest, longest, read), Settled', Cadence', Together, Together',
         NEW d \in Console, Frame(d), \A c \in Console : Parts(c, longest, read), NEW c \in Console
  PROVE  First(c)'
<1> DEFINE p == Peer(d)
<1>1. /\ Settled /\ Cadence /\ Draws(d, longest, read)
      /\ \A e \in Console : Begin(e) /\ Fresh(e) /\ First(e)
  BY DrawsFrame DEF PacedInv, Parts
<1>2. /\ p \in Console /\ p # d /\ Peer(p) = d /\ turn = d
      /\ trip'[d] = trip[d] /\ tick'[p] = tick[p] /\ tick'[d] >= 0
      /\ ran'[p] = ran[p] /\ Pos(p)' = Pos(p)
      /\ tick[p] >= 0 => trip'[p] = trip[p] + 1
      /\ tick[p] = -1 => trip'[p] = 0
      /\ Pos(d)' = Pos(d) + (IF ran[d] THEN 1 ELSE 0)
  BY <1>1 DEF Draws
<1>3. /\ tick[d] \in Int /\ tick[d] >= -1 /\ tick[p] \in Int /\ tick[p] >= -1
      /\ Pos(d) \in Int /\ ran[d] \in BOOLEAN /\ trip[p] \in Nat
      /\ tick[d] = -1 => Pos(d) = 0
      /\ tick[d] >= 0 => Pos(d) >= 1
  BY <1>1, <1>2, Counters
<1>4. \A e \in Console : /\ Heard(e, D)' <=> Heard(e, D)
                         /\ Known(e, D)' <=> Known(e, D)
                         /\ Taken(e, D)' <=> Taken(e, D)
  BY <1>1, NewsFrame
<1>5. CASE c = d
  BY <1>1, <1>2, <1>4, <1>5 DEF First
<1>6. CASE c = p
  <2> SUFFICES ASSUME ~Taken(p, D)
               PROVE  /\ Pos(d)' <= 1 \/ Pos(d)' <= trip'[p] - 1
                      /\ trip'[p] <= 1 => ~ran'[d]
                      /\ trip'[p] = 0 => ~Heard(d, D)
    BY <1>2, <1>4, <1>6 DEF First
  <2>1. ~Heard(d, D) => ~ran'[d]
    <3>1. Taken(d, D) => Heard(d, D)
      BY DEF Taken, Heard, Seen
    <3>2. ~Taken(d, D)' => ~ran'[d]
      BY <1>2, CountedNext DEF Counted
    <3> QED
      BY <1>4, <3>1, <3>2
  <2>2. CASE tick[d] = -1
    <3>1. Pos(d)' <= 1 /\ ~Heard(d, D)
      BY <1>1, <1>2, <1>3, <2>2 DEF Fresh
    <3> QED
      BY <2>1, <3>1
  <2>3. CASE tick[d] >= 0
    <3>1. tick[p] # -1
      <4>1. ASSUME tick[p] = -1 PROVE FALSE
        <5>1. Pos(d) = 0
          BY <1>1, <1>2, <4>1 DEF Begin
        <5> QED
          BY <1>3, <2>3, <5>1
      <4> QED
        BY <4>1
    <3>2. trip'[p] = trip[p] + 1
      BY <1>2, <1>3, <3>1
    <3>3. /\ Pos(d) <= 1 \/ Pos(d) <= trip[p] - 1
          /\ trip[p] <= 1 => ~ran[d]
          /\ trip[p] = 0 => ~Heard(d, D)
      BY <1>1, <1>2, <2>3 DEF First
    <3>4. Pos(d)' <= 1 \/ Pos(d)' <= trip'[p] - 1
      BY <1>2, <1>3, <3>2, <3>3
    <3>5. trip'[p] <= 1 => ~ran'[d]
      BY <1>3, <2>1, <3>2, <3>3
    <3> QED
      BY <1>3, <3>2, <3>4, <3>5
  <2> QED
    BY <1>3, <2>2, <2>3
<1> QED
  BY <1>1, <1>5, <1>6 DEF Draws

LEMMA FlightFrame ==
  ASSUME HistInv, HistInv', NEW shortest, NEW longest, NEW read, EvenTrips(shortest, longest, read),
         PacedInv(shortest, longest, read), Settled', Cadence', Together, Together',
         NEW d \in Console, Frame(d), \A c \in Console : Parts(c, longest, read), NEW c \in Console
  PROVE  Flight(c, longest, read)'
<1> DEFINE p == Peer(d)
<1>1. /\ Settled /\ Cadence /\ Draws(d, longest, read) /\ (\A e \in Console : Flight(e, longest, read))
      /\ longest \in Nat /\ K \in Nat \ {0} /\ D \in Nat \ {0}
  BY DrawsFrame, OfTrips DEF PacedInv, Parts
<1>2. /\ p \in Console /\ p # d /\ Peer(p) = d /\ turn = d
      /\ Since(d, read)' = Since(d, read) /\ fetch'[d] = fetch[d] /\ Pos(p)' = Pos(p)
      /\ \A e \in Console : fetch[e] \in Nat /\ (asked'[e] <=> asked[e])
      /\ tick[p] >= 0 => /\ Since(p, read) \in Nat /\ Since(p, read)' = Since(p, read) + 1
                         /\ asked[p] => fetch'[p] = fetch[p] + 1
      /\ tick[p] = -1 => net[p] = <<>> /\ ~asked[p]
      /\ Pos(d)' = Pos(d) + (IF ran[d] THEN 1 ELSE 0)
  BY <1>1 DEF Draws
<1>3. /\ tick[p] \in Int /\ tick[p] >= -1
      /\ Pos(d) \in Int /\ ran[d] \in BOOLEAN
  BY <1>1, <1>2, Counters
<1>4. \A e \in Console : \A t : /\ Heard(e, t)' <=> Heard(e, t)
                                /\ Known(e, t)' <=> Known(e, t)
                                /\ Taken(e, t)' <=> Taken(e, t)
  BY <1>1, NewsFrame
<1>5. CASE c = d
  BY <1>1, <1>2, <1>4, <1>5 DEF Flight
<1>6. CASE c = p
  <2>1. Pos(d)' <= Pos(d) + 1 /\ Pos(d)' \in Int
    BY <1>2, <1>3
  <2>2. ASSUME NEW t \in Int, ~Heard(p, t), Known(p, t)
        PROVE  Pos(d)' <= K * (t - D) + longest + Since(p, read)' - 1
    <3>1. tick[p] # -1
      <4>1. net[p] = <<>> => (Known(p, t) <=> Heard(p, t))
        BY DEF Known, Heard
      <4> QED
        BY <1>2, <2>2, <4>1
    <3>2. Since(p, read) \in Nat /\ Since(p, read)' = Since(p, read) + 1
      BY <1>2, <1>3, <3>1
    <3>3. PICK w \in Int : w = K * (t - D)
      BY <1>1
    <3>4. Pos(d) <= w + longest + Since(p, read) - 1
      BY <1>1, <1>2, <2>2, <3>3 DEF Flight
    <3>5. Pos(d)' <= w + longest + (Since(p, read) + 1) - 1
      BY <1>1, <1>3, <2>1, <3>2, <3>4
    <3> QED
      BY <3>2, <3>3, <3>5
  <2>3. ASSUME NEW t \in Int, ~Taken(p, t), Heard(p, t), asked[p]
        PROVE  Pos(d)' <= K * (t - D) + 2 * longest + fetch'[p] - 1
    <3>1. fetch[p] \in Nat /\ fetch'[p] = fetch[p] + 1
      BY <1>2, <1>3, <2>3
    <3>2. PICK w \in Int : w = K * (t - D)
      BY <1>1
    <3>3. Pos(d) <= w + 2 * longest + fetch[p] - 1
      BY <1>1, <1>2, <2>3, <3>2 DEF Flight
    <3>4. Pos(d)' <= w + 2 * longest + (fetch[p] + 1) - 1
      BY <1>1, <1>3, <2>1, <3>1, <3>3
    <3> QED
      BY <3>1, <3>2, <3>4
  <2> QED
    BY <1>2, <1>4, <1>6, <2>2, <2>3 DEF Flight
<1> QED
  BY <1>1, <1>5, <1>6 DEF Draws


(* A console that stops is less than the delay behind the other.           *)
LEMMA StopsNear ==
  ASSUME HistInv, HistInv', NEW shortest, NEW longest, NEW read, EvenTrips(shortest, longest, read),
         Quick(longest, read), PacedInv(shortest, longest, read), Settled', Cadence', Together,
         NEW d \in Console, Frame(d), \A c \in Console : Parts(c, longest, read), ~ran'[d]
  PROVE  Pos(Peer(d)) - Pos(d)' <= K * D - 2
<1> DEFINE p == Peer(d)
<1>1. /\ Settled /\ Cadence /\ Draws(d, longest, read) /\ First(d) /\ Flight(d, longest, read)
      /\ Timely(p, longest)
  BY DrawsFrame, Peers DEF PacedInv, Parts
<1>2. /\ p \in Console /\ p # d /\ Peer(p) = d /\ turn = d /\ tick'[d] >= 0
      /\ trip[d] <= longest /\ Since(d, read) \in Nat /\ Since(d, read) <= longest
      /\ fetch[d] \in Nat /\ (asked[d] => fetch[d] <= read)
      /\ ~asked[d] => \A t : Heard(d, t) => Taken(d, t)
      /\ tick[p] >= 0 => Away(p) /\ trip'[p] = trip[p] + 1 /\ trip'[p] <= longest
  BY <1>1 DEF Draws
<1>3. /\ tick[p] \in Int /\ tick[p] >= -1 /\ Pos(p) \in Int /\ trip[p] \in Nat /\ trip[d] \in Nat
      /\ tick[p] = -1 => Pos(p) = 0
  BY <1>1, <1>2, Counters
<1>4. PICK k \in Nat \ {0}, n \in Nat \ {0}, l \in Nat, e \in Nat, t \in Int, x \in Int, y \in Int, m \in Int :
        /\ k = K /\ n = D /\ l = longest /\ t = tick'[d] /\ x = Pos(d)' /\ y = Pos(p)
        /\ m = K * D /\ m = k * n /\ l <= m /\ l >= 2 /\ e = read /\ 2 * l + e <= 2 * m
  <2>1. tick'[d] \in Int /\ Pos(d)' \in Int
    BY CountedNext DEF Counted
  <2>2. /\ longest \in Nat /\ longest >= 2 /\ K \in Nat \ {0} /\ D \in Nat \ {0}
        /\ K * D \in Int /\ longest <= K * D /\ read \in Nat /\ 2 * longest + read <= 2 * (K * D)
    BY OfQuick
  <2>3. PICK m \in Int : m = K * D
    BY <2>2
  <2>4. longest <= m /\ 2 * longest + read <= 2 * m
    BY <2>2, <2>3
  <2> QED
    BY <1>3, <2>1, <2>2, <2>3, <2>4
<1>5. x = k * t + 1 /\ x >= 1
  BY <1>2, <1>4, CountedNext DEF Counted
<1>6. ~Taken(d, Wanted(d)')
  BY StopsUnheard
<1>7. CASE tick[p] = -1
  BY <1>3, <1>4, <1>5, <1>7
<1>8. CASE tick[p] >= 0 /\ t < n
  <2>1. ~Taken(d, D)
    BY <1>4, <1>6, <1>8 DEF Wanted
  <2>2. y <= 1 \/ y <= trip[d] - 1
    BY <1>1, <1>2, <1>4, <1>8, <2>1 DEF First
  <2> QED
    BY <1>2, <1>3, <1>4, <1>5, <2>2
<1>9. CASE tick[p] >= 0 /\ ~(t < n)
  <2>1. Wanted(d)' = t
    BY <1>4, <1>9 DEF Wanted
  <2>2. k * (t - n) = k * t - m /\ k * t \in Int /\ k * (t - n) \in Int
    BY <1>4
  <2>3. y <= k * (t - n) + 2 * l + e - 1
    <3>0. t \in Int /\ 2 * l \in Int
      BY <1>4
    <3>1. CASE Known(d, t) /\ ~Heard(d, t)
      <4>1. y <= k * (t - n) + l + Since(d, read) - 1
        BY <1>1, <1>4, <3>1 DEF Flight
      <4> QED
        BY <1>2, <1>4, <2>2, <4>1
    <3>2. CASE Heard(d, t)
      <4>1. ~Taken(d, t)
        BY <1>6, <2>1
      <4>2. asked[d]
        BY <1>2, <3>2, <4>1
      <4>3. y <= k * (t - n) + 2 * l + fetch[d] - 1
        BY <1>1, <1>4, <3>2, <4>1, <4>2 DEF Flight
      <4> QED
        BY <1>2, <1>4, <2>2, <3>0, <4>2, <4>3
    <3>3. CASE ~Known(d, t)
      <4>1. Age(p, longest) \in Int /\ y <= k * (t - n) + Age(p, longest)
        BY <1>1, <1>2, <1>4, <1>9, <3>3, NotLongAgo
      <4>2. Age(p, longest) = trip[p] /\ trip[p] <= l - 1
        BY <1>2, <1>3, <1>4, <1>9 DEF Age
      <4> QED
        BY <1>3, <1>4, <2>2, <4>1, <4>2
    <3> QED
      BY <3>1, <3>2, <3>3
  <2>4. PICK w \in Int : w = k * t
    BY <2>2
  <2>5. y <= (w - m) + 2 * l + e - 1 /\ x = w + 1
    BY <1>5, <2>2, <2>3, <2>4
  <2>6. y - x <= m - 2
    BY <1>4, <2>4, <2>5
  <2> QED
    BY <1>4, <2>6
<1> QED
  BY <1>3, <1>4, <1>7, <1>8, <1>9

LEMMA LeadFrame ==
  ASSUME HistInv, HistInv', NEW shortest, NEW longest, NEW read, EvenTrips(shortest, longest, read),
         Quick(longest, read), PacedInv(shortest, longest, read), Settled', Cadence', Together,
         NEW d \in Console, Frame(d), \A c \in Console : Parts(c, longest, read), NEW c \in Console
  PROVE  Lead(c)'
<1> DEFINE p == Peer(d)
<1>1. /\ Settled /\ Cadence /\ Draws(d, longest, read) /\ (\A e \in Console : Lead(e))
      /\ K * D \in Int
  BY DrawsFrame, OfQuick DEF PacedInv, Parts
<1>2. /\ p \in Console /\ p # d /\ Peer(p) = d /\ turn = d /\ turn' = p
      /\ ran'[p] = ran[p] /\ Pos(p)' = Pos(p)
      /\ Pos(d)' = Pos(d) + (IF ran[d] THEN 1 ELSE 0)
  BY <1>1 DEF Draws
<1>3. /\ Pos(d) \in Int /\ Pos(p) \in Int /\ ran[d] \in BOOLEAN /\ ran[p] \in BOOLEAN
      /\ ran'[d] \in BOOLEAN
  BY <1>1, <1>2, Counters, CountedNext DEF Counted
<1>4. CASE c = d
  <2>1. Pos(p) - Pos(d) <= K * D - 1 - (IF ran[d] THEN 0 ELSE 1) + 1
    BY <1>1, <1>2 DEF Lead
  <2>2. Pos(p) - Pos(d)' <= K * D - 1
    BY <1>1, <1>2, <1>3, <2>1
  <2>3. ~ran'[d] => Pos(p) - Pos(d)' <= K * D - 2
    BY <1>2, StopsNear
  <2>4. Pos(p)' - Pos(d)' <= K * D - 1 - (IF ran'[d] THEN 0 ELSE 1) + 0
    BY <1>1, <1>2, <1>3, <2>2, <2>3
  <2> QED
    BY <1>2, <1>4, <2>4 DEF Lead
<1>5. CASE c = p
  <2>1. Pos(d) - Pos(p) <= K * D - 1 - (IF ran[p] THEN 0 ELSE 1) + 0
    BY <1>1, <1>2 DEF Lead
  <2>2. Pos(d)' - Pos(p)' <= K * D - 1 - (IF ran'[p] THEN 0 ELSE 1) + 1
    BY <1>1, <1>2, <1>3, <2>1
  <2> QED
    BY <1>2, <1>5, <2>2 DEF Lead
<1> QED
  BY <1>1, <1>4, <1>5 DEF Draws

LEMMA StallsFrame ==
  ASSUME HistInv, HistInv', NEW shortest, NEW longest, NEW read, EvenTrips(shortest, longest, read),
         Quick(longest, read), PacedInv(shortest, longest, read), Settled', Cadence', Together, Together',
         NEW d \in Console, Frame(d), \A c \in Console : Parts(c, longest, read), NEW c \in Console
  PROVE  Stalls(c, longest, read)'
<1> DEFINE p == Peer(d)
<1>1. /\ Settled /\ Cadence /\ Draws(d, longest, read) /\ Timely(p, longest)
      /\ \A e \in Console : Stalls(e, longest, read) /\ Begin(e)
      /\ longest \in Nat /\ longest >= 2 /\ read \in Nat /\ K \in Nat \ {0} /\ D \in Nat \ {0}
  BY DrawsFrame, Peers, OfQuick DEF PacedInv, Parts
<1>2. /\ p \in Console /\ p # d /\ Peer(p) = d /\ turn = d /\ turn' = p /\ (Away(d)' <=> Away(d))
      /\ Since(d, read) \in Nat /\ Since(d, read)' = Since(d, read) /\ fetch'[d] = fetch[d]
      /\ \A e \in Console : fetch[e] \in Nat /\ (asked'[e] <=> asked[e])
      /\ ~asked[d] => \A t : Heard(d, t) => Taken(d, t)
      /\ tick[d] >= 0 => Since(d, read) >= 1
      /\ trip'[d] = trip[d] /\ tick'[p] = tick[p] /\ tick'[d] >= 0
      /\ ran'[p] = ran[p] /\ Pos(p)' = Pos(p) /\ stall'[p] = stall[p]
      /\ tick[p] >= 0 => /\ Away(p) /\ Away(p)' /\ trip'[p] = trip[p] + 1
                         /\ Since(p, read) \in Nat /\ Since(p, read)' = Since(p, read) + 1
                         /\ asked[p] => fetch'[p] = fetch[p] + 1
      /\ tick[p] = -1 => ~Away(p) /\ ~Away(p)'
      /\ ran'[d] => stall'[d] = 0 \/ (ran[d] /\ stall'[d] = stall[d])
  BY <1>1 DEF Draws
<1>3. /\ tick[d] \in Int /\ tick[d] >= -1 /\ tick[p] \in Int /\ tick[p] >= -1
      /\ stall[d] \in Int /\ stall[p] \in Int /\ trip[d] \in Nat /\ trip[p] \in Nat
      /\ Pos(p) \in Int /\ K * tick[p] + 1 <= Pos(p)
      /\ tick[d] = -1 => ran[d]
      /\ tick[p] = -1 => ran[p]
      /\ tick[d] >= 0 => Pos(d) >= 1
      /\ ran[d] \in BOOLEAN
  BY <1>1, <1>2, Counters
<1>4. \A e \in Console : \A t : /\ Heard(e, t)' <=> Heard(e, t)
                                /\ Known(e, t)' <=> Known(e, t)
                                /\ Taken(e, t)' <=> Taken(e, t)
  BY <1>1, NewsFrame
<1>5. CASE c = p
  <2>1. Wanted(p)' = Wanted(p)
    BY <1>2 DEF Wanted
  <2>2. Stalls(p, longest, read)
    BY <1>1, <1>2
  <2>3. ~ran[p] => /\ Since(p, read) \in Nat /\ Since(p, read)' = Since(p, read) + 1
                   /\ asked[p] => fetch'[p] = fetch[p] + 1
    BY <1>2, <1>3
  <2>4. ASSUME ~ran[p], Known(p, Wanted(p)), ~Heard(p, Wanted(p))
        PROVE  stall[p] <= longest - 1 + Since(p, read)' - 1
    <3>1. stall[p] <= longest - 1 + Since(p, read) - 0
      BY <1>2, <2>2, <2>4 DEF Stalls
    <3> QED
      BY <1>1, <1>3, <2>3, <2>4, <3>1
  <2>5. ASSUME ~ran[p], Heard(p, Wanted(p)), ~Taken(p, Wanted(p)), asked[p]
        PROVE  stall[p] <= 2 * longest - 1 + fetch'[p] - 1
    <3>1. stall[p] <= 2 * longest - 1 + fetch[p] - 0
      BY <1>2, <2>2, <2>5 DEF Stalls
    <3>2. fetch[p] \in Nat /\ 2 * longest \in Int
      BY <1>1, <1>2
    <3> QED
      BY <1>3, <2>3, <2>5, <3>1, <3>2
  <2>6. /\ ran[p] => stall[p] = 0
        /\ ~ran[p] /\ ~Known(p, Wanted(p)) =>
             stall[p] <= (IF Away(d) THEN trip[d] ELSE longest) - 1
    BY <1>2, <2>2 DEF Stalls
  <2>7. /\ Known(p, Wanted(p))' <=> Known(p, Wanted(p))
        /\ Heard(p, Wanted(p))' <=> Heard(p, Wanted(p))
        /\ Taken(p, Wanted(p))' <=> Taken(p, Wanted(p))
    BY <1>2, <1>4, <2>1
  <2> QED
    BY <1>2, <1>5, <2>4, <2>5, <2>6, <2>7 DEF Stalls
<1>6. CASE c = d
  <2>1. Stalls(d, longest, read)
    BY <1>1
  <2>2. ran'[d] => stall'[d] = 0
    BY <1>2, <2>1 DEF Stalls
  <2>3. ASSUME ~ran'[d]
        PROVE  /\ stall'[d] = stall[d] + 1 /\ ~Taken(d, Wanted(d)')
               /\ ~ran[d] => Wanted(d)' = Wanted(d)
    BY <1>1, <2>3, Counting, StopsUnheard
  <2>4. ~ran[d] => tick[p] >= 0
    <3>1. ASSUME ~ran[d], tick[p] = -1 PROVE FALSE
      <4>1. Pos(d) = 0
        BY <1>1, <1>2, <3>1 DEF Begin
      <4> QED
        BY <1>3, <3>1, <4>1
    <3> QED
      BY <1>3, <3>1
  <2>5. ASSUME ~ran'[d], ~Known(d, Wanted(d)')
        PROVE  stall'[d] <= (IF Away(p)' THEN trip'[p] ELSE longest) - 1
    <3>1. CASE ~ran[d]
      <4>1. stall[d] <= (IF Away(p) THEN trip[p] ELSE longest) - 1
        BY <2>1, <2>3, <2>5, <3>1 DEF Stalls
      <4> QED
        BY <1>2, <1>3, <2>3, <2>4, <2>5, <3>1, <4>1
    <3>2. CASE ran[d]
      <4>1. stall'[d] = 1
        BY <2>1, <2>3, <2>5, <3>2 DEF Stalls
      <4>2. Away(p)' => trip'[p] \in Int /\ trip'[p] >= 2
        <5> SUFFICES ASSUME Away(p)' PROVE trip'[p] \in Int /\ trip'[p] >= 2
          OBVIOUS
        <5>1. tick[p] >= 0 /\ trip'[p] = trip[p] + 1 /\ Away(p)
          BY <1>2, <1>3
        <5>2. PICK k \in Nat \ {0}, u \in Int, w \in Int :
                k = K /\ u = tick[p] /\ w = Wanted(d)' - D
          <6>1. tick'[d] \in Int
            BY CountedNext DEF Counted
          <6>2. Wanted(d)' \in Int
            BY <1>1, <6>1 DEF Wanted
          <6>3. K \in Nat \ {0} /\ tick[p] \in Int /\ Wanted(d)' - D \in Int
            BY <1>1, <1>3, <6>2
          <6> QED
            BY <6>3
        <5>3. w <= u
          <6>1. Lead(p)'
            BY <1>2, LeadFrame
          <6>2. Reached(d)'
            BY <1>2, <6>1, ReachedNext
          <6> QED
            BY <1>2, <2>5, <5>1, <5>2, <6>2 DEF Reached
        <5>4. k * w \in Int /\ k * u \in Int /\ k * w <= k * u
          BY <5>2, <5>3, Wider
        <5>5. Wanted(d)' \in Int /\ w = Wanted(d)' - D
          <6>1. tick'[d] \in Int
            BY CountedNext DEF Counted
          <6> QED
            BY <1>1, <5>2, <6>1 DEF Wanted
        <5>6. Age(p, longest) \in Int /\ Pos(p) <= k * w + Age(p, longest)
          BY <1>1, <1>2, <2>5, <5>1, <5>2, <5>5, NotLongAgo
        <5>7. Age(p, longest) = trip[p]
          BY <1>2, <5>1 DEF Age
        <5>8. trip[p] >= 1
          <6>1. k * u + 1 <= Pos(p)
            BY <1>3, <5>2
          <6>2. Pos(p) <= k * w + trip[p]
            BY <5>6, <5>7
          <6> QED
            BY <1>3, <5>4, <6>1, <6>2
        <5> QED
          BY <1>3, <5>1, <5>8
      <4> QED
        BY <1>1, <4>1, <4>2
    <3> QED
      BY <1>3, <3>1, <3>2
  <2>6. ASSUME ~ran'[d], Known(d, Wanted(d)'), ~Heard(d, Wanted(d)')
        PROVE  stall'[d] <= longest - 1 + Since(d, read)' - 0
    <3>1. CASE ~ran[d]
      <4>1. stall[d] <= longest - 1 + Since(d, read) - 1
        BY <1>2, <2>1, <2>3, <2>6, <3>1 DEF Stalls
      <4> QED
        BY <1>1, <1>2, <1>3, <2>3, <2>6, <4>1
    <3>2. CASE ran[d]
      <4>1. stall'[d] = 1
        BY <2>1, <2>3, <2>6, <3>2 DEF Stalls
      <4> QED
        BY <1>1, <1>2, <1>3, <4>1
    <3> QED
      BY <1>3, <3>1, <3>2
  <2>7. ASSUME ~ran'[d], Heard(d, Wanted(d)')
        PROVE  stall'[d] <= 2 * longest - 1 + fetch'[d] - 0
    <3>1. ~Taken(d, Wanted(d)') /\ asked[d] /\ fetch[d] \in Nat /\ 2 * longest \in Nat
          /\ 2 * longest >= 4
      BY <1>1, <1>2, <2>3, <2>7
    <3>2. CASE ~ran[d]
      <4>1. stall[d] <= 2 * longest - 1 + fetch[d] - 1
        BY <1>2, <2>1, <2>3, <2>7, <3>1, <3>2 DEF Stalls
      <4> QED
        BY <1>2, <1>3, <2>3, <2>7, <3>1, <4>1
    <3>3. CASE ran[d]
      <4>1. stall'[d] = 1
        BY <2>1, <2>3, <2>7, <3>3 DEF Stalls
      <4> QED
        BY <1>2, <3>1, <4>1
    <3> QED
      BY <1>3, <3>2, <3>3
  <2>8. /\ Known(d, Wanted(d))' <=> Known(d, Wanted(d)')
        /\ Heard(d, Wanted(d))' <=> Heard(d, Wanted(d)')
    BY <1>4
  <2> QED
    BY <1>2, <1>6, <2>2, <2>5, <2>6, <2>7, <2>8 DEF Stalls
<1> QED
  BY <1>1, <1>5, <1>6 DEF Draws

(* While both race, no count is full.                                      *)
LEMMA NobodyLeaves ==
  ASSUME HistInv, NEW shortest, NEW longest, NEW read, EvenTrips(shortest, longest, read),
         Quick(longest, read), PacedInv(shortest, longest, read), Together,
         NEW d \in Console, Frame(d), \A c \in Console : Parts(c, longest, read)
  PROVE  mode' = mode
<1> DEFINE p == Peer(d)
<1>1. /\ Settled /\ Cadence /\ Draws(d, longest, read) /\ Stalls(d, longest, read)
      /\ longest \in Nat /\ longest >= 2 /\ read \in Nat
      /\ StallMax \in Nat /\ 2 * longest + read - 1 <= StallMax
  BY DrawsFrame, OfQuick DEF PacedInv, Parts
<1>2. /\ p \in Console /\ p # d /\ Peer(p) = d /\ turn = d
      /\ Since(d, read) \in Nat /\ Since(d, read) <= longest
      /\ fetch[d] \in Nat /\ (asked[d] => fetch[d] <= read)
      /\ ~asked[d] => \A t : Heard(d, t) => Taken(d, t)
      /\ tick[p] >= 0 => trip'[p] = trip[p] + 1 /\ trip'[p] <= longest
      /\ tick[p] = -1 => trip[p] = 0
  BY <1>1 DEF Draws
<1>3. /\ stall[d] \in Int /\ trip[d] \in Nat /\ trip[p] \in Nat /\ ran[d] \in BOOLEAN
      /\ tick[p] \in Int /\ tick[p] >= -1
  BY <1>1, <1>2, Counters
<1>4. SUFFICES ASSUME ~ran'[d], stall[d] >= StallMax PROVE FALSE
  BY <1>1, FrameGate
<1>5. ~Taken(d, Wanted(d)') /\ (~ran[d] => Wanted(d)' = Wanted(d))
  BY <1>4, StopsUnheard
<1>6. stall[d] <= 2 * longest + read - 2
  <2>1. CASE ran[d]
    BY <1>1, <1>3, <2>1 DEF Stalls
  <2>2. CASE ~ran[d] /\ ~Known(d, Wanted(d))
    <3>1. stall[d] <= (IF Away(p) THEN trip[p] ELSE longest) - 1
      BY <2>2, <1>1 DEF Stalls
    <3>2. trip[p] <= longest
      BY <1>1, <1>2, <1>3
    <3> QED
      BY <1>1, <1>3, <3>1, <3>2
  <2>3. CASE ~ran[d] /\ Known(d, Wanted(d)) /\ ~Heard(d, Wanted(d))
    <3>1. stall[d] <= longest - 1 + Since(d, read) - 1
      BY <1>1, <1>2, <2>3 DEF Stalls
    <3> QED
      BY <1>1, <1>2, <1>3, <3>1
  <2>4. CASE ~ran[d] /\ Heard(d, Wanted(d))
    <3>1. ~Taken(d, Wanted(d)) /\ asked[d]
      BY <1>2, <1>5, <2>4
    <3>2. stall[d] <= 2 * longest - 1 + fetch[d] - 1
      BY <1>1, <1>2, <2>4, <3>1 DEF Stalls
    <3>3. fetch[d] <= read /\ 2 * longest \in Int
      BY <1>1, <1>2, <3>1
    <3> QED
      BY <1>1, <1>2, <1>3, <3>2, <3>3
  <2> QED
    BY <1>3, <2>1, <2>2, <2>3, <2>4
<1> QED
  BY <1>1, <1>3, <1>4, <1>6


(***************************************************************************)
(* The parts after a step of d's transport: it writes, reads or consumes.  *)
(***************************************************************************)
Writes(d, read) ==
  LET p == Peer(d)
  IN  /\ nst[d] = "WISS" /\ ~asked[d] /\ nst'[d] = "SACK" /\ ~asked'[d]
      /\ trip'[d] = 0 /\ Since(d, read)' = read
      /\ \A t \in Int : /\ Taken(d, t)' <=> Taken(d, t)
                        /\ Heard(d, t)' <=> Heard(d, t)
                        /\ Known(d, t)' <=> Known(d, t)
                        /\ Known(p, t)' <=> (Known(p, t) \/ t <= tick[d] + D)

(* STATUS: the READ of what it counted begins, or there is nothing new.    *)
Reads(d) ==
  LET p == Peer(d)
  IN  /\ nst[d] = "SACK" /\ ~asked[d] /\ nst'[d] # "SACK" /\ 1 <= trip[d]
      /\ asked'[d] => trip'[d] = trip[d]
      /\ ~asked'[d] => trip'[d] = 0 /\ \A t \in Int : Known(d, t) => Taken(d, t)
      /\ \A t \in Int : /\ Taken(d, t)' <=> Taken(d, t)
                        /\ Heard(d, t) => Taken(d, t)
                        /\ Heard(d, t)' <=> Known(d, t)
                        /\ Known(d, t)' <=> Known(d, t)
                        /\ Known(p, t)' <=> Known(p, t)

(* Any input record ends the wait for the first.                           *)
Consumes(d, read) ==
  LET p == Peer(d)
  IN  /\ nst[d] = "CONS" /\ nst'[d] # "SACK" /\ ~asked'[d]
      /\ trip'[d] = 0 /\ Since(d, read)' = read
      /\ Taken(d, D)'
      /\ \A t \in Int : /\ Taken(d, t) => Taken(d, t)'
                        /\ Heard(d, t)' <=> Heard(d, t)
                        /\ Known(d, t)' <=> Known(d, t)
                        /\ Known(p, t)' <=> Known(p, t)

Steps(d, longest, read) ==
  LET p == Peer(d)
  IN  /\ p \in Console /\ p # d /\ Peer(p) = d /\ \A e \in Console : e = d \/ e = p
      /\ turn = p /\ turn' = p /\ tick[d] >= 0
      /\ stall' = stall /\ tick' = tick /\ ran' = ran
      /\ \A e \in Console : /\ Pos(e)' = Pos(e) /\ Wanted(e)' = Wanted(e) /\ Wanted(e) \in Int
                            /\ Since(e, read) \in Nat /\ trip[e] \in Nat /\ trip[e] <= longest
                            /\ fetch[e] \in Nat /\ Since(e, read) <= longest
      /\ trip'[p] = trip[p] /\ fetch'[p] = fetch[p] /\ fetch'[d] = 0
      /\ asked'[p] = asked[p] /\ Since(p, read)' = Since(p, read) /\ (Away(p)' <=> Away(p))
      /\ tick[p] >= 0 => Away(p) /\ trip[p] >= 1 /\ Since(p, read) >= 1
      /\ tick[p] = -1 => ~Away(p) /\ trip[p] = 0
      /\ ~Away(d) => net[d] = <<>> \/ trip[d] = 0
      /\ nst[d] # "SACK" /\ net[d] # <<>> => Since(d, read) <= read
      /\ \A t \in Int : (Taken(p, t)' <=> Taken(p, t)) /\ (Heard(p, t)' <=> Heard(p, t))
      /\ Writes(d, read) \/ Reads(d) \/ Consumes(d, read)

(* While every record is an input record, the first that c consumes takes  *)
(* it past the ticks that are seeded.                                      *)
LEMMA TakesOne ==
  ASSUME HistInv, HistInv', Settled, NEW c \in Console, Silent(c), Consume(c)
  PROVE  Taken(c, D)'
<1> DEFINE rec == reply[c][Len(reply[c])]
<1>1. TypeInv /\ reply[c] \in Seq(Message) /\ reply[c] # <<>>
  BY DEF HistInv, SkewInv, TypeInv, WindowInUse, TypeOK, TransportTypes, Consume, Stepping
<1>2. Len(reply[c]) \in DOMAIN reply[c]
  <2>1. Len(reply[c]) \in Nat \ {0} /\ DOMAIN reply[c] = 1 .. Len(reply[c])
    BY <1>1
  <2> QED
    BY <2>1
<1>3. rec \in Inputs(c)
  BY <1>2 DEF Silent, Inputs, Window, IsInput
<1>4. rec.tick \in Int /\ D <= rec.tick /\ rec.tick <= Newest(c)' /\ Newest(c)' \in Int
  BY <1>3, NewestConsumed
<1>5. D \in Int
  BY Sizes
<1> QED
  BY <1>4, <1>5 DEF Taken

(* No PEER LEFT frame raises the count.                                    *)
LEMMA NoCountRaised ==
  ASSUME HistInv, Settled, Cadence, MaxFaults = 0, NEW d \in Console, Silent(d), Overscan(d)
  PROVE  stall' = stall
<1>1. DGNSTEP(d) /\ ~(faults < MaxFaults)
  BY DEF Overscan, Settled
<1>2. Write(d) \/ Read(d) => stall' = stall
  BY DEF Write, Read
<1>3. ~Fail(d)
  BY <1>1 DEF Fail
<1>4. Consume(d) => stall' = stall
  <2> SUFFICES ASSUME Consume(d) PROVE stall' = stall
    OBVIOUS
  <2>1. reply[d] \in Seq(Message) /\ reply[d] # <<>>
    BY DEF HistInv, SkewInv, TypeInv, WindowInUse, TypeOK, TransportTypes, Consume, Stepping
  <2>2. Len(reply[d]) \in DOMAIN reply[d]
    <3>1. Len(reply[d]) \in Nat \ {0} /\ DOMAIN reply[d] = 1 .. Len(reply[d])
      BY <2>1
    <3> QED
      BY <3>1
  <2>3. IsInput(reply[d][Len(reply[d])])
    BY <2>2 DEF Silent, Window
  <2> QED
    BY <2>3 DEF Consume, IsInput
<1> QED
  BY <1>1, <1>2, <1>3, <1>4 DEF DGNSTEP

LEMMA StepsOverscan ==
  ASSUME HistInv, HistInv', NEW shortest, NEW longest, NEW read, EvenTrips(shortest, longest, read),
         PacedInv(shortest, longest, read), Together, NEW d \in Console, Overscan(d), Silent(d)
  PROVE  Steps(d, longest, read)
<1> DEFINE p == Peer(d)
<1>1. /\ p \in Console /\ p # d /\ Peer(p) = d /\ (\A e \in Console : e = d \/ e = p)
      /\ Settled /\ Cadence /\ Cycle(d, longest, read) /\ Cycle(p, longest, read) /\ MaxFaults = 0
  <2>1. p \in Console /\ p # d /\ Peer(p) = d /\ (\A e \in Console : e = d \/ e = p)
    BY Peers, TwoConsoles
  <2> QED
    BY <2>1, OfTrips DEF PacedInv
<1>2. /\ turn = p /\ turn' = p /\ tick[d] >= 0 /\ tick' = tick /\ ran' = ran /\ clk' = clk
      /\ trip'[p] = trip[p] /\ fetch'[p] = fetch[p] /\ fetch'[d] = 0
      /\ asked'[p] = asked[p] /\ nst'[p] = nst[p]
  BY <1>1, OverscanCells
<1>3. stall' = stall
  BY <1>1, NoCountRaised
<1>4. ASSUME NEW e \in Console
      PROVE  /\ Pos(e)' = Pos(e) /\ Wanted(e)' = Wanted(e) /\ Wanted(e) \in Int
             /\ Since(e, read) \in Nat /\ Since(e, read) <= longest
             /\ trip[e] \in Nat /\ trip[e] <= longest /\ fetch[e] \in Nat
  <2>1. tick[e] \in Int /\ D \in Int
    BY <1>1, Counters, OfTrips
  <2>2. Pos(e)' = Pos(e) /\ Wanted(e)' = Wanted(e) /\ Wanted(e) \in Int
    BY <1>2, <2>1 DEF Pos, Wanted
  <2>3. Cycle(e, longest, read)
    BY <1>1
  <2> QED
    BY <1>1, <2>2, <2>3, SinceRange
<1>5. /\ Since(p, read)' = Since(p, read) /\ (Away(p)' <=> Away(p))
  BY <1>2 DEF Since, Away
<1>6. /\ tick[p] >= 0 => Away(p) /\ trip[p] >= 1 /\ Since(p, read) >= 1
      /\ tick[p] = -1 => ~Away(p) /\ trip[p] = 0
  <2>1. tick[p] = -1 => ~Away(p) /\ trip[p] = 0
    BY <1>1 DEF Cycle, Away
  <2> QED
    BY <1>1, <1>2, <2>1 DEF Cycle
<1>7. ~Away(d) => net[d] = <<>> \/ trip[d] = 0
  BY <1>1 DEF Cycle
<1>8. nst[d] # "SACK" /\ net[d] # <<>> => Since(d, read) <= read
  <2>1. ASSUME asked[d] PROVE Since(d, read) <= read
    BY <1>1, <2>1 DEF Cycle, Since
  <2>2. ASSUME ~asked[d], nst[d] # "SACK", net[d] # <<>> PROVE Since(d, read) <= read
    <3>1. trip[d] = 0 /\ read \in Nat
      BY <1>7, <2>2, OfTrips DEF Away
    <3> QED
      BY <2>2, <3>1 DEF Since
  <2> QED
    BY <2>1, <2>2
<1>9. nst[d] # "CONS" => ~asked[d]
  BY <1>1 DEF Cycle
<1>10. trip'[d] = 0 /\ ~asked'[d] => Since(d, read)' = read
  BY OfTrips DEF Since
<1>11. /\ \A t \in Int : (Taken(p, t)' <=> Taken(p, t)) /\ (Heard(p, t)' <=> Heard(p, t))
       /\ Writes(d, read) \/ Reads(d) \/ Consumes(d, read)
  <2>1. \A n \in Trip(d) : 1 <= n
    BY OfTrips
  <2>2. Consume(d) => Taken(d, D)'
    BY <1>1, TakesOne
  <2> QED
    BY <1>1, <1>9, <1>10, <2>1, <2>2, NewsOverscan DEF Writes, Reads, Consumes
<1> QED
  BY <1>1, <1>2, <1>3, <1>4, <1>5, <1>6, <1>7, <1>8, <1>11 DEF Steps

LEMMA StartOverscan ==
  ASSUME HistInv, HistInv', NEW shortest, NEW longest, NEW read, EvenTrips(shortest, longest, read),
         PacedInv(shortest, longest, read), Together,
         NEW d \in Console, Overscan(d), \A c \in Console : Parts(c, longest, read), NEW c \in Console
  PROVE  Begin(c)' /\ Greeted(c)' /\ Fresh(c)'
<1> DEFINE p == Peer(d)
<1>1. /\ Settled /\ Cadence /\ Steps(d, longest, read) /\ D \in Nat
      /\ \A e \in Console : Begin(e) /\ Greeted(e) /\ Fresh(e)
  BY StepsOverscan, OfTrips DEF PacedInv, Parts
<1>2. /\ p \in Console /\ p # d /\ Peer(p) = d /\ turn = p /\ turn' = p /\ tick[d] >= 0
      /\ stall' = stall /\ tick' = tick /\ ran' = ran
      /\ \A e \in Console : Pos(e)' = Pos(e)
      /\ trip'[p] = trip[p] /\ (Away(p)' <=> Away(p))
      /\ \A t \in Int : (Taken(p, t)' <=> Taken(p, t)) /\ (Heard(p, t)' <=> Heard(p, t))
  BY <1>1 DEF Steps
<1>3. tick[d] \in Int /\ tick[p] \in Int /\ tick[p] >= -1 /\ D \in Int
  BY <1>1, <1>2, Counters
<1>4. CASE c = d
  <2>1. tick[p] = -1 => trip[d] = 0
    BY <1>1, <1>2 DEF Begin
  <2>2. tick[p] = -1 => trip'[d] = 0
    BY <1>1, <2>1 DEF Steps, Writes, Reads, Consumes
  <2>3. Known(d, D)' <=> Known(d, D)
    BY <1>1, <1>3 DEF Steps, Writes, Reads, Consumes
  <2>4. Begin(d)'
    BY <1>1, <1>2, <2>2 DEF Begin
  <2>5. Greeted(d)'
    BY <1>1, <1>2, <2>3 DEF Greeted
  <2>7. ~Away(d)' => trip'[d] = 0
    BY <1>1 DEF Steps, Writes, Reads, Consumes, Away
  <2>8. Fresh(d)'
    <3>1. tick'[d] # -1
      BY <1>2
    <3> QED
      BY <2>7, <3>1 DEF Fresh
  <2> QED
    BY <1>4, <2>4, <2>5, <2>8
<1>5. CASE c = p
  <2>1. Begin(p)'
    <3>1. tick'[d] # -1
      BY <1>2
    <3> QED
      BY <1>2, <3>1 DEF Begin
  <2>2. Away(d)' => Known(p, D)'
    <3>1. D <= tick[d] + D
      BY <1>2, <1>3
    <3>2. nst[d] = "SACK" => Known(p, D)
      BY <1>1, <1>2 DEF Greeted, Away
    <3> QED
      BY <1>1, <1>3, <3>1, <3>2 DEF Steps, Writes, Reads, Consumes, Away
  <2>3. Greeted(p)'
    BY <1>2, <2>2 DEF Greeted
  <2>4. Fresh(p)'
    BY <1>1, <1>2, <1>3 DEF Fresh
  <2> QED
    BY <1>5, <2>1, <2>3, <2>4
<1> QED
  BY <1>1, <1>4, <1>5 DEF Steps

LEMMA FirstOverscan ==
  ASSUME HistInv, HistInv', NEW shortest, NEW longest, NEW read, EvenTrips(shortest, longest, read),
         PacedInv(shortest, longest, read), Together,
         NEW d \in Console, Overscan(d), \A c \in Console : Parts(c, longest, read), NEW c \in Console
  PROVE  First(c)'
<1> DEFINE p == Peer(d)
<1>1. /\ Settled /\ Cadence /\ Steps(d, longest, read) /\ D \in Int
      /\ \A e \in Console : Begin(e) /\ Greeted(e) /\ Fresh(e) /\ First(e)
  BY StepsOverscan, OfTrips DEF PacedInv, Parts
<1>2. /\ p \in Console /\ p # d /\ Peer(p) = d
      /\ tick' = tick /\ ran' = ran /\ Pos(p)' = Pos(p) /\ Pos(d)' = Pos(d)
      /\ trip'[p] = trip[p]
      /\ tick[p] >= 0 => Away(p) /\ trip[p] >= 1
      /\ (Taken(p, D)' <=> Taken(p, D)) /\ (Heard(p, D)' <=> Heard(p, D))
  BY <1>1 DEF Steps
<1>3. tick[p] \in Int /\ tick[p] >= -1
  BY <1>1, <1>2, Counters
<1>4. CASE c = d
  <2> SUFFICES ASSUME ~Taken(d, D)', tick[p] >= 0
               PROVE  /\ Pos(p) <= 1 \/ Pos(p) <= trip'[d] - 1
                      /\ trip'[d] <= 1 => ~ran[p]
                      /\ trip'[d] = 0 => ~Heard(p, D)
    BY <1>2, <1>4 DEF First
  <2>1. Known(d, D)
    BY <1>1, <1>2 DEF Greeted
  <2>2. ~Taken(d, D) /\ trip'[d] = trip[d]
    <3>1. CASE Writes(d, read)
      <4>1. ~Taken(d, D) /\ ~Away(d) /\ trip'[d] = 0
        BY <1>1, <3>1 DEF Writes, Away
      <4> QED
        BY <1>1, <4>1 DEF Fresh
    <3>2. CASE Reads(d)
      BY <1>1, <2>1, <3>2 DEF Reads
    <3> QED
      BY <1>1, <3>1, <3>2 DEF Steps, Consumes
  <2> QED
    BY <1>1, <1>2, <2>2 DEF First
<1>5. CASE c = p
  <2> SUFFICES ASSUME ~Taken(p, D), tick[d] >= 0
               PROVE  /\ Pos(d) <= 1 \/ Pos(d) <= trip[p] - 1
                      /\ trip[p] <= 1 => ~ran[d]
                      /\ trip[p] = 0 => ~Heard(d, D)'
    BY <1>2, <1>5 DEF First
  <2>1. /\ Pos(d) <= 1 \/ Pos(d) <= trip[p] - 1
        /\ trip[p] <= 1 => ~ran[d]
        /\ trip[p] = 0 => ~Heard(d, D)
    BY <1>1, <1>2 DEF First
  <2>2. trip[p] = 0 => ~Reads(d)
    <3> SUFFICES ASSUME trip[p] = 0, Reads(d) PROVE FALSE
      OBVIOUS
    <3>1. tick[p] = -1
      BY <1>2, <1>3
    <3>2. trip[d] = 0
      BY <1>1, <1>2, <3>1 DEF Begin
    <3> QED
      BY <3>2 DEF Reads
  <2>3. ~Reads(d) => (Heard(d, D)' <=> Heard(d, D))
    BY <1>1 DEF Steps, Writes, Consumes
  <2> QED
    BY <2>1, <2>2, <2>3
<1> QED
  BY <1>1, <1>4, <1>5 DEF Steps

LEMMA FlightOverscan ==
  ASSUME HistInv, HistInv', NEW shortest, NEW longest, NEW read, EvenTrips(shortest, longest, read),
         Quick(longest, read), PacedInv(shortest, longest, read), Together,
         NEW d \in Console, Overscan(d), \A c \in Console : Parts(c, longest, read), NEW c \in Console
  PROVE  Flight(c, longest, read)'
<1> DEFINE p == Peer(d)
<1>1. /\ Settled /\ Cadence /\ Steps(d, longest, read) /\ Timely(d, longest)
      /\ \A e \in Console : Begin(e) /\ Flight(e, longest, read)
      /\ longest \in Nat /\ longest >= 2 /\ read \in Nat /\ K \in Nat \ {0} /\ D \in Nat \ {0}
  BY StepsOverscan, OfQuick DEF PacedInv, Parts
<1>2. /\ p \in Console /\ p # d /\ Peer(p) = d /\ tick[d] >= 0
      /\ Pos(p)' = Pos(p) /\ Pos(d)' = Pos(d) /\ fetch'[p] = fetch[p] /\ asked'[p] = asked[p]
      /\ Since(p, read)' = Since(p, read) /\ Since(p, read) \in Nat /\ Since(d, read) \in Nat
      /\ Since(d, read) <= longest /\ fetch'[d] = 0
      /\ tick[p] >= 0 => Since(p, read) >= 1
      /\ nst[d] # "SACK" /\ net[d] # <<>> => Since(d, read) <= read
      /\ \A t \in Int : (Taken(p, t)' <=> Taken(p, t)) /\ (Heard(p, t)' <=> Heard(p, t))
  BY <1>1 DEF Steps
<1>3. /\ tick[p] \in Int /\ tick[p] >= -1 /\ Pos(p) \in Int /\ Pos(d) \in Int /\ tick[d] \in Int
  BY <1>1, <1>2, Counters
<1>4. CASE c = d
  <2>1. ASSUME NEW t \in Int, ~Heard(d, t)', Known(d, t)'
        PROVE  Pos(p) <= K * (t - D) + longest + Since(d, read)' - 1
    <3>1. ~Heard(d, t) /\ Known(d, t) /\ nst[d] # "SACK" /\ Since(d, read)' = read
      BY <1>1, <2>1 DEF Steps, Writes, Reads, Consumes
    <3>2. net[d] # <<>>
      BY <3>1 DEF Heard, Known
    <3>3. PICK w \in Int : w = K * (t - D)
      BY <1>1
    <3>4. Pos(p) <= w + longest + Since(d, read) - 1
      BY <1>1, <3>1, <3>3 DEF Flight
    <3>5. Since(d, read) <= read
      BY <1>2, <3>1, <3>2
    <3> QED
      BY <1>1, <1>2, <1>3, <3>1, <3>3, <3>4, <3>5
  <2>2. ASSUME NEW t \in Int, ~Taken(d, t)', Heard(d, t)', asked'[d]
        PROVE  Pos(p) <= K * (t - D) + 2 * longest + fetch'[d] - 1
    <3>1. ~Heard(d, t) /\ Known(d, t)
      BY <1>1, <2>2 DEF Steps, Writes, Reads, Consumes
    <3>2. PICK w \in Int : w = K * (t - D)
      BY <1>1
    <3>3. Pos(p) <= w + longest + Since(d, read) - 1
      BY <1>1, <3>1, <3>2 DEF Flight
    <3>4. PICK a \in Int, r \in Int : a = Pos(p) /\ r = Since(d, read) /\ r <= longest
      BY <1>2, <1>3
    <3>5. a <= w + 2 * longest + 0 - 1
      BY <1>1, <3>3, <3>4
    <3> QED
      BY <1>2, <3>2, <3>4, <3>5
  <2> QED
    BY <1>2, <1>4, <2>1, <2>2 DEF Flight
<1>5. CASE c = p
  <2> SUFFICES ASSUME NEW t \in Int, ~Heard(p, t), Known(p, t)'
               PROVE  Pos(d) <= K * (t - D) + longest + Since(p, read) - 1
    <3>1. \A t \in Int : ~Taken(p, t) /\ Heard(p, t) /\ asked[p] =>
            Pos(d) <= K * (t - D) + 2 * longest + fetch[p] - 1
      BY <1>1, <1>2 DEF Flight
    <3> QED
      BY <1>2, <1>5, <3>1 DEF Flight
  <2>1. CASE Known(p, t)
    BY <1>1, <1>2, <2>1 DEF Flight
  <2>2. CASE ~Known(p, t)
    <3>1. ~Away(d)
      BY <1>1, <2>2 DEF Away, Steps, Writes, Reads, Consumes
    <3>2. PICK w \in Int : w = K * (t - D)
      BY <1>1
    <3>3. CASE tick[p] >= 0
      <4>1. Age(d, longest) = longest
        BY <3>1 DEF Age
      <4>2. Pos(d) <= w + longest
        BY <1>1, <1>2, <2>2, <3>2, <4>1, NotLongAgo
      <4>3. PICK a \in Int, r \in Int : a = Pos(d) /\ r = Since(p, read) /\ r >= 1
        BY <1>2, <1>3, <3>3
      <4>4. a <= w + longest + r - 1
        BY <1>1, <4>2, <4>3
      <4> QED
        BY <3>2, <4>3, <4>4
    <3>4. CASE tick[p] = -1
      <4>1. Pos(d) <= 1
        BY <1>1, <1>2, <3>4 DEF Begin
      <4>2. w >= 0
        <5>1. ~(t <= Newest(p))
          BY <2>2 DEF Known, Seen
        <5>2. rwat[p] \in Int
          BY <1>2, NewestInt
        <5>3. t - D \in Nat
          BY <1>1, <5>1, <5>2 DEF Newest
        <5> QED
          BY <1>1, <3>2, <5>3
      <4> QED
        BY SMTT(30), <1>1, <1>2, <1>3, <3>2, <4>1, <4>2
    <3> QED
      BY <1>3, <3>3, <3>4
  <2> QED
    BY <2>1, <2>2
<1> QED
  BY <1>1, <1>4, <1>5 DEF Steps

LEMMA LeadOverscan ==
  ASSUME HistInv, HistInv', NEW shortest, NEW longest, NEW read, EvenTrips(shortest, longest, read),
         PacedInv(shortest, longest, read), Together,
         NEW d \in Console, Overscan(d), \A c \in Console : Parts(c, longest, read), NEW c \in Console
  PROVE  Lead(c)'
<1>1. Steps(d, longest, read) /\ Lead(c) /\ Peer(c) \in Console
  BY StepsOverscan, Peers DEF Parts
<1>2. /\ Pos(c)' = Pos(c) /\ Pos(Peer(c))' = Pos(Peer(c)) /\ ran' = ran /\ turn' = turn
  BY <1>1 DEF Steps
<1> QED
  BY <1>1, <1>2 DEF Lead

LEMMA StallsOverscan ==
  ASSUME HistInv, HistInv', NEW shortest, NEW longest, NEW read, EvenTrips(shortest, longest, read),
         Quick(longest, read), PacedInv(shortest, longest, read), Together,
         NEW d \in Console, Overscan(d), \A c \in Console : Parts(c, longest, read), NEW c \in Console
  PROVE  Stalls(c, longest, read)'
<1> DEFINE p == Peer(d)
<1>1. /\ Settled /\ Cadence /\ Steps(d, longest, read) /\ longest \in Nat /\ longest >= 2
      /\ read \in Nat /\ D \in Nat
      /\ \A e \in Console : Stalls(e, longest, read) /\ Lead(e)
  BY StepsOverscan, OfQuick DEF PacedInv, Parts
<1>2. /\ p \in Console /\ p # d /\ Peer(p) = d /\ turn = p /\ turn' = p /\ tick[d] >= 0
      /\ stall' = stall /\ ran' = ran
      /\ Wanted(d)' = Wanted(d) /\ Wanted(p)' = Wanted(p) /\ Wanted(d) \in Int /\ Wanted(p) \in Int
      /\ trip'[p] = trip[p] /\ (Away(p)' <=> Away(p)) /\ asked'[p] = asked[p]
      /\ fetch'[p] = fetch[p] /\ fetch'[d] = 0
      /\ trip[d] \in Nat /\ trip[d] <= longest /\ fetch[p] \in Nat
      /\ Since(d, read) \in Nat /\ Since(d, read) <= longest
      /\ Since(p, read)' = Since(p, read) /\ Since(p, read) \in Nat
      /\ tick[p] >= 0 => Since(p, read) >= 1
      /\ nst[d] # "SACK" /\ net[d] # <<>> => Since(d, read) <= read
      /\ \A t \in Int : (Taken(p, t)' <=> Taken(p, t)) /\ (Heard(p, t)' <=> Heard(p, t))
  BY <1>1 DEF Steps
<1>3. /\ tick[p] \in Int /\ tick[p] >= -1 /\ trip[p] \in Nat /\ stall[p] \in Int
      /\ stall[d] \in Int /\ tick[d] \in Int /\ (tick[p] = -1 => ran[p])
  BY <1>1, <1>2, Counters
<1>4. CASE c = d
  <2> DEFINE w == Wanted(d)
  <2>1. Stalls(d, longest, read)
    BY <1>1
  <2>2. Known(d, w)' <=> Known(d, w)
    BY <1>1, <1>2 DEF Steps, Writes, Reads, Consumes
  <2>3. ASSUME ~ran[d], Known(d, w), ~Heard(d, w)'
        PROVE  stall[d] <= longest - 1 + Since(d, read)' - 0
    <3>1. ~Heard(d, w) /\ nst[d] # "SACK" /\ Since(d, read)' = read
      BY <1>1, <1>2, <2>3 DEF Steps, Writes, Reads, Consumes
    <3>2. net[d] # <<>>
      BY <2>3, <3>1 DEF Heard, Known
    <3>3. Since(d, read) <= read
      BY <1>2, <3>1, <3>2
    <3>4. stall[d] <= longest - 1 + Since(d, read) - 0
      BY <1>2, <2>1, <2>3, <3>1 DEF Stalls
    <3> QED
      BY <1>1, <1>2, <1>3, <3>1, <3>3, <3>4
  <2>7. ASSUME ~ran[d], Heard(d, w)', ~Taken(d, w)', asked'[d]
        PROVE  stall[d] <= 2 * longest - 1 + fetch'[d] - 0
    <3>1. ~Heard(d, w) /\ Known(d, w)
      BY <1>1, <1>2, <2>7 DEF Steps, Writes, Reads, Consumes
    <3>2. stall[d] <= longest - 1 + Since(d, read) - 0
      BY <1>2, <2>1, <2>7, <3>1 DEF Stalls
    <3>3. PICK r \in Int : r = Since(d, read) /\ r <= longest
      BY <1>2
    <3>4. stall[d] <= 2 * longest - 1 + 0 - 0
      BY <1>1, <1>3, <3>2, <3>3
    <3> QED
      BY <1>2, <3>4
  <2>4. ran[d] => stall[d] = 0
    BY <2>1 DEF Stalls
  <2>5. ~ran[d] /\ ~Known(d, w) => stall[d] <= (IF Away(p) THEN trip[p] ELSE longest) - 1
    BY <1>2, <2>1 DEF Stalls
  <2>6. /\ Known(d, Wanted(d))' <=> Known(d, w)'
        /\ Heard(d, Wanted(d))' <=> Heard(d, w)'
        /\ Taken(d, Wanted(d))' <=> Taken(d, w)'
    BY <1>2
  <2> QED
    BY <1>2, <1>4, <2>2, <2>3, <2>4, <2>5, <2>6, <2>7 DEF Stalls
<1>5. CASE c = p
  <2> DEFINE w == Wanted(p)
  <2>1. Stalls(p, longest, read)
    BY <1>1, <1>2
  <2>2. ran[p] => stall[p] = 0
    BY <2>1 DEF Stalls
  <2>3. ASSUME ~ran[p], ~Known(p, w)
        PROVE  stall[p] <= (IF Away(d) THEN trip[d] ELSE longest) - 1
    BY <1>2, <2>1, <2>3 DEF Stalls
  <2>4. ASSUME ~ran[p], ~Known(p, w)'
        PROVE  stall[p] <= (IF Away(d)' THEN trip'[d] ELSE longest) - 1
    <3>1. CASE Writes(d, read)
      <4>1. Reached(p)
        BY <1>1, <1>2, LeadReaches
      <4>2. w <= tick[d] + D
        BY <1>1, <1>2, <1>3, <2>4, <4>1 DEF Reached
      <4> QED
        BY <1>2, <2>4, <3>1, <4>2 DEF Writes
    <3>2. CASE Reads(d)
      <4>1. ~Known(p, w) /\ Away(d) /\ (Away(d)' => trip'[d] = trip[d])
        BY <1>2, <2>4, <3>2 DEF Reads, Away
      <4>2. stall[p] <= trip[d] - 1
        BY <2>3, <2>4, <4>1
      <4> QED
        BY SMTT(30), <1>1, <1>2, <1>3, <4>1, <4>2
    <3>3. CASE Consumes(d, read)
      <4>1. ~Known(p, w) /\ ~Away(d)'
        BY <1>2, <2>4, <3>3 DEF Consumes, Away
      <4> QED
        BY SMTT(30), <1>1, <1>2, <1>3, <2>3, <2>4, <4>1
    <3> QED
      BY <1>1, <3>1, <3>2, <3>3 DEF Steps
  <2>5. ASSUME ~ran[p], Known(p, w)', ~Heard(p, w)
        PROVE  stall[p] <= longest - 1 + Since(p, read) - 1
    <3>1. CASE Known(p, w)
      BY <1>2, <2>1, <2>5, <3>1 DEF Stalls
    <3>2. CASE ~Known(p, w)
      <4>1. ~Away(d)
        BY <1>1, <1>2, <2>5, <3>2 DEF Steps, Writes, Reads, Consumes, Away
      <4>2. stall[p] <= longest - 1
        BY <2>3, <2>5, <3>2, <4>1
      <4>3. Since(p, read) >= 1
        BY <1>2, <1>3, <2>5
      <4> QED
        BY SMTT(30), <1>1, <1>2, <1>3, <4>2, <4>3
    <3> QED
      BY <3>1, <3>2
  <2>6. /\ Known(p, Wanted(p))' <=> Known(p, w)'
        /\ Heard(p, Wanted(p))' <=> Heard(p, w)
        /\ Taken(p, Wanted(p))' <=> Taken(p, w)
    BY <1>2
  <2>7. ASSUME ~ran[p], Heard(p, w), ~Taken(p, w), asked[p]
        PROVE  stall[p] <= 2 * longest - 1 + fetch[p] - 1
    BY <1>2, <2>1, <2>7 DEF Stalls
  <2> QED
    BY <1>2, <1>5, <2>2, <2>4, <2>5, <2>6, <2>7 DEF Stalls
<1> QED
  BY <1>1, <1>4, <1>5 DEF Steps


LEMMA SilentStep ==
  ASSUME HistInv, HistInv', Settled, Cadence, MaxFaults = 0, [PacedNext]_pacedVars, Together',
         NEW c \in Console, Silent(c)
  PROVE  Silent(c)'
<1>1. /\ net[c] \in Seq(Message) /\ reply[c] \in Seq(Message) /\ TypeInv /\ TypeInv'
      /\ net'[c] \in Seq(Message) /\ reply'[c] \in Seq(Message)
      /\ DOMAIN net[c] = 1 .. Len(net[c]) /\ DOMAIN reply[c] = 1 .. Len(reply[c])
  <2>1. TypeInv /\ TypeInv'
    BY DEF HistInv, SkewInv
  <2>2. net[c] \in Seq(Message) /\ reply[c] \in Seq(Message)
    BY <2>1 DEF TypeInv, TypeOK, TransportTypes
  <2>3. net'[c] \in Seq(Message) /\ reply'[c] \in Seq(Message)
    BY <2>1 DEF TypeInv, TypeOK, TransportTypes
  <2> QED
    BY <2>1, <2>2, <2>3
<1>2. /\ \A i \in DOMAIN net[c] : IsInput(net[c][i])
      /\ \A i \in DOMAIN reply[c] : IsInput(reply[c][i])
  BY DEF Silent, Queued, Window
<1>3. SUFFICES /\ \A i \in DOMAIN net'[c] : IsInput(net'[c][i])
               /\ \A i \in DOMAIN reply'[c] : IsInput(reply'[c][i])
  BY DEF Silent, Queued, Window, IsInput
<1>4. CASE reply'[c] = reply[c] /\ net'[c] = net[c]
  BY <1>2, <1>4
<1>5. CASE reply'[c] = reply[c] /\ net'[c] = Append(net[c], RecordOf(Peer(c), TRUE))
  <2>1. IsInput(RecordOf(Peer(c), TRUE))
    BY DEF IsInput, RecordOf
  <2>2. /\ Len(net[c]) \in Nat /\ DOMAIN net'[c] = 1 .. Len(net[c]) + 1
        /\ \A i \in 1 .. Len(net[c]) : net'[c][i] = net[c][i]
        /\ net'[c][Len(net[c]) + 1] = RecordOf(Peer(c), TRUE)
    BY <1>1, <1>5, Grown
  <2>3. \A i \in 1 .. Len(net[c]) + 1 : i \in 1 .. Len(net[c]) \/ i = Len(net[c]) + 1
    BY <2>2
  <2> QED
    BY <1>1, <1>2, <1>5, <2>1, <2>2, <2>3
<1>6. CASE reply'[c] = net[c] /\ net'[c] = <<>>
  BY <1>2, <1>6
<1>7. CASE Consume(c) /\ net'[c] = net[c]
  <2>1. reply[c] # <<>>
    BY <1>7 DEF HistInv, SkewInv, TypeInv, WindowInUse, Consume, Stepping
  <2>2. PICK n \in Nat \ {0} : n = Len(reply[c])
    <3>1. Len(reply[c]) \in Nat \ {0}
      BY <1>1, <2>1
    <3> QED
      BY <3>1
  <2>3. reply'[c] = SubSeq(reply[c], 1, n - 1)
    BY <1>1, <1>7, <2>2 DEF Consume, TypeInv, TypeOK, TransportTypes
  <2>4. DOMAIN reply'[c] \subseteq DOMAIN reply[c] /\ \A i \in DOMAIN reply'[c] : reply'[c][i] = reply[c][i]
    <3>1. n - 1 \in 0 .. Len(reply[c])
      BY <2>2
    <3>2. /\ Len(reply'[c]) = n - 1
          /\ \A i \in 1 .. n - 1 : reply'[c][i] = reply[c][i]
      BY <1>1, <2>2, <2>3, <3>1, SplitSeq
    <3>3. DOMAIN reply'[c] = 1 .. n - 1
      BY <1>1, <3>2
    <3>4. 1 .. n - 1 \subseteq 1 .. n
      BY <2>2
    <3> QED
      BY <1>1, <2>2, <3>2, <3>3, <3>4
  <2> QED
    BY <1>2, <1>7, <2>4
<1> QED
  BY <1>4, <1>5, <1>6, <1>7, Mail

(* A console that has stopped racing stays as it is.                       *)
LEMMA ModeStays ==
  ASSUME HistInv, [PacedNext]_pacedVars, NEW d \in Console, mode[d] # "race"
  PROVE  mode'[d] = mode[d]
<1>1. [Next]_vars /\ mode \in [Console -> {"race", "left", "off"}]
  BY PacedIsNext DEF HistInv, SkewInv, TypeInv, TypeOK, GateTypes
<1>2. ASSUME NEW c \in Console, DGSHIM(c) \/ DGNSTEP(c) \/ PowerOff(c)
      PROVE  mode'[d] = mode[d]
  <2>1. CASE DGSHIM(c)
    <3>1. c # d
      BY <2>1 DEF DGSHIM, MidTick, Boundary, Racing
    <3>2. mode' = mode \/ mode' = [mode EXCEPT ![c] = "left"]
      BY <2>1 DEF DGSHIM, MidTick, Boundary, RunTick, Stall
    <3> QED
      BY <1>1, <3>1, <3>2
  <2>2. CASE DGNSTEP(c)
    BY <2>2 DEF DGNSTEP, Write, Read, Fail, Consume
  <2>3. CASE PowerOff(c)
    BY <1>1, <2>3 DEF PowerOff, Racing
  <2> QED
    BY <1>2, <2>1, <2>2, <2>3
<1>3. UNCHANGED vars => mode'[d] = mode[d]
  BY DEF vars
<1> QED
  BY <1>1, <1>2, <1>3 DEF Next

LEMMA NobodyLeftStep ==
  ASSUME HistInv, NEW shortest, NEW longest, NEW read, EvenTrips(shortest, longest, read),
         Quick(longest, read), PacedInv(shortest, longest, read), PatientInv(longest, read), [PacedNext]_pacedVars
  PROVE  NobodyLeft'
<1>1. /\ mode \in [Console -> {"race", "left", "off"}] /\ NobodyLeft
      /\ Settled /\ Cadence /\ MaxFaults = 0
  BY OfTrips DEF HistInv, SkewInv, TypeInv, TypeOK, GateTypes, PatientInv, PacedInv
<1>2. SUFFICES ASSUME NEW c \in Console, mode'[c] = "left" PROVE mode'[Peer(c)] = "off"
  BY DEF NobodyLeft
<1> DEFINE p == Peer(c)
<1>3. p \in Console /\ p # c /\ Peer(p) = c /\ (\A e \in Console : e = c \/ e = p)
  BY Peers, TwoConsoles
<1>4. CASE mode[p] = "off"
  BY <1>3, <1>4, ModeStays
<1>5. CASE mode[c] # "race"
  <2>1. mode[c] = "left"
    BY <1>2, <1>5, ModeStays
  <2> QED
    BY <1>1, <1>4, <2>1 DEF NobodyLeft
<1>6. CASE mode[p] = "left"
  BY <1>1, <1>2, <1>3, <1>6, ModeStays DEF NobodyLeft
<1>7. CASE mode[c] = "race" /\ mode[p] = "race"
  <2>1. Together
    BY <1>3, <1>7 DEF Together, Racing
  <2>2. \A e \in Console : Parts(e, longest, read)
    BY <2>1 DEF PatientInv, Parts
  <2>3. ASSUME NEW d \in Console, Frame(d) PROVE mode' = mode
    BY <2>1, <2>2, <2>3, NobodyLeaves
  <2>4. ASSUME NEW d \in Console, Overscan(d) PROVE mode' = mode
    BY <1>1, <2>4, OverscanCells
  <2>5. ASSUME NEW d \in Console, Leave(d) PROVE mode' = [mode EXCEPT ![d] = "off"]
    BY <2>5 DEF Leave, PowerOff
  <2>6. mode' = mode \/ \E d \in Console : mode' = [mode EXCEPT ![d] = "off"]
    BY <2>3, <2>4, <2>5 DEF PacedNext, pacedVars, vars
  <2> QED
    BY <1>1, <1>2, <1>3, <1>7, <2>6
<1> QED
  BY <1>1, <1>3, <1>4, <1>5, <1>6, <1>7

LEMMA PatientStarts ==
  ASSUME NEW shortest, NEW longest, NEW read, EvenTrips(shortest, longest, read), Quick(longest, read), PacedInit
  PROVE  PatientInv(longest, read)
<1>1. /\ Init /\ trip = [c \in Console |-> 0] /\ asked = [c \in Console |-> FALSE]
      /\ K * D \in Nat /\ K * D >= 1 /\ D \in Nat
  BY OfQuick DEF PacedInit
<1>2. ASSUME NEW c \in Console
      PROVE  /\ mode[c] = "race" /\ tick[c] = -1 /\ nst[c] = "WISS" /\ trip[c] = 0 /\ ~asked[c]
             /\ net[c] = <<>> /\ reply[c] = <<>>
             /\ ran[c] /\ stall[c] = 0 /\ rwat[c] = -2 /\ Pos(c) = 0
  BY <1>1 DEF Init, Pos
<1>3. NobodyLeft
  BY <1>2 DEF NobodyLeft
<1>4. ASSUME NEW c \in Console PROVE Parts(c, longest, read)
  <2>1. Peer(c) \in Console /\ Queued(c) = {} /\ Window(c) = {} /\ Inputs(c) = {}
    BY <1>2, Peers DEF Queued, Window, Inputs
  <2>2. ~Heard(c, D)
    BY <1>1, <1>2, <2>1 DEF Heard, Seen, Newest
  <2>3. \A t : (Known(c, t) <=> Heard(c, t)) /\ (Heard(c, t) <=> Taken(c, t))
    BY <1>2, <2>1 DEF Known, Heard, Taken, Seen
  <2>4. Silent(c) /\ Begin(c) /\ Greeted(c) /\ Fresh(c) /\ First(c)
    BY <1>2, <2>1, <2>2 DEF Silent, Begin, Greeted, Fresh, First
  <2>5. Flight(c, longest, read) /\ Stalls(c, longest, read)
    BY <1>2, <2>3 DEF Flight, Stalls
  <2>6. Lead(c)
    BY <1>1, <1>2, <2>1 DEF Lead
  <2> QED
    BY <2>4, <2>5, <2>6 DEF Parts
<1> QED
  BY <1>3, <1>4 DEF PatientInv, Parts

LEMMA PatientStep ==
  ASSUME HistInv, HistInv', NEW shortest, NEW longest, NEW read, EvenTrips(shortest, longest, read),
         Quick(longest, read), PacedInv(shortest, longest, read), PacedInv(shortest, longest, read)',
         PatientInv(longest, read), [PacedNext]_pacedVars
  PROVE  PatientInv(longest, read)'
<1>1. /\ Settled /\ Cadence /\ Settled' /\ Cadence' /\ MaxFaults = 0
  BY OfTrips DEF PacedInv
<1>2. NobodyLeft'
  BY NobodyLeftStep
<1>3. ASSUME Together', NEW c \in Console PROVE Parts(c, longest, read)'
  <2>1. Together /\ (UNCHANGED pacedVars \/ \E d \in Console : Frame(d) \/ Overscan(d))
    BY <1>3, TogetherSteps
  <2>2. \A e \in Console : Parts(e, longest, read)
    BY <2>1 DEF PatientInv, Parts
  <2>3. Silent(c)'
    BY <1>1, <1>3, <2>2, SilentStep DEF Parts
  <2>4. ASSUME NEW d \in Console, Frame(d)
        PROVE  /\ Begin(c)' /\ Greeted(c)' /\ Fresh(c)' /\ First(c)'
               /\ Flight(c, longest, read)' /\ Lead(c)' /\ Stalls(c, longest, read)'
    BY <1>1, <1>3, <2>1, <2>2, <2>4, StartFrame, FirstFrame, FlightFrame, LeadFrame, StallsFrame
  <2>5. ASSUME NEW d \in Console, Overscan(d)
        PROVE  /\ Begin(c)' /\ Greeted(c)' /\ Fresh(c)' /\ First(c)'
               /\ Flight(c, longest, read)' /\ Lead(c)' /\ Stalls(c, longest, read)'
    BY <1>1, <2>1, <2>2, <2>5, StartOverscan, FirstOverscan, FlightOverscan, LeadOverscan,
       StallsOverscan
  <2>6. CASE UNCHANGED pacedVars
    <3>1. UNCHANGED <<tick, nst, trip, asked, fetch, net, turn, reply, clk, ran, rwat, stall>>
      BY <2>6 DEF pacedVars, vars, gateVars, xportVars
    <3>2. \A e \in Console : /\ Pos(e)' = Pos(e) /\ Wanted(e)' = Wanted(e)
                             /\ Since(e, read)' = Since(e, read) /\ (Away(e)' <=> Away(e))
      BY <3>1 DEF Pos, Wanted, Since, Away
    <3>3. \A e \in Console : \A t : /\ Heard(e, t)' <=> Heard(e, t)
                                    /\ Known(e, t)' <=> Known(e, t)
                                    /\ Taken(e, t)' <=> Taken(e, t)
      BY <3>1 DEF Heard, Known, Taken, Seen, Newest, Inputs, Window
    <3>4. Peer(c) \in Console
      BY Peers
    <3>5. Begin(c)' /\ Greeted(c)' /\ Fresh(c)' /\ First(c)'
      BY <2>2, <3>1, <3>2, <3>3, <3>4 DEF Parts, Begin, Greeted, Fresh, First
    <3>6. Flight(c, longest, read)' /\ Lead(c)'
      BY <2>2, <3>1, <3>2, <3>3, <3>4 DEF Parts, Flight, Lead
    <3>7. Stalls(c, longest, read)'
      BY <2>2, <3>1, <3>2, <3>3, <3>4 DEF Parts, Stalls
    <3> QED
      BY <2>3, <3>5, <3>6, <3>7 DEF Parts
  <2>7. CASE \E d \in Console : Frame(d) \/ Overscan(d)
    BY <2>3, <2>4, <2>5, <2>7 DEF Parts
  <2> QED
    BY <2>1, <2>6, <2>7
<1> QED
  BY <1>2, <1>3 DEF PatientInv, Parts

(* No console gives up for gone a peer that is there (DGSTALL and DGGONE,  *)
(* dgcap.inc:77-92): no delay of its own and its peer's trips outlasts the *)
(* count, so the watchdog and the PEER LEFT screen tell the truth.         *)
THEOREM WatchdogTellsTheTruth ==
  ASSUME NEW CONSTANT shortest, NEW CONSTANT longest, NEW CONSTANT read,
         EvenTrips(shortest, longest, read), Quick(longest, read)
  PROVE  PacedSpec => []NobodyLeft
<1>1. PacedInit => PatientInv(longest, read)
  BY PatientStarts
<1>2. /\ HistInv /\ HistInv' /\ PacedInv(shortest, longest, read) /\ PacedInv(shortest, longest, read)'
      /\ PatientInv(longest, read) /\ [PacedNext]_pacedVars
      => PatientInv(longest, read)'
  BY PatientStep
<1>3. PatientInv(longest, read) => NobodyLeft
  BY DEF PatientInv
<1> QED
  BY <1>1, <1>2, <1>3, PacedInvariant, PTL DEF PacedSpec

=============================================================================
