--------------------------- MODULE LockstepProofs ---------------------------
(***************************************************************************)
(* Theorems about the lockstep core, for every delay, ring size and tick   *)
(* width the assumptions of Lockstep allow, and for every interleaving of  *)
(* the two consoles' frames and transport steps.                           *)
(***************************************************************************)
EXTENDS Lockstep, SequenceTheorems, FiniteSetTheorems, TLAPS

(***************************************************************************)
(* Arithmetic of the one-byte tick.                                        *)
(***************************************************************************)

(* A residue is the number itself on 0..M-1 and one lap up below zero.     *)
LEMMA SmallMod ==
  ASSUME NEW M \in Nat \ {0}, NEW x \in Int, 0 <= x, x < M
  PROVE  x % M = x
OBVIOUS

LEMMA NegativeMod ==
  ASSUME NEW M \in Nat \ {0}, NEW x \in Int, -M <= x, x < 0
  PROVE  x % M = x + M
OBVIOUS

LEMMA ModRange ==
  ASSUME NEW M \in Nat \ {0}, NEW x \in Int
  PROVE  x % M \in 0 .. M - 1
OBVIOUS

(* Half of the byte's range, and what the assumptions say of it.           *)
Half == TickMod \div 2

LEMMA HalfOfTicks ==
  /\ Half \in Nat /\ Half >= 2 * D + 4
  /\ 2 * Half <= TickMod
  /\ TickMod \in Nat \ {0}
<1>1. TickMod \in Nat /\ D \in Nat \ {0}
  BY Sizes
<1>2. Half \in Nat /\ 2 * Half <= TickMod
  BY <1>1 DEF Half
<1>3. Half >= 2 * D + 4
  BY HalfRange DEF Half
<1> QED
  BY <1>1, <1>2, <1>3

(* The signed compare of two ticks is exact while they are less than half  *)
(* the byte's range apart.                                                 *)
LEMMA NotBehindExact ==
  ASSUME NEW a \in Int, NEW b \in Int, a - b < Half, b - a <= Half
  PROVE  NotBehind(a, b) <=> a >= b
<1>1. Half \in Nat /\ Half > 0 /\ 2 * Half <= TickMod /\ TickMod \in Nat \ {0}
  BY HalfOfTicks, Sizes
<1>2. CASE a >= b
  <2>1. (a - b) % TickMod = a - b
    BY <1>1, <1>2, SmallMod
  <2> QED
    BY <1>1, <1>2, <2>1 DEF NotBehind, Half
<1>3. CASE a < b
  <2>1. (a - b) % TickMod = a - b + TickMod
    BY <1>1, <1>3, NegativeMod
  <2> QED
    BY <1>1, <1>3, <2>1 DEF NotBehind, Half
<1> QED
  BY <1>2, <1>3

(* Two ticks less than a lap apart are congruent only when they are equal. *)
LEMMA CongruentExact ==
  ASSUME NEW x \in Int, -TickMod < x, x < TickMod
  PROVE  x % TickMod = 0 <=> x = 0
<1>1. TickMod \in Nat \ {0}
  BY HalfOfTicks
<1>2. CASE x >= 0
  BY <1>1, <1>2, SmallMod
<1>3. CASE x < 0
  BY <1>1, <1>3, NegativeMod
<1> QED
  BY <1>2, <1>3

(***************************************************************************)
(* What a READ takes and what it leaves.                                   *)
(***************************************************************************)
LEMMA SplitSeq ==
  ASSUME NEW S, NEW s \in Seq(S), NEW n \in 0 .. Len(s)
  PROVE  /\ SubSeq(s, 1, n) \in Seq(S)
         /\ Len(SubSeq(s, 1, n)) = n
         /\ \A i \in 1 .. n : SubSeq(s, 1, n)[i] = s[i]
         /\ SubSeq(s, n + 1, Len(s)) \in Seq(S)
         /\ Len(SubSeq(s, n + 1, Len(s))) = Len(s) - n
         /\ \A i \in 1 .. Len(s) - n : SubSeq(s, n + 1, Len(s))[i] = s[n + i]
<1>1. Len(s) \in Nat /\ n \in Nat /\ n <= Len(s)
  BY LenProperties
<1>2. \A i \in 1 .. Len(s) : s[i] \in S
  BY ElementOfSeq
<1>3. /\ SubSeq(s, 1, n) \in Seq(S)
      /\ Len(SubSeq(s, 1, n)) = n
      /\ \A i \in 1 .. n : SubSeq(s, 1, n)[i] = s[i]
  BY <1>1, <1>2
<1>4. /\ SubSeq(s, n + 1, Len(s)) \in Seq(S)
      /\ Len(SubSeq(s, n + 1, Len(s))) = Len(s) - n
      /\ \A i \in 1 .. Len(s) - n : SubSeq(s, n + 1, Len(s))[i] = s[n + i]
  BY <1>1, <1>2
<1> QED
  BY <1>3, <1>4

LEMMA EmptyIffNoLength ==
  ASSUME NEW S, NEW s \in Seq(S)
  PROVE  s = <<>> <=> Len(s) = 0
BY EmptySeq

(***************************************************************************)
(* Type correctness.                                                       *)
(***************************************************************************)

(* The reply window is in use exactly while the machine consumes.          *)
WindowInUse == \A c \in Console : nst[c] = "CONS" <=> reply[c] # <<>>

TypeInv == TypeOK /\ WindowInUse

LEMMA Peers ==
  ASSUME NEW c \in Console
  PROVE  Peer(c) \in Console /\ Peer(c) # c /\ Peer(Peer(c)) = c
BY DEF Peer, Console

LEMMA CrcType ==
  ASSUME NEW a \in Seq(Byte \X Byte), NEW frames \in Nat
  PROVE  DGCRC(a, frames) \in Crc
<1> DEFINE Since == {k \in DOMAIN a : \A j \in k .. Len(a) : ~Restages(a[j])}
<1>1. \A i \in Since : <<i, a[i]>> \in Nat \X (Byte \X Byte)
  OBVIOUS
<1>2. {<<i, a[i]>> : i \in Since} \in SUBSET (Nat \X (Byte \X Byte))
  BY <1>1
<1> DEFINE Moves == {i \in DOMAIN a : Selects(a[i])}
<1>3. Cardinality(Moves) % 2 \in 0 .. 1
  <2>1. Moves \subseteq 1 .. Len(a) /\ Len(a) \in Nat
    OBVIOUS
  <2>2. IsFiniteSet(1 .. Len(a))
    BY <2>1, FS_Interval
  <2>3. Cardinality(Moves) \in Nat
    BY <2>1, <2>2, FS_Subset, FS_CardinalityType
  <2>4. Cardinality(Moves) % 2 \in 0 .. 2 - 1
    BY <2>3, ModRange
  <2> QED
    BY <2>4
<1> QED
  BY <1>2, <1>3 DEF DGCRC, Crc

LEMMA RecordType ==
  ASSUME TypeOK, NEW c \in Console, tick[c] >= 0, NEW good \in BOOLEAN
  PROVE  RecordOf(c, good) \in Record
<1> DEFINE t == tick[c] + D
           slot(i) == (t - (i - 1)) % LocSize
<1>1. t \in Nat
  <2>1. tick[c] \in Nat \cup {-1}
    BY DEF TypeOK, CaptureTypes
  <2> QED
    BY <2>1, Sizes
<1>2. ASSUME NEW i \in 1 .. Win PROVE loc[c][slot(i)] \in Byte
  <2>1. LocSize \in Nat \ {0} /\ t - (i - 1) \in Int
    BY <1>1, Sizes
  <2>2. slot(i) \in 0 .. LocSize - 1
    BY <2>1, ModRange
  <2>3. loc[c] \in [0 .. LocSize - 1 -> Byte]
    BY DEF TypeOK, CaptureTypes
  <2> QED
    BY <2>2, <2>3
<1>3. [i \in 1 .. Win |-> loc[c][slot(i)]] \in [1 .. Win -> Byte]
  BY <1>2
<1>4. crcv[c] \in Crc
  BY DEF TypeOK, CaptureTypes
<1>5. RecordOf(c, good) = [type |-> "INPUT", tick |-> t, good |-> good, crc |-> crcv[c],
                           win |-> [i \in 1 .. Win |-> loc[c][slot(i)]]]
  BY DEF RecordOf
<1> HIDE DEF t, slot
<1> QED
  BY <1>1, <1>3, <1>4, <1>5 DEF Record

LEMMA FillType ==
  ASSUME NEW slots \in [0 .. RingSize - 1 -> Byte], NEW rec \in Record
  PROVE  Fill(slots, rec) \in [0 .. RingSize - 1 -> Byte]
<1> DEFINE i(s) == (rec.tick - s) % RingSize
<1>1. ASSUME NEW s \in 0 .. RingSize - 1 PROVE i(s) \in Nat
  <2>1. rec.tick - s \in Int /\ RingSize \in Nat \ {0}
    BY Sizes DEF Record
  <2> QED
    BY <2>1, ModRange
<1>2. ASSUME NEW s \in 0 .. RingSize - 1
      PROVE  (IF i(s) < Win THEN rec.win[i(s) + 1] ELSE slots[s]) \in Byte
  <2>1. rec.win \in [1 .. Win -> Byte]
    BY DEF Record
  <2>2. i(s) < Win => i(s) + 1 \in 1 .. Win
    BY <1>1, Sizes
  <2> QED
    BY <2>1, <2>2
<1>3. Fill(slots, rec) =
        [s \in 0 .. RingSize - 1 |-> IF i(s) < Win THEN rec.win[i(s) + 1] ELSE slots[s]]
  BY DEF Fill
<1> HIDE DEF i
<1> QED
  BY <1>2, <1>3

LEMMA TypeInit == Init => TypeInv
<1> SUFFICES ASSUME Init PROVE TypeInv
  OBVIOUS
<1>1. DGCRC(<<>>, 0) \in Crc
  <2>1. <<>> \in Seq(Byte \X Byte) /\ 0 \in Nat
    OBVIOUS
  <2> QED
    BY <2>1, CrcType
<1>2. Idle \in Byte
  BY DEF Idle, Byte
<1>3. [c \in Console |-> DGCRC(<<>>, 0)] \in [Console -> Crc]
  BY <1>1
<1> HIDE DEF Idle, DGCRC, Crc
<1>4. TypeOK
  BY <1>2, <1>3, Sizes
     DEF Init, TypeOK, GateTypes, CaptureTypes, RemoteTypes, TransportTypes
<1>5. WindowInUse
  BY DEF Init, WindowInUse
<1> QED
  BY <1>4, <1>5 DEF TypeInv

(* Mid-tick, a frame moves the phase and the sim clock.                    *)
LEMMA TypeMidTick ==
  ASSUME TypeInv, NEW c \in Console, MidTick(c)
  PROVE  TypeInv'
<1>1. GateTypes /\ CaptureTypes /\ RemoteTypes /\ TransportTypes /\ WindowInUse
  BY DEF TypeInv, TypeOK
<1>2. (phase[c] + 1) % K \in 0 .. K - 1
  <2>1. phase[c] + 1 \in Int /\ K \in Nat \ {0}
    BY <1>1, Sizes DEF GateTypes
  <2> QED
    BY <2>1, ModRange
<1>3. GateTypes'
  BY <1>1, <1>2, SMTT(30) DEF GateTypes, MidTick
<1>4. CaptureTypes' /\ RemoteTypes' /\ TransportTypes' /\ WindowInUse'
  BY <1>1 DEF CaptureTypes, RemoteTypes, TransportTypes, WindowInUse, MidTick, xportVars
<1> QED
  BY <1>3, <1>4 DEF TypeInv, TypeOK

(* The first half of a boundary commits a tick, or leaves it as it was.    *)
LEMMA TypeAdvance ==
  ASSUME TypeInv, NEW c \in Console, Advance(c)
  PROVE  CaptureTypes'
<1>1. GateTypes /\ CaptureTypes
  BY DEF TypeInv, TypeOK
<1>2. CASE Retry(c)
  BY <1>1, <1>2 DEF CaptureTypes, Retry
<1>3. ASSUME NEW press \in Switch, Commit(c, press)
      PROVE  CaptureTypes'
  <2> DEFINE t == tick[c] + 1
             byte == DGCAP(c, t, press)
             slot == (t + D) % LocSize
  <2>1. t \in Nat /\ t + D \in Nat
    <3>1. tick[c] \in Nat \cup {-1}
      BY <1>1 DEF CaptureTypes
    <3>2. D \in Nat
      BY Sizes
    <3> QED
      BY <3>1, <3>2
  <2>2. byte \in Byte
    BY <1>1, <2>1 DEF DGCAP, Byte, CaptureTypes
  <2>3. slot \in 0 .. LocSize - 1
    <3>1. LocSize \in Nat \ {0} /\ t + D \in Int
      BY <2>1, Sizes
    <3> QED
      BY <3>1, ModRange
  <2>4. DGCRC(applied[c], clk[c]) \in Crc
    BY <1>1, CrcType DEF GateTypes
  <2>5. /\ tick' = [tick EXCEPT ![c] = t]
        /\ crcv' = [crcv EXCEPT ![c] = DGCRC(applied[c], clk[c])]
        /\ loc' = [loc EXCEPT ![c] = [loc[c] EXCEPT ![slot] = byte]]
        /\ rsy' = [rsy EXCEPT ![c] = FALSE]
        /\ cap' = [cap EXCEPT ![c] = Append(cap[c], byte)]
        /\ presses' = presses + (IF press = "none" THEN 0 ELSE 1)
    BY <1>3 DEF Commit
  <2> HIDE DEF t, byte, slot
  <2>6. [loc[c] EXCEPT ![slot] = byte] \in [0 .. LocSize - 1 -> Byte]
    BY <1>1, <2>2, <2>3 DEF CaptureTypes
  <2>7. Append(cap[c], byte) \in Seq(Byte)
    BY <1>1, <2>2 DEF CaptureTypes
  <2>8. presses' \in Nat
    BY <1>1, <2>5 DEF CaptureTypes
  <2> QED
    BY <1>1, <2>1, <2>4, <2>5, <2>6, <2>7, <2>8 DEF CaptureTypes
<1> QED
  BY <1>2, <1>3 DEF Advance

(* A boundary: the tick runs, or the frame stalls.                         *)
LEMMA TypeBoundary ==
  ASSUME TypeInv, NEW c \in Console, Boundary(c)
  PROVE  TypeInv'
<1>1. GateTypes /\ CaptureTypes /\ RemoteTypes /\ TransportTypes /\ WindowInUse
  BY DEF TypeInv, TypeOK
<1>2. /\ phase[c] = 0 /\ Advance(c) /\ (RunTick(c) \/ Stall(c))
      /\ UNCHANGED <<err, ring, rwat, nst, reply, net, faults>>
  BY DEF Boundary, xportVars
<1>3. CaptureTypes'
  BY <1>2, TypeAdvance
<1>4. RemoteTypes' /\ TransportTypes' /\ WindowInUse'
  BY <1>1, <1>2 DEF RemoteTypes, TransportTypes, WindowInUse
<1>5. CASE RunTick(c)
  <2> DEFINE t == tick'[c]
             own == loc'[c][t % LocSize]
             remote == ring[c][t % RingSize]
  <2>1. own \in Byte /\ remote \in Byte
    <3>1. tick'[c] \in Int /\ LocSize \in Nat \ {0} /\ RingSize \in Nat \ {0}
      BY <1>3, Sizes DEF CaptureTypes
    <3>2. t % LocSize \in 0 .. LocSize - 1 /\ t % RingSize \in 0 .. RingSize - 1
      BY <3>1, ModRange
    <3> QED
      BY <1>1, <1>3, <3>2, ZenonT(30) DEF CaptureTypes, RemoteTypes
  <2>2. Pair(c, own, remote) \in Byte \X Byte
    BY <2>1 DEF Pair
  <2>3. Append(applied[c], Pair(c, own, remote)) \in Seq(Byte \X Byte)
    BY <1>1, <2>2 DEF GateTypes
  <2>4. (phase[c] + 1) % K \in 0 .. K - 1
    <3>1. phase[c] + 1 \in Int /\ K \in Nat \ {0}
      BY <1>1, Sizes DEF GateTypes
    <3> QED
      BY <3>1, ModRange
  <2>5. /\ stall' = [stall EXCEPT ![c] = 0]
        /\ applied' = [applied EXCEPT ![c] = Append(applied[c], Pair(c, own, remote))]
        /\ ran' = [ran EXCEPT ![c] = TRUE]
        /\ phase' = [phase EXCEPT ![c] = (phase[c] + 1) % K]
        /\ clk' = [clk EXCEPT ![c] = clk[c] + 1]
        /\ mode' = mode
    BY <1>5 DEF RunTick
  <2> HIDE DEF own, remote
  <2>6. 0 \in 0 .. StallMax /\ c \in Console
    BY Sizes
  <2>7. GateTypes'
    BY <1>1, <2>3, <2>4, <2>5, <2>6, SMTT(30) DEF GateTypes
  <2> QED
    BY <1>3, <1>4, <2>7 DEF TypeInv, TypeOK
<1>6. CASE Stall(c)
  <2>1. StallMax \in Nat /\ stall[c] \in 0 .. StallMax
    BY <1>1, Sizes DEF GateTypes
  <2>2. stall' \in [Console -> 0 .. StallMax]
    <3>1. \/ ~(stall[c] >= StallMax) /\ stall' = [stall EXCEPT ![c] = stall[c] + 1]
          \/ stall' = stall
      BY <1>6 DEF Stall, Saturated
    <3>2. ~(stall[c] >= StallMax) => stall[c] + 1 \in 0 .. StallMax
      BY <2>1
    <3> QED
      BY <1>1, <3>1, <3>2 DEF GateTypes
  <2>3. /\ mode' = mode \/ mode' = [mode EXCEPT ![c] = "left"]
        /\ ran' = [ran EXCEPT ![c] = FALSE]
        /\ UNCHANGED <<phase, clk, applied>>
    BY <1>6 DEF Stall, Frozen
  <2>4. GateTypes'
    BY <1>1, <2>2, <2>3 DEF GateTypes
  <2> QED
    BY <1>3, <1>4, <2>4 DEF TypeInv, TypeOK
<1> QED
  BY <1>2, <1>5, <1>6

(* Sending puts at most one more message on the way.                       *)
LEMMA TypeSend ==
  ASSUME NEW p \in Console, NEW rec \in Message, net \in [Console -> Seq(Message)],
         Send(p, rec)
  PROVE  net' \in [Console -> Seq(Message)]
<1>1. Append(net[p], rec) \in Seq(Message)
  OBVIOUS
<1>2. net' = [net EXCEPT ![p] = Append(net[p], rec)] \/ net' = net
  BY DEF Send
<1> QED
  BY <1>1, <1>2

(* The four kinds of transport step.                                       *)
LEMMA TypeDGNSTEP ==
  ASSUME TypeInv, NEW c \in Console, DGNSTEP(c)
  PROVE  TypeInv'
<1>1. GateTypes /\ CaptureTypes /\ RemoteTypes /\ TransportTypes /\ WindowInUse
  BY DEF TypeInv, TypeOK
<1>2. CASE Write(c)
  <2>1. /\ nst[c] = "WISS" /\ tick[c] >= 0 /\ nst' = [nst EXCEPT ![c] = "SACK"]
        /\ UNCHANGED <<mode, stall, err, ring, rwat, gateVars, reply>>
        /\ \/ Send(Peer(c), RecordOf(c, TRUE)) /\ faults' = faults
           \/ Send(Peer(c), RecordOf(c, FALSE)) /\ faults' = faults + 1
    BY <1>2 DEF Write, Stepping, Goto
  <2>2. RecordOf(c, TRUE) \in Message /\ RecordOf(c, FALSE) \in Message
    BY <2>1, RecordType DEF Message, TypeInv
  <2>3. net' \in [Console -> Seq(Message)]
    BY <1>1, <2>1, <2>2, Peers, TypeSend DEF TransportTypes
  <2>4. TransportTypes' /\ WindowInUse'
    <3>1. faults' \in Nat
      <4>1. faults' = faults \/ faults' = faults + 1
        BY <2>1
      <4>2. faults \in Nat
        BY <1>1 DEF TransportTypes
      <4> QED
        BY <4>1, <4>2
    <3>2. nst' \in [Console -> {"WISS", "SACK", "CONS"}] /\ reply' = reply
      BY <1>1, <2>1 DEF TransportTypes
    <3> QED
      BY <1>1, <2>1, <2>3, <3>1, <3>2 DEF TransportTypes, WindowInUse
  <2>5. GateTypes' /\ CaptureTypes' /\ RemoteTypes'
    BY <1>1, <2>1 DEF GateTypes, CaptureTypes, RemoteTypes, gateVars
  <2> QED
    BY <2>4, <2>5 DEF TypeInv, TypeOK
<1>3. CASE Read(c)
  <2>1. PICK n \in 0 .. Len(net[c]) :
          /\ reply' = [reply EXCEPT ![c] = SubSeq(net[c], 1, n)]
          /\ net' = [net EXCEPT ![c] = SubSeq(net[c], n + 1, Len(net[c]))]
          /\ nst' = [nst EXCEPT ![c] = IF n = 0 THEN "WISS" ELSE "CONS"]
    BY <1>3 DEF Read, Goto
  <2>2. net[c] \in Seq(Message)
    BY <1>1 DEF TransportTypes
  <2>3. /\ SubSeq(net[c], 1, n) \in Seq(Message)
        /\ Len(SubSeq(net[c], 1, n)) = n
        /\ SubSeq(net[c], n + 1, Len(net[c])) \in Seq(Message)
    BY <2>2, SplitSeq
  <2>4. SubSeq(net[c], 1, n) # <<>> <=> n # 0
    BY <2>3
  <2>5. UNCHANGED <<mode, stall, err, ring, rwat, gateVars, faults>>
    BY <1>3 DEF Read
  <2>6. TransportTypes' /\ WindowInUse'
    BY <1>1, <2>1, <2>3, <2>4, <2>5 DEF TransportTypes, WindowInUse
  <2>7. GateTypes' /\ CaptureTypes' /\ RemoteTypes'
    BY <1>1, <2>5 DEF GateTypes, CaptureTypes, RemoteTypes, gateVars
  <2> QED
    BY <2>6, <2>7 DEF TypeInv, TypeOK
<1>4. CASE Fail(c)
  <2>1. TransportTypes' /\ WindowInUse'
    BY <1>1, <1>4 DEF TransportTypes, WindowInUse, Fail, Stepping, Goto
  <2>2. GateTypes' /\ CaptureTypes' /\ RemoteTypes'
    BY <1>1, <1>4 DEF GateTypes, CaptureTypes, RemoteTypes, gateVars, Fail
  <2> QED
    BY <2>1, <2>2 DEF TypeInv, TypeOK
<1>5. CASE Consume(c)
  <2> DEFINE rec == reply[c][Len(reply[c])]
  <2>1. /\ nst[c] = "CONS"
        /\ reply' = [reply EXCEPT ![c] = SubSeq(reply[c], 1, Len(reply[c]) - 1)]
        /\ nst' = [nst EXCEPT ![c] = IF Len(reply[c]) = 1 THEN "WISS" ELSE "CONS"]
        /\ UNCHANGED <<mode, phase, ran, tick, loc, crcv, clk, applied, cap, presses,
                       net, faults>>
    BY <1>5 DEF Consume, Stepping, Goto
  <2>2. reply[c] \in Seq(Message) /\ reply[c] # <<>>
    BY <1>1, <2>1 DEF TransportTypes, WindowInUse
  <2>3. Len(reply[c]) \in Nat /\ Len(reply[c]) >= 1 /\ rec \in Message
    BY <2>2
  <2> DEFINE n == Len(reply[c])
             rest == SubSeq(reply[c], 1, n - 1)
  <2>4. rest \in Seq(Message) /\ (rest = <<>> <=> n = 1)
    <3>1. n - 1 \in 0 .. Len(reply[c])
      BY <2>3
    <3>2. rest \in Seq(Message) /\ Len(rest) = n - 1
      BY <2>2, <3>1, SplitSeq
    <3>3. n \in Nat
      BY <2>3
    <3> HIDE DEF rest, n
    <3>4. rest = <<>> <=> Len(rest) = 0
      BY <3>2, EmptyIffNoLength
    <3> QED
      BY <3>2, <3>3, <3>4
  <2>5. TransportTypes' /\ WindowInUse'
    BY <1>1, <2>1, <2>4 DEF TransportTypes, WindowInUse
  <2>6. CASE rec.type = "INPUT" /\ rec.good
    <3>1. rec \in Record
      BY <2>3, <2>6 DEF Message, LeftFrame
    <3>2. ConsumeInput(c, rec) /\ UNCHANGED <<stall, err>>
      BY <1>5, <2>6 DEF Consume, LeftFrame
    <3>3. Fill(ring[c], rec) \in [0 .. RingSize - 1 -> Byte]
      BY <1>1, <3>1, FillType DEF RemoteTypes
    <3>4. Watermark(rwat[c], rec) \in Int
      BY <1>1, <3>1 DEF RemoteTypes, Watermark, Record
    <3>5. RemoteTypes'
      BY <1>1, <3>2, <3>3, <3>4 DEF RemoteTypes, ConsumeInput
    <3>6. GateTypes' /\ CaptureTypes'
      BY <1>1, <2>1, <3>2 DEF GateTypes, CaptureTypes, ConsumeInput
    <3> QED
      BY <2>5, <3>5, <3>6 DEF TypeInv, TypeOK
  <2>7. CASE ~(rec.type = "INPUT" /\ rec.good)
    <3>1. /\ UNCHANGED <<ring, rsy, rwat>>
          /\ \/ UNCHANGED <<stall, err>>
             \/ /\ stall' = [stall EXCEPT ![c] = StallMax]
                /\ err' = [err EXCEPT ![c] = "peer"]
      BY <1>5, <2>7 DEF Consume
    <3>2. StallMax \in 0 .. StallMax
      BY Sizes
    <3>3. GateTypes'
      BY <1>1, <2>1, <3>1, <3>2 DEF GateTypes
    <3>4. CaptureTypes' /\ RemoteTypes'
      BY <1>1, <2>1, <3>1 DEF CaptureTypes, RemoteTypes
    <3> QED
      BY <2>5, <3>3, <3>4 DEF TypeInv, TypeOK
  <2> QED
    BY <2>6, <2>7
<1> QED
  BY <1>2, <1>3, <1>4, <1>5 DEF DGNSTEP

LEMMA TypePowerOff ==
  ASSUME TypeInv, NEW c \in Console, PowerOff(c)
  PROVE  TypeInv'
<1>1. GateTypes /\ CaptureTypes /\ RemoteTypes /\ TransportTypes /\ WindowInUse
  BY DEF TypeInv, TypeOK
<1>2. TransportTypes' /\ WindowInUse'
  <2>1. /\ net' = [net EXCEPT ![Peer(c)] = Append(net[Peer(c)], LeftFrame)] \/ net' = net
        /\ UNCHANGED <<nst, reply, faults>>
    BY DEF PowerOff
  <2>2. net \in [Console -> Seq(Message)] /\ Peer(c) \in Console /\ LeftFrame \in Message
    BY <1>1, Peers DEF TransportTypes, Message
  <2>3. Append(net[Peer(c)], LeftFrame) \in Seq(Message)
    BY <2>2
  <2>4. net' \in [Console -> Seq(Message)]
    BY <2>1, <2>2, <2>3
  <2> QED
    BY <1>1, <2>1, <2>4 DEF TransportTypes, WindowInUse
<1>3. GateTypes' /\ CaptureTypes' /\ RemoteTypes'
  BY <1>1 DEF GateTypes, CaptureTypes, RemoteTypes, gateVars, PowerOff
<1> QED
  BY <1>2, <1>3 DEF TypeInv, TypeOK

LEMMA TypeStep == TypeInv /\ [Next]_vars => TypeInv'
<1> SUFFICES ASSUME TypeInv, [Next]_vars PROVE TypeInv'
  OBVIOUS
<1>1. CASE UNCHANGED vars
  BY <1>1 DEF TypeInv, TypeOK, GateTypes, CaptureTypes, RemoteTypes, TransportTypes,
              WindowInUse, vars, gateVars, xportVars
<1>2. ASSUME NEW c \in Console, DGSHIM(c) PROVE TypeInv'
  BY <1>2, TypeMidTick, TypeBoundary DEF DGSHIM
<1>3. ASSUME NEW c \in Console, DGNSTEP(c) PROVE TypeInv'
  BY <1>3, TypeDGNSTEP
<1>4. ASSUME NEW c \in Console, PowerOff(c) PROVE TypeInv'
  BY <1>4, TypePowerOff
<1> QED
  BY <1>1, <1>2, <1>3, <1>4 DEF Next

(* Every cell keeps its type: the stall count never leaves its nibble, the *)
(* ring indices stay in their rings, and the machine consumes only what it *)
(* has read.                                                               *)
THEOREM TypeCorrect == Spec => []TypeOK
<1>1. Spec => []TypeInv
  BY TypeInit, TypeStep, PTL DEF Spec
<1>2. TypeInv => TypeOK
  BY DEF TypeInv
<1> QED
  BY <1>1, <1>2, PTL

(***************************************************************************)
(* How far apart the consoles, the watermarks and the unread records are.  *)
(*                                                                         *)
(* SkewBound is not inductive: it follows from what the gate has let       *)
(* through (tick against rwat), from whose tick a watermark can be, and    *)
(* the watermark moves only because unread records carry ticks their       *)
(* sender has reached.  That the one-byte compares decide correctly needs, *)
(* in turn, that records arrive in order and that one READ's records span  *)
(* few ticks, since a window is consumed backwards.                        *)
(***************************************************************************)
IsInput(m) == m.type = "INPUT"

(* A tick runs only when its record is in; the next boundary is one more.  *)
GateInv(c) ==
  /\ tick[c] = -1 => ran[c]
  /\ ran[c] => tick[c] = -1 \/ tick[c] <= rwat[c]
  /\ tick[c] <= 0 \/ tick[c] <= rwat[c] + 1

(* The watermark is a tick the peer has captured for.                      *)
MarkInv(c) == rwat[c] = -2 \/ (D <= rwat[c] /\ rwat[c] <= tick[Peer(c)] + D)

(* Records still in the network are in order, none older than the mark.    *)
NetInv(c) ==
  \A i \in 1 .. Len(net[c]) : IsInput(net[c][i]) =>
    /\ D <= net[c][i].tick /\ net[c][i].tick <= tick[Peer(c)] + D
    /\ rwat[c] <= net[c][i].tick
    /\ \A j \in i .. Len(net[c]) : IsInput(net[c][j]) => net[c][i].tick <= net[c][j].tick

(* Records in the reply window are older than those, and close together.   *)
Spread == 2 * D + 3
ReplyInv(c) ==
  \A i \in 1 .. Len(reply[c]) : IsInput(reply[c][i]) =>
    /\ D <= reply[c][i].tick /\ reply[c][i].tick <= tick[Peer(c)] + D
    /\ rwat[c] - reply[c][i].tick <= Spread
    /\ \A j \in 1 .. Len(reply[c]) :
         IsInput(reply[c][j]) => reply[c][j].tick - reply[c][i].tick <= Spread
    /\ \A j \in 1 .. Len(net[c]) : IsInput(net[c][j]) => reply[c][i].tick <= net[c][j].tick

TickInv == \A c \in Console : GateInv(c) /\ MarkInv(c) /\ NetInv(c) /\ ReplyInv(c)

SkewInv == TypeInv /\ TickInv

(* What the types say of one console's ticks and messages.                 *)
LEMMA TickTypes ==
  ASSUME TypeInv, NEW c \in Console
  PROVE  /\ D \in Nat /\ D >= 1
         /\ tick[c] \in Int /\ tick[c] >= -1 /\ rwat[c] \in Int /\ ran[c] \in BOOLEAN
         /\ net[c] \in Seq(Message) /\ reply[c] \in Seq(Message)
         /\ Len(net[c]) \in Nat /\ Len(reply[c]) \in Nat
         /\ \A i \in 1 .. Len(net[c]) : IsInput(net[c][i]) => net[c][i].tick \in Int
         /\ \A i \in 1 .. Len(reply[c]) : IsInput(reply[c][i]) => reply[c][i].tick \in Int
<1>1. D \in Nat /\ D >= 1
  BY Sizes
<1>2. tick[c] \in Nat \cup {-1} /\ rwat[c] \in Int /\ ran[c] \in BOOLEAN
  BY DEF TypeInv, TypeOK, CaptureTypes, RemoteTypes, GateTypes
<1>3. net[c] \in Seq(Message) /\ reply[c] \in Seq(Message)
  BY DEF TypeInv, TypeOK, TransportTypes
<1>4. Len(net[c]) \in Nat /\ Len(reply[c]) \in Nat
  BY <1>3
<1>5. \A m \in Message : IsInput(m) => m.tick \in Int
  BY DEF Message, Record, LeftFrame, IsInput
<1>6. /\ \A i \in 1 .. Len(net[c]) : net[c][i] \in Message
      /\ \A i \in 1 .. Len(reply[c]) : reply[c][i] \in Message
  BY <1>3, ElementOfSeq
<1> QED
  BY <1>1, <1>2, <1>3, <1>4, <1>5, <1>6

(* The distances everything else rests on.                                 *)
LEMMA Distances ==
  ASSUME SkewInv, NEW c \in Console
  PROVE  /\ tick[c] <= tick[Peer(c)] + D + 1
         /\ tick[Peer(c)] <= tick[c] + D + 1
         /\ rwat[c] <= tick[c] + 2 * D + 1
         /\ tick[c] <= rwat[c] + 2
<1> DEFINE p == Peer(c)
<1>1. p \in Console /\ Peer(p) = c
  BY Peers
<1>2. GateInv(c) /\ MarkInv(c) /\ GateInv(p) /\ MarkInv(p)
  BY <1>1 DEF SkewInv, TickInv
<1>3. /\ D \in Nat /\ D >= 1
      /\ tick[c] \in Int /\ tick[c] >= -1 /\ rwat[c] \in Int
      /\ tick[p] \in Int /\ tick[p] >= -1 /\ rwat[p] \in Int
  BY <1>1, TickTypes DEF SkewInv
<1> HIDE DEF p
<1>4. tick[c] <= tick[p] + D + 1
  BY <1>2, <1>3 DEF GateInv, MarkInv, p
<1>5. tick[p] <= tick[c] + D + 1
  BY <1>1, <1>2, <1>3 DEF GateInv, MarkInv
<1>6. rwat[c] <= tick[c] + 2 * D + 1
  BY <1>2, <1>3, <1>5 DEF MarkInv, p
<1>7. tick[c] <= rwat[c] + 2
  BY <1>2, <1>3 DEF GateInv, MarkInv
<1> QED
  BY <1>4, <1>5, <1>6, <1>7 DEF p

(* The gate's signed compare decides as it would on unbounded ticks.       *)
LEMMA GateExact ==
  ASSUME SkewInv, NEW c \in Console, NEW t, t = tick[c] \/ (ran[c] /\ t = tick[c] + 1)
  PROVE  Arrived(c, t) <=> t <= rwat[c]
<1>1. /\ D \in Nat /\ tick[c] \in Int /\ rwat[c] \in Int
      /\ rwat[c] <= tick[c] + 2 * D + 1 /\ tick[c] <= rwat[c] + 2 /\ rwat[c] >= -2
  BY TickTypes, Distances, SMTT(30) DEF SkewInv, TickInv, MarkInv
<1>2. ran[c] => tick[c] = -1 \/ tick[c] <= rwat[c]
  BY DEF SkewInv, TickInv, GateInv
<1>3. t \in Int /\ rwat[c] - t <= 2 * D + 1 /\ t - rwat[c] <= 2
  BY <1>1, <1>2
<1>4. Half \in Nat /\ Half >= 2 * D + 4
  BY HalfOfTicks
<1>5. rwat[c] - t < Half /\ t - rwat[c] <= Half
  BY <1>1, <1>3, <1>4
<1> QED
  BY <1>1, <1>3, <1>5, NotBehindExact DEF Arrived

(* An unread record is near the watermark on either side, and near the     *)
(* tick its reader is on.                                                  *)
LEMMA UnreadNear ==
  ASSUME SkewInv, NEW c \in Console, NEW m, IsInput(m),
         \/ \E i \in 1 .. Len(net[c]) : m = net[c][i]
         \/ \E i \in 1 .. Len(reply[c]) : m = reply[c][i]
  PROVE  /\ m.tick \in Int
         /\ m.tick - rwat[c] <= Spread /\ rwat[c] - m.tick <= Spread
         /\ m.tick - D - tick[c] <= D + 1 /\ tick[c] + D - m.tick <= 3 * D + 5
<1>1. /\ D \in Nat /\ tick[c] \in Int /\ rwat[c] \in Int /\ tick[Peer(c)] \in Int
      /\ tick[Peer(c)] <= tick[c] + D + 1 /\ tick[c] <= rwat[c] + 2
  BY TickTypes, Distances, Peers DEF SkewInv
<1>2. /\ m.tick \in Int /\ m.tick <= tick[Peer(c)] + D
      /\ rwat[c] - m.tick <= Spread
  <2>1. CASE \E i \in 1 .. Len(net[c]) : m = net[c][i]
    <3>1. PICK i \in 1 .. Len(net[c]) : m = net[c][i]
      BY <2>1
    <3>2. m.tick \in Int /\ m.tick <= tick[Peer(c)] + D /\ rwat[c] <= m.tick
      BY <3>1, TickTypes DEF SkewInv, TickInv, NetInv
    <3> QED
      BY <1>1, <3>2 DEF Spread
  <2>2. CASE \E i \in 1 .. Len(reply[c]) : m = reply[c][i]
    <3>1. PICK i \in 1 .. Len(reply[c]) : m = reply[c][i]
      BY <2>2
    <3> QED
      BY <3>1, TickTypes DEF SkewInv, TickInv, ReplyInv
  <2> QED
    BY <2>1, <2>2
<1> DEFINE mt == m.tick
           pt == tick[Peer(c)]
           ct == tick[c]
           rw == rwat[c]
<1>3. /\ D \in Nat /\ mt \in Int /\ pt \in Int /\ ct \in Int /\ rw \in Int
      /\ pt <= ct + D + 1 /\ ct <= rw + 2 /\ mt <= pt + D /\ rw - mt <= 2 * D + 3
  BY <1>1, <1>2 DEF Spread
<1> HIDE DEF mt, pt, ct, rw
<1>4. mt - rw <= 2 * D + 3 /\ mt - D - ct <= D + 1 /\ ct + D - mt <= 3 * D + 5
  BY <1>3
<1> QED
  BY <1>2, <1>4 DEF Spread, mt, pt, ct, rw

(* The watermark's signed compare decides as it would on unbounded ticks.  *)
LEMMA MarkExact ==
  ASSUME SkewInv, NEW c \in Console, NEW m, IsInput(m),
         \/ \E i \in 1 .. Len(net[c]) : m = net[c][i]
         \/ \E i \in 1 .. Len(reply[c]) : m = reply[c][i]
  PROVE  NotBehind(m.tick, rwat[c]) <=> m.tick >= rwat[c]
<1>1. m.tick \in Int /\ m.tick - rwat[c] <= Spread /\ rwat[c] - m.tick <= Spread
  BY UnreadNear
<1>2. rwat[c] \in Int /\ D \in Nat
  BY TickTypes DEF SkewInv
<1>3. Half \in Nat /\ Half >= 2 * D + 4
  BY HalfOfTicks
<1>4. m.tick - rwat[c] < Half /\ rwat[c] - m.tick <= Half
  BY <1>1, <1>2, <1>3 DEF Spread
<1> QED
  BY <1>1, <1>2, <1>4, NotBehindExact

(* So does the checksum's tick match.                                      *)
LEMMA MatchExact ==
  ASSUME SkewInv, NEW c \in Console, NEW m, IsInput(m),
         \/ \E i \in 1 .. Len(net[c]) : m = net[c][i]
         \/ \E i \in 1 .. Len(reply[c]) : m = reply[c][i]
  PROVE  Comparable(c, m) <=> m.tick - D = tick[c]
<1>1. /\ m.tick \in Int
      /\ m.tick - D - tick[c] <= D + 1 /\ tick[c] + D - m.tick <= 3 * D + 5
  BY UnreadNear
<1>2. D \in Nat /\ tick[c] \in Int
  BY TickTypes DEF SkewInv
<1>3. Half \in Nat /\ Half >= 2 * D + 4 /\ 2 * Half <= TickMod /\ TickMod \in Nat
  BY HalfOfTicks
<1> DEFINE x == m.tick - D - tick[c]
<1>4. x \in Int /\ -TickMod < x /\ x < TickMod
  BY <1>1, <1>2, <1>3, SMTT(30)
<1>5. x % TickMod = 0 <=> x = 0
  BY <1>4, CongruentExact
<1> QED
  BY <1>1, <1>2, <1>5, SMTT(30) DEF Comparable

LEMMA SkewInit == Init => SkewInv
<1> SUFFICES ASSUME Init PROVE SkewInv
  OBVIOUS
<1>1. ASSUME NEW c \in Console
      PROVE  GateInv(c) /\ MarkInv(c) /\ NetInv(c) /\ ReplyInv(c)
  <2>1. /\ ran[c] = TRUE /\ tick[c] = -1 /\ rwat[c] = -2
        /\ reply[c] = <<>> /\ net[c] = <<>>
    BY DEF Init
  <2> QED
    BY <2>1 DEF GateInv, MarkInv, NetInv, ReplyInv
<1> QED
  BY <1>1, TypeInit DEF SkewInv, TickInv

(* A boundary: only a tick that has arrived runs, and the next one is one  *)
(* more than it.                                                           *)
LEMMA TickBoundary ==
  ASSUME SkewInv, NEW c \in Console, Boundary(c)
  PROVE  TickInv'
<1>1. /\ Advance(c) /\ (RunTick(c) \/ Stall(c))
      /\ UNCHANGED <<rwat, reply, net>>
  BY DEF Boundary, xportVars
<1>2. /\ D \in Nat /\ tick[c] \in Int /\ tick[c] >= -1 /\ rwat[c] \in Int
      /\ tick \in [Console -> Int] /\ ran \in [Console -> BOOLEAN]
  BY TickTypes DEF SkewInv, TypeInv, TypeOK, CaptureTypes, GateTypes
<1>3. GateInv(c)
  BY DEF SkewInv, TickInv
<1>4. \/ ran[c] /\ tick' = [tick EXCEPT ![c] = tick[c] + 1]
      \/ ~ran[c] /\ tick' = tick
  BY <1>1 DEF Advance, Commit, Retry
<1>5. Arrived(c, tick'[c]) <=> tick'[c] <= rwat[c]
  BY <1>2, <1>4, GateExact
<1>6. \/ tick'[c] <= rwat[c] /\ ran' = [ran EXCEPT ![c] = TRUE]
      \/ ~(tick'[c] <= rwat[c]) /\ ran' = [ran EXCEPT ![c] = FALSE]
  BY <1>1, <1>5 DEF RunTick, Stall
<1>7. GateInv(c)'
  <2>1. tick'[c] \in Int /\ tick'[c] >= 0
    BY <1>2, <1>3, <1>4 DEF GateInv
  <2>2. tick'[c] <= 0 \/ tick'[c] <= rwat[c] + 1
    BY <1>2, <1>3, <1>4 DEF GateInv
  <2> QED
    BY <1>1, <1>2, <1>6, <2>1, <2>2 DEF GateInv
<1>8. ASSUME NEW d \in Console
      PROVE  GateInv(d)' /\ MarkInv(d)' /\ NetInv(d)' /\ ReplyInv(d)'
  <2>1. GateInv(d) /\ MarkInv(d) /\ NetInv(d) /\ ReplyInv(d)
    BY DEF SkewInv, TickInv
  <2>2. GateInv(d)'
    <3>1. CASE d = c
      BY <1>7, <3>1
    <3>2. CASE d # c
      <4>1. tick'[d] = tick[d] /\ ran'[d] = ran[d] /\ rwat'[d] = rwat[d]
        BY <1>1, <1>2, <1>4, <1>6, <3>2
      <4> QED
        BY <2>1, <4>1 DEF GateInv
    <3> QED
      BY <3>1, <3>2
  <2> DEFINE q == Peer(d)
  <2>3. q \in Console /\ tick[q] \in Int /\ tick'[q] \in Int /\ tick[q] <= tick'[q]
    BY <1>2, <1>4, Peers
  <2>4. rwat' = rwat /\ net' = net /\ reply' = reply
    BY <1>1
  <2>5. rwat[d] \in Int
    BY TickTypes DEF SkewInv
  <2> HIDE DEF q
  <2>6. MarkInv(d)'
    BY <1>2, <2>1, <2>3, <2>4, <2>5 DEF MarkInv, q
  <2>7. \A m : m <= tick[q] + D => m <= tick'[q] + D \/ m \notin Int
    BY <1>2, <2>3
  <2>8. NetInv(d)'
    <3> SUFFICES ASSUME NEW i \in 1 .. Len(net[d]), IsInput(net[d][i])
                 PROVE  net[d][i].tick <= tick'[q] + D
      BY <2>1, <2>4 DEF NetInv, q
    <3>1. net[d][i].tick \in Int /\ net[d][i].tick <= tick[q] + D
      BY <2>1, TickTypes DEF NetInv, q, SkewInv
    <3> QED
      BY <2>7, <3>1
  <2>9. ReplyInv(d)'
    <3> SUFFICES ASSUME NEW i \in 1 .. Len(reply[d]), IsInput(reply[d][i])
                 PROVE  reply[d][i].tick <= tick'[q] + D
      BY <2>1, <2>4 DEF ReplyInv, q
    <3>1. reply[d][i].tick \in Int /\ reply[d][i].tick <= tick[q] + D
      BY <2>1, TickTypes DEF ReplyInv, q, SkewInv
    <3> QED
      BY <2>7, <3>1
  <2> QED
    BY <2>2, <2>6, <2>8, <2>9
<1> QED
  BY <1>8 DEF TickInv

(* A message that joins the end of a queue is its sender's newest record,  *)
(* or no record at all.                                                    *)
LEMMA TickAppend ==
  ASSUME SkewInv, NEW c \in Console, NEW m \in Message,
         IsInput(m) => m.tick = tick[Peer(c)] + D /\ tick[Peer(c)] >= 0,
         net' = [net EXCEPT ![c] = Append(net[c], m)],
         UNCHANGED <<tick, ran, rwat, reply>>
  PROVE  TickInv'
<1> SUFFICES ASSUME NEW d \in Console
             PROVE  GateInv(d)' /\ MarkInv(d)' /\ NetInv(d)' /\ ReplyInv(d)'
  BY DEF TickInv
<1>1. GateInv(d) /\ MarkInv(d) /\ NetInv(d) /\ ReplyInv(d)
  BY DEF SkewInv, TickInv
<1>2. GateInv(d)' /\ MarkInv(d)'
  BY <1>1 DEF GateInv, MarkInv
<1>3. net \in [Console -> Seq(Message)]
  BY DEF SkewInv, TypeInv, TypeOK, TransportTypes
<1>4. CASE d # c
  <2>1. net'[d] = net[d]
    BY <1>3, <1>4
  <2> QED
    BY <1>1, <1>2, <2>1 DEF NetInv, ReplyInv
<1>5. CASE d = c
  <2> DEFINE L == Len(net[c])
             pt == tick[Peer(c)]
  <2>1. /\ D \in Nat /\ pt \in Int /\ rwat[c] \in Int /\ L \in Nat
        /\ \A i \in 1 .. L : IsInput(net[c][i]) => net[c][i].tick \in Int
        /\ \A i \in 1 .. Len(reply[c]) : IsInput(reply[c][i]) => reply[c][i].tick \in Int
    BY TickTypes, Peers DEF SkewInv
  <2>2. /\ Len(net'[c]) = L + 1
        /\ \A i \in 1 .. L : net'[c][i] = net[c][i]
        /\ net'[c][L + 1] = m
    BY <1>3, AppendProperties
  <2>3. IsInput(m) => m.tick = pt + D /\ pt >= 0 /\ rwat[c] <= m.tick
    BY <1>1, <1>5, <2>1 DEF MarkInv
  <2>4. \A i \in 1 .. L : IsInput(net[c][i]) => net[c][i].tick <= pt + D
    BY <1>1, <1>5 DEF NetInv
  <2>5. \A i \in 1 .. Len(reply[c]) : IsInput(reply[c][i]) => reply[c][i].tick <= pt + D
    BY <1>1, <1>5 DEF ReplyInv
  <2>6. tick'[Peer(c)] = pt /\ rwat'[c] = rwat[c] /\ reply'[c] = reply[c]
    OBVIOUS
  <2> HIDE DEF L, pt
  <2>7. \A k \in 1 .. L + 1 : k = L + 1 \/ k \in 1 .. L
    BY <2>1
  <2>8. NetInv(c)'
    <3> SUFFICES ASSUME NEW i \in 1 .. L + 1, IsInput(net'[c][i])
                 PROVE  /\ D <= net'[c][i].tick /\ net'[c][i].tick <= pt + D
                        /\ rwat[c] <= net'[c][i].tick
                        /\ \A j \in i .. L + 1 :
                             IsInput(net'[c][j]) => net'[c][i].tick <= net'[c][j].tick
      BY <2>2, <2>6 DEF NetInv
    <3>1. CASE i = L + 1
      <4>1. \A j \in i .. L + 1 : j = i
        BY <2>1, <3>1
      <4> QED
        BY <2>1, <2>2, <2>3, <3>1, <4>1
    <3>2. CASE i \in 1 .. L
      <4>1. /\ IsInput(net[c][i]) /\ net'[c][i] = net[c][i]
            /\ D <= net[c][i].tick /\ net[c][i].tick <= pt + D /\ rwat[c] <= net[c][i].tick
            /\ \A j \in i .. L : IsInput(net[c][j]) => net[c][i].tick <= net[c][j].tick
        BY <1>1, <1>5, <2>2, <3>2 DEF NetInv, L, pt
      <4>2. ASSUME NEW j \in i .. L + 1, IsInput(net'[c][j])
            PROVE  net'[c][i].tick <= net'[c][j].tick
        <5>1. (j \in i .. L /\ j \in 1 .. L) \/ j = L + 1
          BY <2>1, <3>2
        <5> QED
          BY <2>2, <2>3, <4>1, <4>2, <5>1
      <4> QED
        BY <4>1, <4>2
    <3> QED
      BY <2>7, <3>1, <3>2
  <2>9. ReplyInv(c)'
    <3> SUFFICES ASSUME NEW i \in 1 .. Len(reply[c]), IsInput(reply[c][i]),
                        NEW j \in 1 .. L + 1, IsInput(net'[c][j])
                 PROVE  reply[c][i].tick <= net'[c][j].tick
      BY <1>1, <1>5, <2>2, <2>6 DEF ReplyInv, pt
    <3>1. CASE j = L + 1
      BY <2>2, <2>3, <2>5, <3>1
    <3>2. CASE j \in 1 .. L
      BY <1>1, <1>5, <2>2, <3>2 DEF ReplyInv, L
    <3> QED
      BY <2>7, <3>1, <3>2
  <2> QED
    BY <1>2, <1>5, <2>8, <2>9
<1> QED
  BY <1>4, <1>5

LEMMA TickUnchanged ==
  ASSUME SkewInv, UNCHANGED <<tick, ran, rwat, net, reply>>
  PROVE  TickInv'
BY SMTT(30) DEF SkewInv, TickInv, GateInv, MarkInv, NetInv, ReplyInv

LEMMA TickWrite ==
  ASSUME SkewInv, NEW c \in Console, Write(c)
  PROVE  TickInv'
<1> DEFINE p == Peer(c)
<1>1. PICK good \in BOOLEAN :
        /\ tick[c] >= 0 /\ Send(p, RecordOf(c, good))
        /\ UNCHANGED <<tick, ran, rwat, reply>>
  BY DEF Write, Stepping, gateVars
<1>2. p \in Console /\ Peer(p) = c
  BY Peers
<1>3. RecordOf(c, good) \in Message /\ RecordOf(c, good).tick = tick[c] + D
  BY <1>1, RecordType DEF RecordOf, Message, SkewInv, TypeInv
<1>4. net' = [net EXCEPT ![p] = Append(net[p], RecordOf(c, good))] \/ net' = net
  BY <1>1 DEF Send
<1> QED
  BY <1>1, <1>2, <1>3, <1>4, TickAppend, TickUnchanged

LEMMA TickPowerOff ==
  ASSUME SkewInv, NEW c \in Console, PowerOff(c)
  PROVE  TickInv'
<1>1. /\ net' = [net EXCEPT ![Peer(c)] = Append(net[Peer(c)], LeftFrame)] \/ net' = net
      /\ UNCHANGED <<tick, ran, rwat, reply>>
  BY DEF PowerOff, gateVars
<1>2. Peer(c) \in Console /\ LeftFrame \in Message /\ ~IsInput(LeftFrame)
  BY Peers DEF Message, LeftFrame, IsInput
<1> QED
  BY <1>1, <1>2, TickAppend, TickUnchanged

(* A READ moves the oldest records of the network into the reply window.   *)
LEMMA TickRead ==
  ASSUME SkewInv, NEW c \in Console, Read(c)
  PROVE  TickInv'
<1>1. PICK n \in 0 .. Len(net[c]) :
        /\ reply' = [reply EXCEPT ![c] = SubSeq(net[c], 1, n)]
        /\ net' = [net EXCEPT ![c] = SubSeq(net[c], n + 1, Len(net[c]))]
  BY DEF Read
<1>2. UNCHANGED <<tick, ran, rwat>>
  BY DEF Read, gateVars
<1>3. net \in [Console -> Seq(Message)] /\ reply \in [Console -> Seq(Message)]
  BY DEF SkewInv, TypeInv, TypeOK, TransportTypes
<1> SUFFICES ASSUME NEW d \in Console
             PROVE  GateInv(d)' /\ MarkInv(d)' /\ NetInv(d)' /\ ReplyInv(d)'
  BY DEF TickInv
<1>4. GateInv(d) /\ MarkInv(d) /\ NetInv(d) /\ ReplyInv(d)
  BY DEF SkewInv, TickInv
<1>5. GateInv(d)' /\ MarkInv(d)'
  BY <1>2, <1>4 DEF GateInv, MarkInv
<1>6. CASE d # c
  <2>1. net'[d] = net[d] /\ reply'[d] = reply[d]
    BY <1>1, <1>3, <1>6
  <2> QED
    BY <1>2, <1>4, <1>5, <2>1 DEF NetInv, ReplyInv
<1>7. CASE d = c
  <2> DEFINE L == Len(net[c])
             pt == tick[Peer(c)]
             rw == rwat[c]
  <2>1. /\ D \in Nat /\ pt \in Int /\ rw \in Int /\ L \in Nat /\ n \in 0 .. L
        /\ pt + D <= rw + Spread
        /\ \A i \in 1 .. L : IsInput(net[c][i]) => net[c][i].tick \in Int
    <3>1. /\ D \in Nat /\ pt \in Int /\ rw \in Int /\ L \in Nat /\ tick[c] \in Int
          /\ \A i \in 1 .. L : IsInput(net[c][i]) => net[c][i].tick \in Int
      BY TickTypes, Peers DEF SkewInv
    <3>2. pt <= tick[c] + D + 1 /\ tick[c] <= rw + 2
      BY Distances
    <3> DEFINE ct == tick[c]
    <3>3. D \in Nat /\ ct \in Int /\ pt \in Int /\ rw \in Int /\ pt <= ct + D + 1 /\ ct <= rw + 2
      BY <3>1, <3>2
    <3> HIDE DEF ct, pt, rw, L
    <3>4. pt + D <= rw + Spread
      BY <3>3 DEF Spread
    <3> QED
      BY <3>1, <3>4 DEF L
  <2>2. /\ Len(reply'[c]) = n /\ \A i \in 1 .. n : reply'[c][i] = net[c][i]
        /\ Len(net'[c]) = L - n /\ \A i \in 1 .. L - n : net'[c][i] = net[c][n + i]
    <3> DEFINE read == SubSeq(net[c], 1, n)
               left == SubSeq(net[c], n + 1, Len(net[c]))
    <3>1. reply'[c] = read /\ net'[c] = left
      BY <1>1, <1>3
    <3>2. net[c] \in Seq(Message)
      BY <1>3
    <3>3. Len(read) = n /\ \A i \in 1 .. n : read[i] = net[c][i]
      BY <3>2, SplitSeq
    <3>4. Len(left) = L - n /\ \A i \in 1 .. L - n : left[i] = net[c][n + i]
      BY <3>2, SplitSeq
    <3> HIDE DEF read, left, L
    <3> QED
      BY <3>1, <3>3, <3>4
  <2>3. tick'[Peer(c)] = pt /\ rwat'[c] = rw
    BY <1>2
  <2>4. \A i \in 1 .. L : IsInput(net[c][i]) =>
          /\ D <= net[c][i].tick /\ net[c][i].tick <= pt + D /\ rw <= net[c][i].tick
          /\ \A j \in i .. L : IsInput(net[c][j]) => net[c][i].tick <= net[c][j].tick
    BY <1>4, <1>7 DEF NetInv
  <2> HIDE DEF L, pt, rw
  <2>5. NetInv(c)'
    <3> SUFFICES ASSUME NEW i \in 1 .. L - n, IsInput(net'[c][i])
                 PROVE  /\ D <= net'[c][i].tick /\ net'[c][i].tick <= pt + D
                        /\ rw <= net'[c][i].tick
                        /\ \A j \in i .. L - n :
                             IsInput(net'[c][j]) => net'[c][i].tick <= net'[c][j].tick
      BY <2>2, <2>3 DEF NetInv
    <3>1. n + i \in 1 .. L /\ \A j \in i .. L - n : j \in 1 .. L - n /\ n + j \in n + i .. L
      BY <2>1
    <3> QED
      BY <2>2, <2>4, <3>1
  <2>6. ReplyInv(c)'
    <3> SUFFICES ASSUME NEW i \in 1 .. n, IsInput(reply'[c][i])
                 PROVE  /\ D <= reply'[c][i].tick /\ reply'[c][i].tick <= pt + D
                        /\ rw - reply'[c][i].tick <= Spread
                        /\ \A j \in 1 .. n : IsInput(reply'[c][j]) =>
                             reply'[c][j].tick - reply'[c][i].tick <= Spread
                        /\ \A j \in 1 .. L - n : IsInput(net'[c][j]) =>
                             reply'[c][i].tick <= net'[c][j].tick
      BY <2>2, <2>3 DEF ReplyInv
    <3>1. i \in 1 .. L /\ IsInput(net[c][i]) /\ reply'[c][i] = net[c][i]
      BY <2>1, <2>2
    <3>2. /\ net[c][i].tick \in Int /\ D <= net[c][i].tick
          /\ net[c][i].tick <= pt + D /\ rw <= net[c][i].tick
      BY <2>1, <2>4, <3>1
    <3>3. rw - net[c][i].tick <= Spread
      BY <2>1, <3>2, SMTT(30) DEF Spread
    <3>4. ASSUME NEW j \in 1 .. n, IsInput(reply'[c][j])
          PROVE  reply'[c][j].tick - reply'[c][i].tick <= Spread
      <4>1. j \in 1 .. L /\ reply'[c][j] = net[c][j]
        BY <2>1, <2>2
      <4>2. net[c][j].tick \in Int /\ net[c][j].tick <= pt + D
        BY <2>1, <2>4, <3>4, <4>1
      <4> QED
        BY <2>1, <3>1, <3>2, <4>1, <4>2 DEF Spread
    <3>5. ASSUME NEW j \in 1 .. L - n, IsInput(net'[c][j])
          PROVE  reply'[c][i].tick <= net'[c][j].tick
      <4>1. n + j \in i .. L /\ n + j \in 1 .. L /\ net'[c][j] = net[c][n + j]
        BY <2>1, <2>2, SMTT(30)
      <4> QED
        BY <2>4, <3>1, <3>5, <4>1
    <3> QED
      BY <3>1, <3>2, <3>3, <3>4, <3>5
  <2> QED
    BY <1>5, <1>7, <2>5, <2>6
<1> QED
  BY <1>6, <1>7

(* Consuming one record: what becomes of the watermark.                    *)
LEMMA MarkAfterConsume ==
  ASSUME SkewInv, NEW c \in Console, Consume(c)
  PROVE  LET rec == reply[c][Len(reply[c])]
         IN  /\ Len(reply[c]) \in 1 .. Len(reply[c])
             /\ \/ rwat' = rwat
                \/ /\ IsInput(rec) /\ rec.tick \in Int /\ rec.tick >= rwat[c]
                   /\ rwat' = [rwat EXCEPT ![c] = rec.tick]
<1> DEFINE n == Len(reply[c])
           rec == reply[c][n]
<1>1. nst[c] = "CONS" /\ reply[c] \in Seq(Message) /\ reply[c] # <<>>
  BY DEF Consume, Stepping, SkewInv, TypeInv, TypeOK, TransportTypes, WindowInUse
<1>2. n \in 1 .. n
  BY <1>1
<1>3. CASE rec.type = "INPUT" /\ rec.good
  <2>1. rwat' = [rwat EXCEPT ![c] = Watermark(rwat[c], rec)]
    BY <1>3 DEF Consume, ConsumeInput, LeftFrame
  <2>2. IsInput(rec)
    BY <1>3 DEF IsInput
  <2>3. \E i \in 1 .. Len(reply[c]) : rec = reply[c][i]
    BY <1>2
  <2>4. NotBehind(rec.tick, rwat[c]) <=> rec.tick >= rwat[c]
    BY <2>2, <2>3, MarkExact
  <2>5. rec.tick \in Int
    BY <2>2, <2>3, UnreadNear
  <2>6. CASE rec.tick >= rwat[c]
    BY <1>2, <2>1, <2>2, <2>4, <2>5, <2>6 DEF Watermark
  <2>7. CASE ~(rec.tick >= rwat[c])
    <3>1. rwat' = [rwat EXCEPT ![c] = rwat[c]]
      BY <2>1, <2>4, <2>7 DEF Watermark
    <3>2. rwat' = rwat
      BY <3>1 DEF SkewInv, TypeInv, TypeOK, RemoteTypes
    <3> QED
      BY <1>2, <3>2
  <2> QED
    BY <2>6, <2>7
<1>4. CASE ~(rec.type = "INPUT" /\ rec.good)
  <2>1. rwat' = rwat
    BY <1>4 DEF Consume
  <2> QED
    BY <1>2, <2>1
<1> QED
  BY <1>3, <1>4

LEMMA TickConsume ==
  ASSUME SkewInv, NEW c \in Console, Consume(c)
  PROVE  TickInv'
<1> DEFINE n == Len(reply[c])
           rec == reply[c][n]
<1>1. /\ reply' = [reply EXCEPT ![c] = SubSeq(reply[c], 1, n - 1)]
      /\ UNCHANGED <<tick, ran, net>>
  BY DEF Consume
<1>2. /\ n \in 1 .. n
      /\ \/ rwat' = rwat
         \/ /\ IsInput(rec) /\ rec.tick \in Int /\ rec.tick >= rwat[c]
            /\ rwat' = [rwat EXCEPT ![c] = rec.tick]
  BY MarkAfterConsume
<1>3. reply \in [Console -> Seq(Message)] /\ rwat \in [Console -> Int]
  BY DEF SkewInv, TypeInv, TypeOK, TransportTypes, RemoteTypes
<1> SUFFICES ASSUME NEW d \in Console
             PROVE  GateInv(d)' /\ MarkInv(d)' /\ NetInv(d)' /\ ReplyInv(d)'
  BY DEF TickInv
<1>4. GateInv(d) /\ MarkInv(d) /\ NetInv(d) /\ ReplyInv(d)
  BY DEF SkewInv, TickInv
<1>5. CASE d # c
  <2>1. reply'[d] = reply[d] /\ rwat'[d] = rwat[d]
    BY <1>1, <1>2, <1>3, <1>5
  <2> QED
    BY <1>1, <1>4, <2>1 DEF GateInv, MarkInv, NetInv, ReplyInv
<1>6. CASE d = c
  <2> DEFINE pt == tick[Peer(c)]
             rw == rwat[c]
             rw1 == rwat'[c]
  <2>1. /\ D \in Nat /\ tick[c] \in Int /\ pt \in Int /\ rw \in Int /\ n \in Nat
        /\ \A i \in 1 .. n : IsInput(reply[c][i]) => reply[c][i].tick \in Int
        /\ \A i \in 1 .. Len(net[c]) : IsInput(net[c][i]) => net[c][i].tick \in Int
    BY TickTypes, Peers DEF SkewInv
  <2>2. Len(reply'[c]) = n - 1 /\ \A i \in 1 .. n - 1 : reply'[c][i] = reply[c][i]
    <3>1. n - 1 \in 0 .. n /\ reply[c] \in Seq(Message)
      BY <1>2, <1>3
    <3>2. /\ Len(SubSeq(reply[c], 1, n - 1)) = n - 1
          /\ \A i \in 1 .. n - 1 : SubSeq(reply[c], 1, n - 1)[i] = reply[c][i]
      BY <3>1, SplitSeq
    <3>3. reply'[c] = SubSeq(reply[c], 1, n - 1)
      BY <1>1, <1>3
    <3> QED
      BY <3>2, <3>3
  <2>3. rw1 = rw \/ (IsInput(rec) /\ rec.tick \in Int /\ rec.tick >= rw /\ rw1 = rec.tick)
    BY <1>2, <1>3
  <2>4. tick'[c] = tick[c] /\ ran'[c] = ran[c] /\ tick'[Peer(c)] = pt /\ net'[c] = net[c]
    BY <1>1
  <2>5. rw1 \in Int /\ rw <= rw1
    BY <2>1, <2>3
  <2>6. GateInv(c)'
    BY <1>4, <1>6, <2>1, <2>4, <2>5 DEF GateInv
  <2>7. MarkInv(c)'
    <3>1. IsInput(rec) => D <= rec.tick /\ rec.tick <= pt + D
      BY <1>2, <1>4, <1>6 DEF ReplyInv
    <3>2. rw = -2 \/ (D <= rw /\ rw <= pt + D)
      BY <1>4, <1>6 DEF MarkInv
    <3>3. rw1 = -2 \/ (D <= rw1 /\ rw1 <= pt + D)
      BY <2>3, <3>1, <3>2
    <3> QED
      BY <2>4, <3>3 DEF MarkInv
  <2>8. NetInv(c)'
    <3> SUFFICES ASSUME NEW i \in 1 .. Len(net[c]), IsInput(net[c][i])
                 PROVE  rw1 <= net[c][i].tick
      BY <1>4, <1>6, <2>4 DEF NetInv
    <3>1. rw <= net[c][i].tick
      BY <1>4, <1>6 DEF NetInv
    <3>2. IsInput(rec) => rec.tick <= net[c][i].tick
      BY <1>2, <1>4, <1>6 DEF ReplyInv
    <3> QED
      BY <2>3, <3>1, <3>2
  <2>9. ReplyInv(c)'
    <3> SUFFICES ASSUME NEW i \in 1 .. n - 1, IsInput(reply'[c][i])
                 PROVE  /\ D <= reply'[c][i].tick /\ reply'[c][i].tick <= pt + D
                        /\ rw1 - reply'[c][i].tick <= Spread
                        /\ \A j \in 1 .. n - 1 : IsInput(reply'[c][j]) =>
                             reply'[c][j].tick - reply'[c][i].tick <= Spread
                        /\ \A j \in 1 .. Len(net[c]) : IsInput(net[c][j]) =>
                             reply'[c][i].tick <= net[c][j].tick
      BY <2>2, <2>4 DEF ReplyInv
    <3>1. /\ i \in 1 .. n /\ reply'[c][i] = reply[c][i]
          /\ \A j \in 1 .. n - 1 : j \in 1 .. n /\ reply'[c][j] = reply[c][j]
      <4>1. n \in Nat
        BY <2>1
      <4> HIDE DEF n
      <4>2. \A j \in 1 .. n - 1 : j \in 1 .. n
        BY <4>1
      <4> QED
        BY <2>2, <4>2
    <3>2. /\ D <= reply[c][i].tick /\ reply[c][i].tick <= pt + D
          /\ rw - reply[c][i].tick <= Spread
          /\ \A j \in 1 .. n : IsInput(reply[c][j]) =>
               reply[c][j].tick - reply[c][i].tick <= Spread
          /\ \A j \in 1 .. Len(net[c]) : IsInput(net[c][j]) =>
               reply[c][i].tick <= net[c][j].tick
      BY <1>4, <1>6, <3>1 DEF ReplyInv
    <3>3. rw1 - reply[c][i].tick <= Spread
      BY <1>2, <2>3, <3>2
    <3> QED
      BY <3>1, <3>2, <3>3
  <2> QED
    BY <1>6, <2>6, <2>7, <2>8, <2>9
<1> QED
  BY <1>5, <1>6

LEMMA SkewStep == SkewInv /\ [Next]_vars => SkewInv'
<1> SUFFICES ASSUME SkewInv, [Next]_vars PROVE TickInv'
  BY TypeStep DEF SkewInv
<1>1. CASE UNCHANGED vars
  BY <1>1, TickUnchanged DEF vars, gateVars, xportVars
<1>2. ASSUME NEW c \in Console, DGSHIM(c) PROVE TickInv'
  <2>1. CASE MidTick(c)
    BY <2>1, TickUnchanged DEF MidTick, xportVars
  <2>2. CASE Boundary(c)
    BY <2>2, TickBoundary
  <2> QED
    BY <1>2, <2>1, <2>2 DEF DGSHIM
<1>3. ASSUME NEW c \in Console, DGNSTEP(c) PROVE TickInv'
  <2>1. CASE Fail(c)
    BY <2>1, TickUnchanged DEF Fail, gateVars
  <2> QED
    BY <1>3, <2>1, TickWrite, TickRead, TickConsume DEF DGNSTEP
<1>4. ASSUME NEW c \in Console, PowerOff(c) PROVE TickInv'
  BY <1>4, TickPowerOff
<1> QED
  BY <1>1, <1>2, <1>3, <1>4 DEF Next

LEMMA SkewInvariant == Spec => []SkewInv
BY SkewInit, SkewStep, PTL DEF Spec

(***************************************************************************)
(* The theorems.                                                           *)
(***************************************************************************)

(* Neither simulation is ever more than D+1 ticks past the other, for      *)
(* every delay D and however the network delays, drops or damages what it  *)
(* carries.                                                                *)
THEOREM BoundedSkew == Spec => []SkewBound
<1>1. SkewInv => SkewBound
  BY Distances DEF SkewBound
<1> QED
  BY <1>1, SkewInvariant, PTL

(* A remote ring of 2D+2 slots never has to hold two ticks in one slot.    *)
THEOREM RingIsLargeEnough == Spec => []RingHolds
<1>1. ASSUME SkewInv, NEW c \in Console PROVE rwat[c] - tick[c] < RingSize
  <2>1. /\ D \in Nat /\ tick[c] \in Int /\ rwat[c] \in Int /\ RingSize \in Nat
        /\ RingSize >= 2 * D + 2
    BY <1>1, TickTypes, Sizes, RingFits DEF SkewInv
  <2>2. rwat[c] <= tick[c] + 2 * D + 1
    BY <1>1, Distances
  <2> QED
    BY <2>1, <2>2
<1>2. SkewInv => RingHolds
  BY <1>1 DEF RingHolds
<1> QED
  BY <1>2, SkewInvariant, PTL

(* No compare of one-byte ticks is ever decided differently from the       *)
(* compare of the unbounded ticks they stand for.                          *)
THEOREM WrapIsInvisible == Spec => []WrapInvisible
<1>1. ASSUME SkewInv, NEW c \in Console
      PROVE  NotBehind(rwat[c], tick[c]) <=> rwat[c] >= tick[c]
  <2>1. tick[c] \in Int /\ rwat[c] \in Int
    BY <1>1, TickTypes DEF SkewInv
  <2>2. NotBehind(rwat[c], tick[c]) <=> tick[c] <= rwat[c]
    BY <1>1, GateExact DEF Arrived
  <2> QED
    BY <2>1, <2>2
<1>2. ASSUME SkewInv, NEW c \in Console, NEW r \in Unread(c)
      PROVE  /\ NotBehind(r.tick, rwat[c]) <=> r.tick >= rwat[c]
             /\ Comparable(c, r) <=> r.tick - D = tick[c]
  <2>1. /\ IsInput(r)
        /\ \/ \E i \in 1 .. Len(net[c]) : r = net[c][i]
           \/ \E i \in 1 .. Len(reply[c]) : r = reply[c][i]
    <3>1. net[c] \in Seq(Message) /\ reply[c] \in Seq(Message)
      BY <1>2, TickTypes DEF SkewInv
    <3>2. DOMAIN net[c] = 1 .. Len(net[c]) /\ DOMAIN reply[c] = 1 .. Len(reply[c])
      BY <3>1
    <3> QED
      BY <3>2 DEF Unread, Queued, Window, IsInput
  <2> QED
    BY <1>2, <2>1, MarkExact, MatchExact
<1>3. SkewInv => WrapInvisible
  BY <1>1, <1>2 DEF WrapInvisible
<1> QED
  BY <1>3, SkewInvariant, PTL

(* No step ever moves a watermark back, although a reply window is         *)
(* consumed newest record first.                                           *)
THEOREM WatermarkNeverBack == Spec => WatermarkMonotone
<1>1. ASSUME SkewInv, [Next]_vars
      PROVE  [\A c \in Console : rwat'[c] >= rwat[c]]_vars
  <2>1. ASSUME NEW c \in Console, rwat' = rwat PROVE rwat'[c] >= rwat[c]
    BY <1>1, <2>1, TickTypes DEF SkewInv
  <2>2. ASSUME NEW d \in Console, NEW c \in Console, Consume(d)
        PROVE  rwat'[c] >= rwat[c]
    <3>1. rwat \in [Console -> Int] /\ rwat[c] \in Int
      BY <1>1 DEF SkewInv, TypeInv, TypeOK, RemoteTypes
    <3> QED
      BY <1>1, <2>2, <3>1, MarkAfterConsume
  <2>3. ASSUME NEW d \in Console, ~Consume(d), DGSHIM(d) \/ DGNSTEP(d) \/ PowerOff(d)
        PROVE  rwat' = rwat
    BY <2>3 DEF DGSHIM, MidTick, Boundary, DGNSTEP, Write, Read, Fail, PowerOff
  <2> QED
    BY <1>1, <2>1, <2>2, <2>3 DEF Next
<1> QED
  BY <1>1, SkewInvariant, PTL DEF Spec, WatermarkMonotone

(***************************************************************************)
(* For every size the assumptions of Lockstep allow and for every network: *)
(*                                                                         *)
(* - What the consoles' cells say of the past (the local ring of the bytes *)
(*   captured, a record of the bytes and the checksum its sender had, the  *)
(*   checksum of the ticks run): records are immutable, and a repair is    *)
(*   armed only by simulations that did differ.                            *)
(* - The two simulations are one race, as long as no record comes after a  *)
(*   gap its window cannot fill: every tick runs on the bytes both players *)
(*   captured for it, so the consoles implement SharedRace.                *)
(***************************************************************************)

(***************************************************************************)
(* Slots of a ring: the residues of a tick.                                *)
(***************************************************************************)
LEMMA Division ==
  ASSUME NEW M \in Nat \ {0}, NEW x \in Int
  PROVE  /\ x \div M \in Int /\ x % M \in 0 .. M - 1
         /\ x = M * (x \div M) + (x % M)
OBVIOUS

LEMMA OneLap ==
  ASSUME NEW M \in Nat \ {0}, NEW k \in Int, -M < M * k, M * k < M
  PROVE  k = 0
<1>1. k >= 1 => M * k >= M
  OBVIOUS
<1>2. k <= -1 => M * k <= -M
  OBVIOUS
<1> QED
  BY <1>1, <1>2

LEMMA UniqueResidue ==
  ASSUME NEW M \in Nat \ {0}, NEW q \in Int, NEW r \in 0 .. M - 1
  PROVE  (M * q + r) % M = r
<1> DEFINE x == M * q + r
           p == x \div M
           s == x % M
<1>1. x \in Int /\ p \in Int /\ s \in 0 .. M - 1 /\ x = M * p + s
  BY Division
<1>2. M * (p - q) = r - s
  BY <1>1
<1>3. p - q = 0
  <2>1. -M < r - s /\ r - s < M
    BY <1>1
  <2> HIDE DEF p, s, x
  <2>2. p - q \in Int
    BY <1>1
  <2> QED
    BY <1>2, <2>1, <2>2, OneLap
<1> QED
  BY <1>2, <1>3

(* Two ticks less than a lap apart share a slot only when they are equal.  *)
LEMMA SameSlot ==
  ASSUME NEW M \in Nat \ {0}, NEW a \in Int, NEW b \in Int, a % M = b % M,
         -M < a - b, a - b < M
  PROVE  a = b
<1>1. /\ a \div M \in Int /\ b \div M \in Int
      /\ a = M * (a \div M) + (a % M) /\ b = M * (b \div M) + (b % M)
  BY Division
<1> DEFINE k == a \div M - b \div M
<1>2. a - b = M * k /\ k \in Int
  BY <1>1
<1> HIDE DEF k
<1>3. k = 0
  BY <1>2, OneLap
<1> QED
  BY <1>2, <1>3

(* The distance of a tick behind another, told from its slot alone.        *)
LEMMA SlotDistance ==
  ASSUME NEW M \in Nat \ {0}, NEW a \in Int, NEW b \in Int
  PROVE  /\ (a - (b % M)) % M = (a - b) % M
         /\ (a - ((a - b) % M)) % M = b % M
<1> DEFINE d == a - b
           i == d % M
           q == d \div M
           r == b % M
           p == b \div M
<1>1. p \in Int /\ r \in 0 .. M - 1 /\ b = M * p + r
  BY Division
<1>2. q \in Int /\ i \in 0 .. M - 1 /\ d = M * q + i
  <2>1. d \in Int
    OBVIOUS
  <2> HIDE DEF d
  <2> QED
    BY <2>1, Division
<1>3. q + p \in Int
  BY <1>1, <1>2
<1>4. a - r = M * (q + p) + i /\ a - i = M * (q + p) + r
  BY <1>1, <1>2
<1> HIDE DEF q, p, r, i
<1>5. (M * (q + p) + i) % M = i /\ (M * (q + p) + r) % M = r
  BY <1>1, <1>2, <1>3, UniqueResidue
<1> QED
  BY <1>4, <1>5 DEF r, i

(***************************************************************************)
(* Where messages come from, and how the histories grow.                   *)
(***************************************************************************)

LEMMA ElementsOfSplit ==
  ASSUME NEW S, NEW s \in Seq(S), NEW n \in 0 .. Len(s)
  PROVE  /\ \A i \in DOMAIN SubSeq(s, 1, n) : \E j \in DOMAIN s : SubSeq(s, 1, n)[i] = s[j]
         /\ \A i \in DOMAIN SubSeq(s, n + 1, Len(s)) :
              \E j \in DOMAIN s : SubSeq(s, n + 1, Len(s))[i] = s[j]
<1>1. /\ DOMAIN SubSeq(s, 1, n) = 1 .. n
      /\ DOMAIN SubSeq(s, n + 1, Len(s)) = 1 .. Len(s) - n
      /\ DOMAIN s = 1 .. Len(s) /\ Len(s) \in Nat /\ n \in Nat /\ n <= Len(s)
  BY SplitSeq, LenProperties
<1>2. ASSUME NEW i \in 1 .. n PROVE i \in DOMAIN s
  BY <1>1
<1>3. ASSUME NEW i \in 1 .. Len(s) - n PROVE n + i \in DOMAIN s
  BY <1>1
<1>4. /\ \A i \in 1 .. n : SubSeq(s, 1, n)[i] = s[i]
      /\ \A i \in 1 .. Len(s) - n : SubSeq(s, n + 1, Len(s))[i] = s[n + i]
  BY SplitSeq
<1> QED
  BY <1>1, <1>2, <1>3, <1>4

(* What is on its way to c was so before, or its peer has just sent it;    *)
(* what is in c's window was there, or on its way.                         *)
LEMMA Flow ==
  ASSUME TypeInv, [Next]_vars, NEW c \in Console
  PROVE  /\ \A m \in Queued(c)' :
              \/ m \in Queued(c)
              \/ m = LeftFrame
              \/ /\ tick[Peer(c)] >= 0 /\ UNCHANGED gateVars
                 /\ \E good \in BOOLEAN : m = RecordOf(Peer(c), good)
         /\ Window(c)' \subseteq Queued(c) \cup Window(c)
<1> DEFINE New(m) == \/ m \in Queued(c)
                     \/ m = LeftFrame
                     \/ /\ tick[Peer(c)] >= 0 /\ UNCHANGED gateVars
                        /\ \E good \in BOOLEAN : m = RecordOf(Peer(c), good)
<1>1. net \in [Console -> Seq(Message)] /\ reply \in [Console -> Seq(Message)]
  BY DEF TypeInv, TypeOK, TransportTypes
<1>2. ASSUME net'[c] = net[c] PROVE Queued(c)' = Queued(c)
  BY <1>2 DEF Queued
<1>3. ASSUME reply'[c] = reply[c] PROVE Window(c)' = Window(c)
  BY <1>3 DEF Window
<1>4. ASSUME NEW m, net' = [net EXCEPT ![c] = Append(net[c], m)]
      PROVE  Queued(c)' = Queued(c) \cup {m}
  <2>1. net[c] \in Seq(Message) /\ net'[c] = Append(net[c], m)
    BY <1>1, <1>4
  <2>2. /\ DOMAIN net'[c] = 1 .. Len(net[c]) + 1 /\ DOMAIN net[c] = 1 .. Len(net[c])
        /\ \A i \in 1 .. Len(net[c]) : net'[c][i] = net[c][i]
        /\ net'[c][Len(net[c]) + 1] = m /\ Len(net[c]) \in Nat
    BY <2>1
  <2>3. 1 .. Len(net[c]) + 1 = (1 .. Len(net[c])) \cup {Len(net[c]) + 1}
    BY <2>2
  <2> QED
    BY <2>2, <2>3 DEF Queued
<1>5. CASE UNCHANGED <<net, reply>>
  BY <1>2, <1>3, <1>5
<1>6. ASSUME NEW d \in Console, Write(d)
      PROVE  (\A m \in Queued(c)' : New(m)) /\ Window(c)' = Window(c)
  <2>1. PICK good \in BOOLEAN : Send(Peer(d), RecordOf(d, good))
    BY <1>6 DEF Write
  <2>2. reply' = reply /\ tick[d] >= 0 /\ UNCHANGED gateVars
    BY <1>6 DEF Write, Stepping
  <2>3. \/ net' = net
        \/ net' = [net EXCEPT ![Peer(d)] = Append(net[Peer(d)], RecordOf(d, good))]
    BY <2>1 DEF Send
  <2>4. CASE net' = net
    BY <1>2, <1>3, <2>2, <2>4
  <2>5. CASE net' = [net EXCEPT ![Peer(d)] = Append(net[Peer(d)], RecordOf(d, good))]
    <3>1. CASE c = Peer(d)
      <4>1. net' = [net EXCEPT ![c] = Append(net[c], RecordOf(d, good))]
        BY <2>5, <3>1
      <4>2. Queued(c)' = Queued(c) \cup {RecordOf(d, good)}
        BY <1>4, <4>1
      <4>3. d = Peer(c)
        BY <3>1, Peers
      <4>4. New(RecordOf(d, good))
        BY <2>2, <4>3
      <4>5. \A m \in Queued(c) : New(m)
        OBVIOUS
      <4> HIDE DEF New
      <4> QED
        BY <1>3, <2>2, <4>2, <4>4, <4>5
    <3>2. CASE c # Peer(d)
      BY <1>1, <1>2, <1>3, <2>2, <2>5, <3>2
    <3> QED
      BY <3>1, <3>2
  <2> QED
    BY <2>3, <2>4, <2>5
<1>7. ASSUME NEW d \in Console, PowerOff(d)
      PROVE  (\A m \in Queued(c)' : New(m)) /\ Window(c)' = Window(c)
  <2>1. /\ reply' = reply
        /\ net' = net \/ net' = [net EXCEPT ![Peer(d)] = Append(net[Peer(d)], LeftFrame)]
    BY <1>7 DEF PowerOff
  <2>2. CASE net' = net
    BY <1>2, <1>3, <2>1, <2>2
  <2>3. CASE net' = [net EXCEPT ![Peer(d)] = Append(net[Peer(d)], LeftFrame)]
    <3>1. CASE c = Peer(d)
      <4>1. net' = [net EXCEPT ![c] = Append(net[c], LeftFrame)]
        BY <2>3, <3>1
      <4>2. Queued(c)' = Queued(c) \cup {LeftFrame}
        BY <1>4, <4>1
      <4> QED
        BY <1>3, <2>1, <4>2
    <3>2. CASE c # Peer(d)
      BY <1>1, <1>2, <1>3, <2>1, <2>3, <3>2
    <3> QED
      BY <3>1, <3>2
  <2> QED
    BY <2>1, <2>2, <2>3
<1>8. ASSUME NEW d \in Console, Read(d)
      PROVE  (\A m \in Queued(c)' : New(m)) /\ Window(c)' \subseteq Queued(c) \cup Window(c)
  <2>1. PICK n \in 0 .. Len(net[d]) :
          /\ reply' = [reply EXCEPT ![d] = SubSeq(net[d], 1, n)]
          /\ net' = [net EXCEPT ![d] = SubSeq(net[d], n + 1, Len(net[d]))]
    BY <1>8 DEF Read
  <2>2. CASE c = d
    <3>1. /\ reply'[c] = SubSeq(net[c], 1, n)
          /\ net'[c] = SubSeq(net[c], n + 1, Len(net[c]))
          /\ net[c] \in Seq(Message) /\ n \in 0 .. Len(net[c])
      BY <1>1, <2>1, <2>2
    <3>2. /\ \A i \in DOMAIN reply'[c] : \E j \in DOMAIN net[c] : reply'[c][i] = net[c][j]
          /\ \A i \in DOMAIN net'[c] : \E j \in DOMAIN net[c] : net'[c][i] = net[c][j]
      BY <3>1, ElementsOfSplit
    <3> QED
      BY <3>2 DEF Queued, Window
  <2>3. CASE c # d
    BY <1>1, <1>2, <1>3, <2>1, <2>3
  <2> QED
    BY <2>2, <2>3
<1>9. ASSUME NEW d \in Console, Consume(d)
      PROVE  (\A m \in Queued(c)' : New(m)) /\ Window(c)' \subseteq Queued(c) \cup Window(c)
  <2>1. /\ net' = net
        /\ reply' = [reply EXCEPT ![d] = SubSeq(reply[d], 1, Len(reply[d]) - 1)]
    BY <1>9 DEF Consume
  <2>2. CASE c = d
    <3>1. reply[c] \in Seq(Message) /\ reply[c] # <<>>
      BY <1>1, <1>9, <2>2 DEF Consume, Stepping, TypeInv, WindowInUse
    <3>2. Len(reply[c]) - 1 \in 0 .. Len(reply[c])
      BY <3>1
    <3>3. reply'[c] = SubSeq(reply[c], 1, Len(reply[c]) - 1)
      BY <1>1, <2>1, <2>2
    <3>4. \A i \in DOMAIN reply'[c] : \E j \in DOMAIN reply[c] : reply'[c][i] = reply[c][j]
      BY <3>1, <3>2, <3>3, ElementsOfSplit
    <3> QED
      BY <1>2, <2>1, <3>4 DEF Window
  <2>3. CASE c # d
    BY <1>1, <1>2, <1>3, <2>1, <2>3
  <2> QED
    BY <2>2, <2>3
<1>10. ASSUME NEW d \in Console, MidTick(d) \/ Boundary(d) \/ Fail(d)
       PROVE  UNCHANGED <<net, reply>>
  BY <1>10 DEF MidTick, Boundary, Fail, xportVars
<1>11. UNCHANGED vars => UNCHANGED <<net, reply>>
  BY DEF vars, xportVars
<1> QED
  BY <1>5, <1>6, <1>7, <1>8, <1>9, <1>10, <1>11 DEF Next, DGSHIM, DGNSTEP

(***************************************************************************)
(* The inductive invariant.                                                *)
(***************************************************************************)
Prefix(c, n) == SubSeq(applied[c], 1, n)

(* A byte is captured for every tick up to tick + D, and the local ring    *)
(* holds the newest of them.                                               *)
CaptureInv(c) ==
  /\ Len(cap[c]) = tick[c] + 1
  /\ \A t \in Nat :
       tick[c] + D - LocSize < t /\ t <= tick[c] + D => loc[c][t % LocSize] = Captured(c, t)

(* How many ticks have run, on how many frames, and that the checksum is   *)
(* the one of the state that enters the tick.                              *)
RunInv(c) ==
  /\ Len(applied[c]) = tick[c] + (IF ran[c] THEN 1 ELSE 0)
  /\ clk[c] = K * Len(applied[c]) - (IF phase[c] = 0 THEN 0 ELSE K - phase[c])
  /\ tick[c] >= 0 => crcv[c] = DGCRC(Prefix(c, tick[c]), K * tick[c])

(* An unread record tells the truth of its sender.                         *)
Genuine(p, m) ==
  /\ \A i \in 1 .. Win : m.tick - (i - 1) >= 0 => m.win[i] = Captured(p, m.tick - (i - 1))
  /\ m.crc = DGCRC(Prefix(p, m.tick - D), K * (m.tick - D))

HistInv ==
  /\ SkewInv
  /\ \A c \in Console : CaptureInv(c) /\ RunInv(c)
  /\ \A c \in Console : \A m \in Unread(c) : Genuine(Peer(c), m)
  /\ NoFalseAlarm

(* The types of one console's histories.                                   *)
LEMMA HistTypes ==
  ASSUME TypeInv, NEW c \in Console
  PROVE  /\ applied[c] \in Seq(Byte \X Byte) /\ Len(applied[c]) \in Nat
         /\ cap[c] \in Seq(Byte) /\ Len(cap[c]) \in Nat
         /\ loc[c] \in [0 .. LocSize - 1 -> Byte]
         /\ tick[c] \in Int /\ tick[c] >= -1 /\ ran[c] \in BOOLEAN
         /\ clk[c] \in Nat /\ phase[c] \in 0 .. K - 1
         /\ D \in Nat \ {0} /\ K \in Nat \ {0} /\ LocSize \in Nat \ {0}
         /\ Win \in Nat \ {0} /\ Win <= LocSize
<1>1. GateTypes /\ CaptureTypes
  BY DEF TypeInv, TypeOK
<1>2. /\ applied[c] \in Seq(Byte \X Byte) /\ clk[c] \in Nat /\ phase[c] \in 0 .. K - 1
      /\ ran[c] \in BOOLEAN
  BY <1>1 DEF GateTypes
<1>3. /\ cap[c] \in Seq(Byte) /\ loc[c] \in [0 .. LocSize - 1 -> Byte]
      /\ tick[c] \in Nat \cup {-1}
  BY <1>1 DEF CaptureTypes
<1>4. /\ D \in Nat \ {0} /\ K \in Nat \ {0} /\ LocSize \in Nat \ {0}
      /\ Win \in Nat \ {0} /\ Win <= LocSize
  BY Sizes
<1>5. Len(applied[c]) \in Nat /\ Len(cap[c]) \in Nat
  BY <1>2, <1>3
<1> QED
  BY <1>2, <1>3, <1>4, <1>5

(* A step of the gate of c, or none of what the gate of c keeps moves.     *)
LEMMA GateCases ==
  ASSUME TypeInv, [Next]_vars, NEW c \in Console
  PROVE  \/ Boundary(c)
         \/ MidTick(c)
         \/ /\ tick'[c] = tick[c] /\ loc'[c] = loc[c] /\ cap'[c] = cap[c]
            /\ ran'[c] = ran[c] /\ phase'[c] = phase[c] /\ clk'[c] = clk[c]
            /\ applied'[c] = applied[c] /\ crcv'[c] = crcv[c]
<1>1. GateTypes /\ CaptureTypes
  BY DEF TypeInv, TypeOK
<1>2. ASSUME NEW d \in Console, d # c, DGSHIM(d)
      PROVE  /\ tick'[c] = tick[c] /\ loc'[c] = loc[c] /\ cap'[c] = cap[c]
             /\ ran'[c] = ran[c] /\ phase'[c] = phase[c] /\ clk'[c] = clk[c]
             /\ applied'[c] = applied[c] /\ crcv'[c] = crcv[c]
  <2>1. CASE MidTick(d)
    BY <1>1, <1>2, <2>1 DEF MidTick, GateTypes
  <2>2. CASE Boundary(d)
    <3>1. tick'[c] = tick[c] /\ loc'[c] = loc[c] /\ cap'[c] = cap[c] /\ crcv'[c] = crcv[c]
      <4>1. CASE Retry(d)
        BY <4>1 DEF Retry
      <4>2. ASSUME NEW press \in Switch, Commit(d, press)
            PROVE  /\ tick'[c] = tick[c] /\ loc'[c] = loc[c] /\ cap'[c] = cap[c]
                   /\ crcv'[c] = crcv[c]
        BY <1>1, <1>2, <4>2 DEF Commit, CaptureTypes
      <4> QED
        BY <2>2, <4>1, <4>2 DEF Boundary, Advance
    <3>2. /\ ran'[c] = ran[c] /\ phase'[c] = phase[c] /\ clk'[c] = clk[c]
          /\ applied'[c] = applied[c]
      <4>1. CASE RunTick(d)
        BY <1>1, <1>2, <4>1 DEF RunTick, GateTypes
      <4>2. CASE Stall(d)
        BY <1>1, <1>2, <4>2 DEF Stall, Frozen, GateTypes
      <4> QED
        BY <2>2, <4>1, <4>2 DEF Boundary
    <3> QED
      BY <3>1, <3>2
  <2> QED
    BY <1>2, <2>1, <2>2 DEF DGSHIM
<1>3. ASSUME NEW d \in Console, DGNSTEP(d) \/ PowerOff(d)
      PROVE  UNCHANGED <<tick, loc, cap, ran, phase, clk, applied, crcv>>
  BY <1>3 DEF DGNSTEP, Write, Read, Fail, Consume, PowerOff, gateVars
<1>4. UNCHANGED vars => UNCHANGED <<tick, loc, cap, ran, phase, clk, applied, crcv>>
  BY DEF vars, gateVars
<1>5. CASE \E d \in Console : DGSHIM(d)
  BY <1>2, <1>5 DEF DGSHIM
<1> QED
  BY <1>3, <1>4, <1>5 DEF Next

(* Appending keeps what is there.                                          *)
LEMMA Appended ==
  ASSUME NEW S, NEW s \in Seq(S), NEW e \in S
  PROVE  /\ Append(s, e) \in Seq(S) /\ Len(Append(s, e)) = Len(s) + 1
         /\ \A i \in 1 .. Len(s) : Append(s, e)[i] = s[i]
         /\ Append(s, e)[Len(s) + 1] = e
BY AppendProperties

(* A boundary of c, told as what it does to c's cells.                     *)
LEMMA BoundaryCells ==
  ASSUME TypeInv, NEW c \in Console, Boundary(c)
  PROVE  /\ phase[c] = 0
         /\ \/ /\ ran[c] /\ tick'[c] = tick[c] + 1
               /\ crcv'[c] = DGCRC(applied[c], clk[c])
               /\ \E byte \in Byte :
                    /\ cap'[c] = Append(cap[c], byte)
                    /\ loc'[c] = [loc[c] EXCEPT ![(tick[c] + 1 + D) % LocSize] = byte]
            \/ /\ ~ran[c] /\ tick'[c] = tick[c] /\ crcv'[c] = crcv[c]
               /\ cap'[c] = cap[c] /\ loc'[c] = loc[c]
         /\ \/ /\ ran'[c] /\ phase'[c] = (0 + 1) % K /\ clk'[c] = clk[c] + 1
               /\ Arrived(c, tick'[c])
               /\ applied'[c] = Append(applied[c],
                    Pair(c, loc'[c][tick'[c] % LocSize], ring[c][tick'[c] % RingSize]))
            \/ /\ ~ran'[c] /\ phase'[c] = 0 /\ clk'[c] = clk[c] /\ applied'[c] = applied[c]
<1>1. GateTypes /\ CaptureTypes
  BY DEF TypeInv, TypeOK
<1>2. phase[c] = 0
  BY DEF Boundary
<1>3. ASSUME NEW press \in Switch, Commit(c, press)
      PROVE  /\ tick'[c] = tick[c] + 1
             /\ crcv'[c] = DGCRC(applied[c], clk[c])
             /\ \E byte \in Byte :
                  /\ cap'[c] = Append(cap[c], byte)
                  /\ loc'[c] = [loc[c] EXCEPT ![(tick[c] + 1 + D) % LocSize] = byte]
  <2> DEFINE byte == DGCAP(c, tick[c] + 1, press)
  <2>1. byte \in Byte
    <3>1. tick[c] + 1 + D \in Nat /\ (press = "RESET" \/ rsy[c]) \in BOOLEAN
      BY <1>1, HistTypes DEF CaptureTypes
    <3> QED
      BY <3>1 DEF DGCAP, Byte
  <2>2. /\ tick' = [tick EXCEPT ![c] = tick[c] + 1]
        /\ crcv' = [crcv EXCEPT ![c] = DGCRC(applied[c], clk[c])]
        /\ loc' = [loc EXCEPT ![c] = [loc[c] EXCEPT ![(tick[c] + 1 + D) % LocSize] = byte]]
        /\ cap' = [cap EXCEPT ![c] = Append(cap[c], byte)]
    BY <1>3 DEF Commit
  <2> HIDE DEF byte
  <2> QED
    BY <1>1, <2>1, <2>2 DEF CaptureTypes
<1>4. ASSUME RunTick(c)
      PROVE  /\ ran'[c] /\ phase'[c] = (0 + 1) % K /\ clk'[c] = clk[c] + 1
             /\ Arrived(c, tick'[c])
             /\ applied'[c] = Append(applied[c],
                  Pair(c, loc'[c][tick'[c] % LocSize], ring[c][tick'[c] % RingSize]))
  BY <1>1, <1>2, <1>4 DEF RunTick, GateTypes
<1>5. ASSUME Stall(c)
      PROVE  /\ ~ran'[c] /\ phase'[c] = 0 /\ clk'[c] = clk[c] /\ applied'[c] = applied[c]
  BY <1>1, <1>2, <1>5 DEF Stall, Frozen, GateTypes
<1>6. RunTick(c) \/ Stall(c)
  BY DEF Boundary
<1>7. \/ ran[c] /\ \E press \in Switch : Commit(c, press)
      \/ ~ran[c] /\ Retry(c)
  BY DEF Boundary, Advance
<1>8. Retry(c) => tick'[c] = tick[c] /\ crcv'[c] = crcv[c] /\ cap'[c] = cap[c] /\ loc'[c] = loc[c]
  BY DEF Retry
<1> QED
  BY <1>2, <1>3, <1>4, <1>5, <1>6, <1>7, <1>8

(* Ticks are not taken back, and the histories only grow.                  *)
LEMMA Growth ==
  ASSUME TypeInv, [Next]_vars, NEW c \in Console
  PROVE  /\ tick[c] <= tick'[c] /\ tick'[c] \in Int
         /\ Len(applied[c]) <= Len(applied'[c]) /\ Len(applied'[c]) \in Nat
         /\ \A i \in 1 .. Len(applied[c]) : applied'[c][i] = applied[c][i]
         /\ Len(cap[c]) <= Len(cap'[c])
         /\ \A i \in 1 .. Len(cap[c]) : cap'[c][i] = cap[c][i]
<1>1. TypeInv'
  BY TypeStep
<1>2. /\ applied[c] \in Seq(Byte \X Byte) /\ Len(applied[c]) \in Nat
      /\ cap[c] \in Seq(Byte) /\ Len(cap[c]) \in Nat /\ tick[c] \in Int
  BY HistTypes
<1>3. applied'[c] \in Seq(Byte \X Byte) /\ Len(applied'[c]) \in Nat /\ tick'[c] \in Int
  <2>1. applied'[c] \in Seq(Byte \X Byte) /\ tick'[c] \in Nat \cup {-1}
    BY <1>1 DEF TypeInv, TypeOK, GateTypes, CaptureTypes
  <2> QED
    BY <2>1
<1>4. ASSUME Boundary(c)
      PROVE  /\ tick[c] <= tick'[c]
             /\ cap'[c] = cap[c] \/ \E byte \in Byte : cap'[c] = Append(cap[c], byte)
             /\ applied'[c] = applied[c] \/ \E pair : applied'[c] = Append(applied[c], pair)
  <2>1. tick[c] <= tick'[c]
    BY <1>2, <1>4, BoundaryCells
  <2>2. cap'[c] = cap[c] \/ \E byte \in Byte : cap'[c] = Append(cap[c], byte)
    BY <1>4, BoundaryCells
  <2>3. applied'[c] = applied[c] \/ \E pair : applied'[c] = Append(applied[c], pair)
    BY <1>4, BoundaryCells
  <2> QED
    BY <2>1, <2>2, <2>3
<1>5. ASSUME tick'[c] = tick[c], applied'[c] = applied[c], cap'[c] = cap[c]
      PROVE  /\ tick[c] <= tick'[c]
             /\ cap'[c] = cap[c] \/ \E byte \in Byte : cap'[c] = Append(cap[c], byte)
             /\ applied'[c] = applied[c] \/ \E pair : applied'[c] = Append(applied[c], pair)
  BY <1>2, <1>5
<1>6. /\ tick[c] <= tick'[c]
      /\ cap'[c] = cap[c] \/ \E byte \in Byte : cap'[c] = Append(cap[c], byte)
      /\ applied'[c] = applied[c] \/ \E pair : applied'[c] = Append(applied[c], pair)
  <2>1. MidTick(c) => tick'[c] = tick[c] /\ applied'[c] = applied[c] /\ cap'[c] = cap[c]
    BY DEF MidTick
  <2>2. \/ Boundary(c)
        \/ tick'[c] = tick[c] /\ applied'[c] = applied[c] /\ cap'[c] = cap[c]
    BY <2>1, GateCases
  <2> QED
    BY <1>4, <1>5, <2>2
<1>7. /\ Len(cap[c]) <= Len(cap'[c])
      /\ \A i \in 1 .. Len(cap[c]) : cap'[c][i] = cap[c][i]
  <2>1. ASSUME NEW byte \in Byte, cap'[c] = Append(cap[c], byte)
        PROVE  /\ Len(cap[c]) <= Len(cap'[c])
               /\ \A i \in 1 .. Len(cap[c]) : cap'[c][i] = cap[c][i]
    BY <1>2, <2>1, Appended
  <2>2. CASE cap'[c] = cap[c]
    BY <1>2, <2>2
  <2> QED
    BY <1>6, <2>1, <2>2
<1>8. /\ Len(applied[c]) <= Len(applied'[c])
      /\ \A i \in 1 .. Len(applied[c]) : applied'[c][i] = applied[c][i]
  <2>1. ASSUME NEW pair, applied'[c] = Append(applied[c], pair)
        PROVE  /\ Len(applied[c]) <= Len(applied'[c])
               /\ \A i \in 1 .. Len(applied[c]) : applied'[c][i] = applied[c][i]
    BY <1>2, <2>1
  <2>2. CASE applied'[c] = applied[c]
    BY <1>2, <2>2
  <2> QED
    BY <1>6, <2>1, <2>2
<1> QED
  BY <1>3, <1>6, <1>7, <1>8

(* So what was captured and what was run stays as it was.                  *)
LEMMA PastIsFixed ==
  ASSUME TypeInv, [Next]_vars, NEW c \in Console, Len(cap[c]) = tick[c] + 1
  PROVE  /\ \A t \in Int : t <= tick[c] + D => Captured(c, t)' = Captured(c, t)
         /\ \A n \in 0 .. Len(applied[c]) : Prefix(c, n)' = Prefix(c, n)
<1>1. tick[c] \in Int /\ D \in Nat \ {0} /\ Len(cap[c]) \in Nat /\ Len(applied[c]) \in Nat
  BY HistTypes
<1>2. ASSUME NEW t \in Int, t <= tick[c] + D PROVE Captured(c, t)' = Captured(c, t)
  <2>1. CASE t < D
    BY <2>1 DEF Captured
  <2>2. CASE t >= D
    <3>1. t - D + 1 \in 1 .. Len(cap[c])
      BY <1>1, <1>2, <2>2
    <3>2. cap'[c][t - D + 1] = cap[c][t - D + 1]
      BY <3>1, Growth
    <3> QED
      BY <1>1, <2>2, <3>2 DEF Captured
  <2> QED
    BY <1>1, <2>1, <2>2
<1>3. ASSUME NEW n \in 0 .. Len(applied[c]) PROVE Prefix(c, n)' = Prefix(c, n)
  <2>1. \A i \in 1 .. n : i \in 1 .. Len(applied[c])
    BY <1>1
  <2>2. \A i \in 1 .. n : applied'[c][i] = applied[c][i]
    BY <2>1, Growth
  <2>3. n \in Nat
    BY <1>1
  <2>4. /\ SubSeq(applied'[c], 1, n) = [i \in 1 .. n |-> applied'[c][i]]
        /\ SubSeq(applied[c], 1, n) = [i \in 1 .. n |-> applied[c][i]]
    BY <2>3
  <2> QED
    BY <2>2, <2>4 DEF Prefix
<1> QED
  BY <1>2, <1>3

(***************************************************************************)
(* The steps.                                                              *)
(***************************************************************************)

(* A tick's byte goes to its own slot, and the ring is a window on them.   *)
LEMMA CaptureStep ==
  ASSUME HistInv, [Next]_vars, NEW c \in Console
  PROVE  CaptureInv(c)'
<1> DEFINE T == tick[c]
           L == LocSize
<1>1. TypeInv /\ CaptureInv(c)
  BY DEF HistInv, SkewInv
<1>2. /\ T \in Int /\ T >= -1 /\ D \in Nat \ {0} /\ L \in Nat \ {0}
      /\ loc[c] \in [0 .. L - 1 -> Byte] /\ cap[c] \in Seq(Byte)
  BY <1>1, HistTypes
<1>3. \A t \in Int : t <= T + D => Captured(c, t)' = Captured(c, t)
  BY <1>1, PastIsFixed DEF CaptureInv
<1>4. CASE tick'[c] = tick[c] /\ cap'[c] = cap[c] /\ loc'[c] = loc[c]
  <2>1. ASSUME NEW t \in Nat, tick'[c] + D - L < t, t <= tick'[c] + D
        PROVE  loc'[c][t % L] = Captured(c, t)'
    BY <1>1, <1>2, <1>3, <1>4, <2>1, SMTT(30) DEF CaptureInv
  <2> QED
    BY <1>1, <1>4, <2>1 DEF CaptureInv
<1>5. ASSUME NEW byte \in Byte, tick'[c] = T + 1, cap'[c] = Append(cap[c], byte),
             loc'[c] = [loc[c] EXCEPT ![(T + 1 + D) % L] = byte]
      PROVE  CaptureInv(c)'
  <2>1. Len(cap[c]) = T + 1
    BY <1>1 DEF CaptureInv
  <2>2. Len(cap'[c]) = T + 2 /\ cap'[c][T + 2] = byte
    BY <1>2, <1>5, <2>1, Appended, SMTT(30)
  <2>3. ASSUME NEW t \in Nat, T + 1 + D - L < t, t <= T + 1 + D
        PROVE  loc'[c][t % L] = Captured(c, t)'
    <3>1. t % L \in 0 .. L - 1
      BY <1>2, Division
    <3>2. CASE t = T + 1 + D
      <4>1. loc'[c][t % L] = byte
        BY <1>2, <1>5, <3>1, <3>2
      <4>2. ~(t < D) /\ t - D + 1 = T + 2
        BY <1>2, <3>2
      <4> QED
        BY <2>2, <4>1, <4>2 DEF Captured
    <3>3. CASE t # T + 1 + D
      <4>1. /\ t <= T + D /\ T + D - L < t /\ T + 1 + D \in Int
            /\ -L < t - (T + 1 + D) /\ t - (T + 1 + D) < L
        <5>1. T \in Int /\ D \in Nat /\ L \in Nat \ {0} /\ t \in Nat
          BY <1>2
        <5> HIDE DEF T, L
        <5> QED
          BY <2>3, <3>3, <5>1
      <4>2. t % L # (T + 1 + D) % L
        <5>1. L \in Nat \ {0} /\ t \in Int
          BY <1>2
        <5>2. T + 1 + D \in Int /\ -L < t - (T + 1 + D) /\ t - (T + 1 + D) < L
          BY <4>1
        <5> HIDE DEF T, L
        <5> QED
          BY <3>3, <5>1, <5>2, SameSlot
      <4>3. loc'[c][t % L] = loc[c][t % L]
        BY <1>2, <1>5, <3>1, <4>2
      <4> QED
        BY <1>1, <1>3, <4>1, <4>3 DEF CaptureInv
    <3> QED
      BY <3>2, <3>3
  <2>4. Len(cap'[c]) = tick'[c] + 1
    BY <1>2, <1>5, <2>2
  <2> QED
    BY <1>2, <1>5, <2>3, <2>4 DEF CaptureInv
<1>6. ASSUME Boundary(c) PROVE CaptureInv(c)'
  <2>1. CASE ran[c]
    BY <1>1, <1>5, <1>6, <2>1, BoundaryCells
  <2>2. CASE ~ran[c]
    BY <1>1, <1>4, <1>6, <2>2, BoundaryCells
  <2> QED
    BY <2>1, <2>2
<1>7. MidTick(c) => tick'[c] = tick[c] /\ cap'[c] = cap[c] /\ loc'[c] = loc[c]
  BY DEF MidTick
<1> QED
  BY <1>1, <1>4, <1>6, <1>7, GateCases

(* One more tick is K more frames.                                         *)
LEMMA Frames ==
  ASSUME NEW k \in Nat \ {0}, NEW n \in Nat
  PROVE  k * n \in Nat /\ k * (n + 1) = k * n + k
OBVIOUS

(* A frame of the sim clock is a frame of a tick that ran.                 *)
LEMMA RunStep ==
  ASSUME HistInv, [Next]_vars, NEW c \in Console
  PROVE  RunInv(c)'
<1>1. TypeInv /\ RunInv(c) /\ CaptureInv(c)
  BY DEF HistInv, SkewInv
<1>a. PICK T \in Int : T = tick[c]
  BY <1>1, HistTypes
<1>b. PICK n \in Nat : n = Len(applied[c])
  BY <1>1, HistTypes
<1>c. PICK ph \in 0 .. K - 1 : ph = phase[c]
  BY <1>1, HistTypes
<1>2. /\ T \in Int /\ T >= -1 /\ D \in Nat \ {0} /\ K \in Nat \ {0}
      /\ applied[c] \in Seq(Byte \X Byte) /\ n \in Nat /\ clk[c] \in Nat
      /\ ran[c] \in BOOLEAN /\ ph \in 0 .. K - 1
  BY <1>1, <1>a, <1>b, <1>c, HistTypes
<1>3. \A i \in 0 .. n : SubSeq(applied'[c], 1, i) = SubSeq(applied[c], 1, i)
  BY <1>1, <1>b, PastIsFixed DEF CaptureInv, Prefix
<1>4. K * n \in Nat /\ K * (n + 1) = K * n + K
  BY <1>2, Frames
<1>5. /\ n = T + (IF ran[c] THEN 1 ELSE 0)
      /\ clk[c] = K * n - (IF ph = 0 THEN 0 ELSE K - ph)
      /\ T >= 0 => crcv[c] = DGCRC(SubSeq(applied[c], 1, T), K * T)
  BY <1>1, <1>a, <1>b, <1>c DEF RunInv, Prefix
<1>6. T >= 0 => T \in 0 .. n
  BY <1>2, <1>5
<1>7. ASSUME tick'[c] = T, ran'[c] = ran[c], applied'[c] = applied[c], crcv'[c] = crcv[c],
             clk'[c] = K * n - (IF phase'[c] = 0 THEN 0 ELSE K - phase'[c])
      PROVE  RunInv(c)'
  <2>1. T >= 0 => crcv'[c] = DGCRC(SubSeq(applied'[c], 1, T), K * T)
    BY <1>3, <1>5, <1>6, <1>7
  <2> QED
    BY <1>a, <1>b, <1>5, <1>7, <2>1 DEF RunInv, Prefix
<1>8. CASE MidTick(c)
  <2>1. /\ phase'[c] = (ph + 1) % K /\ clk'[c] = clk[c] + 1 /\ ph # 0
        /\ UNCHANGED <<tick, ran, applied, crcv>>
    BY <1>1, <1>c, <1>8 DEF MidTick, TypeInv, TypeOK, GateTypes
  <2>2. phase'[c] = (IF ph + 1 = K THEN 0 ELSE ph + 1)
    <3>1. CASE ph + 1 = K
      BY <1>2, <2>1, <3>1
    <3>2. CASE ph + 1 # K
      <4>1. ph + 1 \in Int /\ 0 <= ph + 1 /\ ph + 1 < K /\ K \in Nat \ {0}
        BY <1>2, <3>2
      <4>2. (ph + 1) % K = ph + 1
        BY <4>1, SmallMod
      <4> QED
        BY <2>1, <3>2, <4>2
    <3> QED
      BY <3>1, <3>2
  <2>3. clk'[c] = K * n - (IF phase'[c] = 0 THEN 0 ELSE K - phase'[c])
    <3>1. clk[c] = K * n - (K - ph) /\ ph \in 1 .. K - 1
      BY <1>2, <1>5, <2>1
    <3> DEFINE kn == K * n
    <3> HIDE DEF kn
    <3>2. kn \in Nat /\ clk'[c] = kn - (K - ph) + 1
      BY <1>4, <2>1, <3>1 DEF kn
    <3>3. clk'[c] = kn - (IF phase'[c] = 0 THEN 0 ELSE K - phase'[c])
      BY <1>2, <2>2, <3>1, <3>2
    <3> QED
      BY <3>3 DEF kn
  <2>4. tick'[c] = T /\ ran'[c] = ran[c] /\ applied'[c] = applied[c] /\ crcv'[c] = crcv[c]
    BY <1>a, <2>1
  <2> QED
    BY <1>7, <2>3, <2>4
<1>9. CASE Boundary(c)
  <2>1. ph = 0 /\ clk[c] = K * n
    BY <1>1, <1>c, <1>4, <1>5, <1>9, BoundaryCells
  (* The first half: the tick and its checksum.                            *)
  <2>2. tick'[c] = n /\ tick'[c] \in Nat /\ crcv'[c] = DGCRC(SubSeq(applied[c], 1, n), K * n)
    <3>1. CASE ran[c]
      <4>1. tick'[c] = T + 1 /\ crcv'[c] = DGCRC(applied[c], clk[c])
        BY <1>1, <1>a, <1>9, <3>1, BoundaryCells
      <4>2. SubSeq(applied[c], 1, n) = applied[c]
        BY <1>2, <1>b, SubSeqFull
      <4> QED
        BY <1>2, <1>5, <2>1, <3>1, <4>1, <4>2
    <3>2. CASE ~ran[c]
      <4>1. tick'[c] = T /\ crcv'[c] = crcv[c]
        BY <1>1, <1>a, <1>9, <3>2, BoundaryCells
      <4>2. n = T
        BY <1>2, <1>5, <3>2
      <4> QED
        BY <1>2, <1>5, <4>1, <4>2
    <3> QED
      BY <3>1, <3>2
  <2>3. crcv'[c] = DGCRC(SubSeq(applied'[c], 1, n), K * n)
    <3>1. n \in 0 .. n
      OBVIOUS
    <3>2. SubSeq(applied'[c], 1, n) = SubSeq(applied[c], 1, n)
      BY <1>3, <3>1
    <3> QED
      BY <2>2, <3>2
  (* The second half: the tick runs, or the frame stalls.                  *)
  <2>4. ASSUME ran'[c], phase'[c] = (0 + 1) % K, clk'[c] = clk[c] + 1,
               NEW pair, applied'[c] = Append(applied[c], pair)
        PROVE  RunInv(c)'
    <3>1. Len(applied'[c]) = n + 1
      BY <1>2, <1>b, <2>4
    <3>2. clk'[c] = K * (n + 1) - (IF phase'[c] = 0 THEN 0 ELSE K - phase'[c])
      <4>1. CASE K = 1
        <5>1. phase'[c] = 0
          BY <2>4, <4>1
        <5> QED
          BY <1>4, <2>1, <2>4, <4>1, <5>1
      <4>2. CASE K # 1
        <5>1. phase'[c] = 1
          <6>1. 1 \in Int /\ 0 <= 1 /\ 1 < K /\ 0 + 1 = 1
            BY <1>2, <4>2
          <6>2. 1 % K = 1
            BY <1>2, <6>1, SmallMod
          <6> QED
            BY <2>4, <6>1, <6>2
        <5> DEFINE kn == K * n
        <5>2. kn \in Nat /\ K * (n + 1) = kn + K /\ clk'[c] = kn + 1
          BY <1>4, <2>1, <2>4
        <5> HIDE DEF kn
        <5>3. clk'[c] = (kn + K) - (K - 1)
          BY <1>2, <5>2
        <5> QED
          BY <5>1, <5>2, <5>3
      <4> QED
        BY <4>1, <4>2
    <3>3. Len(applied'[c]) = tick'[c] + 1
      BY <2>2, <3>1
    <3>4. crcv'[c] = DGCRC(SubSeq(applied'[c], 1, tick'[c]), K * tick'[c])
      BY <2>2, <2>3
    <3> QED
      BY <2>4, <3>1, <3>2, <3>3, <3>4 DEF RunInv, Prefix
  <2>5. ASSUME ~ran'[c], phase'[c] = 0, clk'[c] = clk[c], applied'[c] = applied[c]
        PROVE  RunInv(c)'
    <3>1. Len(applied'[c]) = tick'[c] + 0 /\ clk'[c] = K * n - 0
      BY <1>2, <1>b, <1>4, <2>1, <2>2, <2>5
    <3>2. crcv'[c] = DGCRC(SubSeq(applied'[c], 1, tick'[c]), K * tick'[c])
      BY <2>2, <2>3
    <3> QED
      BY <1>b, <2>2, <2>5, <3>1, <3>2 DEF RunInv, Prefix
  <2> QED
    BY <1>1, <1>9, <2>4, <2>5, BoundaryCells
<1> QED
  <2>1. \/ Boundary(c) \/ MidTick(c)
        \/ /\ tick'[c] = T /\ ran'[c] = ran[c] /\ phase'[c] = ph /\ clk'[c] = clk[c]
           /\ applied'[c] = applied[c] /\ crcv'[c] = crcv[c]
    BY <1>1, <1>a, <1>c, GateCases
  <2> QED
    BY <1>5, <1>7, <1>8, <1>9, <2>1

(* The ticks a record can carry while it is unread.                        *)
LEMMA UnreadRange ==
  ASSUME SkewInv, NEW c \in Console, NEW m \in Unread(c)
  PROVE  /\ IsInput(m) /\ m.tick \in Int /\ D <= m.tick /\ m.tick <= tick[Peer(c)] + D
         /\ \/ \E i \in 1 .. Len(net[c]) : m = net[c][i]
            \/ \E i \in 1 .. Len(reply[c]) : m = reply[c][i]
<1>1. /\ net[c] \in Seq(Message) /\ reply[c] \in Seq(Message)
      /\ \A i \in 1 .. Len(net[c]) : IsInput(net[c][i]) => net[c][i].tick \in Int
      /\ \A i \in 1 .. Len(reply[c]) : IsInput(reply[c][i]) => reply[c][i].tick \in Int
  BY TickTypes DEF SkewInv
<1>2. DOMAIN net[c] = 1 .. Len(net[c]) /\ DOMAIN reply[c] = 1 .. Len(reply[c])
  BY <1>1
<1>3. /\ IsInput(m)
      /\ \/ \E i \in 1 .. Len(net[c]) : m = net[c][i]
         \/ \E i \in 1 .. Len(reply[c]) : m = reply[c][i]
  BY <1>2 DEF Unread, Queued, Window, IsInput
<1>4. NetInv(c) /\ ReplyInv(c)
  BY DEF SkewInv, TickInv
<1> QED
  BY <1>1, <1>3, <1>4 DEF NetInv, ReplyInv

(* A record is made of what its sender holds.                              *)
LEMMA RecordGenuine ==
  ASSUME HistInv, NEW c \in Console, tick[c] >= 0, NEW good \in BOOLEAN
  PROVE  Genuine(c, RecordOf(c, good))
<1> DEFINE m == RecordOf(c, good)
<1>1. TypeInv /\ CaptureInv(c) /\ RunInv(c)
  BY DEF HistInv, SkewInv
<1>2. PICK T \in Nat : T = tick[c]
  BY <1>1, HistTypes
<1>3. D \in Nat /\ LocSize \in Nat /\ Win \in Nat /\ Win <= LocSize
  BY <1>1, HistTypes
<1>4. /\ m.tick = T + D /\ m.crc = crcv[c]
      /\ m.win = [i \in 1 .. Win |-> loc[c][((T + D) - (i - 1)) % LocSize]]
  BY <1>2 DEF RecordOf
<1> HIDE DEF m
<1>5. ASSUME NEW i \in 1 .. Win, m.tick - (i - 1) >= 0
      PROVE  m.win[i] = Captured(c, m.tick - (i - 1))
  <2> DEFINE u == m.tick - (i - 1)
  <2>1. u \in Nat /\ T + D - LocSize < u /\ u <= T + D
    BY <1>3, <1>4, <1>5
  <2>2. m.win[i] = loc[c][u % LocSize]
    BY <1>4
  <2> HIDE DEF u
  <2>3. loc[c][u % LocSize] = Captured(c, u)
    BY <1>1, <1>2, <2>1 DEF CaptureInv
  <2> QED
    BY <2>2, <2>3 DEF u
<1>6. m.crc = DGCRC(Prefix(c, m.tick - D), K * (m.tick - D))
  <2>1. m.tick - D = T
    BY <1>2, <1>3, <1>4
  <2> QED
    BY <1>1, <1>2, <1>4, <2>1 DEF RunInv
<1> QED
  BY <1>5, <1>6 DEF Genuine, m

(* What a record says of the past stays true.                              *)
LEMMA GenuineKept ==
  ASSUME HistInv, [Next]_vars, NEW p \in Console, NEW m, m.tick \in Int,
         D <= m.tick, m.tick <= tick[p] + D, Genuine(p, m)
  PROVE  Genuine(p, m)'
<1>1. TypeInv /\ CaptureInv(p) /\ RunInv(p)
  BY DEF HistInv, SkewInv
<1>2. /\ \A t \in Int : t <= tick[p] + D => Captured(p, t)' = Captured(p, t)
      /\ \A n \in 0 .. Len(applied[p]) : Prefix(p, n)' = Prefix(p, n)
  BY <1>1, PastIsFixed DEF CaptureInv
<1>3. /\ tick[p] \in Int /\ D \in Nat /\ Win \in Nat /\ Len(applied[p]) \in Nat
      /\ tick[p] <= Len(applied[p])
  BY <1>1, HistTypes, SMTT(30) DEF RunInv
<1>4. ASSUME NEW i \in 1 .. Win, m.tick - (i - 1) >= 0
      PROVE  m.win[i] = Captured(p, m.tick - (i - 1))'
  <2>1. m.tick - (i - 1) \in Int /\ m.tick - (i - 1) <= tick[p] + D
    BY <1>3
  <2>2. m.win[i] = Captured(p, m.tick - (i - 1))
    BY <1>4 DEF Genuine
  <2>3. Captured(p, m.tick - (i - 1))' = Captured(p, m.tick - (i - 1))
    BY <1>2, <2>1
  <2> QED
    BY <2>2, <2>3
<1>5. m.tick - D \in 0 .. Len(applied[p])
  BY <1>3
<1>6. Prefix(p, m.tick - D)' = Prefix(p, m.tick - D)
  BY <1>2, <1>5
<1> QED
  BY <1>4, <1>6 DEF Genuine

LEMMA MessageStep ==
  ASSUME HistInv, [Next]_vars, NEW c \in Console, NEW m \in Unread(c)'
  PROVE  Genuine(Peer(c), m)'
<1> DEFINE p == Peer(c)
<1>1. TypeInv /\ SkewInv /\ p \in Console
  BY Peers DEF HistInv, SkewInv
<1>2. m.type = "INPUT" /\ m \in Queued(c)' \cup Window(c)'
  BY DEF Unread
<1>3. \/ m \in Unread(c)
      \/ /\ tick[p] >= 0
         /\ \E good \in BOOLEAN : m = RecordOf(p, good)
  BY <1>1, <1>2, Flow DEF Unread, LeftFrame
<1>4. CASE m \in Unread(c)
  <2>1. Genuine(p, m)
    BY <1>4 DEF HistInv
  <2> QED
    BY <1>1, <1>4, <2>1, UnreadRange, GenuineKept
<1>5. ASSUME tick[p] >= 0, NEW good \in BOOLEAN, m = RecordOf(p, good)
      PROVE  Genuine(p, m)'
  <2>1. Genuine(p, m)
    BY <1>1, <1>5, RecordGenuine
  <2>2. tick[p] \in Int /\ D \in Nat
    BY <1>1, HistTypes
  <2>3. m.tick = tick[p] + D
    BY <1>5 DEF RecordOf
  <2>4. m.tick \in Int /\ D <= m.tick /\ m.tick <= tick[p] + D
    BY <1>5, <2>2, <2>3
  <2> QED
    BY <1>1, <2>1, <2>4, GenuineKept
<1> QED
  BY <1>3, <1>4, <1>5

(* What differs once differs for ever.                                     *)
LEMMA DivergedKept ==
  ASSUME TypeInv, [Next]_vars, Diverged
  PROVE  Diverged'
<1>1. "host" \in Console /\ "guest" \in Console
  BY DEF Console
<1>2. PICK i \in DOMAIN applied["host"] \cap DOMAIN applied["guest"] :
        applied["host"][i] # applied["guest"][i]
  BY DEF Diverged
<1>3. ASSUME NEW c \in Console, i \in DOMAIN applied[c]
      PROVE  i \in DOMAIN applied'[c] /\ applied'[c][i] = applied[c][i]
  <2>1. DOMAIN applied[c] = 1 .. Len(applied[c]) /\ Len(applied[c]) \in Nat
    BY HistTypes
  <2>2. DOMAIN applied'[c] = 1 .. Len(applied'[c])
    <3>1. applied'[c] \in Seq(Byte \X Byte)
      BY TypeStep DEF TypeInv, TypeOK, GateTypes
    <3> QED
      BY <3>1
  <2>3. /\ Len(applied[c]) <= Len(applied'[c]) /\ Len(applied'[c]) \in Nat
        /\ \A k \in 1 .. Len(applied[c]) : applied'[c][k] = applied[c][k]
    BY Growth
  <2> QED
    BY <1>3, <2>1, <2>2, <2>3
<1> QED
  BY <1>1, <1>2, <1>3 DEF Diverged

(* The checksums of two histories of one length differ only if they do.    *)
LEMMA ChecksumTells ==
  ASSUME TypeInv, NEW c \in Console, NEW n \in Nat, NEW f,
         n <= Len(applied[c]), n <= Len(applied[Peer(c)]),
         DGCRC(Prefix(Peer(c), n), f) # DGCRC(Prefix(c, n), f)
  PROVE  Diverged
<1> DEFINE p == Peer(c)
<1>1. p \in Console /\ {c, p} = {"host", "guest"}
  BY DEF Peer, Console
<1>2. /\ Len(applied[c]) \in Nat /\ DOMAIN applied[c] = 1 .. Len(applied[c])
      /\ Len(applied[p]) \in Nat /\ DOMAIN applied[p] = 1 .. Len(applied[p])
  BY <1>1, HistTypes
<1>3. PICK i \in 1 .. n : applied[p][i] # applied[c][i]
  <2>1. Prefix(p, n) # Prefix(c, n)
    OBVIOUS
  <2>2. /\ Prefix(p, n) = [i \in 1 .. n |-> applied[p][i]]
        /\ Prefix(c, n) = [i \in 1 .. n |-> applied[c][i]]
    BY DEF Prefix
  <2> QED
    BY <2>1, <2>2
<1>4. i \in DOMAIN applied[c] \cap DOMAIN applied[p]
  BY <1>2
<1> QED
  BY <1>1, <1>3, <1>4 DEF Diverged

(* A repair is armed by the record of a peer whose simulation differs.     *)
LEMMA AlarmStep ==
  ASSUME HistInv, [Next]_vars
  PROVE  NoFalseAlarm'
<1>1. TypeInv /\ SkewInv
  BY DEF HistInv, SkewInv
<1> SUFFICES ASSUME NEW c \in Console, rsy'[c] PROVE Diverged'
  BY DEF NoFalseAlarm
<1>2. rsy \in [Console -> BOOLEAN]
  BY <1>1 DEF TypeInv, TypeOK, CaptureTypes
<1>3. ASSUME rsy[c] PROVE Diverged'
  BY <1>1, <1>3, DivergedKept DEF HistInv, NoFalseAlarm
<1>4. ASSUME Consume(c), ~rsy[c] PROVE Diverged'
  <2> DEFINE rec == reply[c][Len(reply[c])]
             p == Peer(c)
  <2>1. /\ tick[c] >= 0 /\ rec.type = "INPUT"
        /\ Comparable(c, rec) /\ rec.crc # crcv[c]
    <3>1. rsy' # rsy
      BY <1>4
    <3>2. rec.type = "INPUT" /\ ConsumeInput(c, rec) /\ tick[c] >= 0
      BY <1>4, <3>1 DEF Consume, Stepping
    <3> QED
      BY <1>2, <1>4, <3>2 DEF ConsumeInput
  <2>2. Len(reply[c]) \in 1 .. Len(reply[c]) /\ reply[c] \in Seq(Message)
    BY <1>1, <1>4, MarkAfterConsume DEF TypeInv, TypeOK, TransportTypes
  <2>3. rec \in Unread(c)
    BY <2>1, <2>2 DEF Unread, Window
  <2>4. /\ IsInput(rec) /\ rec.tick \in Int
        /\ \/ \E i \in 1 .. Len(net[c]) : rec = net[c][i]
           \/ \E i \in 1 .. Len(reply[c]) : rec = reply[c][i]
        /\ rec.tick <= tick[p] + D
    BY <1>1, <2>3, UnreadRange
  <2>5. rec.tick - D = tick[c]
    BY <1>1, <2>1, <2>4, MatchExact
  <2>6. Genuine(p, rec) /\ RunInv(c) /\ RunInv(p)
    BY <2>3, Peers DEF HistInv
  <2>7. PICK n \in Nat : n = tick[c]
    BY <1>1, <2>1, HistTypes
  <2>8. /\ tick[p] \in Int /\ D \in Nat
        /\ n <= Len(applied[c]) /\ n <= tick[p] /\ tick[p] <= Len(applied[p])
    <3>1. tick[p] \in Int /\ D \in Nat /\ Len(applied[p]) \in Nat /\ Len(applied[c]) \in Nat
      BY <1>1, Peers, HistTypes
    <3>2. tick[p] <= Len(applied[p]) /\ n <= Len(applied[c])
      BY <2>6, <2>7, <3>1 DEF RunInv
    <3> QED
      BY <2>4, <2>5, <2>7, <3>1, <3>2, SMTT(30)
  <2>9. /\ rec.crc = DGCRC(Prefix(p, n), K * n)
        /\ crcv[c] = DGCRC(Prefix(c, n), K * n)
    BY <2>5, <2>6, <2>7 DEF Genuine, RunInv
  <2>10. n <= Len(applied[p])
    <3>1. Len(applied[p]) \in Nat
      BY <1>1, Peers, HistTypes
    <3> QED
      BY <2>8, <3>1
  <2>11. Diverged
    BY <1>1, <2>1, <2>8, <2>9, <2>10, ChecksumTells
  <2> QED
    BY <1>1, <2>11, DivergedKept
<1>5. ASSUME NEW d \in Console, Consume(d), d # c PROVE rsy'[c] = rsy[c]
  BY <1>2, <1>5 DEF Consume, ConsumeInput
<1>6. ASSUME NEW d \in Console, ~Consume(d), DGSHIM(d) \/ DGNSTEP(d) \/ PowerOff(d)
      PROVE  rsy'[c] => rsy[c]
  <2>1. CASE Boundary(d)
    <3>1. ASSUME NEW press \in Switch, Commit(d, press) PROVE rsy'[c] => rsy[c]
      <4>1. rsy' = [rsy EXCEPT ![d] = FALSE]
        BY <3>1 DEF Commit
      <4> QED
        BY <1>2, <4>1
    <3>2. Retry(d) => rsy' = rsy
      BY DEF Retry
    <3> QED
      BY <2>1, <3>1, <3>2 DEF Boundary, Advance
  <2>2. CASE ~Boundary(d)
    BY <1>6, <2>2 DEF DGSHIM, MidTick, DGNSTEP, Write, Read, Fail, PowerOff, gateVars
  <2> QED
    BY <2>1, <2>2
<1>7. UNCHANGED vars => rsy' = rsy
  BY DEF vars, gateVars
<1> QED
  BY <1>3, <1>4, <1>5, <1>6, <1>7 DEF Next

LEMMA HistInit == Init => HistInv
<1> SUFFICES ASSUME Init PROVE HistInv
  OBVIOUS
<1>1. SkewInv
  BY SkewInit
<1>2. ASSUME NEW c \in Console PROVE CaptureInv(c) /\ RunInv(c)
  <2>1. /\ tick[c] = -1 /\ ran[c] = TRUE /\ phase[c] = 0 /\ clk[c] = 0
        /\ applied[c] = <<>> /\ cap[c] = <<>>
        /\ loc[c] = [i \in 0 .. LocSize - 1 |-> Idle]
    BY DEF Init
  <2>2. LocSize \in Nat \ {0} /\ D \in Nat /\ K \in Nat
    BY Sizes
  <2>3. ASSUME NEW t \in Nat, t <= tick[c] + D PROVE loc[c][t % LocSize] = Captured(c, t)
    <3>1. t % LocSize \in 0 .. LocSize - 1
      BY <2>2, Division
    <3>2. t < D
      BY <2>1, <2>2, <2>3
    <3> QED
      BY <2>1, <3>1, <3>2 DEF Captured
  <2>4. CaptureInv(c)
    <3>1. Len(cap[c]) = tick[c] + 1
      BY <2>1
    <3> QED
      BY <2>3, <3>1 DEF CaptureInv
  <2>5. RunInv(c)
    BY <2>1, <2>2 DEF RunInv
  <2> QED
    BY <2>4, <2>5
<1>3. ASSUME NEW c \in Console PROVE Unread(c) = {} /\ ~rsy[c]
  BY DEF Init, Unread, Queued, Window
<1> QED
  BY <1>1, <1>2, <1>3 DEF HistInv, NoFalseAlarm

LEMMA HistStep == HistInv /\ [Next]_vars => HistInv'
<1> SUFFICES ASSUME HistInv, [Next]_vars PROVE HistInv'
  OBVIOUS
<1>1. SkewInv'
  BY SkewStep DEF HistInv
<1> QED
  BY <1>1, CaptureStep, RunStep, MessageStep, AlarmStep DEF HistInv

LEMMA HistInvariant == Spec => []HistInv
BY HistInit, HistStep, PTL DEF Spec

(***************************************************************************)
(* The theorems.                                                           *)
(***************************************************************************)

(* A record once sent is immutable, whatever has happened since on either  *)
(* side: the local ring is never too small for the window.                 *)
THEOREM RecordsAreImmutable == Spec => []RecordsImmutable
<1>1. HistInv => RecordsImmutable
  BY DEF HistInv, Genuine, RecordsImmutable
<1> QED
  BY <1>1, HistInvariant, PTL

(* A false positive is impossible: both checksums are of the same tick,    *)
(* after the same number of frames, so only the inputs can differ.         *)
THEOREM AlarmsAreTrue == Spec => []NoFalseAlarm
<1>1. HistInv => NoFalseAlarm
  BY DEF HistInv
<1> QED
  BY <1>1, HistInvariant, PTL


(***************************************************************************)
(* The hypothesis.                                                         *)
(***************************************************************************)

(* The newest remote tick c has: nobody captures for the first D.          *)
Newest(c) == IF rwat[c] < D - 1 THEN D - 1 ELSE rwat[c]

(* Each record c will read carries, in its window, every tick between the  *)
(* newest c has and its own.  The code does not see to it: the sender's    *)
(* tick goes on while its records wait.                                    *)
NoGap == \A c \in Console : \A m \in Unread(c) : m.tick <= Newest(c) + Win

LEMMA RingSizes ==
  /\ D \in Nat \ {0} /\ Win \in Nat \ {0} /\ LocSize \in Nat \ {0} /\ RingSize \in Nat \ {0}
  /\ D < LocSize /\ 2 * Win <= RingSize /\ RingSize >= 2 * D + 2
BY Sizes, RingFits, WindowsFit

(* A sender that stamps no tick further than a window ahead of what its    *)
(* peer has consumed leaves no gap.                                        *)
LEMMA CurrentLeavesNoGap ==
  ASSUME SkewInv, Current
  PROVE  NoGap
<1> SUFFICES ASSUME NEW c \in Console, NEW m \in Unread(c)
             PROVE  m.tick <= Newest(c) + Win
  BY DEF NoGap
<1> DEFINE p == Peer(c)
<1>1. p \in Console /\ Peer(p) = c
  BY Peers
<1>2. m.tick \in Int /\ m.tick <= tick[p] + D
  BY UnreadRange
<1>3. tick[p] \in Int /\ rwat[c] \in Int
  BY <1>1, TickTypes DEF SkewInv
<1>4. tick[p] + D <= rwat[c] + Win \/ tick[p] < Win
  BY <1>1 DEF Current
<1> QED
  BY <1>2, <1>3, <1>4, RingSizes DEF Newest

(***************************************************************************)
(* The inductive invariant.                                                *)
(***************************************************************************)

(* The records of one reply are within a window of each other, and of the  *)
(* watermark.                                                              *)
Inputs(c) == {m \in Window(c) : m.type = "INPUT"}
CloseInv(c) ==
  /\ \A m \in Inputs(c) : rwat[c] <= m.tick + Win
  /\ \A m, n \in Inputs(c) : m.tick <= n.tick + Win

(* The remote ring holds the peer's bytes from the tick c is on to the     *)
(* newest it has.                                                          *)
Holds(slots, p, first, last) ==
  \A t \in Nat : first <= t /\ t <= last => slots[t % RingSize] = Captured(p, t)
RingInv(c) == Holds(ring[c], Peer(c), tick[c], Newest(c))

RaceInv ==
  /\ HistInv
  /\ \A c \in Console : CloseInv(c) /\ RingInv(c)
  /\ SameInputs

(***************************************************************************)
(* The steps.                                                              *)
(***************************************************************************)

(* The window is filled by a READ, from the network; a consume takes from  *)
(* it; nothing else touches it, the remote ring or the watermark.          *)
LEMMA WindowFlow ==
  ASSUME TypeInv, [Next]_vars, NEW c \in Console
  PROVE  \/ /\ rwat'[c] = rwat[c] /\ ring'[c] = ring[c]
            /\ Window(c)' \subseteq Queued(c) \/ Window(c)' = Window(c)
         \/ Consume(c) /\ Window(c)' \subseteq Window(c)
<1>1. /\ net \in [Console -> Seq(Message)] /\ reply \in [Console -> Seq(Message)]
      /\ rwat \in [Console -> Int] /\ ring \in [Console -> [0 .. RingSize - 1 -> Byte]]
  BY DEF TypeInv, TypeOK, TransportTypes, RemoteTypes
<1>2. ASSUME reply'[c] = reply[c] PROVE Window(c)' = Window(c)
  BY <1>2 DEF Window
<1>3. ASSUME Consume(c) PROVE Window(c)' \subseteq Window(c)
  <2>1. reply[c] \in Seq(Message) /\ reply[c] # <<>>
    BY <1>1, <1>3 DEF Consume, Stepping, TypeInv, WindowInUse
  <2>2. Len(reply[c]) - 1 \in 0 .. Len(reply[c])
    BY <2>1
  <2>3. reply'[c] = SubSeq(reply[c], 1, Len(reply[c]) - 1)
    BY <1>1, <1>3 DEF Consume
  <2>4. \A i \in DOMAIN reply'[c] : \E j \in DOMAIN reply[c] : reply'[c][i] = reply[c][j]
    BY <2>1, <2>2, <2>3, ElementsOfSplit
  <2> QED
    BY <2>4 DEF Window
<1>4. ASSUME Read(c)
      PROVE  rwat' = rwat /\ ring' = ring /\ Window(c)' \subseteq Queued(c)
  <2>1. PICK n \in 0 .. Len(net[c]) : reply' = [reply EXCEPT ![c] = SubSeq(net[c], 1, n)]
    BY <1>4 DEF Read
  <2>2. reply'[c] = SubSeq(net[c], 1, n) /\ net[c] \in Seq(Message)
    BY <1>1, <2>1
  <2>3. \A i \in DOMAIN reply'[c] : \E j \in DOMAIN net[c] : reply'[c][i] = net[c][j]
    BY <2>2, ElementsOfSplit
  <2> QED
    BY <1>4, <2>3 DEF Read, Queued, Window
<1>5. ASSUME NEW d \in Console, d # c, Read(d) \/ Consume(d)
      PROVE  rwat'[c] = rwat[c] /\ ring'[c] = ring[c] /\ reply'[c] = reply[c]
  <2>1. CASE Read(d)
    BY <1>1, <1>5, <2>1 DEF Read
  <2>2. CASE Consume(d)
    BY <1>1, <1>5, <2>2 DEF Consume, ConsumeInput
  <2> QED
    BY <1>5, <2>1, <2>2
<1>6. ASSUME NEW d \in Console,
             DGSHIM(d) \/ PowerOff(d) \/ Write(d) \/ Fail(d)
      PROVE  UNCHANGED <<rwat, ring, reply>>
  BY <1>6 DEF DGSHIM, MidTick, Boundary, PowerOff, Write, Fail, xportVars
<1>7. UNCHANGED vars => UNCHANGED <<rwat, ring, reply>>
  BY DEF vars, xportVars
<1>8. CASE \E d \in Console : Read(d) \/ Consume(d)
  BY <1>2, <1>3, <1>4, <1>5, <1>8
<1>9. CASE UNCHANGED <<rwat, ring, reply>>
  BY <1>2, <1>9
<1> QED
  BY <1>6, <1>7, <1>8, <1>9 DEF Next, DGNSTEP

(* An input record of the window is unread, and so is one of the network;  *)
(* the network's are not behind the watermark.                             *)
LEMMA InputRange ==
  ASSUME SkewInv, NEW c \in Console, NEW m \in Queued(c) \cup Window(c), m.type = "INPUT"
  PROVE  /\ m \in Unread(c) /\ m.tick \in Int /\ D <= m.tick /\ m.tick <= tick[Peer(c)] + D
         /\ m \in Queued(c) => rwat[c] <= m.tick
<1>1. m \in Unread(c)
  BY DEF Unread
<1>2. m.tick \in Int /\ D <= m.tick /\ m.tick <= tick[Peer(c)] + D
  BY <1>1, UnreadRange
<1>3. ASSUME m \in Queued(c) PROVE rwat[c] <= m.tick
  <2>1. net[c] \in Seq(Message)
    BY TickTypes DEF SkewInv
  <2>2. DOMAIN net[c] = 1 .. Len(net[c])
    BY <2>1
  <2>3. \E i \in 1 .. Len(net[c]) : m = net[c][i]
    BY <1>3, <2>2 DEF Queued
  <2> QED
    BY <2>3 DEF SkewInv, TickInv, NetInv, IsInput
<1> QED
  BY <1>1, <1>2, <1>3

LEMMA CloseStep ==
  ASSUME RaceInv, NoGap, [Next]_vars, NEW c \in Console
  PROVE  CloseInv(c)'
<1>1. TypeInv /\ SkewInv /\ CloseInv(c)
  BY DEF RaceInv, HistInv, SkewInv
<1>2. rwat[c] \in Int
  BY <1>1, TickTypes
<1>3. CASE /\ rwat'[c] = rwat[c]
           /\ Window(c)' \subseteq Queued(c) \/ Window(c)' = Window(c)
  <2>1. CASE Window(c)' = Window(c)
    BY <1>1, <1>3, <2>1 DEF CloseInv, Inputs
  <2>2. CASE Window(c)' \subseteq Queued(c)
    <3>1. ASSUME NEW m \in Inputs(c)'
          PROVE  /\ m.tick \in Int /\ D <= m.tick /\ rwat[c] <= m.tick
                 /\ m.tick <= Newest(c) + Win
      <4>1. m \in Queued(c) /\ m.type = "INPUT"
        BY <2>2 DEF Inputs
      <4> QED
        BY <1>1, <4>1, InputRange DEF NoGap
    <3>2. \A m \in Inputs(c)' : rwat'[c] <= m.tick + Win
      BY <1>2, <1>3, <3>1, RingSizes
    <3>3. \A m, n \in Inputs(c)' : m.tick <= n.tick + Win
      BY <1>2, <3>1, RingSizes DEF Newest
    <3> QED
      BY <3>2, <3>3 DEF CloseInv
  <2> QED
    BY <1>3, <2>1, <2>2
<1>4. CASE Consume(c) /\ Window(c)' \subseteq Window(c)
  <2> DEFINE rec == reply[c][Len(reply[c])]
  <2>1. Inputs(c)' \subseteq Inputs(c)
    BY <1>4 DEF Inputs
  <2>2. \/ rwat'[c] = rwat[c]
        \/ /\ IsInput(rec) /\ rwat'[c] = rec.tick
           /\ rec \in Window(c)
    <3>1. /\ Len(reply[c]) \in 1 .. Len(reply[c])
          /\ \/ rwat' = rwat
             \/ IsInput(rec) /\ rwat' = [rwat EXCEPT ![c] = rec.tick]
      BY <1>1, <1>4, MarkAfterConsume
    <3>2. rwat \in [Console -> Int] /\ reply[c] \in Seq(Message)
      BY <1>1 DEF TypeInv, TypeOK, RemoteTypes, TransportTypes
    <3>3. rec \in Window(c)
      BY <3>1, <3>2 DEF Window
    <3> QED
      BY <3>1, <3>2, <3>3
  <2>3. CASE rwat'[c] = rwat[c]
    BY <1>1, <2>1, <2>3 DEF CloseInv
  <2>4. CASE IsInput(rec) /\ rwat'[c] = rec.tick /\ rec \in Window(c)
    <3>1. rec \in Inputs(c)
      BY <2>4 DEF Inputs, IsInput
    <3> QED
      BY <1>1, <2>1, <2>4, <3>1 DEF CloseInv
  <2> QED
    BY <2>2, <2>3, <2>4
<1> QED
  BY <1>1, <1>3, <1>4, WindowFlow

(* What Fill puts into the slot of tick t: the record's byte for t, if its *)
(* window reaches it, and what was there otherwise.                        *)
LEMMA FillSlot ==
  ASSUME NEW slots, NEW rec, rec.tick \in Int, NEW t \in Int
  PROVE  \E i \in 0 .. RingSize - 1 :
           /\ i = (rec.tick - t) % RingSize
           /\ (rec.tick - i) % RingSize = t % RingSize
           /\ Fill(slots, rec)[t % RingSize] =
                (IF i < Win THEN rec.win[i + 1] ELSE slots[t % RingSize])
<1> DEFINE r == rec.tick
           s == t % RingSize
<1>1. RingSize \in Nat \ {0} /\ r \in Int
  BY RingSizes
<1>2. s \in 0 .. RingSize - 1
  BY <1>1, Division
<1>3. Fill(slots, rec)[s] =
        (IF (r - s) % RingSize < Win THEN rec.win[((r - s) % RingSize) + 1] ELSE slots[s])
  BY <1>2 DEF Fill
<1> HIDE DEF r
<1>4. (r - s) % RingSize = (r - t) % RingSize
  BY <1>1, SlotDistance
<1>5. (r - ((r - t) % RingSize)) % RingSize = t % RingSize
  BY <1>1, SlotDistance
<1>6. r - t \in Int
  BY <1>1
<1>7. (r - t) % RingSize \in 0 .. RingSize - 1
  BY <1>1, <1>6, Division
<1> QED
  BY <1>3, <1>4, <1>5, <1>7 DEF r

(* A genuine record, not a window behind the watermark and not past a gap, *)
(* leaves the ring right up to the newest tick.                            *)
LEMMA FillRight ==
  ASSUME NEW old \in Int, NEW new \in Int, NEW first \in Int, NEW p \in Console,
         NEW slots, NEW rec, rec.tick \in Int, Genuine(p, rec),
         D <= rec.tick, rec.tick <= first + 2 * D + 1,
         rec.tick <= old + Win, old <= rec.tick + Win,
         new = old \/ new = rec.tick,
         Holds(slots, p, first, old)
  PROVE  Holds(Fill(slots, rec), p, first, new)
<1> SUFFICES ASSUME NEW t \in Nat, first <= t, t <= new
             PROVE  Fill(slots, rec)[t % RingSize] = Captured(p, t)
  BY DEF Holds
<1>1. PICK r \in Int : r = rec.tick
  OBVIOUS
<1>2. PICK i \in 0 .. RingSize - 1 :
        /\ i = (r - t) % RingSize
        /\ (r - i) % RingSize = t % RingSize
        /\ Fill(slots, rec)[t % RingSize] =
             (IF i < Win THEN rec.win[i + 1] ELSE slots[t % RingSize])
  BY <1>1, FillSlot
<1>4. /\ D \in Nat \ {0} /\ Win \in Nat \ {0} /\ RingSize \in Nat \ {0}
      /\ 2 * Win <= RingSize /\ RingSize >= 2 * D + 2
  BY RingSizes
<1>5. CASE i < Win
  <2> DEFINE u == r - i
  <2>1. u \in Int /\ -RingSize < u - t /\ u - t < RingSize
    BY <1>1, <1>4, <1>5
  <2>2. u % RingSize = t % RingSize
    BY <1>2
  <2>3. u = t
    <3>1. RingSize \in Nat \ {0} /\ t \in Int
      BY <1>4
    <3> HIDE DEF u
    <3> QED
      BY <2>1, <2>2, <3>1, SameSlot
  <2> HIDE DEF u
  <2>4. i + 1 \in 1 .. Win /\ r - ((i + 1) - 1) = t
    BY <1>4, <1>5, <2>3 DEF u
  <2>5. rec.win[i + 1] = Captured(p, t)
    BY <1>1, <2>4 DEF Genuine
  <2> QED
    BY <1>2, <1>5, <2>5
<1>6. CASE ~(i < Win)
  <2>1. t <= old
    <3> SUFFICES ASSUME t > old PROVE FALSE
      OBVIOUS
    <3>1. new = r /\ 0 <= r - t /\ r - t < Win
      BY <1>1, <1>4
    <3>2. r - t \in Int /\ r - t < RingSize
      BY <1>4, <3>1
    <3>3. (r - t) % RingSize = r - t
      BY <1>4, <3>1, <3>2, SmallMod
    <3> QED
      BY <1>2, <1>6, <3>1, <3>3
  <2> QED
    BY <1>2, <1>6, <2>1 DEF Holds
<1> QED
  BY <1>5, <1>6

LEMMA RingStep ==
  ASSUME RaceInv, NoGap, [Next]_vars, NEW c \in Console
  PROVE  RingInv(c)'
<1> DEFINE p == Peer(c)
<1>1. TypeInv /\ SkewInv /\ CloseInv(c) /\ RingInv(c) /\ p \in Console /\ CaptureInv(p)
  BY Peers DEF RaceInv, HistInv, SkewInv
<1>2. /\ rwat[c] \in Int /\ tick[c] \in Int /\ tick[p] \in Int /\ tick[p] >= -1
  BY <1>1, TickTypes
<1>3. tick'[c] \in Int /\ tick[c] <= tick'[c]
  BY <1>1, Growth
<1>4. PICK old \in Int : old = Newest(c)
  BY <1>2, RingSizes DEF Newest
<1>5. old <= tick[p] + D
  BY <1>1, <1>2, <1>4, RingSizes DEF Newest, SkewInv, TickInv, MarkInv
<1>6. \A t \in Nat : t <= tick[p] + D => Captured(p, t)' = Captured(p, t)
  BY <1>1, PastIsFixed DEF CaptureInv
<1>7. Holds(ring[c], p, tick[c], old)
  BY <1>1, <1>4 DEF RingInv
<1>8. CASE rwat'[c] = rwat[c] /\ ring'[c] = ring[c]
  <2>1. Newest(c)' = old
    BY <1>4, <1>8 DEF Newest
  <2>2. ASSUME NEW t \in Nat, tick'[c] <= t, t <= old
        PROVE  ring'[c][t % RingSize] = Captured(p, t)'
    <3>1. tick[c] <= t /\ t <= tick[p] + D
      BY <1>2, <1>3, <1>5, <2>2, RingSizes
    <3> QED
      BY <1>6, <1>7, <1>8, <2>2, <3>1 DEF Holds
  <2> QED
    BY <2>1, <2>2 DEF RingInv, Holds
<1>9. CASE Consume(c)
  <2> DEFINE rec == reply[c][Len(reply[c])]
  <2>1. CASE rec.type = "INPUT" /\ rec.good
    <3>1. ConsumeInput(c, rec) /\ tick'[c] = tick[c]
      BY <1>9, <2>1 DEF Consume
    <3>2. rec \in Unread(c) /\ rec \in Inputs(c)
      <4>1. Len(reply[c]) \in 1 .. Len(reply[c]) /\ reply[c] \in Seq(Message)
        BY <1>1, <1>9, MarkAfterConsume DEF TypeInv, TypeOK, TransportTypes
      <4> QED
        BY <2>1, <4>1 DEF Unread, Inputs, Window
    <3>3. /\ rec.tick \in Int /\ D <= rec.tick /\ rec.tick <= tick[p] + D
          /\ rec.tick <= old + Win /\ rwat[c] <= rec.tick + Win /\ Genuine(p, rec)
      BY <1>1, <1>4, <3>2, UnreadRange DEF NoGap, CloseInv, RaceInv, HistInv
    <3>4. tick[p] <= tick[c] + D + 1
      BY <1>1, Distances
    <3>5. /\ ring'[c] = Fill(ring[c], rec)
          /\ \/ rwat'[c] = rwat[c]
             \/ rwat'[c] = rec.tick /\ rec.tick >= rwat[c]
      <4>1. IsInput(rec) /\ (NotBehind(rec.tick, rwat[c]) => rec.tick >= rwat[c])
        <5>1. IsInput(rec) /\ \/ \E i \in 1 .. Len(net[c]) : rec = net[c][i]
                              \/ \E i \in 1 .. Len(reply[c]) : rec = reply[c][i]
          BY <1>1, <3>2, UnreadRange
        <5> QED
          BY <1>1, <5>1, MarkExact
      <4>2. ring \in [Console -> [0 .. RingSize - 1 -> Byte]] /\ rwat \in [Console -> Int]
        BY <1>1 DEF TypeInv, TypeOK, RemoteTypes
      <4> QED
        BY <3>1, <4>1, <4>2 DEF ConsumeInput, Watermark
    <3>6. PICK new \in Int : new = Newest(c)'
      BY <1>2, <3>3, <3>5, RingSizes DEF Newest
    <3> DEFINE r == rec.tick
    <3>7. /\ r <= tick[c] + 2 * D + 1
          /\ old <= r + Win
          /\ new = old \/ new = r
          /\ new <= tick[p] + D
      <4>1. r \in Int /\ D <= r /\ r <= tick[p] + D /\ rwat[c] <= r + Win
        BY <3>3
      <4>2. \/ rwat'[c] = rwat[c]
            \/ rwat'[c] = r /\ r >= rwat[c]
        BY <3>5
      <4> HIDE DEF rec, r
      <4>3. r <= tick[c] + 2 * D + 1
        BY <1>2, <3>4, <4>1, RingSizes
      <4>4. old <= r + Win
        BY <1>2, <1>4, <4>1, RingSizes DEF Newest
      <4>5. new = old \/ new = r
        BY <1>2, <1>4, <3>6, <4>1, <4>2, RingSizes DEF Newest
      <4> QED
        BY <1>2, <1>5, <4>1, <4>3, <4>4, <4>5, RingSizes
    <3>8. Holds(ring'[c], p, tick[c], new)
      <4>1. r \in Int /\ D <= r /\ r <= old + Win /\ Genuine(p, rec)
        BY <3>3
      <4> HIDE DEF rec
      <4>2. Holds(Fill(ring[c], rec), p, tick[c], new)
        BY <1>1, <1>2, <1>7, <3>7, <4>1, FillRight
      <4> QED
        BY <3>5, <4>2
    <3>9. ASSUME NEW t \in Nat, tick[c] <= t, t <= new
          PROVE  ring'[c][t % RingSize] = Captured(p, t)'
      <4>1. t <= tick[p] + D
        BY <1>2, <3>7, <3>9, RingSizes
      <4> QED
        BY <1>6, <3>8, <3>9, <4>1 DEF Holds
    <3> QED
      BY <3>1, <3>6, <3>9 DEF RingInv, Holds
  <2>2. CASE ~(rec.type = "INPUT" /\ rec.good)
    BY <1>8, <1>9, <2>2 DEF Consume
  <2> QED
    BY <2>1, <2>2
<1> QED
  BY <1>1, <1>8, <1>9, WindowFlow
(* A console has run no tick the peer had not captured for.                *)
LEMMA RunsWhatIsKnown ==
  ASSUME SkewInv, HistInv, NEW c \in Console, NEW i \in 1 .. Len(applied[c])
  PROVE  /\ i - 1 \in Nat
         /\ i - 1 <= tick[c] + D /\ i - 1 <= tick[Peer(c)] + D
<1>1. GateInv(c) /\ MarkInv(c) /\ RunInv(c)
  BY DEF SkewInv, TickInv, HistInv
<1>2. /\ tick[c] \in Int /\ tick[c] >= -1 /\ rwat[c] \in Int /\ ran[c] \in BOOLEAN
      /\ tick[Peer(c)] \in Int /\ Len(applied[c]) \in Nat /\ D \in Nat \ {0}
  BY Peers, TickTypes, HistTypes DEF SkewInv
<1>3. i \in Nat /\ i >= 1 /\ i <= tick[c] + (IF ran[c] THEN 1 ELSE 0)
  BY <1>1, <1>2 DEF RunInv
<1>4. i - 1 <= rwat[c] /\ rwat[c] # -2
  BY <1>1, <1>2, <1>3 DEF GateInv
<1> QED
  BY <1>1, <1>2, <1>3, <1>4, SMTT(30) DEF MarkInv

(* A tick runs on the byte captured for it here, D ticks ago, and on the   *)
(* one the peer captured for it, which the gate has waited for.            *)
LEMMA InputsStep ==
  ASSUME RaceInv, [Next]_vars
  PROVE  SameInputs'
<1>1. TypeInv /\ SkewInv /\ HistInv /\ HistInv' /\ SameInputs
  BY HistStep DEF RaceInv, HistInv, SkewInv
<1> SUFFICES ASSUME NEW c \in Console, NEW i \in DOMAIN applied'[c]
             PROVE  applied'[c][i] = Pair(c, Captured(c, i - 1)', Captured(Peer(c), i - 1)')
  BY DEF SameInputs
<1> DEFINE p == Peer(c)
<1>2. p \in Console /\ CaptureInv(c) /\ CaptureInv(p) /\ CaptureInv(c)' /\ RunInv(c)'
  BY <1>1, Peers DEF HistInv
<1>3. /\ Len(applied[c]) \in Nat /\ DOMAIN applied[c] = 1 .. Len(applied[c])
      /\ Len(applied'[c]) \in Nat /\ DOMAIN applied'[c] = 1 .. Len(applied'[c])
      /\ tick'[c] \in Int /\ D \in Nat \ {0} /\ i \in Nat
  <2>1. applied[c] \in Seq(Byte \X Byte) /\ applied'[c] \in Seq(Byte \X Byte)
    BY <1>1, TypeStep DEF TypeInv, TypeOK, GateTypes
  <2>2. tick'[c] \in Int
    BY <1>1, Growth
  <2> QED
    BY <2>1, <2>2, RingSizes, SMTT(30)
(* A tick that had run.                                                    *)
<1>4. CASE i <= Len(applied[c])
  <2>1. i \in 1 .. Len(applied[c])
    BY <1>3, <1>4
  <2>2. applied'[c][i] = Pair(c, Captured(c, i - 1), Captured(p, i - 1))
    BY <1>1, <1>3, <2>1, Growth DEF SameInputs
  <2>3. i - 1 \in Int /\ i - 1 <= tick[c] + D /\ i - 1 <= tick[p] + D
    BY <1>1, <2>1, RunsWhatIsKnown
  <2>4. /\ Captured(c, i - 1)' = Captured(c, i - 1)
        /\ Captured(p, i - 1)' = Captured(p, i - 1)
    BY <1>1, <1>2, <2>3, PastIsFixed DEF CaptureInv
  <2> QED
    BY <2>2, <2>4
(* The tick that runs now.                                                 *)
<1>5. CASE ~(i <= Len(applied[c]))
  <2>1. Boundary(c)
    <3>1. MidTick(c) => applied'[c] = applied[c]
      BY DEF MidTick
    <3> QED
      BY <1>1, <1>3, <1>5, <3>1, GateCases
  <2>2. PICK t \in Int : t = tick'[c]
    BY <1>3
  <2>3. /\ ran'[c] /\ Arrived(c, t)
        /\ applied'[c] = Append(applied[c],
             Pair(c, loc'[c][t % LocSize], ring[c][t % RingSize]))
    BY <1>1, <1>3, <1>5, <2>1, <2>2, BoundaryCells
  <2>4. /\ Len(applied'[c]) = Len(applied[c]) + 1
        /\ applied'[c][Len(applied[c]) + 1] =
             Pair(c, loc'[c][t % LocSize], ring[c][t % RingSize])
    BY <1>3, <2>3
  <2>5. Len(applied'[c]) = t + 1
    BY <1>2, <2>2, <2>3 DEF RunInv
  <2>6. i = t + 1 /\ t \in Nat /\ i = Len(applied[c]) + 1
    BY <1>3, <1>5, <2>2, <2>4, <2>5
  <2>7. applied'[c][i] = Pair(c, loc'[c][t % LocSize], ring[c][t % RingSize])
    BY <2>4, <2>6
  <2>8. loc'[c][t % LocSize] = Captured(c, t)'
    <3>1. tick'[c] + D - LocSize < t /\ t <= tick'[c] + D
      BY <2>2, RingSizes
    <3> QED
      BY <1>2, <2>6, <3>1 DEF CaptureInv
  <2>9. /\ tick[c] \in Int /\ rwat[c] \in Int /\ tick[p] \in Int
        /\ t = tick[c] \/ (ran[c] /\ t = tick[c] + 1)
    BY <1>1, <1>2, <2>1, <2>2, TickTypes, BoundaryCells
  <2>10. t <= rwat[c]
    BY <1>1, <2>3, <2>9, GateExact
  <2>11. ring[c][t % RingSize] = Captured(p, t)
    <3>1. tick[c] <= t /\ t <= Newest(c)
      BY <2>2, <2>9, <2>10, RingSizes DEF Newest
    <3> QED
      BY <2>6, <3>1 DEF RaceInv, RingInv, Holds
  <2>12. Captured(p, t)' = Captured(p, t)
    <3>1. t <= tick[p] + D
      <4>1. MarkInv(c)
        BY <1>1 DEF SkewInv, TickInv
      <4> QED
        BY <1>3, <2>6, <2>9, <2>10, <4>1 DEF MarkInv
    <3> QED
      BY <1>1, <1>2, <2>2, <3>1, PastIsFixed DEF CaptureInv
  <2>13. i - 1 = t
    BY <2>6
  <2> QED
    BY <2>7, <2>8, <2>11, <2>12, <2>13
<1> QED
  BY <1>4, <1>5

LEMMA RaceInit == Init => RaceInv
<1> SUFFICES ASSUME Init PROVE RaceInv
  OBVIOUS
<1>1. HistInv
  BY HistInit
<1>2. ASSUME NEW c \in Console PROVE CloseInv(c)
  <2>1. Window(c) = {}
    BY DEF Init, Window
  <2> QED
    BY <2>1 DEF CloseInv, Inputs
<1>3. ASSUME NEW c \in Console PROVE RingInv(c)
  <2>1. Newest(c) = D - 1
    BY RingSizes DEF Init, Newest
  <2>2. ASSUME NEW t \in Nat, t <= D - 1
        PROVE  ring[c][t % RingSize] = Captured(Peer(c), t)
    <3>1. t % RingSize \in 0 .. RingSize - 1
      BY RingSizes, Division
    <3>2. t < D
      BY <2>2, RingSizes
    <3> QED
      BY <3>1, <3>2 DEF Init, Captured
  <2> QED
    BY <2>1, <2>2 DEF RingInv, Holds
<1>4. SameInputs
  BY DEF Init, SameInputs
<1> QED
  BY <1>1, <1>2, <1>3, <1>4 DEF RaceInv

LEMMA RaceStep == RaceInv /\ NoGap /\ [Next]_vars => RaceInv'
<1> SUFFICES ASSUME RaceInv, NoGap, [Next]_vars PROVE RaceInv'
  OBVIOUS
<1>1. HistInv'
  BY HistStep DEF RaceInv
<1> QED
  BY <1>1, CloseStep, RingStep, InputsStep DEF RaceInv

LEMMA RaceInvariant == Spec /\ []NoGap => []RaceInv
BY RaceInit, RaceStep, PTL DEF Spec

(***************************************************************************)
(* The refinement: the consoles implement SharedRace.                      *)
(***************************************************************************)

(* The pairs of one tick are the same pair on both consoles.               *)
LEMMA Agreement ==
  ASSUME RaceInv, NEW c \in Console, NEW i \in DOMAIN applied[c] \cap DOMAIN applied[Peer(c)]
  PROVE  applied[c][i] = applied[Peer(c)][i]
<1>1. Peer(c) \in Console /\ Peer(Peer(c)) = c
  BY Peers
<1>2. /\ applied[c][i] = Pair(c, Captured(c, i - 1), Captured(Peer(c), i - 1))
      /\ applied[Peer(c)][i] =
           Pair(Peer(c), Captured(Peer(c), i - 1), Captured(c, i - 1))
  BY <1>1 DEF RaceInv, SameInputs
<1>3. c = "host" <=> Peer(c) # "host"
  BY DEF Console, Peer
<1> QED
  BY <1>2, <1>3 DEF Pair
(* So the longer of the two histories is the race, and when they are of    *)
(* one length they are equal.                                              *)
LEMMA Leader ==
  ASSUME RaceInv, NEW c \in Console, Len(applied[c]) >= Len(applied[Peer(c)])
  PROVE  Race = applied[c]
<1> DEFINE p == Peer(c)
<1>1. p \in Console /\ {c, p} = {"host", "guest"} /\ TypeInv
  BY DEF Peer, Console, RaceInv, HistInv, SkewInv
<1>2. /\ applied[c] \in Seq(Byte \X Byte) /\ Len(applied[c]) \in Nat
      /\ applied[p] \in Seq(Byte \X Byte) /\ Len(applied[p]) \in Nat
  BY <1>1, HistTypes
<1>3. ASSUME Len(applied[c]) = Len(applied[p]) PROVE applied[c] = applied[p]
  <2>1. DOMAIN applied[c] = 1 .. Len(applied[c]) /\ DOMAIN applied[p] = 1 .. Len(applied[c])
    BY <1>2, <1>3
  <2>2. \A i \in 1 .. Len(applied[c]) : applied[c][i] = applied[p][i]
    BY <2>1, Agreement
  <2> QED
    BY <1>2, <1>3, <2>2, SeqEqual
<1>4. \/ c = "host" /\ p = "guest"
      \/ c = "guest" /\ p = "host"
  BY DEF Console, Peer
<1> QED
  BY <1>2, <1>3, <1>4 DEF Race

Led == \A c \in Console : Len(applied[c]) >= Len(applied[Peer(c)]) => Race = applied[c]
LEMMA AlwaysLed == RaceInv => Led
BY Leader DEF Led
LEMMA LedNext == RaceInv' => Led'
BY AlwaysLed, PTL

Done == [c \in Console |-> Len(applied[c])]

LEMMA SharedInit == Init => Shared!Init
<1> SUFFICES ASSUME Init PROVE Shared!Init
  OBVIOUS
<1>1. applied = [c \in Console |-> <<>>]
  BY DEF Init
<1>2. Race = <<>>
  BY <1>1 DEF Race, Console
<1>3. Done = [c \in Console |-> 0]
  BY <1>1 DEF Done
<1> QED
  BY <1>2, <1>3 DEF Shared!Init, Done

(* A step of the simulation of c: one more tick, of its history and of the *)
(* race when it is the first to run it.                                    *)
LEMMA SharedRun ==
  ASSUME RaceInv, RaceInv', [Next]_vars, NEW c \in Console, Boundary(c), ran'[c]
  PROVE  Shared!RunTick(c)
<1> DEFINE p == Peer(c)
<1>1. /\ TypeInv /\ SkewInv /\ TypeInv' /\ p \in Console /\ p # c /\ Peer(p) = c
      /\ RunInv(c) /\ RunInv(c)' /\ RunInv(p) /\ MarkInv(c)
  BY Peers DEF RaceInv, HistInv, SkewInv, TickInv
<1>2. PICK pair \in Byte \X Byte : applied' = [applied EXCEPT ![c] = Append(applied[c], pair)]
  <2>1. RunTick(c)
    BY <1>1 DEF Boundary, Stall, TypeInv, TypeOK, GateTypes
  <2>2. PICK pair : applied' = [applied EXCEPT ![c] = Append(applied[c], pair)]
    BY <2>1 DEF RunTick
  <2>3. applied[c] \in Seq(Byte \X Byte) /\ applied'[c] \in Seq(Byte \X Byte)
    BY <1>1 DEF TypeInv, TypeOK, GateTypes
  <2>4. applied'[c] = Append(applied[c], pair)
    BY <1>1, <2>2 DEF TypeInv, TypeOK, GateTypes
  <2>5. Len(applied[c]) + 1 \in DOMAIN applied'[c] /\ applied'[c][Len(applied[c]) + 1] = pair
    BY <2>3, <2>4
  <2>6. pair \in Byte \X Byte
    BY <2>3, <2>5, ElementOfSeq
  <2> QED
    BY <2>2, <2>6
<1>3. PICK n \in Nat : n = Len(applied[c])
  BY <1>1, HistTypes
<1>4. PICK m \in Nat : m = Len(applied[p])
  BY <1>1, HistTypes
<1>5. /\ applied[c] \in Seq(Byte \X Byte) /\ applied'[c] = Append(applied[c], pair)
      /\ applied'[p] = applied[p] /\ Len(applied'[c]) = n + 1 /\ Len(applied'[p]) = m
      /\ SubSeq(applied'[c], 1, n) = applied[c]
  <2>1. applied \in [Console -> Seq(Byte \X Byte)]
    BY <1>1 DEF TypeInv, TypeOK, GateTypes
  <2>2. applied[c] \in Seq(Byte \X Byte) /\ applied'[c] = Append(applied[c], pair)
    BY <1>2, <2>1
  <2>3. applied'[p] = applied[p]
    BY <1>1, <1>2, <2>1
  <2>4. Len(applied'[c]) = n + 1
    BY <1>3, <2>2
  <2>5. SubSeq(applied'[c], 1, n) = applied[c]
    <3>1. n \in 0 .. Len(applied[c])
      BY <1>3
    <3>2. Prefix(c, n)' = Prefix(c, n)
      BY <1>1, <3>1, PastIsFixed DEF RaceInv, HistInv, CaptureInv
    <3>3. SubSeq(applied[c], 1, n) = applied[c]
      BY <1>3, <2>2, SubSeqFull
    <3> QED
      BY <3>2, <3>3 DEF Prefix
  <2> QED
    BY <1>4, <2>2, <2>3, <2>4, <2>5
(* The peer cannot be left further behind.                                 *)
<1>6. n + 1 <= m + (D + 1)
  <2>1. /\ tick[p] \in Int /\ tick'[c] \in Int /\ rwat[c] \in Int /\ D \in Nat \ {0}
        /\ ran[p] \in BOOLEAN
    BY <1>1, Growth, TickTypes, RingSizes
  <2>2. n = tick'[c]
    <3>1. Len(applied'[c]) = tick'[c] + 1
      BY <1>1 DEF RunInv
    <3> QED
      BY <1>5, <2>1, <3>1
  <2>3. tick'[c] <= rwat[c]
    <3>1. /\ Arrived(c, tick'[c])
          /\ tick'[c] = tick[c] \/ (ran[c] /\ tick'[c] = tick[c] + 1)
      BY <1>1, BoundaryCells
    <3> QED
      BY <1>1, <3>1, GateExact
  <2>4. tick[p] <= m
    BY <1>1, <1>4, <2>1 DEF RunInv
  <2> QED
    BY <1>1, <2>1, <2>2, <2>3, <2>4 DEF MarkInv
<1>7. \A q \in Console : Done[c] + 1 <= Done[q] + (D + 1)
  <2>1. \A q \in Console : q = c \/ q = p
    BY DEF Console, Peer
  <2>2. Done[c] = n /\ Done[p] = m
    BY <1>1, <1>3, <1>4 DEF Done
  <2> QED
    BY <1>6, <2>1, <2>2, RingSizes
<1>8. Done' = [Done EXCEPT ![c] = Done[c] + 1]
  <2>1. \A q \in Console : q = c \/ q = p
    BY DEF Console, Peer
  <2> QED
    BY <1>1, <1>3, <1>4, <1>5, <2>1 DEF Done
<1>9. IF Done[c] = Len(Race) THEN Shared!Extend ELSE Race' = Race
  <2>1. CASE n < m
    <3>1. Race = applied[p]
      BY <1>1, <1>3, <1>4, <2>1, Leader
    <3>2. Race' = applied'[p]
      <4>1. Len(applied'[p]) >= Len(applied'[Peer(p)])
        BY <1>1, <1>5, <2>1
      <4> QED
        BY <1>1, <4>1, LedNext DEF Led
    <3> QED
      BY <1>3, <1>4, <1>5, <2>1, <3>1, <3>2 DEF Done
  <2>2. CASE n >= m
    <3>1. Race = applied[c]
      BY <1>3, <1>4, <2>2, Leader
    <3>2. Race' = applied'[c]
      <4>1. Len(applied'[c]) >= Len(applied'[Peer(c)])
        BY <1>5, <2>2
      <4> QED
        BY <4>1, LedNext DEF Led
    <3>3. Shared!Extend
      BY <1>3, <1>5, <3>1, <3>2 DEF Shared!Extend
    <3> QED
      BY <1>3, <3>1, <3>3 DEF Done
  <2> QED
    BY <2>1, <2>2
<1> QED
  BY <1>7, <1>8, <1>9 DEF Shared!RunTick, Done
LEMMA SharedStep == RaceInv /\ RaceInv' /\ [Next]_vars => [Shared!Next]_<<Race, Done>>
<1> SUFFICES ASSUME RaceInv, RaceInv', [Next]_vars PROVE [Shared!Next]_<<Race, Done>>
  OBVIOUS
<1>1. TypeInv
  BY DEF RaceInv, HistInv, SkewInv
<1>2. applied' = applied => UNCHANGED <<Race, Done>>
  BY DEF Race, Done
<1>3. ASSUME NEW c \in Console, Boundary(c) PROVE Shared!Next \/ applied' = applied
  <2>1. CASE RunTick(c)
    <3>1. ran'[c]
      BY <1>1, <2>1 DEF RunTick, TypeInv, TypeOK, GateTypes
    <3>2. Shared!RunTick(c)
      BY <1>3, <3>1, SharedRun
    <3> QED
      BY <3>2 DEF Shared!Next
  <2>2. CASE Stall(c)
    BY <2>2 DEF Stall, Frozen
  <2> QED
    BY <1>3, <2>1, <2>2 DEF Boundary
<1>4. ASSUME NEW c \in Console, MidTick(c) \/ DGNSTEP(c) \/ PowerOff(c)
      PROVE  applied' = applied
  BY <1>4 DEF MidTick, DGNSTEP, Write, Read, Fail, Consume, PowerOff, gateVars
<1>5. UNCHANGED vars => applied' = applied
  BY DEF vars, gateVars
<1> QED
  BY <1>2, <1>3, <1>4, <1>5 DEF Next, DGSHIM

(***************************************************************************)
(* The theorems.                                                           *)
(***************************************************************************)

(* As long as no record comes after a gap, whatever the stalls, retries,   *)
(* damaged records and switched-off consoles: both simulations run every   *)
(* tick on the bytes both players captured for it.                         *)
THEOREM SameRace == Spec /\ []NoGap => []SameInputs
<1>1. RaceInv => SameInputs
  BY DEF RaceInv
<1> QED
  BY <1>1, RaceInvariant, PTL

(* And they are one race: each tick is decided once, by the first console  *)
(* to run it, and the other runs the same, at most D+1 ticks later.        *)
THEOREM ConsolesShareOneRace == Spec /\ []NoGap => OneRace
<1>1. Spec => [][Next]_vars
  BY DEF Spec
<1>2. Spec => Init
  BY DEF Spec
<1> QED
  BY <1>1, <1>2, RaceInvariant, SharedInit, SharedStep, PTL DEF OneRace, Shared!Spec, Done

(* A prompt network and cartridge leave no gap.                            *)
LEMMA PromptLeavesNoGap == PromptSpec => Spec /\ []NoGap
<1>1. Init => Current
  <2>1. Init => \A c \in Console : tick[c] < Win
    BY RingSizes DEF Init
  <2> QED
    BY <2>1 DEF Current
<1>2. Current /\ [Prompt(Next)]_vars => Current'
  <2>1. UNCHANGED vars => UNCHANGED <<tick, rwat>>
    BY DEF vars, gateVars
  <2>2. UNCHANGED <<tick, rwat>> /\ Current => Current'
    BY DEF Current
  <2> QED
    BY <2>1, <2>2 DEF Prompt
<1>3. [Prompt(Next)]_vars => [Next]_vars
  BY DEF Prompt
<1>4. SkewInv /\ Current => NoGap
  BY CurrentLeavesNoGap
<1>5. PromptSpec => Init /\ [][Prompt(Next)]_vars
  BY PTL DEF PromptSpec
<1>6. PromptSpec => Spec /\ []Current
  BY <1>1, <1>2, <1>3, <1>5, PTL DEF Spec
<1> QED
  BY <1>4, <1>6, SkewInvariant, PTL

(* What PromptSpec's runs check, for every size of the rings and windows.  *)
THEOREM PromptRunsSameInputs == PromptSpec => []SameInputs
BY PromptLeavesNoGap, SameRace, PTL

(* Every tick the gate would let through has the peer's own byte in its    *)
(* slot of the remote ring.                                                *)
THEOREM PromptRingIsCorrect == PromptSpec => []RingCorrect
<1>1. RaceInv => RingCorrect
  <2> SUFFICES ASSUME RaceInv, NEW c \in Console, NEW t \in 0 .. rwat[c], t >= tick[c]
               PROVE  ring[c][t % RingSize] = Captured(Peer(c), t)
    BY DEF RingCorrect
  <2>1. tick[c] \in Int /\ rwat[c] \in Int
    BY TickTypes DEF RaceInv, HistInv, SkewInv
  <2>2. t \in Nat /\ tick[c] <= t /\ t <= Newest(c)
    BY <2>1, RingSizes DEF Newest
  <2> QED
    BY <2>2 DEF RaceInv, RingInv, Holds
<1> QED
  BY <1>1, PromptLeavesNoGap, RaceInvariant, PTL

(* The refinement PromptSpec's run checks.                                 *)
THEOREM PromptIsOneRace == PromptSpec => OneRace
BY PromptLeavesNoGap, ConsolesShareOneRace, PTL

=============================================================================
