---------------------------- MODULE VerdictProofs ----------------------------
(***************************************************************************)
(* The relay's checksum log, for every delay and every width of the tick   *)
(* that leaves half its range to the largest jump lockstep allows.         *)
(***************************************************************************)
EXTENDS RelayVerdict, SequenceTheorems, TLAPS

(* A lap and a residue make a number, and only that residue.               *)
LEMMA LapAndResidue ==
  ASSUME NEW M \in Nat \ {0}, NEW q \in Nat, NEW r \in 0 .. M - 1
  PROVE  (q * M + r) % M = r
OBVIOUS

LEMMA NextLap ==
  ASSUME NEW M \in Nat \ {0}, NEW q \in Nat
  PROVE  (q + 1) * M = q * M + M
OBVIOUS

LEMMA Residue ==
  ASSUME NEW M \in Nat \ {0}, NEW x \in Int
  PROVE  /\ 0 <= x /\ x < M => x % M = x
         /\ -M <= x /\ x < 0 => x % M = x + M
OBVIOUS

LEMMA Two ==
  ASSUME NEW c \in Client
  PROVE  Other(c) \in Client /\ Other(c) # c /\ Other(Other(c)) = c /\ Client = {c, Other(c)}
<1>1. \E p \in Client : p # c
  BY TwoConsoles
<1>2. Other(c) \in Client /\ Other(c) # c
  BY <1>1 DEF Other
<1>3. Client = {c, Other(c)}
  BY <1>2, TwoConsoles
<1>4. Other(Other(c)) \in Client /\ Other(Other(c)) # Other(c)
  BY <1>1, <1>2 DEF Other
<1> QED
  BY <1>2, <1>3, <1>4

Half == TickMod \div 2

LEMMA HalfOfTicks ==
  /\ Half \in Nat /\ Half >= 2 * D + 3 /\ 2 * Half <= TickMod
  /\ TickMod \in Nat \ {0} /\ D \in Nat
<1>1. TickMod \in Nat /\ D \in Nat /\ Half >= 2 * D + 3
  BY LapFits DEF Half
<1>2. Half \in Nat /\ 2 * Half <= TickMod
  BY <1>1 DEF Half
<1> QED
  BY <1>1, <1>2

(* One record: the stream goes on by less than half a lap, and the rebuilt *)
(* key follows it, across the wrap or not.                                 *)
LEMMA LapStep ==
  ASSUME NEW l \in Nat, NEW last \in 0 .. TickMod - 1,
         NEW t \in Nat, NEW j \in Nat, t = KeyOf(l, last) + j, j < Half
  PROVE  /\ t % TickMod \in 0 .. TickMod - 1
         /\ KeyOf(IF Wrapped(last, t % TickMod) THEN l + 1 ELSE l, t % TickMod) = t
<1> DEFINE M == TickMod
           b == t % M
<1>1. M \in Nat \ {0} /\ Half \in Nat /\ 2 * Half <= M /\ last # NoTick
  BY HalfOfTicks DEF NoTick
<1>2. t = l * M + (last + j) /\ l * M \in Nat
  BY <1>1 DEF KeyOf
<1>3. CASE last + j < M
  <2> DEFINE r == last + j
  <2>a. r \in 0 .. M - 1
    BY <1>1, <1>3
  <2>b. (l * M + r) % M = r
    BY ONLY <1>1, <2>a, l \in Nat, LapAndResidue
  <2>1. b = last + j
    BY <1>2, <2>b
  <2>2. ~Wrapped(last, b)
    BY <1>1, <2>1 DEF Wrapped
  <2> QED
    BY <1>1, <1>2, <1>3, <2>1, <2>2 DEF KeyOf
<1>4. CASE last + j >= M
  <2>1. last + j - M \in 0 .. M - 1
    BY <1>1, <1>4
  <2>2. t = (l + 1) * M + (last + j - M)
    BY <1>1, <1>2, NextLap
  <2> DEFINE r == last + j - M
  <2>a. r \in 0 .. M - 1 /\ l + 1 \in Nat
    BY <2>1
  <2>b. ((l + 1) * M + r) % M = r
    BY ONLY <1>1, <2>a, LapAndResidue
  <2>3. b = last + j - M
    BY <2>2, <2>b
  <2>4. (b - last) % M = j
    <3>1. b - last = j - M
      BY <1>1, <2>3
    <3> QED
      BY <1>1, <1>4, <3>1, Residue, SMTT(30)
  <2>5. Wrapped(last, b)
    <3>1. b < last /\ j >= 1
      BY <1>1, <1>4, <2>3
    <3>2. j \in 1 .. Half - 1
      BY <1>1, <3>1
    <3> QED
      BY <1>1, <2>4, <3>1, <3>2 DEF Wrapped, Half
  <2> QED
    BY <1>1, <2>1, <2>2, <2>3, <2>5 DEF KeyOf
<1> QED
  BY <1>1, <1>3, <1>4

(* The inductive invariant: a console's lap and last tick are those of its *)
(* latest record, and lockstep keeps the two streams close.                *)
LapOf(c) ==
  /\ sent[c] = -1 => lap[c] = 0 /\ lastTick[c] = NoTick
  /\ sent[c] >= 0 => lastTick[c] \in 0 .. TickMod - 1 /\ KeyOf(lap[c], lastTick[c]) = sent[c]

LapInv ==
  /\ sent \in [Client -> Nat \cup {-1}]
  /\ lap \in [Client -> Nat]
  /\ lastTick \in [Client -> Int]
  /\ \A c \in Client : sent[c] <= sent[Other(c)] + D + 1 /\ LapOf(c)

LEMMA LapInit == Init => LapInv
<1> SUFFICES ASSUME Init PROVE LapInv
  OBVIOUS
<1>1. \A c \in Client : sent[c] = -1 /\ lap[c] = 0 /\ lastTick[c] = NoTick
  BY DEF Init, CrcInit
<1>2. ASSUME NEW c \in Client PROVE sent[c] <= sent[Other(c)] + D + 1
  <2>1. sent[c] = -1 /\ sent[Other(c)] = -1
    BY <1>1, Two
  <2> QED
    BY <2>1, HalfOfTicks
<1> QED
  BY <1>1, <1>2 DEF Init, CrcInit, LapInv, LapOf, NoTick

LEMMA LapRecord ==
  ASSUME LapInv, NEW c \in Client, Record(c)
  PROVE  LapInv'
<1> DEFINE o == Other(c)
<1>1. PICK t \in D .. MaxTick :
        /\ sent[c] <= t /\ t <= sent[o] + D + 1
        /\ LogCrc(c, o, t % TickMod, Checksum(c, t))
        /\ sent' = [sent EXCEPT ![c] = t]
  BY DEF Record
<1> DEFINE b == t % TickMod
           l == IF Wrapped(lastTick[c], b) THEN lap[c] + 1 ELSE lap[c]
<1>2. lap' = [lap EXCEPT ![c] = l] /\ lastTick' = [lastTick EXCEPT ![c] = b]
  BY <1>1 DEF LogCrc
<1>3. t \in Nat /\ D \in Nat /\ TickMod \in Nat \ {0}
  BY HalfOfTicks, LapFits
<1>4. /\ o \in Client /\ o # c /\ Other(o) = c
      /\ sent[c] \in Nat \cup {-1} /\ sent[o] \in Nat \cup {-1} /\ lap[c] \in Nat
      /\ sent[o] <= sent[c] + D + 1
  BY Two DEF LapInv
<1>5. t - sent[c] \in Nat /\ t - sent[c] < Half
  BY <1>1, <1>3, <1>4, HalfOfTicks
<1>6. b \in 0 .. TickMod - 1 /\ l \in Nat /\ KeyOf(l, b) = t
  <2>1. CASE sent[c] = -1
    <3>1. lap[c] = 0 /\ lastTick[c] = NoTick
      BY <2>1 DEF LapInv, LapOf
    <3>2. t < TickMod
      BY <1>3, <1>4, <1>5, <2>1, HalfOfTicks
    <3>3. b = t
      BY <1>3, <3>2, Residue
    <3>4. l = 0
      BY <3>1 DEF Wrapped
    <3> QED
      BY <1>3, <3>2, <3>3, <3>4 DEF KeyOf
  <2>2. CASE sent[c] \in Nat
    <3>1. lastTick[c] \in 0 .. TickMod - 1 /\ KeyOf(lap[c], lastTick[c]) = sent[c]
      BY <2>2 DEF LapInv, LapOf
    <3>2. t = KeyOf(lap[c], lastTick[c]) + (t - sent[c])
      BY <1>3, <2>2, <3>1
    <3>3. b \in 0 .. TickMod - 1 /\ KeyOf(l, b) = t
      BY <1>3, <1>4, <1>5, <3>1, <3>2, LapStep
    <3>4. l \in Nat
      BY <1>4
    <3> QED
      BY <3>3, <3>4
  <2> QED
    BY <1>4, <2>1, <2>2
<1>7. /\ sent' \in [Client -> Nat \cup {-1}]
      /\ lap' \in [Client -> Nat]
      /\ lastTick' \in [Client -> Int]
  <2>1. b \in Int
    BY <1>3, <1>6
  <2> QED
    BY <1>1, <1>2, <1>3, <1>6, <2>1 DEF LapInv
<1>8. ASSUME NEW k \in Client
      PROVE  sent'[k] <= sent'[Other(k)] + D + 1 /\ LapOf(k)'
  <2>1. CASE k = c
    <3>1. sent'[c] = t /\ sent'[o] = sent[o] /\ lap'[c] = l /\ lastTick'[c] = b
      BY <1>1, <1>2, <1>4 DEF LapInv
    <3>2. LapOf(c)'
      BY <1>3, <1>6, <3>1 DEF LapOf
    <3> QED
      BY <1>1, <2>1, <3>1, <3>2
  <2>2. CASE k = o
    <3>1. sent'[c] = t /\ sent'[o] = sent[o] /\ lap'[o] = lap[o] /\ lastTick'[o] = lastTick[o]
      BY <1>1, <1>2, <1>4 DEF LapInv
    <3>2. LapOf(o)'
      BY <1>4, <3>1 DEF LapOf, LapInv
    <3>3. sent'[o] <= sent'[c] + D + 1
      BY <1>1, <1>3, <1>4, <3>1
    <3> QED
      BY <1>4, <2>2, <3>2, <3>3
  <2> QED
    BY <2>1, <2>2, Two
<1> QED
  BY <1>7, <1>8 DEF LapInv

(***************************************************************************)
(* The map of a console: a Python dict, in insertion order.                *)
(***************************************************************************)
Entry == [key : Nat, crc : [tick : Nat, forked : BOOLEAN]]

(* p's checksums up to tick "last", oldest first: of n ticks in a row the  *)
(* newest is n - 1 past the oldest, at least.                              *)
Orderly(map, p, last) ==
  /\ map \in Seq(Entry)
  /\ \A i \in 1 .. Len(map) : map[i].key <= last /\ map[i].crc = Checksum(p, map[i].key)
  /\ \A i, j \in 1 .. Len(map) : i < j => map[i].key + (j - i) <= map[j].key

LEMMA ChecksumType ==
  ASSUME NEW p \in Client, NEW t \in Nat
  PROVE  Checksum(p, t) \in [tick : Nat, forked : BOOLEAN]
BY DEF Checksum

LEMMA OrderlyFacts ==
  ASSUME NEW map, NEW p \in Client, NEW last \in Int, Orderly(map, p, last)
  PROVE  /\ Len(map) \in Nat /\ DOMAIN map = 1 .. Len(map)
         /\ \A i \in 1 .. Len(map) :
              /\ map[i] \in Entry /\ map[i].key \in Nat /\ map[i].key <= last
              /\ map[i].crc = Checksum(p, map[i].key)
         /\ \A i, j \in 1 .. Len(map) :
              /\ i < j => map[i].key + (j - i) <= map[j].key
              /\ map[i].key = map[j].key => i = j
<1>1. map \in Seq(Entry)
  BY DEF Orderly
<1>2. /\ Len(map) \in Nat /\ DOMAIN map = 1 .. Len(map)
      /\ \A i \in 1 .. Len(map) : map[i] \in Entry
  BY <1>1
<1>3. \A i \in 1 .. Len(map) : map[i].key \in Nat
  BY <1>2 DEF Entry
<1>4. \A i \in 1 .. Len(map) : map[i].key <= last /\ map[i].crc = Checksum(p, map[i].key)
  BY DEF Orderly
<1>5. ASSUME NEW i \in 1 .. Len(map), NEW j \in 1 .. Len(map)
      PROVE  /\ i < j => map[i].key + (j - i) <= map[j].key
             /\ map[i].key = map[j].key => i = j
  <2>1. /\ i < j => map[i].key + (j - i) <= map[j].key
        /\ j < i => map[j].key + (i - j) <= map[i].key
    BY DEF Orderly
  <2>2. map[i].key \in Nat /\ map[j].key \in Nat /\ i \in Int /\ j \in Int
    BY <1>2, <1>3
  <2> QED
    BY <2>1, <2>2
<1> QED
  BY <1>2, <1>3, <1>4, <1>5

(* A checksum is looked up by its key.                                     *)
LEMMA GetRight ==
  ASSUME NEW map, NEW p \in Client, NEW last \in Int, Orderly(map, p, last),
         NEW key \in Keys(map)
  PROVE  key \in Nat /\ key <= last /\ Get(map, key) = Checksum(p, key)
<1>1. /\ DOMAIN map = 1 .. Len(map)
      /\ \A i \in 1 .. Len(map) :
           /\ map[i].key \in Nat /\ map[i].key <= last
           /\ map[i].crc = Checksum(p, map[i].key)
  BY OrderlyFacts
<1>2. \E i \in DOMAIN map : map[i].key = key
  BY DEF Keys
<1>3. PICK i \in DOMAIN map : map[i].key = key /\ Get(map, key) = map[i].crc
  BY <1>2 DEF Get
<1> QED
  BY <1>1, <1>3

(* The latest tick is put where it is, or after all the others.            *)
LEMMA PutOrderly ==
  ASSUME NEW map, NEW p \in Client, NEW last \in Int, Orderly(map, p, last),
         NEW t \in Nat, last <= t
  PROVE  /\ Orderly(Put(map, t, Checksum(p, t)), p, t)
         /\ Keys(Put(map, t, Checksum(p, t))) = Keys(map) \cup {t}
<1> DEFINE e == [key |-> t, crc |-> Checksum(p, t)]
           n == Len(map)
           new == Put(map, t, Checksum(p, t))
<1>1. /\ n \in Nat /\ DOMAIN map = 1 .. n
      /\ \A i \in 1 .. n :
           /\ map[i] \in Entry /\ map[i].key \in Nat /\ map[i].key <= last
           /\ map[i].crc = Checksum(p, map[i].key)
      /\ \A i, j \in 1 .. n : i < j => map[i].key + (j - i) <= map[j].key
  BY OrderlyFacts
<1>2. e \in Entry /\ e.key = t /\ e.crc = Checksum(p, t)
  BY ChecksumType DEF Entry
<1>3. map \in Seq(Entry)
  BY DEF Orderly
<1>4. CASE t \in Keys(map)
  <2>1. new = [i \in 1 .. n |-> IF map[i].key = t THEN e ELSE map[i]]
    BY <1>1, <1>4 DEF Put
  <2> HIDE DEF e, new
  <2>2. new \in Seq(Entry) /\ Len(new) = n /\ DOMAIN new = 1 .. n
    BY <1>1, <1>2, <2>1
  <2>3. \A i \in 1 .. n : new[i].key = map[i].key /\ new[i].crc = map[i].crc
    BY <1>1, <1>2, <2>1
  <2>4. Keys(new) = Keys(map)
    BY <1>1, <2>2, <2>3 DEF Keys
  <2>5. \A i \in 1 .. n : new[i].key <= t /\ new[i].crc = Checksum(p, new[i].key)
    <3>1. \A i \in 1 .. n : map[i].key \in Nat /\ map[i].key <= last
      BY <1>1
    <3> QED
      BY <1>1, <2>3, <3>1
  <2>6. \A i, j \in 1 .. n : i < j => new[i].key + (j - i) <= new[j].key
    BY <1>1, <2>3
  <2>7. Orderly(new, p, t)
    BY <2>2, <2>5, <2>6 DEF Orderly
  <2> QED
    BY <1>4, <2>4, <2>7 DEF new
<1>5. CASE t \notin Keys(map)
  <2>1. new = Append(map, e)
    BY <1>5 DEF Put
  <2> HIDE DEF e, new
  <2>2. /\ new \in Seq(Entry) /\ Len(new) = n + 1
        /\ \A i \in 1 .. n : new[i] = map[i]
        /\ new[n + 1] = e
    BY <1>2, <1>3, <2>1, AppendProperties
  <2>3. DOMAIN new = 1 .. n + 1 /\ 1 .. n + 1 = (1 .. n) \cup {n + 1}
    BY <1>1, <2>2
  <2>4. Keys(new) = Keys(map) \cup {t}
    BY <1>1, <1>2, <2>2, <2>3, SMTT(30) DEF Keys
  <2>5. \A i \in 1 .. n : map[i].key < t
    <3>1. \A i \in 1 .. n : map[i].key # t /\ map[i].key \in Nat /\ map[i].key <= last
      BY <1>1, <1>5 DEF Keys
    <3> QED
      BY <3>1
  <2>6. \A i \in 1 .. n + 1 : new[i].key <= t /\ new[i].crc = Checksum(p, new[i].key)
    <3>1. ASSUME NEW i \in 1 .. n
          PROVE  new[i].key <= t /\ new[i].crc = Checksum(p, new[i].key)
      <4>1. map[i].key \in Nat /\ map[i].key < t
        BY <1>1, <2>5
      <4> QED
        BY <1>1, <2>2, <4>1
    <3>2. new[n + 1].key <= t /\ new[n + 1].crc = Checksum(p, new[n + 1].key)
      BY <1>2, <2>2
    <3> QED
      BY <2>3, <3>1, <3>2
  <2>7. ASSUME NEW i \in 1 .. n + 1, NEW j \in 1 .. n + 1, i < j
        PROVE  new[i].key + (j - i) <= new[j].key
    <3>1. i \in 1 .. n
      BY <1>1, <2>7
    <3>2. CASE j \in 1 .. n
      BY <1>1, <2>2, <2>7, <3>1, <3>2
    <3>3. CASE j = n + 1
      <4>1. map[n].key \in Nat /\ map[n].key < t /\ map[i].key \in Nat /\ n \in 1 .. n
        BY <1>1, <2>5, <3>1
      <4>2. map[i].key + (n - i) <= map[n].key
        BY <1>1, <3>1, <4>1
      <4>3. map[i].key + ((n + 1) - i) <= t
        BY <1>1, <3>1, <4>1, <4>2
      <4> QED
        BY <1>2, <2>2, <3>1, <3>3, <4>3
    <3> QED
      BY <2>3, <3>2, <3>3
  <2>8. Orderly(new, p, t)
    BY <2>2, <2>6, <2>7 DEF Orderly
  <2> QED
    BY <2>4, <2>8 DEF new
<1> QED
  BY <1>4, <1>5

(* An answered checksum goes, and only that one.                           *)
LEMMA WithoutOrderly ==
  ASSUME NEW map, NEW p \in Client, NEW last \in Int, Orderly(map, p, last),
         NEW key \in Keys(map)
  PROVE  /\ Orderly(Without(map, key), p, last)
         /\ Keys(Without(map, key)) = Keys(map) \ {key}
<1> DEFINE n == Len(map)
           new == Without(map, key)
<1>1. /\ n \in Nat /\ DOMAIN map = 1 .. n /\ map \in Seq(Entry)
      /\ \A i \in 1 .. n :
           /\ map[i] \in Entry /\ map[i].key \in Nat /\ map[i].key <= last
           /\ map[i].crc = Checksum(p, map[i].key)
      /\ \A i, j \in 1 .. n :
           /\ i < j => map[i].key + (j - i) <= map[j].key
           /\ map[i].key = map[j].key => i = j
  BY OrderlyFacts DEF Orderly
<1>2. \E r \in DOMAIN map : map[r].key = key
  BY DEF Keys
<1>3. PICK r \in 1 .. n :
        /\ map[r].key = key
        /\ new = SubSeq(map, 1, r - 1) \o SubSeq(map, r + 1, n)
  BY <1>1, <1>2 DEF Without
<1> DEFINE was(i) == IF i < r THEN i ELSE i + 1
<1>4. \A i \in 1 .. n - 1 : was(i) \in 1 .. n /\ was(i) # r
  BY <1>1
<1>5. /\ new \in Seq(Entry) /\ Len(new) = n - 1 /\ n - 1 \in Nat
      /\ \A i \in 1 .. n - 1 : new[i] = map[was(i)]
  <2> DEFINE a == SubSeq(map, 1, r - 1)
             b == SubSeq(map, r + 1, n)
  <2>1. a \in Seq(Entry) /\ Len(a) = r - 1 /\ \A i \in 1 .. r - 1 : a[i] = map[i]
    <3>1. /\ \A i \in 1 .. r - 1 : map[i] \in Entry
          /\ r - 1 \in Nat
      BY <1>1
    <3>2. \A i \in 1 .. (r - 1) - 1 + 1 : 1 + i - 1 = i
      OBVIOUS
    <3> QED
      BY <3>1, <3>2, SubSeqProperties
  <2>2. b \in Seq(Entry) /\ Len(b) = n - r /\ \A i \in 1 .. n - r : b[i] = map[r + i]
    <3>1. n - r \in Nat /\ n - (r + 1) + 1 = n - r
      BY <1>1
    <3>6. ~(r + 1 <= n) => n - r = 0
      <4>1. n \in Nat /\ r \in Nat /\ r <= n
        BY <1>1
      <4> HIDE DEF n
      <4> QED
        BY <4>1
    <3>2. \A i \in r + 1 .. n : map[i] \in Entry
      BY <1>1
    <3>3. /\ b \in Seq(Entry)
          /\ Len(b) = (IF r + 1 <= n THEN n - (r + 1) + 1 ELSE 0)
          /\ \A i \in 1 .. n - (r + 1) + 1 : b[i] = map[(r + 1) + i - 1]
      BY <1>1, <3>2, SubSeqProperties
    <3>4. \A i \in 1 .. n - r : (r + 1) + i - 1 = r + i
      BY <1>1
    <3> HIDE DEF b
    <3>5. Len(b) = n - r
      BY <3>1, <3>3, <3>6
    <3> QED
      BY <3>1, <3>3, <3>4, <3>5
  <2>3. new = a \o b
    BY <1>3
  <2> HIDE DEF a, b, new
  <2>4. /\ new \in Seq(Entry) /\ Len(new) = Len(a) + Len(b)
        /\ \A i \in 1 .. Len(a) + Len(b) :
             new[i] = IF i <= Len(a) THEN a[i] ELSE b[i - Len(a)]
    BY <2>1, <2>2, <2>3, ConcatProperties
  <2>6. Len(new) = n - 1 /\ n - 1 \in Nat /\ Len(a) + Len(b) = n - 1
    BY <1>1, <2>1, <2>2, <2>4
  <2>5. ASSUME NEW i \in 1 .. n - 1 PROVE new[i] = map[was(i)]
    <3>1. CASE i < r
      <4>1. i \in 1 .. Len(a)
        BY <1>1, <2>1, <3>1
      <4>2. new[i] = a[i]
        BY <2>4, <2>6, <4>1
      <4> QED
        BY <2>1, <3>1, <4>1, <4>2
    <3>2. CASE ~(i < r)
      <4>1. i \in Len(a) + 1 .. Len(a) + Len(b) /\ i - (r - 1) \in 1 .. n - r
        BY <1>1, <2>1, <2>2, <3>2
      <4>2. new[i] = b[i - Len(a)]
        <5>1. ~(i <= Len(a))
          BY <1>1, <2>1, <3>2
        <5> QED
          BY <2>4, <2>6, <5>1
      <4>3. r + (i - (r - 1)) = i + 1
        OBVIOUS
      <4> QED
        BY <2>1, <2>2, <3>2, <4>1, <4>2, <4>3
    <3> QED
      BY <3>1, <3>2
  <2> QED
    BY <2>4, <2>5, <2>6
<1>6. DOMAIN new = 1 .. n - 1
  BY <1>5
<1> HIDE DEF new
<1>7. \A i \in 1 .. n - 1 : new[i].key <= last /\ new[i].crc = Checksum(p, new[i].key)
  BY <1>1, <1>4, <1>5, SMTT(30)
<1>8. ASSUME NEW i \in 1 .. n - 1, NEW j \in 1 .. n - 1, i < j
      PROVE  new[i].key + (j - i) <= new[j].key
  <2>1. was(i) \in 1 .. n /\ was(j) \in 1 .. n /\ was(i) < was(j) /\ j - i <= was(j) - was(i)
    BY <1>1, <1>4, <1>8
  <2> HIDE DEF was
  <2>2. map[was(i)].key + (was(j) - was(i)) <= map[was(j)].key
    BY <1>1, <2>1
  <2>3. map[was(i)].key \in Nat /\ map[was(j)].key \in Nat /\ was(i) \in Int /\ was(j) \in Int
    BY <1>1, <2>1
  <2>4. map[was(i)].key + (j - i) <= map[was(j)].key
    <3> DEFINE at == was(i)
               to == was(j)
               older == map[at].key
               newer == map[to].key
    <3>1. older \in Int /\ newer \in Int /\ at \in Int /\ to \in Int
      BY <2>3
    <3>2. older + (to - at) <= newer
      BY <2>2
    <3>3. j - i <= to - at
      BY <2>1
    <3> HIDE DEF at, to, older, newer
    <3>4. older + (j - i) <= newer
      BY <3>1, <3>2, <3>3
    <3> QED
      BY <3>4 DEF newer, older, to, at
  <2> QED
    BY <1>5, <2>4
<1>9. Keys(new) = Keys(map) \ {key}
  <2>1. ASSUME NEW k \in Keys(new) PROVE k \in Keys(map) /\ k # key
    <3>1. PICK i \in 1 .. n - 1 : new[i].key = k
      BY <1>6 DEF Keys
    <3>2. was(i) \in 1 .. n /\ was(i) # r /\ map[was(i)].key = k
      BY <1>4, <1>5, <3>1
    <3> HIDE DEF was
    <3> QED
      BY <1>1, <1>3, <3>2 DEF Keys
  <2>2. ASSUME NEW k \in Keys(map), k # key PROVE k \in Keys(new)
    <3>1. PICK j \in 1 .. n : map[j].key = k
      BY <1>1 DEF Keys
    <3>2. j # r
      BY <1>3, <2>2, <3>1
    <3>3. PICK i \in 1 .. n - 1 : was(i) = j
      <4>1. CASE j < r
        <5>1. j \in 1 .. n - 1 /\ was(j) = j
          BY <1>1, <4>1
        <5> QED
          BY <5>1
      <4>2. CASE j > r
        <5>1. j - 1 \in 1 .. n - 1 /\ was(j - 1) = j
          BY <1>1, <4>2
        <5> QED
          BY <5>1
      <4> QED
        BY <3>2, <4>1, <4>2
    <3>4. new[i].key = k
      BY <1>5, <3>1, <3>3
    <3> QED
      BY <1>6, <3>4 DEF Keys
  <2> QED
    BY <2>1, <2>2
<1>10. Orderly(new, p, last)
  BY <1>5, <1>7, <1>8 DEF Orderly
<1> QED
  BY <1>9, <1>10 DEF new

(* Eviction is by age: a tick less than Keep behind the newest stays.      *)
LEMMA NewestOrderly ==
  ASSUME NEW map, NEW p \in Client, NEW last \in Int, Orderly(map, p, last)
  PROVE  /\ Orderly(Newest(map), p, last)
         /\ Keys(Newest(map)) \subseteq Keys(map)
         /\ \A k \in Keys(map) : last - k < Keep => k \in Keys(Newest(map))
<1> DEFINE n == Len(map)
           new == Newest(map)
<1>1. /\ n \in Nat /\ DOMAIN map = 1 .. n /\ map \in Seq(Entry)
      /\ \A i \in 1 .. n :
           /\ map[i] \in Entry /\ map[i].key \in Nat /\ map[i].key <= last
           /\ map[i].crc = Checksum(p, map[i].key)
      /\ \A i, j \in 1 .. n : i < j => map[i].key + (j - i) <= map[j].key
  BY OrderlyFacts DEF Orderly
<1>2. Keep \in Nat /\ Keep >= 1
  BY EnoughKept, HalfOfTicks
<1>3. CASE ~(n > Keep)
  <2>1. new = map
    BY <1>3 DEF Newest
  <2> QED
    BY <2>1
<1>4. CASE n > Keep
  <2>1. PICK d \in Nat : d = n - Keep /\ d >= 1
    <3>1. n - Keep \in Nat /\ n - Keep >= 1
      BY <1>1, <1>2, <1>4
    <3> QED
      BY <3>1
  <2>2. /\ new \in Seq(Entry) /\ Len(new) = Keep /\ DOMAIN new = 1 .. Keep
        /\ \A i \in 1 .. Keep : new[i] = map[d + i] /\ d + i \in 1 .. n
    <3>1. /\ n - Keep + 1 = d + 1 /\ n - (d + 1) + 1 = Keep /\ d + 1 <= n
          /\ \A i \in 1 .. Keep : d + i \in 1 .. n /\ (d + 1) + i - 1 = d + i
      BY <1>1, <1>2, <2>1
    <3>2. new = SubSeq(map, d + 1, n)
      BY <1>4, <3>1 DEF Newest
    <3>3. \A i \in d + 1 .. n : map[i] \in Entry
      BY <1>1, <2>1
    <3>4. /\ new \in Seq(Entry)
          /\ Len(new) = (IF d + 1 <= n THEN n - (d + 1) + 1 ELSE 0)
          /\ \A i \in 1 .. n - (d + 1) + 1 : new[i] = map[(d + 1) + i - 1]
      BY <1>1, <2>1, <3>2, <3>3, SubSeqProperties, SMTT(30)
    <3> HIDE DEF new
    <3>5. Len(new) = Keep /\ \A i \in 1 .. Keep : new[i] = map[d + i]
      BY <3>1, <3>4
    <3> QED
      BY <3>1, <3>4, <3>5
  <2> HIDE DEF new
  <2>3. \A i \in 1 .. Keep : new[i].key <= last /\ new[i].crc = Checksum(p, new[i].key)
    BY <1>1, <2>2
  <2>4. ASSUME NEW i \in 1 .. Keep, NEW j \in 1 .. Keep, i < j
        PROVE  new[i].key + (j - i) <= new[j].key
    <3>1. d + i \in 1 .. n /\ d + j \in 1 .. n /\ d + i < d + j /\ (d + j) - (d + i) = j - i
      BY <2>2, <2>4
    <3>2. map[d + i].key + ((d + j) - (d + i)) <= map[d + j].key
      BY <1>1, <3>1
    <3> QED
      BY <2>2, <3>1, <3>2
  <2>5. Orderly(new, p, last)
    BY <2>2, <2>3, <2>4 DEF Orderly
  <2>6. Keys(new) \subseteq Keys(map)
    BY <1>1, <2>2 DEF Keys
  <2>7. ASSUME NEW k \in Keys(map), last - k < Keep PROVE k \in Keys(new)
    <3>1. PICK i \in 1 .. n : map[i].key = k
      BY <1>1 DEF Keys
    <3>2. i > d
      <4> SUFFICES ASSUME ~(i > d) PROVE FALSE
        OBVIOUS
      <4>1. i < n /\ n \in 1 .. n /\ n - i >= Keep
        BY <1>1, <1>2, <2>1
      <4>2. map[i].key + (n - i) <= map[n].key /\ map[n].key <= last
            /\ map[n].key \in Nat /\ map[i].key \in Nat
        BY <1>1, <4>1
      <4> QED
        BY <1>1, <1>2, <2>7, <3>1, <4>1, <4>2
    <3>3. i - d \in 1 .. Keep /\ d + (i - d) = i
      BY <1>1, <1>2, <2>1, <3>2
    <3>4. new[i - d].key = k
      BY <2>2, <3>1, <3>3
    <3> QED
      BY <2>2, <3>3, <3>4 DEF Keys
  <2> QED
    BY <2>5, <2>6, <2>7 DEF new
<1> QED
  BY <1>3, <1>4
(***************************************************************************)
(* The verdict.                                                            *)
(***************************************************************************)

(* Each map is in order and c's own; a checksum that waits is in the map,  *)
(* past what the peer has sent; a mismatch was of a tick both had sent.    *)
WaitInv(c) ==
  \A u \in waiting[c] : u \in Nat /\ sent[Other(c)] < u /\ u <= sent[c] /\ u \in Keys(crc[c])

VerdictInv ==
  /\ LapInv
  /\ split \in Nat
  /\ crc \in [Client -> Seq(Entry)]
  /\ waiting \in [Client -> SUBSET Nat]
  /\ \A c \in Client : Orderly(crc[c], c, sent[c]) /\ WaitInv(c)
  /\ NoFalseMismatch

LEMMA LapNext == LapInv /\ [Next]_verdictVars => LapInv'
<1> SUFFICES ASSUME LapInv, [Next]_verdictVars PROVE LapInv'
  OBVIOUS
<1>1. ASSUME NEW c \in Client, Record(c) PROVE LapInv'
  BY <1>1, LapRecord
<1>2. CASE UNCHANGED verdictVars
  BY <1>2 DEF LapInv, LapOf, verdictVars, crcVars
<1> QED
  BY <1>1, <1>2 DEF Next

LEMMA VerdictInit == Init => VerdictInv
<1> SUFFICES ASSUME Init PROVE VerdictInv
  OBVIOUS
<1>1. LapInv
  BY LapInit
<1>2. /\ crc = [c \in Client |-> <<>>] /\ waiting = [c \in Client |-> {}]
      /\ split \in D .. MaxTick + 1 /\ mismatch = FALSE
  BY DEF Init, CrcInit
<1>3. split \in Nat
  BY <1>2, LapFits
<1>4. ASSUME NEW c \in Client PROVE Orderly(crc[c], c, sent[c]) /\ WaitInv(c)
  BY <1>2 DEF Orderly, WaitInv
<1>5. NoFalseMismatch
  BY <1>2 DEF NoFalseMismatch
<1> QED
  BY <1>1, <1>2, <1>3, <1>4, <1>5 DEF VerdictInv

LEMMA VerdictRecord ==
  ASSUME VerdictInv, NEW c \in Client, Record(c)
  PROVE  VerdictInv'
<1> DEFINE o == Other(c)
<1>1. PICK t \in D .. MaxTick :
        /\ sent[c] <= t /\ t <= sent[o] + D + 1
        /\ LogCrc(c, o, t % TickMod, Checksum(c, t))
        /\ sent' = [sent EXCEPT ![c] = t]
        /\ waiting' = [k \in Client |->
             IF k = c THEN IF t > sent[o] THEN waiting[c] \cup {t} ELSE waiting[c]
             ELSE {u \in waiting[k] : u > t}]
        /\ split' = split
  BY DEF Record
<1>2. /\ LapInv /\ LapInv' /\ t \in Nat /\ D \in Nat
      /\ o \in Client /\ o # c /\ Other(o) = c /\ Client = {c, o}
  <2>1. LapInv'
    BY LapRecord DEF VerdictInv
  <2> QED
    BY <2>1, Two, HalfOfTicks DEF VerdictInv
<1>3. /\ sent[c] \in Int /\ sent[o] \in Int /\ sent'[c] = t /\ sent'[o] = sent[o]
      /\ sent[c] <= t /\ t <= sent[o] + D + 1 /\ sent[o] <= sent[c] + D + 1
  BY <1>1, <1>2 DEF LapInv
(* The key the relay gives the record is its tick.                         *)
<1> DEFINE l == IF Wrapped(lastTick[c], t % TickMod) THEN lap[c] + 1 ELSE lap[c]
           sum == Checksum(c, t)
           mine == Put(crc[c], t, sum)
<1>4. KeyOf(l, t % TickMod) = t
  <2>1. lap'[c] = l /\ lastTick'[c] = t % TickMod
    BY <1>1, <1>2 DEF LogCrc, LapInv
  <2>2. LapOf(c)'
    BY <1>2 DEF LapInv
  <2> QED
    BY <1>2, <1>3, <2>1, <2>2 DEF LapOf
<1>5. o # NoClient
  BY <1>2, Someone
<1>6. \/ /\ t \in Keys(crc[o])
         /\ crc' = [crc EXCEPT ![c] = mine, ![o] = Without(crc[o], t)]
         /\ mismatch' = (mismatch \/ Get(crc[o], t) # sum)
      \/ /\ t \notin Keys(crc[o])
         /\ crc' = [crc EXCEPT ![c] = Newest(mine)]
         /\ mismatch' = mismatch
  BY <1>1, <1>2, <1>4, <1>5 DEF LogCrc, VerdictInv
<1>7. /\ Orderly(crc[c], c, sent[c]) /\ Orderly(crc[o], o, sent[o])
      /\ WaitInv(c) /\ WaitInv(o) /\ split \in Nat /\ NoFalseMismatch
      /\ crc \in [Client -> Seq(Entry)] /\ waiting \in [Client -> SUBSET Nat]
  BY <1>2 DEF VerdictInv
<1>8. Orderly(mine, c, t) /\ Keys(mine) = Keys(crc[c]) \cup {t}
  <2>1. sent[c] \in Int /\ sent[c] <= t /\ Orderly(crc[c], c, sent[c])
    BY <1>3, <1>7
  <2> QED
    BY <1>2, <2>1, PutOrderly
<1>9. /\ waiting'[c] = (IF t > sent[o] THEN waiting[c] \cup {t} ELSE waiting[c])
      /\ waiting'[o] = {u \in waiting[o] : u > t}
      /\ waiting' \in [Client -> SUBSET Nat]
  BY <1>1, <1>2, <1>7
(* What waits at c after this record: past the peer, up to t, and kept.    *)
<1>10. ASSUME NEW u \in waiting'[c]
       PROVE  u \in Nat /\ sent[o] < u /\ u <= t /\ u \in Keys(mine)
  <2>1. CASE u \in waiting[c]
    BY <1>3, <1>7, <1>8, <2>1 DEF WaitInv
  <2>2. CASE u = t /\ t > sent[o]
    BY <1>2, <1>3, <1>8, <2>2
  <2> QED
    BY <1>9, <2>1, <2>2
<1>11. ASSUME NEW u \in waiting'[o]
       PROVE  u \in Nat /\ t < u /\ u <= sent[o] /\ u \in Keys(crc[o])
  BY <1>2, <1>7, <1>9 DEF WaitInv
<1> DEFINE Fine(k, map) == /\ map \in Seq(Entry) /\ Orderly(map, k, sent'[k])
                           /\ \A u \in waiting'[k] : u \in Keys(map)
<1>12. crc' \in [Client -> Seq(Entry)] /\ Fine(c, crc'[c]) /\ Fine(o, crc'[o])
  <2>1. CASE /\ t \in Keys(crc[o])
             /\ crc' = [crc EXCEPT ![c] = mine, ![o] = Without(crc[o], t)]
    <3>1. crc'[c] = mine /\ crc'[o] = Without(crc[o], t)
      BY <1>2, <1>7, <2>1
    <3>2. Fine(c, mine)
      BY <1>3, <1>8, <1>10 DEF Orderly
    <3>3. Fine(o, Without(crc[o], t))
      <4>1. /\ Orderly(Without(crc[o], t), o, sent[o])
            /\ Keys(Without(crc[o], t)) = Keys(crc[o]) \ {t}
        BY <1>2, <1>3, <1>7, <2>1, WithoutOrderly
      <4>2. \A u \in waiting'[o] : u \in Keys(Without(crc[o], t))
        BY <1>2, <1>11, <4>1
      <4> QED
        BY <1>3, <4>1, <4>2 DEF Orderly
    <3> QED
      BY <1>2, <1>7, <2>1, <3>1, <3>2, <3>3
  <2>2. CASE crc' = [crc EXCEPT ![c] = Newest(mine)]
    <3>1. crc'[c] = Newest(mine) /\ crc'[o] = crc[o]
      BY <1>2, <1>7, <2>2
    <3>2. Fine(c, Newest(mine))
      <4>1. /\ Orderly(Newest(mine), c, t)
            /\ \A k \in Keys(mine) : t - k < Keep => k \in Keys(Newest(mine))
        BY <1>2, <1>8, NewestOrderly
      <4>2. ASSUME NEW u \in waiting'[c] PROVE u \in Keys(Newest(mine))
        <5>1. u \in Keys(mine) /\ t - u < Keep
          BY <1>2, <1>3, <1>10, EnoughKept
        <5> QED
          BY <4>1, <5>1
      <4> QED
        BY <1>3, <4>1, <4>2 DEF Orderly
    <3>3. Fine(o, crc[o])
      BY <1>3, <1>7, <1>11 DEF Orderly
    <3> QED
      BY <1>2, <1>7, <2>2, <3>1, <3>2, <3>3
  <2> QED
    BY <1>6, <2>1, <2>2
<1>13. ASSUME NEW k \in Client PROVE Orderly(crc[k], k, sent[k])' /\ WaitInv(k)'
  <2>1. \A p \in Client, u \in Nat : Checksum(p, u)' = Checksum(p, u)
    BY <1>1 DEF Checksum
  <2>2. Orderly(crc'[k], k, sent'[k]) => Orderly(crc[k], k, sent[k])'
    <3>1. ASSUME Orderly(crc'[k], k, sent'[k]), NEW i \in 1 .. Len(crc'[k])
          PROVE  crc'[k][i].key \in Nat
      <4>1. crc'[k][i] \in Entry
        BY <3>1 DEF Orderly
      <4> QED
        BY <4>1 DEF Entry
    <3> QED
      BY <2>1, <3>1 DEF Orderly
  <2>3. CASE k = c
    BY <1>2, <1>3, <1>10, <1>12, <2>2, <2>3 DEF WaitInv
  <2>4. CASE k = o
    BY <1>2, <1>3, <1>11, <1>12, <2>2, <2>4 DEF WaitInv
  <2> QED
    BY <1>2, <2>3, <2>4
(* Two checksums of one tick differ only from the split on.                *)
<1>14. NoFalseMismatch'
  <2> SUFFICES ASSUME mismatch' PROVE \A k \in Client : sent'[k] >= split
    BY <1>1 DEF NoFalseMismatch
  <2>1. CASE mismatch
    BY <1>1, <1>2, <1>3, <1>7, <2>1 DEF NoFalseMismatch
  <2>2. CASE ~mismatch
    <3>1. t \in Keys(crc[o]) /\ Get(crc[o], t) # sum
      BY <1>6, <2>2
    <3>2. t <= sent[o] /\ Get(crc[o], t) = Checksum(o, t)
      BY <1>2, <1>3, <1>7, <3>1, GetRight
    <3>3. t >= split
      <4> SUFFICES ASSUME ~(t >= split) PROVE FALSE
        OBVIOUS
      <4>1. Checksum(o, t) = Checksum(c, t)
        BY DEF Checksum
      <4> QED
        BY <3>1, <3>2, <4>1
    <3> QED
      BY <1>2, <1>3, <1>7, <3>2, <3>3
  <2> QED
    BY <2>1, <2>2
<1> QED
  BY <1>1, <1>2, <1>7, <1>9, <1>12, <1>13, <1>14 DEF VerdictInv

LEMMA VerdictInvariant == Spec => []VerdictInv
<1>1. VerdictInv /\ [Next]_verdictVars => VerdictInv'
  <2> SUFFICES ASSUME VerdictInv, [Next]_verdictVars PROVE VerdictInv'
    OBVIOUS
  <2>1. ASSUME NEW c \in Client, Record(c) PROVE VerdictInv'
    BY <2>1, VerdictRecord
  <2>2. CASE UNCHANGED verdictVars
    <3>1. UNCHANGED <<crc, lap, lastTick, mismatch, sent, waiting, split>>
      BY <2>2 DEF verdictVars, crcVars
    <3>2. LapInv'
      BY <2>2, LapNext DEF VerdictInv
    <3>3. ASSUME NEW c \in Client PROVE Orderly(crc[c], c, sent[c])' /\ WaitInv(c)'
      <4>1. \A u \in Nat : Checksum(c, u)' = Checksum(c, u)
        BY <3>1 DEF Checksum
      <4>2. \A i \in 1 .. Len(crc[c]) : crc[c][i].key \in Nat
        <5>1. sent[c] \in Int /\ Orderly(crc[c], c, sent[c])
          BY DEF VerdictInv, LapInv
        <5> QED
          BY <5>1, OrderlyFacts
      <4> QED
        BY <3>1, <4>1, <4>2 DEF VerdictInv, Orderly, WaitInv
    <3> QED
      BY <3>1, <3>2, <3>3 DEF VerdictInv, NoFalseMismatch
  <2> QED
    BY <2>1, <2>2 DEF Next
<1> QED
  BY <1>1, VerdictInit, PTL DEF Spec

(***************************************************************************)
(* The theorems.                                                           *)
(***************************************************************************)

(* The lap the relay rebuilds from a console's stream is the true one, so  *)
(* its keys never confuse a tick with the one a lap later or earlier       *)
(* (log_crc, dragster_relay_server.py:349-355).                            *)
THEOREM LapIsExact == Spec => []LapExact
<1>1. VerdictInv => LapExact
  BY DEF VerdictInv, LapInv, LapOf, LapExact
<1> QED
  BY <1>1, VerdictInvariant, PTL

(* The relay never reports a mismatch of simulations that agree: the two   *)
(* checksums it compares are of one tick (dragster_relay_server.py:369-374).*)
THEOREM MismatchIsTrue == Spec => []NoFalseMismatch
<1>1. VerdictInv => NoFalseMismatch
  BY DEF VerdictInv
<1> QED
  BY <1>1, VerdictInvariant, PTL

(* Keeping D+1 is enough, and eight are kept: what is evicted by age is    *)
(* never a checksum the peer may still answer                              *)
(* (dragster_relay_server.py:361-368).                                     *)
THEOREM KeptIsEnough == Spec => []KeptUntilAnswered
<1>1. VerdictInv => KeptUntilAnswered
  BY DEF VerdictInv, WaitInv, KeptUntilAnswered
<1> QED
  BY <1>1, VerdictInvariant, PTL
=============================================================================
