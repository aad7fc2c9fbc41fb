---------------------------- MODULE BankSplitProofs ----------------------------
(***************************************************************************)
(* What a build that passes says of the image, and that a right table      *)
(* passes: for any cartridge, map of regions and table of patches, where   *)
(* BankSplit's run tries a few hundred tables.                             *)
(***************************************************************************)
EXTENDS BankSplit, Induction, SequenceTheorems

-----------------------------------------------------------------------------
(* Lines in the order of their addresses.                                  *)
Line == [at : Nat, bytes : Seq(Nat)]
Ordered(lines) ==
  /\ lines \in Seq(Line)
  /\ \A j, k \in DOMAIN lines : j < k => lines[j].at < lines[k].at
Has(lines, l) == \E j \in DOMAIN lines : lines[j] = l

LEMMA LineFacts ==
  ASSUME NEW lines, Ordered(lines)
  PROVE  /\ Len(lines) \in Nat /\ DOMAIN lines = 1 .. Len(lines)
         /\ \A j \in DOMAIN lines : /\ j \in Nat /\ lines[j] \in Line /\ lines[j].at \in Nat
                                    /\ lines[j].bytes \in Seq(Nat) /\ Len(lines[j].bytes) \in Nat
         /\ \A j, k \in DOMAIN lines :
              /\ lines[j].at < lines[k].at => j < k
              /\ lines[j].at = lines[k].at => j = k
<1>1. Len(lines) \in Nat /\ DOMAIN lines = 1 .. Len(lines)
  BY LenProperties DEF Ordered
<1>2. ASSUME NEW j \in DOMAIN lines
      PROVE  /\ j \in Nat /\ lines[j] \in Line /\ lines[j].at \in Nat
             /\ lines[j].bytes \in Seq(Nat) /\ Len(lines[j].bytes) \in Nat
  <2>1. lines[j] \in Line /\ j \in Nat
    BY <1>1, ElementOfSeq DEF Ordered
  <2>2. lines[j].at \in Nat /\ lines[j].bytes \in Seq(Nat)
    BY <2>1 DEF Line
  <2>. QED  BY <2>1, <2>2, LenProperties
<1>3. ASSUME NEW j \in DOMAIN lines, NEW k \in DOMAIN lines
      PROVE  /\ lines[j].at < lines[k].at => j < k
             /\ lines[j].at = lines[k].at => j = k
  <2>1. j \in Nat /\ k \in Nat /\ lines[j].at \in Nat /\ lines[k].at \in Nat
    BY <1>2
  <2>2. /\ j < k => lines[j].at < lines[k].at
        /\ k < j => lines[k].at < lines[j].at
    BY DEF Ordered
  <2>. QED  BY <2>1, <2>2
<1>. QED  BY <1>1, <1>2, <1>3

LEMMA FirstLast ==
  ASSUME NEW N \in Nat, NEW J \in SUBSET (1 .. N), J # {}
  PROVE  /\ First(J) \in J /\ \A k \in J : First(J) <= k
         /\ Last(J) \in J /\ \A k \in J : k <= Last(J)
<1>1. \E j \in J : \A k \in J : j <= k
  BY LeastNatural
<1>2. \E j \in J : \A k \in J : k <= j
  <2>1. PICK T : T = {N - j : j \in J}
    OBVIOUS
  <2>0. T \in SUBSET Nat /\ T # {}
    <3>1. \A j \in J : N - j \in Nat
      OBVIOUS
    <3>2. PICK j \in J : TRUE
      OBVIOUS
    <3>3. N - j \in T
      BY <2>1
    <3>. QED  BY <2>1, <3>1, <3>3
  <2>2. PICK m \in T : \A t \in T : m <= t
    BY <2>0, LeastNatural
  <2>3. PICK j \in J : m = N - j
    BY <2>1, <2>2
  <2>4. ASSUME NEW k \in J PROVE k <= j
    <3>1. N - k \in T
      BY <2>1
    <3>2. m <= N - k /\ k \in Nat /\ j \in Nat
      BY <2>2, <3>1
    <3>. QED  BY <2>3, <3>2
  <2>. QED  BY <2>4
<1>. QED  BY <1>1, <1>2 DEF First, Last

(* The lines of an interval follow each other.                             *)
LEMMA Stretch ==
  ASSUME NEW lines, Ordered(lines), NEW lo \in Int, NEW hi \in Int,
         At(lines, lo .. hi) # {}
  PROVE  LET f == First(At(lines, lo .. hi))
             t == Last(At(lines, lo .. hi))
         IN  /\ f \in DOMAIN lines /\ t \in DOMAIN lines /\ f \in Nat /\ t \in Nat /\ f <= t
             /\ \A j \in DOMAIN lines : /\ j \in f .. t <=> lines[j].at \in lo .. hi
                                        /\ j < f <=> lines[j].at < lo
                                        /\ t < j <=> hi < lines[j].at
<1>. DEFINE J == At(lines, lo .. hi)
<1>1. DOMAIN lines = 1 .. Len(lines) /\ Len(lines) \in Nat
  BY LineFacts
<1>2. J \in SUBSET (1 .. Len(lines)) /\ J # {}
  BY <1>1 DEF At
<1>3. PICK f, t : f = First(J) /\ t = Last(J)
  OBVIOUS
<1>4. f \in J /\ (\A k \in J : f <= k) /\ t \in J /\ \A k \in J : k <= t
  BY <1>1, <1>2, <1>3, FirstLast
<1>5. f \in DOMAIN lines /\ t \in DOMAIN lines /\ f \in Nat /\ t \in Nat /\ f <= t
  BY <1>1, <1>2, <1>4
<1>6. lines[f].at \in lo .. hi /\ lines[t].at \in lo .. hi
  BY <1>4 DEF At
<1>7. ASSUME NEW j \in DOMAIN lines
      PROVE  /\ j \in f .. t <=> lines[j].at \in lo .. hi
             /\ j < f <=> lines[j].at < lo
             /\ t < j <=> hi < lines[j].at
  <2>1. j \in Nat /\ lines[j].at \in Nat /\ lines[f].at \in Nat /\ lines[t].at \in Nat
    BY <1>5, LineFacts
  <2>2. /\ j < f => lines[j].at < lines[f].at
        /\ f < j => lines[f].at < lines[j].at
        /\ j < t => lines[j].at < lines[t].at
        /\ t < j => lines[t].at < lines[j].at
    BY <1>5 DEF Ordered
  <2>3. lines[j].at \in lo .. hi => j \in J
    BY DEF At
  <2>4. lines[j].at \in lo .. hi => f <= j /\ j <= t
    BY <1>4, <2>3
  <2>5. j = f => lines[j].at = lines[f].at
    OBVIOUS
  <2>6. j = t => lines[j].at = lines[t].at
    OBVIOUS
  <2>. QED  BY <1>5, <1>6, <2>1, <2>2, <2>4, <2>5, <2>6
<1>. QED  BY <1>3, <1>5, <1>7

LEMMA WithinLines ==
  ASSUME NEW lines, Ordered(lines), NEW lo \in Int, NEW hi \in Int
  PROVE  /\ Ordered(Within(lines, lo .. hi))
         /\ \A l : Has(Within(lines, lo .. hi), l) <=> Has(lines, l) /\ l.at \in lo .. hi
<1>. DEFINE W == Within(lines, lo .. hi)
<1>1. CASE At(lines, lo .. hi) = {}
  <2>1. W = <<>>
    BY <1>1 DEF Within
  <2>2. W \in Seq(Line) /\ DOMAIN W = {}
    <3>1. <<>> \in Seq(Line) /\ Len(<<>>) = 0
      BY EmptySeq
    <3>2. DOMAIN <<>> = 1 .. 0
      BY <3>1, LenProperties
    <3>3. \A w : w = <<>> => w \in Seq(Line) /\ DOMAIN w = {}
      BY <3>1, <3>2
    <3>. QED  BY <2>1, <3>3
  <2>3. ASSUME NEW l PROVE ~(Has(lines, l) /\ l.at \in lo .. hi)
    BY <1>1 DEF Has, At
  <2>4. ASSUME NEW l PROVE ~Has(W, l)
    BY <2>2 DEF Has
  <2>5. Ordered(W)
    BY <2>2 DEF Ordered
  <2>. QED  BY <2>3, <2>4, <2>5
<1>2. CASE At(lines, lo .. hi) # {}
  <2>1. PICK f, t : f = First(At(lines, lo .. hi)) /\ t = Last(At(lines, lo .. hi))
    OBVIOUS
  <2>2. /\ f \in DOMAIN lines /\ t \in DOMAIN lines /\ f \in Nat /\ t \in Nat /\ f <= t
        /\ \A j \in DOMAIN lines : j \in f .. t <=> lines[j].at \in lo .. hi
    BY <1>2, <2>1, Stretch
  <2>3. W = SubSeq(lines, f, t)
    BY <1>2, <2>1 DEF Within
  <2>4. DOMAIN lines = 1 .. Len(lines) /\ Len(lines) \in Nat
    BY LineFacts
  <2>5. \A j \in f .. t : j \in DOMAIN lines /\ lines[j] \in Line
    BY <2>2, <2>4, LineFacts
  <2>6. /\ W \in Seq(Line) /\ Len(W) = t - f + 1
        /\ \A k \in 1 .. t - f + 1 : W[k] = lines[f + k - 1]
    <3>1. f \in Int /\ t \in Int
      BY <2>2
    <3>2. SubSeq(lines, f, t) \in Seq(Line)
      BY ONLY <3>1, <2>5, SubSeqProperties
    <3>3. Len(SubSeq(lines, f, t)) = IF f <= t THEN t - f + 1 ELSE 0
      BY ONLY <3>1, <2>5, SubSeqProperties
    <3>4. \A k \in 1 .. t - f + 1 : SubSeq(lines, f, t)[k] = lines[f + k - 1]
      BY ONLY <3>1, <2>5, SubSeqProperties
    <3>. QED  BY <2>2, <2>3, <3>2, <3>3, <3>4
  <2>7. DOMAIN W = 1 .. t - f + 1
    BY <2>6, LenProperties
  <2>8. \A k \in DOMAIN W : f + k - 1 \in f .. t
    BY <2>2, <2>7
  <2>9. Ordered(W)
    <3>1. ASSUME NEW j \in DOMAIN W, NEW k \in DOMAIN W, j < k PROVE W[j].at < W[k].at
      <4>1. f + j - 1 \in DOMAIN lines /\ f + k - 1 \in DOMAIN lines
        BY <2>5, <2>8
      <4>2. f + j - 1 < f + k - 1
        BY <2>2, <2>7, <3>1
      <4>3. lines[f + j - 1].at < lines[f + k - 1].at
        BY <4>1, <4>2 DEF Ordered
      <4>4. W[j] = lines[f + j - 1] /\ W[k] = lines[f + k - 1]
        BY <2>6, <2>7
      <4>. QED  BY <4>3, <4>4
    <3>. QED  BY <2>6, <3>1 DEF Ordered
  <2>10. ASSUME NEW l, Has(W, l) PROVE Has(lines, l) /\ l.at \in lo .. hi
    <3>1. PICK k \in DOMAIN W : W[k] = l
      BY <2>10 DEF Has
    <3>2. l = lines[f + k - 1] /\ f + k - 1 \in f .. t
      BY <2>6, <2>7, <2>8, <3>1
    <3>. QED  BY <2>2, <2>5, <3>2 DEF Has
  <2>11. ASSUME NEW l, Has(lines, l), l.at \in lo .. hi PROVE Has(W, l)
    <3>1. PICK j \in DOMAIN lines : lines[j] = l
      BY <2>11 DEF Has
    <3>2. j \in f .. t
      BY <2>2, <2>11, <3>1
    <3>3. j - f + 1 \in 1 .. t - f + 1 /\ f + (j - f + 1) - 1 = j
      BY <2>2, <3>2
    <3>4. W[j - f + 1] = l
      BY <2>6, <3>1, <3>3
    <3>. QED  BY <2>7, <3>3, <3>4 DEF Has
  <2>. QED  BY <2>9, <2>10, <2>11
<1>. QED  BY <1>1, <1>2

(* What replaces a stretch goes where it was.                              *)
LEMMA ReplacedLines ==
  ASSUME NEW lines, Ordered(lines), NEW p, p.addr \in Nat, p.span \in Nat \ {0},
         p.new \in Seq(Nat), Covered(lines, p) # {}
  PROVE  /\ Ordered(Replaced(lines, p))
         /\ \A l : Has(Replaced(lines, p), l)
                  <=> l = Text(p) \/ (Has(lines, l) /\ l.at \notin Span(p))
<1>. DEFINE R == Replaced(lines, p)
            f == First(Covered(lines, p))
            t == Last(Covered(lines, p))
            N == Len(lines)
<1>1. DOMAIN lines = 1 .. N /\ N \in Nat /\ \A j \in DOMAIN lines : lines[j] \in Line
  BY LineFacts
<1>2. /\ f \in DOMAIN lines /\ t \in DOMAIN lines /\ f \in Nat /\ t \in Nat /\ f <= t
      /\ \A j \in DOMAIN lines : /\ j \in f .. t <=> lines[j].at \in Span(p)
                                 /\ j < f <=> lines[j].at < p.addr
                                 /\ t < j <=> p.addr + p.span - 1 < lines[j].at
  <2>1. p.addr \in Int /\ p.addr + p.span - 1 \in Int
    OBVIOUS
  <2>. QED  BY <2>1, Stretch DEF Covered, Span
<1>3. Text(p) \in Line /\ Text(p).at = p.addr
  BY DEF Text, Line
<1>. HIDE DEF f, t, N
<1>4. PICK a, b, c : /\ a = SubSeq(lines, 1, f - 1) /\ b = <<Text(p)>>
                     /\ c = SubSeq(lines, t + 1, N)
  OBVIOUS
<1>5. R = a \o b \o c
  BY <1>4 DEF Replaced, f, t, N
<1>6. /\ f \in 1 .. N /\ t \in 1 .. N /\ f - 1 \in Nat /\ t + 1 \in Nat
  BY <1>1, <1>2
<1>7. a \in Seq(Line) /\ Len(a) = f - 1 /\ \A k \in 1 .. f - 1 : a[k] = lines[k]
  <2>1. \A k \in 1 .. f - 1 : lines[k] \in Line
    BY <1>1, <1>6
  <2>2. 1 \in Int /\ f - 1 \in Int
    BY <1>6
  <2>3. /\ a \in Seq(Line) /\ Len(a) = IF 1 <= f - 1 THEN f - 1 - 1 + 1 ELSE 0
        /\ \A k \in 1 .. f - 1 - 1 + 1 : a[k] = lines[1 + k - 1]
    BY <1>4, <2>1, <2>2, SubSeqProperties
  <2>4. \A k \in 1 .. f - 1 : k \in 1 .. f - 1 - 1 + 1 /\ 1 + k - 1 = k
    BY <1>6
  <2>. QED  BY <1>6, <2>3, <2>4
<1>8. b \in Seq(Line) /\ Len(b) = 1 /\ b[1] = Text(p)
  BY <1>3, <1>4
<1>9. c \in Seq(Line) /\ Len(c) = N - t /\ \A k \in 1 .. N - t : c[k] = lines[t + k]
  <2>1. \A k \in t + 1 .. N : lines[k] \in Line
    BY <1>1, <1>6
  <2>2. t + 1 \in Int /\ N \in Int
    BY <1>1, <1>6
  <2>3. /\ c \in Seq(Line) /\ Len(c) = IF t + 1 <= N THEN N - (t + 1) + 1 ELSE 0
        /\ \A k \in 1 .. N - (t + 1) + 1 : c[k] = lines[(t + 1) + k - 1]
    BY <1>4, <2>1, <2>2, SubSeqProperties
  <2>4. \A k \in 1 .. N - t : k \in 1 .. N - (t + 1) + 1 /\ (t + 1) + k - 1 = t + k
    BY <1>1, <1>6
  <2>5. (IF t + 1 <= N THEN N - (t + 1) + 1 ELSE 0) = N - t
    BY <1>1, <1>6
  <2>. QED  BY <2>3, <2>4, <2>5
<1>10. /\ a \o b \in Seq(Line) /\ Len(a \o b) = f
       /\ \A k \in 1 .. f : (a \o b)[k] = IF k < f THEN lines[k] ELSE Text(p)
  <2>1. /\ a \o b \in Seq(Line) /\ Len(a \o b) = Len(a) + Len(b)
        /\ \A k \in 1 .. Len(a) + Len(b) : (a \o b)[k] = IF k <= Len(a) THEN a[k] ELSE b[k - Len(a)]
    BY <1>7, <1>8, ConcatProperties
  <2>2. ASSUME NEW k \in 1 .. f PROVE (a \o b)[k] = IF k < f THEN lines[k] ELSE Text(p)
    <3>1. k \in 1 .. Len(a) + Len(b) /\ (k <= Len(a) <=> k < f) /\ (~(k < f) => k - Len(a) = 1)
      BY <1>6, <1>7, <1>8
    <3>2. k < f => k \in 1 .. f - 1
      BY <1>6
    <3>. QED  BY <1>7, <1>8, <2>1, <3>1, <3>2
  <2>. QED  BY <1>6, <1>7, <1>8, <2>1, <2>2
<1>11. /\ R \in Seq(Line) /\ Len(R) = f + (N - t)
       /\ \A k \in 1 .. f + (N - t) :
            R[k] = IF k < f THEN lines[k] ELSE IF k = f THEN Text(p) ELSE lines[t + (k - f)]
  <2>1. /\ R \in Seq(Line) /\ Len(R) = Len(a \o b) + Len(c)
        /\ \A k \in 1 .. Len(a \o b) + Len(c) :
             R[k] = IF k <= Len(a \o b) THEN (a \o b)[k] ELSE c[k - Len(a \o b)]
    <3>1. PICK ab \in Seq(Line) : ab = a \o b
      BY <1>10
    <3>2. R = ab \o c
      BY <1>5, <3>1
    <3>3. /\ ab \o c \in Seq(Line) /\ Len(ab \o c) = Len(ab) + Len(c)
          /\ \A k \in 1 .. Len(ab) + Len(c) : (ab \o c)[k] = IF k <= Len(ab) THEN ab[k] ELSE c[k - Len(ab)]
      BY <1>9, ConcatProperties
    <3>. HIDE DEF R
    <3>. QED  BY <3>1, <3>2, <3>3
  <2>2. ASSUME NEW k \in 1 .. f + (N - t)
        PROVE R[k] = IF k < f THEN lines[k] ELSE IF k = f THEN Text(p) ELSE lines[t + (k - f)]
    <3>1. R[k] = IF k <= f THEN (a \o b)[k] ELSE c[k - f]
      BY <1>9, <1>10, <2>1
    <3>2. /\ k <= f => k \in 1 .. f
          /\ ~(k <= f) => k - f \in 1 .. N - t
          /\ k \in Int
      BY <1>1, <1>6
    <3>3. k <= f => R[k] = IF k < f THEN lines[k] ELSE Text(p)
      BY <1>10, <3>1, <3>2
    <3>4. ~(k <= f) => R[k] = lines[t + (k - f)]
      BY <1>9, <3>1, <3>2
    <3>. QED  BY <1>6, <3>2, <3>3, <3>4
  <2>. QED  BY <1>9, <1>10, <2>1, <2>2
<1>. HIDE DEF R
<1>12. DOMAIN R = 1 .. f + (N - t)
  BY <1>11, LenProperties
<1>13. ASSUME NEW k \in DOMAIN R
       PROVE  /\ k \in Nat
              /\ \/ k < f /\ k \in DOMAIN lines /\ R[k] = lines[k] /\ R[k].at < p.addr
                 \/ k = f /\ R[k] = Text(p) /\ R[k].at = p.addr
                 \/ /\ f < k /\ t + (k - f) \in DOMAIN lines /\ R[k] = lines[t + (k - f)]
                    /\ p.addr + p.span - 1 < R[k].at
  <2>1. k \in 1 .. f + (N - t) /\ k \in Nat
    BY <1>1, <1>6, <1>12
  <2>2. CASE k < f
    <3>1. k \in DOMAIN lines /\ R[k] = lines[k]
      BY <1>1, <1>6, <1>11, <2>1, <2>2
    <3>. QED  BY <1>2, <2>1, <2>2, <3>1
  <2>3. CASE k = f
    BY <1>3, <1>6, <1>11, <2>1, <2>3
  <2>4. CASE f < k
    <3>1. t + (k - f) \in DOMAIN lines /\ t < t + (k - f)
      BY <1>1, <1>6, <2>1, <2>4
    <3>2. R[k] = lines[t + (k - f)]
      BY <1>6, <1>11, <2>1, <2>4
    <3>. QED  BY <1>2, <2>1, <2>4, <3>1, <3>2
  <2>. QED  BY <1>6, <2>1, <2>2, <2>3, <2>4
<1>14. ASSUME NEW j \in DOMAIN R, NEW k \in DOMAIN R, j < k PROVE R[j].at < R[k].at
  <2>1. R[j].at \in Nat /\ R[k].at \in Nat
    <3>1. R[j] \in Line /\ R[k] \in Line
      BY <1>11, <1>12, ElementOfSeq
    <3>. QED  BY <3>1 DEF Line
  <2>2. CASE k < f
    <3>1. /\ j \in DOMAIN lines /\ R[j] = lines[j] /\ k \in DOMAIN lines /\ R[k] = lines[k]
      BY <1>13, <1>6, <1>14, <2>2
    <3>. QED  BY <1>14, <3>1 DEF Ordered
  <2>3. CASE f < j
    <3>1. /\ t + (j - f) \in DOMAIN lines /\ R[j] = lines[t + (j - f)]
          /\ t + (k - f) \in DOMAIN lines /\ R[k] = lines[t + (k - f)]
      BY SMTT(40), <1>13, <1>6, <1>14, <2>3
    <3>2. t + (j - f) < t + (k - f)
      BY <1>13, <1>6, <1>14
    <3>. QED  BY <3>1, <3>2 DEF Ordered
  <2>4. CASE j <= f /\ f <= k
    <3>1. j \in Nat /\ k \in Nat /\ f \in Nat
      BY <1>2, <1>13
    <3>2. j < f => R[j].at < p.addr
      BY <1>13, <3>1
    <3>3. j = f => R[j].at = p.addr
      BY <1>13, <3>1
    <3>4. f < k => p.addr + p.span - 1 < R[k].at
      BY <1>13, <3>1
    <3>5. k = f => R[k].at = p.addr
      BY <1>13, <3>1
    <3>6. (j < f \/ j = f) /\ (f < k \/ k = f) /\ ~(j = f /\ k = f)
      BY <1>14, <2>4, <3>1
    <3>7. p.addr <= p.addr + p.span - 1
      OBVIOUS
    <3>. QED  BY <2>1, <3>2, <3>3, <3>4, <3>5, <3>6, <3>7
  <2>. QED  BY <1>6, <1>13, <2>2, <2>3, <2>4
<1>15. Ordered(R)
  BY <1>11, <1>14 DEF Ordered
<1>16. ASSUME NEW l, Has(R, l)
       PROVE  l = Text(p) \/ (Has(lines, l) /\ l.at \notin Span(p))
  <2>1. PICK k \in DOMAIN R : R[k] = l
    BY <1>16 DEF Has
  <2>2. l.at < p.addr => l.at \notin Span(p)
    <3>1. k \in 1 .. f + (N - t) /\ R[k] \in Line
      BY <1>11, <1>12, ElementOfSeq
    <3>. QED  BY <2>1, <3>1 DEF Span, Line
  <2>3. p.addr + p.span - 1 < l.at => l.at \notin Span(p)
    <3>1. k \in 1 .. f + (N - t) /\ R[k] \in Line
      BY <1>11, <1>12, ElementOfSeq
    <3>. QED  BY <2>1, <3>1 DEF Span, Line
  <2>. QED  BY <1>13, <2>1, <2>2, <2>3 DEF Has
<1>17. Has(R, Text(p))
  <2>1. f \in DOMAIN R
    BY <1>1, <1>6, <1>12
  <2>2. R[f] = Text(p)
    BY <1>6, <1>13, <2>1
  <2>. QED  BY <2>1, <2>2 DEF Has
<1>18. ASSUME NEW l, Has(lines, l), l.at \notin Span(p) PROVE Has(R, l)
  <2>1. PICK j \in DOMAIN lines : lines[j] = l
    BY <1>18 DEF Has
  <2>2. j \in 1 .. N /\ j \notin f .. t
    BY <1>1, <1>2, <1>18, <2>1
  <2>3. CASE j < f
    <3>1. j \in DOMAIN R
      BY <1>1, <1>6, <1>12, <2>2, <2>3
    <3>2. R[j] = lines[j]
      BY <1>6, <1>13, <2>3, <3>1
    <3>. QED  BY <2>1, <3>1, <3>2 DEF Has
  <2>4. CASE t < j
    <3>1. f + (j - t) \in DOMAIN R /\ f < f + (j - t) /\ t + ((f + (j - t)) - f) = j
      BY <1>1, <1>6, <1>12, <2>2, <2>4
    <3>2. R[f + (j - t)] = lines[j]
      BY <1>6, <1>13, <3>1
    <3>. QED  BY <2>1, <3>1, <3>2 DEF Has
  <2>. QED  BY <1>1, <1>6, <2>2, <2>3, <2>4
<1>19. Ordered(Replaced(lines, p))
  BY <1>15 DEF R
<1>20. \A l : Has(Replaced(lines, p), l) <=> l = Text(p) \/ (Has(lines, l) /\ l.at \notin Span(p))
  BY <1>16, <1>17, <1>18 DEF R
<1>. QED  BY <1>19, <1>20

(* What is listed in order is listed in one way.                           *)
LEMMA SameOrder ==
  ASSUME NEW s, Ordered(s), NEW u, Ordered(u),
         \A j \in DOMAIN s : \E k \in DOMAIN u : s[j].at = u[k].at,
         \A k \in DOMAIN u : \E j \in DOMAIN s : s[j].at = u[k].at
  PROVE  [j \in DOMAIN s |-> s[j].at] = [k \in DOMAIN u |-> u[k].at]
<1>1. /\ Len(s) \in Nat /\ DOMAIN s = 1 .. Len(s) /\ Len(u) \in Nat /\ DOMAIN u = 1 .. Len(u)
      /\ \A j \in DOMAIN s : j \in Nat /\ s[j].at \in Nat
      /\ \A j \in DOMAIN u : j \in Nat /\ u[j].at \in Nat
  BY LineFacts
<1>. DEFINE Same(n) == (n \in DOMAIN s <=> n \in DOMAIN u) /\ (n \in DOMAIN s => s[n].at = u[n].at)
<1>2. PICK M \in Nat : Len(s) <= M /\ Len(u) <= M
  BY <1>1
<1>3. PICK P : P = {n \in 0 .. M : \A i \in 1 .. n : Same(i)}
  OBVIOUS
<1>4. 0 \in P
  BY <1>3
<1>5. ASSUME NEW n \in 0 .. M - 1, n \in P PROVE n + 1 \in P
  <2>1. \A i \in 1 .. n : Same(i)
    BY <1>3, <1>5
  <2>2. ASSUME n + 1 \in DOMAIN s
        PROVE  n + 1 \in DOMAIN u /\ u[n + 1].at <= s[n + 1].at
    <3>1. PICK k \in DOMAIN u : s[n + 1].at = u[k].at
      BY <2>2
    <3>2. ~(k <= n)
      <4>1. SUFFICES ASSUME k <= n PROVE FALSE
        OBVIOUS
      <4>2. k \in 1 .. n
        BY <1>1, <4>1
      <4>3. k \in DOMAIN s /\ s[k].at = u[k].at
        BY <2>1, <4>2
      <4>4. k < n + 1
        BY <4>2
      <4>5. s[k].at < s[n + 1].at
        BY <2>2, <4>3, <4>4 DEF Ordered
      <4>6. s[n + 1].at \in Nat
        BY <1>1, <2>2
      <4>. QED  BY <3>1, <4>3, <4>5, <4>6
    <3>3. n + 1 <= k /\ n + 1 \in DOMAIN u
      BY <1>1, <3>2
    <3>4. n + 1 < k => u[n + 1].at < u[k].at
      BY <3>3 DEF Ordered
    <3>5. n + 1 = k => u[n + 1].at = u[k].at
      OBVIOUS
    <3>6. k \in Nat /\ u[n + 1].at \in Nat /\ u[k].at \in Nat
      BY <1>1, <3>3
    <3>. QED  BY <3>1, <3>3, <3>4, <3>5, <3>6
  <2>3. ASSUME n + 1 \in DOMAIN u
        PROVE  n + 1 \in DOMAIN s /\ s[n + 1].at <= u[n + 1].at
    <3>1. PICK k \in DOMAIN s : s[k].at = u[n + 1].at
      BY <2>3
    <3>2. ~(k <= n)
      <4>1. SUFFICES ASSUME k <= n PROVE FALSE
        OBVIOUS
      <4>2. k \in 1 .. n
        BY <1>1, <4>1
      <4>3. k \in DOMAIN u /\ s[k].at = u[k].at
        BY <2>1, <4>2
      <4>4. k < n + 1
        BY <4>2
      <4>5. u[k].at < u[n + 1].at
        BY <2>3, <4>3, <4>4 DEF Ordered
      <4>6. u[n + 1].at \in Nat
        BY <1>1, <2>3
      <4>. QED  BY <3>1, <4>3, <4>5, <4>6
    <3>3. n + 1 <= k /\ n + 1 \in DOMAIN s
      BY <1>1, <3>2
    <3>4. n + 1 < k => s[n + 1].at < s[k].at
      BY <3>3 DEF Ordered
    <3>5. n + 1 = k => s[n + 1].at = s[k].at
      OBVIOUS
    <3>6. k \in Nat /\ s[n + 1].at \in Nat /\ s[k].at \in Nat
      BY <1>1, <3>3
    <3>. QED  BY <3>1, <3>3, <3>4, <3>5, <3>6
  <2>4. Same(n + 1)
    <3>1. ASSUME n + 1 \in DOMAIN s PROVE s[n + 1].at = u[n + 1].at
      <4>1. n + 1 \in DOMAIN u /\ u[n + 1].at <= s[n + 1].at
        BY <2>2, <3>1
      <4>2. s[n + 1].at <= u[n + 1].at
        BY <2>3, <4>1
      <4>3. s[n + 1].at \in Nat /\ u[n + 1].at \in Nat
        BY <1>1, <3>1, <4>1
      <4>. QED  BY <4>1, <4>2, <4>3
    <3>. QED  BY <2>2, <2>3, <3>1
  <2>5. \A i \in 1 .. n + 1 : i \in 1 .. n \/ i = n + 1
    OBVIOUS
  <2>. QED  BY <1>3, <2>1, <2>4, <2>5
<1>6. M \in P
  <2>1. 0 .. M \subseteq P
    BY <1>4, <1>5, UpTo
  <2>. QED  BY <2>1
<1>7. \A i \in 1 .. M : Same(i)
  BY <1>3, <1>6
<1>8. DOMAIN s \subseteq 1 .. M /\ DOMAIN u \subseteq 1 .. M
  BY <1>1, <1>2
<1>9. DOMAIN s = DOMAIN u
  BY <1>7, <1>8
<1>. QED  BY <1>7, <1>8, <1>9

-----------------------------------------------------------------------------
(* The cartridge: its lines fill its regions.                              *)
LEMMA RegionFacts ==
  /\ \A i \in DOMAIN REGIONS : /\ i \in Nat /\ REGIONS[i].lo \in Nat /\ REGIONS[i].hi \in Nat
                               /\ REGIONS[i].lo <= REGIONS[i].hi
  /\ \A i, r \in DOMAIN REGIONS : \A a : a \in Region(i) /\ a \in Region(r) => i = r
<1>1. ASSUME NEW i \in DOMAIN REGIONS
      PROVE  /\ i \in Nat /\ REGIONS[i].lo \in Nat /\ REGIONS[i].hi \in Nat
             /\ REGIONS[i].lo <= REGIONS[i].hi
  <2>1. i \in 1 .. Len(REGIONS) /\ Len(REGIONS) \in Nat
    BY Mapped, LenProperties DEF Mapped
  <2>2. REGIONS[i] \in [lo : Nat, hi : Nat, banks : SUBSET STRING]
    BY <2>1, Mapped, ElementOfSeq DEF Mapped
  <2>. QED  BY <2>1, <2>2, Mapped DEF Mapped
<1>2. ASSUME NEW i \in DOMAIN REGIONS, NEW r \in DOMAIN REGIONS, NEW a, a \in Region(i), a \in Region(r)
      PROVE  i = r
  <2>1. /\ i < r => REGIONS[i].hi <= REGIONS[r].lo
        /\ r < i => REGIONS[r].hi <= REGIONS[i].lo
    BY Mapped DEF Mapped
  <2>2. /\ a \in REGIONS[i].lo .. REGIONS[i].hi - 1
        /\ a \in REGIONS[r].lo .. REGIONS[r].hi - 1
    BY <1>2 DEF Region
  <2>3. /\ i \in Nat /\ REGIONS[i].lo \in Nat /\ REGIONS[i].hi \in Nat
        /\ r \in Nat /\ REGIONS[r].lo \in Nat /\ REGIONS[r].hi \in Nat
    BY <1>1
  <2>. QED  BY <2>1, <2>2, <2>3
<1>. QED  BY <1>1, <1>2

LEMMA SourceLines ==
  /\ Ordered(Source)
  /\ \A j \in DOMAIN Source : /\ Source[j].at \in Nat /\ Len(Source[j].bytes) \in Nat \ {0}
                              /\ Source[j].at \in Place(Source[j])
<1>1. Source \in Seq([at : Nat, bytes : Seq(Nat) \ {<<>>}]) /\ Len(Source) \in Nat
  BY Listed, LenProperties DEF Listed
<1>2. ASSUME NEW j \in DOMAIN Source
      PROVE  /\ Source[j].at \in Nat /\ Source[j].bytes \in Seq(Nat)
             /\ Len(Source[j].bytes) \in Nat \ {0} /\ Source[j] \in Line
  <2>1. j \in 1 .. Len(Source)
    BY <1>1, LenProperties
  <2>2. Source[j] \in [at : Nat, bytes : Seq(Nat) \ {<<>>}]
    BY <1>1, <2>1, ElementOfSeq
  <2>3. Source[j].bytes \in Seq(Nat) /\ Source[j].bytes # <<>> /\ Source[j].at \in Nat /\ Source[j] \in Line
    BY <2>2 DEF Line
  <2>. QED  BY <2>3, EmptySeq
<1>3. Source \in Seq(Line)
  <2>1. [at : Nat, bytes : Seq(Nat) \ {<<>>}] \subseteq Line
    BY DEF Line
  <2>. QED  BY <1>1, <2>1, SeqMonotonic
<1>4. ASSUME NEW j \in DOMAIN Source, NEW k \in DOMAIN Source, j < k
      PROVE  Source[j].at < Source[k].at
  <2>1. Source[j].at + Len(Source[j].bytes) <= Source[k].at
    BY <1>4, Listed DEF Listed
  <2>. QED  BY <1>2, <2>1
<1>. QED  BY <1>2, <1>3, <1>4 DEF Ordered, Place

-----------------------------------------------------------------------------
(* The inductive invariant.  A bucket holds the lines of its region that   *)
(* no applied patch covers, and the texts of those patches, in order; and  *)
(* a step that let the build go on did what it says.                       *)
Applied(i) == {n \in 1 .. next - 1 : patches[n].addr \in Region(i)}
Kept(i, l, ps, A) ==
  /\ Has(Source, l) /\ l.at \in Region(i)
  /\ \A n \in A : l.at \notin Span(ps[n])

Holds(lines, i, ps, A) ==
  /\ Ordered(lines)
  /\ \A j \in DOMAIN lines : Kept(i, lines[j], ps, A) \/ \E n \in A : lines[j] = Text(ps[n])
  /\ \A j \in DOMAIN Source : Kept(i, Source[j], ps, A) => Has(lines, Source[j])
  /\ \A n \in A : Fits(i, ps[n]) /\ Has(lines, Text(ps[n]))

Filed ==
  \A i \in DOMAIN buckets :
    SelfTested /\ i \in DOMAIN REGIONS /\ Holds(buckets[i], i, patches, Applied(i))

Steps ==
  /\ \E t \in Tables : patches = t.patches
  /\ phase \in {"selftest", "apply", "audit", "accepted", "rejected"}
  /\ next \in 1 .. Len(patches) + 1
  /\ phase = "selftest" => next = 1 /\ buckets = <<>>
  /\ phase \in {"apply", "audit", "accepted"} => SelfTested /\ DOMAIN buckets = DOMAIN REGIONS
  /\ phase \in {"audit", "accepted"} =>
       /\ next = Len(patches) + 1
       /\ \A i \in DOMAIN REGIONS : REGIONS[i].banks # {} => ~Overrun(i)
       /\ built = [b \in Bank |-> [a \in Owned(b) |-> Byte(a)]]
  /\ phase = "accepted" => Audited

SplitInv == Steps /\ Filed

LEMMA PatchFacts ==
  ASSUME \E t \in Tables : patches = t.patches
  PROVE  /\ Len(patches) \in Nat /\ DOMAIN patches = 1 .. Len(patches)
         /\ \A n \in DOMAIN patches :
              LET p == patches[n]
              IN  /\ n \in Nat /\ p.addr \in Nat /\ p.span \in Nat \ {0}
                  /\ p.new \in Seq(Nat) /\ Len(p.new) \in Nat /\ p.addr \in Span(p)
                  /\ Text(p) \in Line /\ Text(p).at = p.addr /\ Text(p).bytes = p.new
<1>1. patches \in Seq([addr : Nat, span : Nat \ {0}, old : Seq(Nat), new : Seq(Nat)])
  BY Written DEF Written
<1>2. Len(patches) \in Nat /\ DOMAIN patches = 1 .. Len(patches)
  BY <1>1, LenProperties
<1>3. ASSUME NEW n \in DOMAIN patches, NEW p, p = patches[n]
      PROVE  /\ n \in Nat /\ p.addr \in Nat /\ p.span \in Nat \ {0}
             /\ p.new \in Seq(Nat) /\ Len(p.new) \in Nat /\ p.addr \in Span(p)
             /\ Text(p) \in Line /\ Text(p).at = p.addr /\ Text(p).bytes = p.new
  <2>0. n \in 1 .. Len(patches) /\ n \in Nat
    BY <1>2
  <2>1. p \in [addr : Nat, span : Nat \ {0}, old : Seq(Nat), new : Seq(Nat)]
    BY <1>1, <1>3, <2>0, ElementOfSeq
  <2>2. p.addr \in Nat /\ p.span \in Nat \ {0} /\ p.new \in Seq(Nat)
    BY <2>1
  <2>3. p.addr \in Span(p)
    BY <2>2 DEF Span
  <2>4. Text(p) \in Line /\ Text(p).at = p.addr /\ Text(p).bytes = p.new
    BY <2>2 DEF Text, Line
  <2>. QED  BY <2>0, <2>2, <2>3, <2>4, LenProperties
<1>. QED  BY <1>2, <1>3

(* Patches that have passed the selftest share no address.                 *)
LEMMA SpansApart ==
  ASSUME \E t \in Tables : patches = t.patches, SelfTested,
         NEW n \in DOMAIN patches, NEW m \in DOMAIN patches, NEW a,
         a \in Span(patches[n]), a \in Span(patches[m])
  PROVE  n = m
<1>1. n # m => Disjoint(patches[n], patches[m])
  BY DEF SelfTested
<1>2. /\ patches[n].addr \in Nat /\ patches[n].span \in Nat \ {0}
      /\ patches[m].addr \in Nat /\ patches[m].span \in Nat \ {0}
  BY PatchFacts
<1>. QED  BY <1>1, <1>2 DEF Disjoint, Span

(* The type invariant follows.                                             *)
LEMMA FiledTypes == SplitInv => TypeOK
<1>. SUFFICES ASSUME SplitInv PROVE TypeOK
  OBVIOUS
<1>1. /\ phase \in {"selftest", "apply", "audit", "accepted", "rejected"}
      /\ next \in 1 .. Len(patches) + 1
      /\ \E t \in Tables : patches = t.patches
  BY DEF SplitInv, Steps
<1>2. /\ Len(patches) \in Nat /\ DOMAIN patches = 1 .. Len(patches)
      /\ \A n \in DOMAIN patches : patches[n].addr \in Span(patches[n]) /\ Text(patches[n]).at = patches[n].addr
  BY <1>1, PatchFacts
<1>3. \A n \in 1 .. next - 1 : n \in DOMAIN patches
  BY <1>1, <1>2
<1>4. ASSUME NEW i \in DOMAIN buckets, NEW j \in DOMAIN buckets[i], NEW k \in DOMAIN buckets[i]
      PROVE  /\ buckets[i][j].at \in Region(i)
             /\ j < k => buckets[i][j].at < buckets[i][k].at
             /\ \A n \in 1 .. next - 1 :
                  patches[n].addr \in Region(i) /\ buckets[i][j].at \in Span(patches[n])
                  => buckets[i][j].at = patches[n].addr
  <2>1. /\ SelfTested /\ Ordered(buckets[i])
        /\ \/ Kept(i, buckets[i][j], patches, Applied(i))
           \/ \E n \in Applied(i) : buckets[i][j] = Text(patches[n])
    BY DEF SplitInv, Filed, Holds
  <2>2. j < k => buckets[i][j].at < buckets[i][k].at
    BY <2>1 DEF Ordered
  <2>3. CASE Kept(i, buckets[i][j], patches, Applied(i))
    BY <2>2, <2>3 DEF Kept, Applied
  <2>4. CASE \E n \in Applied(i) : buckets[i][j] = Text(patches[n])
    <3>1. PICK n \in Applied(i) : buckets[i][j] = Text(patches[n])
      BY <2>4
    <3>2. n \in DOMAIN patches /\ patches[n].addr \in Region(i) /\ buckets[i][j].at = patches[n].addr
      BY <1>2, <1>3, <3>1 DEF Applied
    <3>3. ASSUME NEW m \in 1 .. next - 1, buckets[i][j].at \in Span(patches[m])
          PROVE  buckets[i][j].at = patches[m].addr
      <4>1. m = n
        BY <1>1, <1>2, <1>3, <2>1, <3>2, <3>3, SpansApart
      <4>. QED  BY <3>2, <4>1
    <3>. QED  BY <2>2, <3>2, <3>3
  <2>. QED  BY <2>1, <2>3, <2>4
<1>. QED  BY <1>1, <1>4 DEF TypeOK

-----------------------------------------------------------------------------
(* The steps of the build.                                                 *)
LEMMA FiledAsBefore ==
  ASSUME Filed, UNCHANGED <<patches, spans, next, buckets>>
  PROVE  Filed'
BY DEF Filed, SelfTested, Have, Disjoint, Applied

LEMMA SplitInit ==
  ASSUME Init
  PROVE  SplitInv
<1>1. \E t \in Tables : patches = t.patches
  BY DEF Init
<1>2. next \in 1 .. Len(patches) + 1
  <2>1. Len(patches) \in Nat
    BY <1>1, PatchFacts
  <2>. QED  BY <2>1 DEF Init
<1>3. DOMAIN buckets = {}
  <2>1. \A s : s = <<>> => DOMAIN s = {}
    OBVIOUS
  <2>. QED  BY <2>1 DEF Init
<1>4. Filed
  BY <1>3 DEF Filed
<1>. QED  BY <1>1, <1>2, <1>4 DEF SplitInv, Steps, Init

LEMMA SplitSelfTest ==
  ASSUME SplitInv, SelfTest
  PROVE  SplitInv'
<1>1. /\ phase = "selftest" /\ next = 1 /\ buckets = <<>>
      /\ UNCHANGED <<patches, spans, next, built>>
      /\ next \in 1 .. Len(patches) + 1
      /\ \E t \in Tables : patches = t.patches
  BY DEF SplitInv, Steps, SelfTest
<1>2. CASE ~SelfTested
  <2>1. phase' = "rejected" /\ UNCHANGED buckets
    BY <1>2 DEF SelfTest
  <2>2. Filed'
    BY <1>1, <2>1, FiledAsBefore DEF SplitInv
  <2>3. Steps'
    BY <1>1, <2>1 DEF Steps
  <2>. QED  BY <2>2, <2>3 DEF SplitInv
<1>3. CASE SelfTested
  <2>1. phase' = "apply" /\ buckets' = Bucketed
    BY <1>3 DEF SelfTest
  <2>2. SelfTested'
    BY <1>1, <1>3 DEF SelfTested, Have, Disjoint
  <2>3. DOMAIN buckets' = DOMAIN REGIONS
    BY <2>1 DEF Bucketed
  <2>4. Steps'
    BY <1>1, <2>1, <2>2, <2>3 DEF Steps
  <2>5. ASSUME NEW i PROVE Applied(i)' = {}
    BY <1>1 DEF Applied
  <2>6. ASSUME NEW i \in DOMAIN REGIONS PROVE Holds(buckets'[i], i, patches', Applied(i)')
    <3>1. buckets'[i] = Within(Source, Region(i))
      BY <2>1 DEF Bucketed
    <3>2. REGIONS[i].lo \in Int /\ REGIONS[i].hi - 1 \in Int
      BY RegionFacts
    <3>3. PICK lines : lines = Within(Source, Region(i))
      OBVIOUS
    <3>4. /\ Ordered(lines)
          /\ \A l : Has(lines, l) <=> Has(Source, l) /\ l.at \in Region(i)
      BY <3>2, <3>3, SourceLines, WithinLines DEF Region
    <3>5. ASSUME NEW j \in DOMAIN lines PROVE Kept(i, lines[j], patches', {})
      <4>1. Has(lines, lines[j])
        BY DEF Has
      <4>. QED  BY <3>4, <4>1 DEF Kept
    <3>6. ASSUME NEW j \in DOMAIN Source, Kept(i, Source[j], patches', {}) PROVE Has(lines, Source[j])
      BY <3>4, <3>6 DEF Kept
    <3>7. Holds(lines, i, patches', {})
      BY <3>4, <3>5, <3>6 DEF Holds
    <3>. QED  BY <2>5, <3>1, <3>3, <3>7
  <2>7. Filed'
    BY <2>2, <2>3, <2>6 DEF Filed
  <2>. QED  BY <2>4, <2>7 DEF SplitInv
<1>. QED  BY <1>2, <1>3

LEMMA SplitApplyPatch ==
  ASSUME SplitInv, ApplyPatch
  PROVE  SplitInv'
<1>1. /\ phase = "apply" /\ next <= Len(patches) /\ next \in 1 .. Len(patches) + 1
      /\ \E t \in Tables : patches = t.patches
      /\ SelfTested /\ DOMAIN buckets = DOMAIN REGIONS /\ Filed
      /\ UNCHANGED <<patches, spans, built>>
  BY DEF SplitInv, Steps, ApplyPatch
<1>2. /\ Len(patches) \in Nat /\ next \in DOMAIN patches /\ next \in Nat
  BY <1>1, PatchFacts
<1>3. PICK p : p = patches[next]
  OBVIOUS
<1>4. /\ p.addr \in Nat /\ p.span \in Nat \ {0} /\ p.new \in Seq(Nat)
  BY <1>1, <1>2, <1>3, PatchFacts
<1>5. PICK mine : mine = {i \in DOMAIN REGIONS : p.addr \in Region(i)}
  OBVIOUS
<1>6. CASE phase' = "rejected" /\ UNCHANGED <<buckets, next>>
  <2>1. Filed'
    BY <1>1, <1>6, FiledAsBefore
  <2>2. Steps'
    BY <1>1, <1>6 DEF Steps
  <2>. QED  BY <2>1, <2>2 DEF SplitInv
<1>7. CASE /\ \A i \in mine : Fits(i, p) /\ Matches(i, p)
           /\ buckets' = [i \in DOMAIN buckets |->
                IF i \in mine THEN Replaced(buckets[i], p) ELSE buckets[i]]
           /\ next' = next + 1
           /\ UNCHANGED phase
  <2>1. SelfTested'
    BY <1>1 DEF SelfTested, Have, Disjoint
  <2>2. DOMAIN buckets' = DOMAIN REGIONS
    BY <1>1, <1>7
  <2>3. Steps'
    BY <1>1, <1>2, <1>7, <2>1, <2>2 DEF Steps
  <2>4. ASSUME NEW i \in DOMAIN REGIONS
        PROVE  Applied(i)' = Applied(i) \cup (IF i \in mine THEN {next} ELSE {})
    <3>1. \A n : n \in 1 .. next' - 1 <=> n \in 1 .. next - 1 \/ n = next
      BY <1>2, <1>7
    <3>2. i \in mine <=> patches[next].addr \in Region(i)
      BY <1>3, <1>5
    <3>3. Applied(i)' = {n \in 1 .. next' - 1 : patches[n].addr \in Region(i)}
      BY <1>1 DEF Applied
    <3>. QED  BY <3>1, <3>2, <3>3 DEF Applied
  <2>5. ASSUME NEW i \in DOMAIN REGIONS PROVE Holds(buckets'[i], i, patches, Applied(i)')
    <3>0. PICK A, lines : A = Applied(i) /\ lines = buckets[i]
      OBVIOUS
    <3>1. Holds(lines, i, patches, A)
      BY <1>1, <3>0 DEF Filed
    <3>2. CASE i \notin mine
      <4>1. Applied(i)' = A /\ buckets'[i] = lines
        BY <1>1, <1>7, <2>4, <3>0, <3>2
      <4>. QED  BY <3>1, <4>1
    <3>3. CASE i \in mine
      <4>0. PICK B, out : B = A \cup {next} /\ out = Replaced(lines, p)
        OBVIOUS
      <4>1. Applied(i)' = B /\ buckets'[i] = out
        BY <1>1, <1>7, <2>4, <3>0, <3>3, <4>0
      <4>2. Fits(i, p) /\ Covered(lines, p) # {}
        BY <1>7, <3>0, <3>3 DEF Matches
      <4>3. /\ Ordered(out)
            /\ \A l : Has(out, l) <=> l = Text(p) \/ (Has(lines, l) /\ l.at \notin Span(p))
        BY <1>4, <3>1, <4>0, <4>2, ReplacedLines DEF Holds
      <4>4. ASSUME NEW l PROVE Kept(i, l, patches, B) <=> Kept(i, l, patches, A) /\ l.at \notin Span(p)
        BY <1>3, <4>0 DEF Kept
      <4>5. ASSUME NEW j \in DOMAIN out
            PROVE Kept(i, out[j], patches, B) \/ \E n \in B : out[j] = Text(patches[n])
        <5>1. PICK l : l = out[j]
          OBVIOUS
        <5>2. l = Text(p) \/ (Has(lines, l) /\ l.at \notin Span(p))
          BY <4>3, <5>1 DEF Has
        <5>3. CASE l = Text(p)
          BY <1>3, <4>0, <5>1, <5>3
        <5>4. CASE Has(lines, l) /\ l.at \notin Span(p)
          <6>1. PICK k \in DOMAIN lines : lines[k] = l
            BY <5>4 DEF Has
          <6>2. Kept(i, l, patches, A) \/ \E n \in A : l = Text(patches[n])
            BY <3>1, <6>1 DEF Holds
          <6>. QED  BY <4>0, <4>4, <5>1, <5>4, <6>2
        <5>. QED  BY <5>2, <5>3, <5>4
      <4>6. ASSUME NEW j \in DOMAIN Source, Kept(i, Source[j], patches, B) PROVE Has(out, Source[j])
        <5>1. Has(lines, Source[j]) /\ Source[j].at \notin Span(p)
          BY <3>1, <4>4, <4>6 DEF Holds
        <5>. QED  BY <4>3, <5>1
      <4>7. ASSUME NEW n \in B PROVE Fits(i, patches[n]) /\ Has(out, Text(patches[n]))
        <5>1. CASE n = next
          BY <1>3, <4>2, <4>3, <5>1
        <5>2. CASE n \in A
          <6>1. n \in DOMAIN patches /\ n # next /\ Fits(i, patches[n]) /\ Has(lines, Text(patches[n]))
            BY <1>1, <1>2, <3>0, <3>1, <5>2, PatchFacts DEF Applied, Holds
          <6>2. Text(patches[n]).at \in Span(patches[n])
            BY <1>1, <6>1, PatchFacts
          <6>3. Text(patches[n]).at \notin Span(p)
            BY <1>1, <1>2, <1>3, <6>1, <6>2, SpansApart
          <6>. QED  BY <4>3, <6>1, <6>3
        <5>. QED  BY <4>0, <5>1, <5>2
      <4>8. Holds(out, i, patches, B)
        BY <4>3, <4>5, <4>6, <4>7 DEF Holds
      <4>. QED  BY <4>1, <4>8
    <3>. QED  BY <3>2, <3>3
  <2>6. Filed'
    BY <1>1, <2>1, <2>2, <2>5 DEF Filed
  <2>. QED  BY <2>3, <2>6 DEF SplitInv
<1>. QED  BY <1>3, <1>5, <1>6, <1>7 DEF ApplyPatch

LEMMA SplitAssemble ==
  ASSUME SplitInv, Assemble
  PROVE  SplitInv'
<1>1. /\ phase = "apply" /\ next > Len(patches) /\ next \in 1 .. Len(patches) + 1
      /\ \E t \in Tables : patches = t.patches
      /\ SelfTested /\ DOMAIN buckets = DOMAIN REGIONS /\ Filed
      /\ UNCHANGED <<patches, spans, next, buckets>>
  BY DEF SplitInv, Steps, Assemble
<1>2. Filed'
  BY <1>1, FiledAsBefore
<1>3. SelfTested' /\ DOMAIN buckets' = DOMAIN REGIONS
  BY <1>1 DEF SelfTested, Have, Disjoint
<1>4. next' = Len(patches') + 1
  <2>1. Len(patches) \in Nat
    BY <1>1, PatchFacts
  <2>. QED  BY <1>1, <2>1
<1>5. CASE phase' = "rejected"
  BY <1>1, <1>2, <1>5 DEF SplitInv, Steps
<1>6. CASE /\ ~\E i \in DOMAIN REGIONS : REGIONS[i].banks # {} /\ Overrun(i)
           /\ phase' = "audit" /\ built' = [b \in Bank |-> [a \in Owned(b) |-> Byte(a)]]
  <2>1. ASSUME NEW i PROVE Overrun(i)' <=> Overrun(i)
    BY <1>1 DEF Overrun
  <2>2. \A a : Byte(a)' = Byte(a)
    BY <1>1 DEF Byte
  <2>3. Steps'
    BY <1>1, <1>3, <1>4, <1>6, <2>1, <2>2 DEF Steps
  <2>. QED  BY <1>2, <2>3 DEF SplitInv
<1>. QED  BY <1>5, <1>6 DEF Assemble

LEMMA SplitAudit ==
  ASSUME SplitInv, Audit
  PROVE  SplitInv'
<1>1. /\ phase = "audit" /\ Steps /\ Filed
      /\ UNCHANGED <<patches, spans, next, buckets, built>>
      /\ phase' = IF Audited THEN "accepted" ELSE "rejected"
  BY DEF SplitInv, Audit
<1>2. Filed'
  BY <1>1, FiledAsBefore
<1>3. SelfTested' <=> SelfTested
  BY <1>1 DEF SelfTested, Have, Disjoint
<1>4. Audited' <=> Audited
  BY <1>1 DEF Audited, Changed, Allowed
<1>5. ASSUME NEW i PROVE Overrun(i)' <=> Overrun(i)
  BY <1>1 DEF Overrun
<1>6. \A a : Byte(a)' = Byte(a)
  BY <1>1 DEF Byte
<1>7. Steps'
  BY <1>1, <1>3, <1>4, <1>5, <1>6 DEF Steps
<1>. QED  BY <1>2, <1>7 DEF SplitInv

LEMMA SplitStutter ==
  ASSUME SplitInv, UNCHANGED vars
  PROVE  SplitInv'
<1>1. UNCHANGED <<patches, spans, phase, next, buckets, built>>
  BY DEF vars
<1>2. Filed'
  BY <1>1, FiledAsBefore DEF SplitInv
<1>3. (SelfTested' <=> SelfTested) /\ (Audited' <=> Audited)
  BY <1>1 DEF SelfTested, Have, Disjoint, Audited, Changed, Allowed
<1>5. ASSUME NEW i PROVE Overrun(i)' <=> Overrun(i)
  BY <1>1 DEF Overrun
<1>6. \A a : Byte(a)' = Byte(a)
  BY <1>1 DEF Byte
<1>. QED  BY <1>1, <1>2, <1>3, <1>5, <1>6 DEF SplitInv, Steps

LEMMA SplitInvariant == Spec => []SplitInv
<1>1. SplitInv /\ [Next]_vars => SplitInv'
  BY SplitSelfTest, SplitApplyPatch, SplitAssemble, SplitAudit, SplitStutter DEF Next
<1>. QED  BY <1>1, SplitInit, PTL DEF Spec

(* The lines of a region stay in the order of their addresses, none is     *)
(* left of what a patch replaced, whichever patches were applied and in    *)
(* whichever order (apply_region).                                         *)
THEOREM LinesStayInOrder == Spec => []TypeOK
BY SplitInvariant, FiledTypes, PTL

-----------------------------------------------------------------------------
(* The assembler: a line is put where the one before it ends.              *)
LEMMA StarFacts ==
  ASSUME NEW i \in DOMAIN REGIONS, NEW lines, Ordered(lines)
  PROVE  /\ Star(i, lines) \in [0 .. Len(lines) -> Nat]
         /\ Star(i, lines)[0] = REGIONS[i].lo
         /\ \A j \in DOMAIN lines :
              Star(i, lines)[j] = Star(i, lines)[j - 1] + Len(lines[j].bytes)
         /\ \A j, k \in 0 .. Len(lines) : j <= k => Star(i, lines)[j] <= Star(i, lines)[k]
<1>1. PICK N \in Nat : N = Len(lines) /\ DOMAIN lines = 1 .. N
  BY LineFacts
<1>2. \A j \in 1 .. N : Len(lines[j].bytes) \in Nat
  BY <1>1, LineFacts
<1>3. PICK z \in Nat : z = REGIONS[i].lo
  BY RegionFacts
<1>. DEFINE Def(f) == f = [j \in 0 .. N |-> IF j = 0 THEN z ELSE f[j - 1] + Len(lines[j].bytes)]
<1>4. PICK f : Def(f)
  <2>1. PICK step : step = [q \in Nat \X Nat |-> IF q[1] \in 1 .. N THEN q[2] + Len(lines[q[1]].bytes)
                                                             ELSE q[2]]
    OBVIOUS
  <2>2. step \in [Nat \X Nat -> Nat]
    <3>1. ASSUME NEW q \in Nat \X Nat PROVE step[q] \in Nat
      <4>1. q[2] \in Nat
        OBVIOUS
      <4>2. step[q] = IF q[1] \in 1 .. N THEN q[2] + Len(lines[q[1]].bytes) ELSE q[2]
        BY <2>1
      <4>. QED  BY <1>2, <4>1, <4>2
    <3>. QED  BY <2>1, <3>1
  <2>3. PICK g \in [0 .. N -> Nat] : StepDefined(g, N, z, step)
    BY <2>2, StepByStep
  <2>4. g[0] = z /\ \A j \in 1 .. N : g[j] = step[<<j, g[j - 1]>>]
    BY <2>3 DEF StepDefined
  <2>5. ASSUME NEW j \in 1 .. N PROVE g[j] = g[j - 1] + Len(lines[j].bytes)
    <3>1. j \in Nat /\ j - 1 \in 0 .. N /\ g[j - 1] \in Nat
      OBVIOUS
    <3>2. <<j, g[j - 1]>> \in Nat \X Nat
      BY <3>1
    <3>3. step[<<j, g[j - 1]>>] = g[j - 1] + Len(lines[j].bytes)
      BY <2>1, <3>2
    <3>. QED  BY <2>4, <3>3
  <2>6. \A j \in 0 .. N : g[j] = IF j = 0 THEN z ELSE g[j - 1] + Len(lines[j].bytes)
    <3>1. \A j \in 0 .. N : j = 0 \/ j \in 1 .. N
      OBVIOUS
    <3>. QED  BY <2>4, <2>5, <3>1
  <2>7. Def(g)
    BY <2>6
  <2>. QED  BY <2>7
<1>5. PICK s : s = Star(i, lines)
  OBVIOUS
<1>6. Def(s)
  BY <1>1, <1>3, <1>4, <1>5 DEF Star
<1>7. s[0] = z
  BY <1>6
<1>8. ASSUME NEW j \in 1 .. N PROVE s[j] = s[j - 1] + Len(lines[j].bytes)
  <2>1. j \in 0 .. N /\ j # 0
    OBVIOUS
  <2>. QED  BY <1>6, <2>1
<1>. HIDE DEF Def
<1>9. \A j \in 0 .. N : s[j] \in Nat
  <2>1. PICK P : P = {j \in 0 .. N : s[j] \in Nat}
    OBVIOUS
  <2>2. 0 \in P
    BY <1>7, <2>1
  <2>3. ASSUME NEW j \in 0 .. N - 1, j \in P PROVE j + 1 \in P
    <3>1. j + 1 \in 1 .. N /\ (j + 1) - 1 = j
      OBVIOUS
    <3>2. s[j + 1] = s[j] + Len(lines[j + 1].bytes)
      BY <1>8, <3>1
    <3>. QED  BY <1>2, <2>1, <2>3, <3>1, <3>2
  <2>4. 0 .. N \subseteq P
    BY <2>2, <2>3, UpTo
  <2>. QED  BY <2>1, <2>4
<1>10. ASSUME NEW k \in 0 .. N PROVE \A j \in 0 .. N : k <= j => s[k] <= s[j]
  <2>1. PICK P : P = {j \in 0 .. N : k <= j => s[k] <= s[j]}
    OBVIOUS
  <2>2. 0 \in P
    BY <1>7, <2>1
  <2>3. ASSUME NEW j \in 0 .. N - 1, j \in P PROVE j + 1 \in P
    <3>1. j + 1 \in 1 .. N /\ (j + 1) - 1 = j /\ j \in 0 .. N
      OBVIOUS
    <3>2. s[j + 1] = s[j] + Len(lines[j + 1].bytes) /\ s[j] \in Nat /\ Len(lines[j + 1].bytes) \in Nat
      BY <1>2, <1>8, <1>9, <3>1
    <3>3. s[j] <= s[j + 1] /\ s[k] \in Nat /\ s[j + 1] \in Nat
      BY <1>9, <3>1, <3>2
    <3>4. k <= j => s[k] <= s[j]
      BY <2>1, <2>3
    <3>5. k <= j + 1 => k <= j \/ k = j + 1
      OBVIOUS
    <3>6. k <= j + 1 => s[k] <= s[j + 1]
      BY <3>2, <3>3, <3>4, <3>5
    <3>. QED  BY <2>1, <3>1, <3>6
  <2>4. 0 .. N \subseteq P
    BY <2>2, <2>3, UpTo
  <2>. QED  BY <2>1, <2>4
<1>11. s \in [0 .. N -> Nat]
  <2>1. s = [j \in 0 .. N |-> s[j]]
    BY <1>6 DEF Def
  <2>. QED  BY <1>9, <2>1
<1>. QED  BY <1>1, <1>3, <1>5, <1>7, <1>8, <1>10, <1>11

LEMMA PutOnce ==
  ASSUME NEW i \in DOMAIN REGIONS, NEW lines, Ordered(lines), NEW a, NEW j \in Put(i, lines, a)
  PROVE  Emitted(i, lines, a) = lines[j].bytes[a - Star(i, lines)[j - 1] + 1]
<1>1. Len(lines) \in Nat /\ DOMAIN lines = 1 .. Len(lines)
  BY LineFacts
<1>2. ASSUME NEW k \in Put(i, lines, a) PROVE ~(j < k) /\ j \in Nat
  <2>1. /\ j \in 1 .. Len(lines) /\ k \in 1 .. Len(lines)
        /\ a \in Star(i, lines)[j - 1] .. Star(i, lines)[j] - 1
        /\ a \in Star(i, lines)[k - 1] .. Star(i, lines)[k] - 1
    BY <1>1 DEF Put
  <2>2. j < k => j <= k - 1 /\ j \in 0 .. Len(lines) /\ k - 1 \in 0 .. Len(lines)
    BY <1>1, <2>1
  <2>3. j < k => Star(i, lines)[j] <= Star(i, lines)[k - 1]
    BY <2>2, StarFacts
  <2>4. j \in 0 .. Len(lines) /\ k - 1 \in 0 .. Len(lines)
    BY <1>1, <2>1
  <2>5. Star(i, lines)[j] \in Nat /\ Star(i, lines)[k - 1] \in Nat
    BY <2>4, StarFacts
  <2>. QED  BY <2>1, <2>3, <2>5
<1>3. ASSUME NEW k \in Put(i, lines, a) PROVE ~(k < j) /\ k \in Nat
  <2>1. /\ j \in 1 .. Len(lines) /\ k \in 1 .. Len(lines)
        /\ a \in Star(i, lines)[j - 1] .. Star(i, lines)[j] - 1
        /\ a \in Star(i, lines)[k - 1] .. Star(i, lines)[k] - 1
    BY <1>1 DEF Put
  <2>2. k < j => k <= j - 1 /\ k \in 0 .. Len(lines) /\ j - 1 \in 0 .. Len(lines)
    BY <1>1, <2>1
  <2>3. k < j => Star(i, lines)[k] <= Star(i, lines)[j - 1]
    BY <2>2, StarFacts
  <2>4. k \in 0 .. Len(lines) /\ j - 1 \in 0 .. Len(lines)
    BY <1>1, <2>1
  <2>5. Star(i, lines)[k] \in Nat /\ Star(i, lines)[j - 1] \in Nat
    BY <2>4, StarFacts
  <2>. QED  BY <2>1, <2>3, <2>5
<1>4. \A k \in Put(i, lines, a) : k = j
  BY <1>2, <1>3
<1>5. (CHOOSE n \in Put(i, lines, a) : TRUE) = j
  BY <1>4
<1>. QED  BY <1>5 DEF Emitted

LEMMA OwnerFacts ==
  ASSUME NEW i \in DOMAIN REGIONS, NEW a \in Region(i)
  PROVE  a \in Nat /\ a \in DOMAIN Stock /\ Owner(a) = i /\ Byte(a) = Emitted(i, buckets[i], a)
<1>1. a \in Nat
  BY RegionFacts DEF Region
<1>2. a \in DOMAIN Stock
  BY DEF Stock
<1>3. Owner(a) = i
  <2>1. \A r \in DOMAIN REGIONS : a \in Region(r) => r = i
    BY RegionFacts
  <2>. QED  BY <2>1 DEF Owner
<1>. QED  BY <1>1, <1>2, <1>3 DEF Byte

LEMMA InPlace ==
  ASSUME NEW l, l.at \in Nat, Len(l.bytes) \in Nat
  PROVE  \A a : a \in Place(l) <=> a \in Int /\ l.at <= a /\ a < l.at + Len(l.bytes)
<1>1. PICK u \in Nat, L \in Nat : u = l.at /\ L = Len(l.bytes)
  OBVIOUS
<1>2. \A a : a \in u .. u + L - 1 <=> a \in Int /\ u <= a /\ a < u + L
  OBVIOUS
<1>. QED  BY <1>1, <1>2 DEF Place

(* Every address is in one line of the source.                             *)
LEMMA StockLine ==
  /\ \A a \in DOMAIN Stock : \E j \in DOMAIN Source : a \in Place(Source[j])
  /\ \A j, k \in DOMAIN Source : \A a : a \in Place(Source[j]) /\ a \in Place(Source[k]) => j = k
  /\ \A j \in DOMAIN Source : \A a \in Place(Source[j]) :
       a \in DOMAIN Stock /\ Stock[a] = Source[j].bytes[a - Source[j].at + 1]
  /\ \A j \in DOMAIN Source : \A i \in DOMAIN REGIONS : \A a \in Place(Source[j]) :
       a \in Region(i) => Place(Source[j]) \subseteq Region(i)
<1>1. \A a \in DOMAIN Stock : \E j \in DOMAIN Source : a \in Place(Source[j])
  BY Listed DEF Listed
<1>2. ASSUME NEW j \in DOMAIN Source, NEW k \in DOMAIN Source, NEW a,
             a \in Place(Source[j]), a \in Place(Source[k])
      PROVE  j = k
  <2>1. /\ j < k => Source[j].at + Len(Source[j].bytes) <= Source[k].at
        /\ k < j => Source[k].at + Len(Source[k].bytes) <= Source[j].at
    BY Listed DEF Listed
  <2>2. /\ Source[j].at \in Nat /\ Len(Source[j].bytes) \in Nat /\ j \in Nat
        /\ Source[k].at \in Nat /\ Len(Source[k].bytes) \in Nat /\ k \in Nat
    BY SourceLines, LineFacts
  <2>3. /\ a \in Int /\ Source[j].at <= a /\ a < Source[j].at + Len(Source[j].bytes)
        /\ Source[k].at <= a /\ a < Source[k].at + Len(Source[k].bytes)
    BY SMTT(40), <1>2, <2>2, InPlace
  <2>4. ~(j < k) /\ ~(k < j)
    BY <2>1, <2>2, <2>3
  <2>. QED  BY <2>2, <2>4
<1>3. ASSUME NEW j \in DOMAIN Source, NEW a \in Place(Source[j])
      PROVE  a \in DOMAIN Stock /\ Stock[a] = Source[j].bytes[a - Source[j].at + 1]
  <2>1. a \in DOMAIN Stock
    BY Listed DEF Listed, Stock
  <2>2. (CHOOSE k \in DOMAIN Source : a \in Place(Source[k])) = j
    BY <1>2
  <2>. QED  BY <2>1, <2>2 DEF Stock
<1>4. ASSUME NEW j \in DOMAIN Source, NEW i \in DOMAIN REGIONS, NEW a \in Place(Source[j]), a \in Region(i)
      PROVE  Place(Source[j]) \subseteq Region(i)
  <2>1. PICK r \in DOMAIN REGIONS : Place(Source[j]) \subseteq Region(r)
    BY Listed DEF Listed
  <2>2. r = i
    BY <1>4, <2>1, RegionFacts
  <2>. QED  BY <2>1, <2>2
<1>. QED  BY <1>1, <1>2, <1>3, <1>4

(* Where a line ends, another begins or the region ends.                   *)
LEMMA LineEnds ==
  ASSUME NEW i \in DOMAIN REGIONS, NEW j \in DOMAIN Source, Source[j].at \in Region(i)
  PROVE  LET e == Source[j].at + Len(Source[j].bytes)
         IN  e <= REGIONS[i].hi /\ (e < REGIONS[i].hi => e \in Starts)
<1>1. PICK e : e = Source[j].at + Len(Source[j].bytes)
  OBVIOUS
<1>2. /\ Source[j].at \in Nat /\ Len(Source[j].bytes) \in Nat \ {0} /\ e \in Nat
      /\ REGIONS[i].lo \in Nat /\ REGIONS[i].hi \in Nat
  BY <1>1, SourceLines, RegionFacts
<1>3. Place(Source[j]) \subseteq Region(i)
  BY StockLine, SourceLines
<1>4. e - 1 \in Region(i)
  BY <1>1, <1>2, <1>3 DEF Place
<1>5. e <= REGIONS[i].hi
  BY <1>2, <1>4 DEF Region
<1>6. ASSUME e < REGIONS[i].hi PROVE e \in Starts
  <2>1. e \in Region(i)
    BY <1>2, <1>4, <1>6 DEF Region
  <2>2. PICK k \in DOMAIN Source : e \in Place(Source[k])
    BY <2>1, OwnerFacts, StockLine
  <2>3. Source[k].at \in Nat /\ Len(Source[k].bytes) \in Nat
    BY SourceLines
  <2>4. ASSUME Source[k].at < e PROVE FALSE
    <3>1. e - 1 \in Place(Source[k])
      <4>1. e - 1 \in Nat /\ Source[k].at <= e - 1
        BY <1>2, <2>3, <2>4
      <4>2. e <= Source[k].at + (Len(Source[k].bytes) - 1)
        BY <2>2, <2>3 DEF Place
      <4>. QED  BY <1>2, <2>3, <4>1, <4>2 DEF Place
    <3>0. e - 1 \in Place(Source[j])
      BY <1>1, <1>2 DEF Place
    <3>2. k = j
      BY <3>0, <3>1, StockLine
    <3>. QED  BY <1>1, <1>2, <2>2, <3>2 DEF Place
  <2>5. Source[k].at = e
    BY <1>2, <2>2, <2>3, <2>4 DEF Place
  <2>. QED  BY <2>5 DEF Starts
<1>. QED  BY <1>1, <1>5, <1>6

(* No line begins within another.                                          *)
LEMMA NoneWithin ==
  ASSUME NEW j \in DOMAIN Source, NEW a \in Starts, a \in Place(Source[j])
  PROVE  a = Source[j].at
<1>1. PICK k \in DOMAIN Source : a = Source[k].at
  BY DEF Starts
<1>. QED  BY <1>1, SourceLines, StockLine

-----------------------------------------------------------------------------
(* An accepted build.                                                      *)
Passed ==
  /\ SplitInv /\ phase = "accepted"
  /\ \A i, j \in DOMAIN patches : ~Touch(patches[i], patches[j])
  /\ \A i \in DOMAIN patches : patches[i].addr \in Starts
  /\ ~Disguised

LEMMA PassedFacts ==
  ASSUME Passed
  PROVE  /\ \E t \in Tables : patches = t.patches
         /\ SelfTested /\ DOMAIN buckets = DOMAIN REGIONS
         /\ \A i \in DOMAIN REGIONS : /\ Holds(buckets[i], i, patches, Applied(i))
                                      /\ Ordered(buckets[i])
                                      /\ REGIONS[i].banks # {} => ~Overrun(i)
         /\ \A b \in Bank : \A a \in Owned(b) : built[b][a] = Byte(a)
         /\ Audited
<1>1. Steps /\ Filed /\ phase = "accepted"
  BY DEF Passed, SplitInv
<1>. QED  BY <1>1 DEF Steps, Filed, Holds

LEMMA AllApplied ==
  ASSUME Passed, NEW i \in DOMAIN REGIONS
  PROVE  Applied(i) = {n \in DOMAIN patches : patches[n].addr \in Region(i)}
<1>1. next = Len(patches) + 1 /\ \E t \in Tables : patches = t.patches
  BY DEF Passed, SplitInv, Steps
<1>2. DOMAIN patches = 1 .. Len(patches) /\ Len(patches) \in Nat
  BY <1>1, PatchFacts
<1>3. 1 .. next - 1 = DOMAIN patches
  BY <1>1, <1>2
<1>. QED  BY <1>3 DEF Applied

(* An address that is in no patch holds what it held, in every bank.       *)
LEMMA AuditedByte ==
  ASSUME Passed, NEW i \in DOMAIN REGIONS, REGIONS[i].banks # {}, NEW a \in Region(i),
         \A n \in DOMAIN patches : a \notin Span(patches[n])
  PROVE  Byte(a) = Stock[a]
<1>1. PICK b \in REGIONS[i].banks : TRUE
  OBVIOUS
<1>2. b \in Bank /\ Owns(b, a) /\ a \in DOMAIN Stock
  BY OwnerFacts DEF Bank, Owns
<1>3. a \in Owned(b)
  BY <1>2 DEF Owned
<1>4. built[b][a] = Byte(a)
  BY <1>2, <1>3, PassedFacts
<1>5. a \notin Allowed
  <2>1. spans = Have
    BY PassedFacts DEF SelfTested
  <2>2. ASSUME NEW s \in spans PROVE a \notin Span(s)
    <3>1. PICK n \in DOMAIN patches : s = [addr |-> patches[n].addr, span |-> patches[n].span]
      BY <2>1 DEF Have
    <3>2. Span(s) = Span(patches[n])
      BY <3>1 DEF Span
    <3>. QED  BY <3>2
  <2>. QED  BY <2>2 DEF Allowed
<1>6. a \notin Changed
  BY <1>5, PassedFacts DEF Audited
<1>. QED  BY <1>2, <1>4, <1>6 DEF Changed

(* It is there because the line it is in was not moved: the bytes that     *)
(* moved would all have found their own value.                             *)
LEMMA NotMoved ==
  ASSUME Passed, NEW i \in DOMAIN REGIONS, REGIONS[i].banks # {}, NEW a \in Region(i),
         \A n \in DOMAIN patches : a \notin Span(patches[n])
  PROVE  \E k \in DOMAIN buckets[i] : \E m \in DOMAIN Source :
           /\ buckets[i][k] = Source[m] /\ a \in Place(Source[m])
           /\ Star(i, buckets[i])[k - 1] = Source[m].at
           /\ Star(i, buckets[i])[k] = Source[m].at + Len(Source[m].bytes)
           /\ \A n \in DOMAIN patches : Source[m].at \notin Span(patches[n])
<1>1. PICK lines, S : lines = buckets[i] /\ S = Star(i, buckets[i])
  OBVIOUS
<1>2. /\ Ordered(lines) /\ Holds(lines, i, patches, Applied(i))
      /\ \E t \in Tables : patches = t.patches
  BY <1>1, PassedFacts
<1>3. a \in DOMAIN Stock /\ Owner(a) = i
  BY OwnerFacts
<1>4. \A c \in Moved : Byte(c) = Stock[c]
  <2>1. SUFFICES ASSUME NEW c \in Moved PROVE Byte(c) = Stock[c]
    OBVIOUS
  <2>2. /\ c \in DOMAIN Stock /\ REGIONS[Owner(c)].banks # {}
        /\ \A n \in DOMAIN patches : c \notin Span(patches[n])
    BY <2>1 DEF Moved, PatchAt
  <2>3. PICK r \in DOMAIN REGIONS : c \in Region(r)
    BY <2>2 DEF Stock
  <2>4. Owner(c) = r
    BY <2>3, OwnerFacts
  <2>. QED  BY <2>2, <2>3, <2>4, AuditedByte
<1>5. AtHome(a)
  <2>1. a \notin Moved
    BY <1>4 DEF Passed, Disguised
  <2>2. PatchAt(a) = {}
    BY DEF PatchAt
  <2>. QED  BY <1>3, <2>1, <2>2 DEF Moved
<1>6. PICK k \in Put(i, lines, a) : S[k - 1] = lines[k].at /\ PatchAt(lines[k].at) = {}
  BY <1>1, <1>3, <1>5 DEF AtHome
<1>7. k \in DOMAIN lines /\ a \in S[k - 1] .. S[k] - 1
  BY <1>1, <1>6 DEF Put
<1>8. Kept(i, lines[k], patches, Applied(i))
  <2>1. SUFFICES ASSUME NEW n \in Applied(i), lines[k] = Text(patches[n]) PROVE FALSE
    BY <1>2, <1>7 DEF Holds
  <2>2. n \in DOMAIN patches
    BY <2>1, AllApplied
  <2>3. lines[k].at \in Span(patches[n])
    BY <1>2, <2>1, <2>2, PatchFacts
  <2>. QED  BY <1>6, <2>2, <2>3 DEF PatchAt
<1>9. PICK m \in DOMAIN Source : Source[m] = lines[k]
  BY <1>8 DEF Kept, Has
<1>10. Source[m].at \in Nat /\ Len(Source[m].bytes) \in Nat
  BY SourceLines
<1>11. S[k] = S[k - 1] + Len(lines[k].bytes)
  BY <1>1, <1>2, <1>7, StarFacts
<1>12. S[k - 1] = Source[m].at /\ S[k] = Source[m].at + Len(Source[m].bytes)
  BY <1>6, <1>9, <1>11
<1>13. a \in Place(Source[m])
  <2>1. PICK u \in Nat, L \in Nat : u = Source[m].at /\ L = Len(Source[m].bytes)
    BY <1>10
  <2>2. a \in u .. u + L - 1
    <3>1. a \in S[k - 1] .. S[k] - 1 /\ S[k - 1] = u /\ S[k] = u + L
      BY <1>7, <1>12, <2>1
    <3>. QED  BY <3>1
  <2>. QED  BY <2>1, <2>2 DEF Place
<1>14. \A n \in DOMAIN patches : Source[m].at \notin Span(patches[n])
  BY <1>6, <1>9 DEF PatchAt
<1>. QED  BY <1>1, <1>7, <1>9, <1>12, <1>13, <1>14

(* Every line of a bucket has the address of a line of the source.         *)
LEMMA BucketStarts ==
  ASSUME Passed, NEW i \in DOMAIN REGIONS, NEW j \in DOMAIN buckets[i]
  PROVE  /\ buckets[i][j].at \in Starts /\ buckets[i][j].at \in Region(i)
         /\ \A n \in DOMAIN patches :
              patches[n].addr \in Region(i) /\ buckets[i][j].at \in Span(patches[n])
              => buckets[i][j].at = patches[n].addr
<1>1. \/ Kept(i, buckets[i][j], patches, Applied(i))
      \/ \E n \in Applied(i) : buckets[i][j] = Text(patches[n])
  BY PassedFacts DEF Holds
<1>2. CASE Kept(i, buckets[i][j], patches, Applied(i))
  BY <1>2, AllApplied DEF Kept, Has, Starts
<1>3. CASE \E n \in Applied(i) : buckets[i][j] = Text(patches[n])
  <2>1. PICK n \in Applied(i) : buckets[i][j] = Text(patches[n])
    BY <1>3
  <2>2. n \in DOMAIN patches /\ patches[n].addr \in Region(i)
    BY <2>1, AllApplied
  <2>3. /\ \E t \in Tables : patches = t.patches
        /\ SelfTested
    BY PassedFacts
  <2>4. buckets[i][j].at = patches[n].addr /\ patches[n].addr \in Span(patches[n])
    BY <2>1, <2>2, <2>3, PatchFacts
  <2>5. \A m \in DOMAIN patches : buckets[i][j].at \in Span(patches[m]) => m = n
    BY <2>2, <2>3, <2>4, SpansApart
  <2>. QED  BY <2>2, <2>4, <2>5 DEF Passed
<1>. QED  BY <1>1, <1>2, <1>3

(* A patch is applied to the region of whatever it spans.                  *)
LEMMA PatchRegion ==
  ASSUME Passed, NEW i \in DOMAIN REGIONS, NEW n \in DOMAIN patches,
         NEW a \in Region(i), a \in Span(patches[n])
  PROVE  patches[n].addr \in Region(i) /\ Fits(i, patches[n])
<1>1. PICK p : p = patches[n]
  OBVIOUS
<1>2. /\ p.addr \in Nat /\ p.span \in Nat \ {0} /\ p.addr \in Starts
      /\ \E t \in Tables : patches = t.patches
  BY <1>1, PassedFacts, PatchFacts DEF Passed
<1>3. PICK x \in DOMAIN Source : Source[x].at = p.addr
  BY <1>2 DEF Starts
<1>4. PICK r \in DOMAIN REGIONS : Place(Source[x]) \subseteq Region(r)
  BY Listed DEF Listed
<1>5. p.addr \in Region(r)
  BY <1>3, <1>4, SourceLines
<1>6. Fits(r, p)
  BY <1>1, <1>5, AllApplied, PassedFacts DEF Holds
<1>7. a \in Region(r)
  <2>1. REGIONS[r].lo \in Nat /\ REGIONS[r].hi \in Nat /\ a \in Nat
    BY RegionFacts, OwnerFacts
  <2>. QED  BY <1>1, <1>2, <1>5, <1>6, <2>1 DEF Region, Fits, Span
<1>8. r = i
  BY <1>7, RegionFacts
<1>. QED  BY <1>1, <1>5, <1>6, <1>8

(* A patch starts where it should: what comes before it was not moved.     *)
LEMMA PatchStart ==
  ASSUME Passed, NEW i \in DOMAIN REGIONS, REGIONS[i].banks # {},
         NEW n \in DOMAIN patches, patches[n].addr \in Region(i),
         NEW j \in DOMAIN buckets[i], buckets[i][j] = Text(patches[n])
  PROVE  Star(i, buckets[i])[j - 1] = patches[n].addr
<1>1. PICK lines, S, p : lines = buckets[i] /\ S = Star(i, buckets[i]) /\ p = patches[n]
  OBVIOUS
<1>2. /\ Ordered(lines) /\ Holds(lines, i, patches, Applied(i))
      /\ (\E t \in Tables : patches = t.patches) /\ SelfTested
  BY <1>1, PassedFacts
<1>3. /\ p.addr \in Nat /\ p.span \in Nat \ {0} /\ lines[j].at = p.addr /\ n \in Nat
      /\ p.addr \in Starts
  BY <1>1, <1>2, PatchFacts DEF Passed
<1>4. /\ REGIONS[i].lo \in Nat /\ REGIONS[i].hi \in Nat
      /\ REGIONS[i].lo <= p.addr /\ p.addr < REGIONS[i].hi
  BY <1>1, <1>3, RegionFacts DEF Region
<1>5. /\ Len(lines) \in Nat /\ DOMAIN lines = 1 .. Len(lines) /\ j \in 1 .. Len(lines)
      /\ \A k \in DOMAIN lines : k \in Nat /\ lines[k].at \in Nat
  BY <1>1, <1>2, LineFacts
<1>6. CASE j > 1
  <2>1. j - 1 \in DOMAIN lines
    BY <1>5, <1>6
  <2>2. lines[j - 1].at < p.addr /\ lines[j - 1].at \in Region(i) /\ lines[j - 1].at \in Nat
    <3>1. j - 1 < j /\ lines[j - 1].at \in Nat
      BY <1>5, <2>1
    <3>2. lines[j - 1].at < lines[j].at
      BY <1>1, <1>2, <2>1, <3>1 DEF Ordered
    <3>. QED  BY <1>1, <1>3, <2>1, <3>1, <3>2, BucketStarts
  <2>3. PICK a : a = p.addr - 1
    OBVIOUS
  <2>4. a \in Nat /\ a \in Region(i)
    BY <1>3, <1>4, <2>2, <2>3 DEF Region
  <2>5. ASSUME NEW m \in DOMAIN patches PROVE a \notin Span(patches[m])
    <3>1. /\ patches[m].addr \in Nat /\ patches[m].span \in Nat \ {0} /\ m \in Nat
          /\ ~Touch(patches[m], p)
      BY <1>1, <1>2, PatchFacts DEF Passed
    <3>2. m # n => Disjoint(patches[m], p)
      BY <1>1, <1>2 DEF SelfTested
    <3>3. m = n => a \notin Span(patches[m])
      BY <1>1, <1>3, <2>3 DEF Span
    <3>. QED  BY <1>3, <2>3, <3>1, <3>2, <3>3 DEF Touch, Disjoint, Span
  <2>6. PICK k \in DOMAIN lines, m \in DOMAIN Source :
          /\ lines[k] = Source[m] /\ a \in Place(Source[m])
          /\ S[k - 1] = Source[m].at /\ S[k] = Source[m].at + Len(Source[m].bytes)
    BY <1>1, <2>4, <2>5, NotMoved
  <2>7. Source[m].at \in Nat /\ Len(Source[m].bytes) \in Nat \ {0}
    BY SourceLines
  <2>8. S[k] = p.addr
    <3>1. a < S[k] /\ Source[m].at <= a /\ S[k] \in Nat
      BY <2>4, <2>6, <2>7 DEF Place
    <3>2. ASSUME p.addr < S[k] PROVE FALSE
      <4>1. p.addr \in Place(Source[m])
        BY <1>3, <2>3, <2>6, <2>7, <3>1, <3>2 DEF Place
      <4>2. p.addr = Source[m].at
        BY <1>3, <4>1, NoneWithin
      <4>. QED  BY <1>3, <2>3, <2>7, <3>1, <4>2
    <3>. QED  BY <1>3, <2>3, <3>1, <3>2
  <2>9. k < j
    <3>1. lines[k].at < lines[j].at
      BY <1>3, <2>3, <2>4, <2>6, <2>7 DEF Place
    <3>. QED  BY <1>1, <1>2, <3>1, LineFacts
  <2>10. ~(k < j - 1)
    <3>1. SUFFICES ASSUME k < j - 1 PROVE FALSE
      OBVIOUS
    <3>2. lines[k].at < lines[j - 1].at
      BY <1>2, <2>1, <3>1 DEF Ordered
    <3>3. lines[j - 1].at \in Place(Source[m])
      BY <1>3, <2>2, <2>6, <2>7, <2>8, <3>2 DEF Place
    <3>4. lines[j - 1].at = Source[m].at
      BY <1>1, <2>1, <3>3, NoneWithin, BucketStarts
    <3>. QED  BY <2>2, <2>6, <3>2, <3>4
  <2>11. k = j - 1
    BY <1>5, <2>9, <2>10
  <2>. QED  BY <1>1, <2>8, <2>11
<1>7. CASE j = 1
  <2>1. PICK lo : lo = REGIONS[i].lo
    OBVIOUS
  <2>2. lo \in Nat /\ lo \in Region(i)
    BY <1>4, <2>1 DEF Region
  <2>3. ASSUME lo < p.addr PROVE FALSE
    <3>1. ASSUME NEW m \in DOMAIN patches, lo \in Span(patches[m]) PROVE FALSE
      <4>1. /\ patches[m].addr \in Nat /\ patches[m].span \in Nat \ {0} /\ m \in Nat
            /\ patches[m].addr \in Starts /\ patches[m].addr \in Span(patches[m])
        BY <1>1, <1>2, PatchFacts DEF Passed
      <4>2. patches[m].addr \in Region(i) /\ m \in Applied(i)
        BY <2>2, <3>1, PatchRegion, AllApplied
      <4>9. patches[m].addr = lo
        BY <2>1, <2>2, <1>4, <3>1, <4>1, <4>2 DEF Region, Span
      <4>10. Has(lines, Text(patches[m]))
        BY <1>1, <4>2, PassedFacts DEF Holds
      <4>11. PICK k \in DOMAIN lines : lines[k] = Text(patches[m])
        BY <4>10 DEF Has
      <4>12. lines[k].at = lo
        BY <1>2, <4>9, <4>11, PatchFacts
      <4>13. lines[k].at < lines[j].at
        BY <1>3, <2>3, <4>12
      <4>. QED  BY <1>1, <1>2, <1>5, <1>7, <4>13, LineFacts
    <3>2. PICK k \in DOMAIN lines, m \in DOMAIN Source :
            lines[k] = Source[m] /\ lo \in Place(Source[m])
      BY <1>1, <2>2, <3>1, NotMoved
    <3>3. lines[k].at < lines[j].at
      BY <1>3, <2>2, <2>3, <3>2, SourceLines DEF Place
    <3>. QED  BY <1>1, <1>2, <1>5, <1>7, <3>3, LineFacts
  <2>4. S[0] = lo
    BY <1>1, <1>2, <2>1, StarFacts
  <2>. QED  BY <1>1, <1>3, <1>4, <1>7, <2>1, <2>3, <2>4
<1>. QED  BY <1>5, <1>6, <1>7

(* And it ends where it should, but at the end of its region.              *)
LEMMA PatchEnd ==
  ASSUME Passed, NEW i \in DOMAIN REGIONS, REGIONS[i].banks # {},
         NEW n \in DOMAIN patches, patches[n].addr \in Region(i),
         NEW j \in DOMAIN buckets[i], buckets[i][j] = Text(patches[n])
  PROVE  LET p == patches[n]
         IN  \/ Len(p.new) = p.span
             \/ Len(p.new) < p.span /\ REGIONS[i].hi = p.addr + p.span
<1>1. PICK lines, S, p : lines = buckets[i] /\ S = Star(i, buckets[i]) /\ p = patches[n]
  OBVIOUS
<1>2. /\ Ordered(lines) /\ Holds(lines, i, patches, Applied(i)) /\ ~Overrun(i)
      /\ (\E t \in Tables : patches = t.patches) /\ SelfTested
  BY <1>1, PassedFacts
<1>3. /\ p.addr \in Nat /\ p.span \in Nat \ {0} /\ lines[j].at = p.addr /\ n \in Nat
      /\ p.addr \in Starts /\ lines[j].bytes = p.new /\ Len(p.new) \in Nat
  BY <1>1, <1>2, PatchFacts DEF Passed
<1>4. /\ REGIONS[i].lo \in Nat /\ REGIONS[i].hi \in Nat
      /\ REGIONS[i].lo <= p.addr /\ p.addr < REGIONS[i].hi
  BY <1>1, <1>3, RegionFacts DEF Region
<1>5. /\ Len(lines) \in Nat /\ DOMAIN lines = 1 .. Len(lines) /\ j \in 1 .. Len(lines)
      /\ \A k \in DOMAIN lines : k \in Nat /\ lines[k].at \in Nat
  BY <1>1, <1>2, LineFacts
<1>6. S[j] = p.addr + Len(p.new)
  <2>1. S[j] = S[j - 1] + Len(lines[j].bytes)
    BY <1>1, <1>2, StarFacts
  <2>. QED  BY <1>1, <1>3, <2>1, PatchStart
<1>7. PICK e : e = p.addr + p.span
  OBVIOUS
<1>8. e <= REGIONS[i].hi /\ e \in Nat
  <2>1. Fits(i, p)
    BY <1>1, <1>2, AllApplied DEF Holds
  <2>. QED  BY <1>3, <1>7, <2>1 DEF Fits
<1>9. CASE e = REGIONS[i].hi
  <2>1. S[Len(lines)] <= REGIONS[i].hi
    <3>1. S[Len(lines)] \in Nat
      BY <1>1, <1>2, <1>5, StarFacts
    <3>. QED  BY <1>1, <1>2, <1>4, <3>1 DEF Overrun
  <2>2. j \in 0 .. Len(lines) /\ Len(lines) \in 0 .. Len(lines) /\ j <= Len(lines)
    BY <1>5
  <2>3. S[j] <= S[Len(lines)] /\ S[j] \in Nat /\ S[Len(lines)] \in Nat
    BY <1>1, <1>2, <2>2, StarFacts
  <2>. QED  BY SMTT(40), <1>1, <1>3, <1>4, <1>6, <1>7, <1>9, <2>1, <2>3
<1>10. CASE e < REGIONS[i].hi
  <2>1. e \in Region(i)
    BY <1>3, <1>4, <1>7, <1>8, <1>10 DEF Region
  <2>2. ASSUME NEW m \in DOMAIN patches PROVE e \notin Span(patches[m])
    <3>1. /\ patches[m].addr \in Nat /\ patches[m].span \in Nat \ {0} /\ m \in Nat
          /\ ~Touch(p, patches[m])
      BY <1>1, <1>2, PatchFacts DEF Passed
    <3>2. m # n => Disjoint(p, patches[m])
      BY <1>1, <1>2 DEF SelfTested
    <3>3. m = n => e \notin Span(patches[m])
      BY <1>1, <1>3, <1>7 DEF Span
    <3>. QED  BY <1>3, <1>7, <3>1, <3>2, <3>3 DEF Touch, Disjoint, Span
  <2>3. PICK k \in DOMAIN lines, m \in DOMAIN Source :
          /\ lines[k] = Source[m] /\ e \in Place(Source[m])
          /\ S[k - 1] = Source[m].at /\ S[k] = Source[m].at + Len(Source[m].bytes)
          /\ \A x \in DOMAIN patches : Source[m].at \notin Span(patches[x])
    BY <1>1, <2>1, <2>2, NotMoved
  <2>4. Source[m].at \in Nat /\ Len(Source[m].bytes) \in Nat \ {0}
    BY SourceLines
  <2>5. ASSUME NEW x \in DOMAIN lines, lines[x].at \in Span(p) PROVE x = j
    <3>1. lines[x].at = p.addr
      BY <1>1, <2>5, BucketStarts
    <3>. QED  BY <1>1, <1>2, <1>3, <3>1, LineFacts
  <2>6. Source[m].at = e
    <3>1. Source[m].at <= e
      BY <1>8, <2>3, <2>4 DEF Place
    <3>2. ASSUME p.addr <= Source[m].at, Source[m].at < e PROVE FALSE
      <4>1. Source[m].at \in Span(p)
        BY <1>3, <1>7, <2>4, <3>2 DEF Span
      <4>2. n \in DOMAIN patches
        OBVIOUS
      <4>. QED  BY <1>1, <2>3, <4>1, <4>2
    <3>3. ASSUME Source[m].at < p.addr PROVE FALSE
      <4>1. p.addr \in Place(Source[m])
        BY <1>3, <1>7, <2>3, <2>4, <3>3 DEF Place
      <4>2. p.addr = Source[m].at
        BY <1>3, <4>1, NoneWithin
      <4>. QED  BY <1>3, <2>4, <3>3, <4>2
    <3>. QED  BY <1>3, <1>8, <2>4, <3>1, <3>2, <3>3
  <2>7. j < k
    <3>1. lines[j].at < lines[k].at
      BY <1>3, <1>7, <2>3, <2>6
    <3>. QED  BY <1>1, <1>2, <3>1, LineFacts
  <2>8. ~(j + 1 < k)
    <3>1. SUFFICES ASSUME j + 1 < k PROVE FALSE
      OBVIOUS
    <3>2. j + 1 \in DOMAIN lines /\ j < j + 1 /\ k \in Nat
      BY <1>5, <3>1
    <3>3. lines[j].at < lines[j + 1].at /\ lines[j + 1].at < lines[k].at
      BY <1>1, <1>2, <3>1, <3>2 DEF Ordered
    <3>4. lines[j + 1].at \in Span(p)
      <4>1. lines[j + 1].at \in Nat
        BY <1>5, <3>2
      <4>2. lines[k].at = e
        BY <2>3, <2>6
      <4>. QED  BY <1>3, <1>7, <3>3, <4>1, <4>2 DEF Span
    <3>. QED  BY <1>5, <2>5, <3>2, <3>4
  <2>9. k - 1 = j
    BY <1>5, <2>7, <2>8
  <2>10. S[j] = e
    BY <2>3, <2>6, <2>9
  <2>. QED  BY <1>1, <1>3, <1>6, <1>7, <2>10
<1>. QED  BY <1>4, <1>8, <1>9, <1>10

(* The image, address by address.                                          *)
LEMMA PassedImage ==
  ASSUME Passed, NEW b \in Bank, NEW a \in Owned(b)
  PROVE  built[b][a] = Intended(a)
<1>1. PICK i \in DOMAIN REGIONS : b \in REGIONS[i].banks /\ a \in Region(i)
  BY DEF Owned, Owns
<1>2. built[b][a] = Byte(a) /\ REGIONS[i].banks # {}
  BY <1>1, PassedFacts
<1>3. /\ \E t \in Tables : patches = t.patches
      /\ SelfTested
  BY PassedFacts
<1>4. CASE PatchAt(a) = {}
  <2>1. \A n \in DOMAIN patches : a \notin Span(patches[n])
    BY <1>4 DEF PatchAt
  <2>. QED  BY <1>1, <1>2, <1>4, <2>1, AuditedByte DEF Intended
<1>5. CASE PatchAt(a) # {}
  <2>1. PICK n \in DOMAIN patches : a \in Span(patches[n])
    BY <1>5 DEF PatchAt
  <2>2. PatchAt(a) = {n}
    BY <1>3, <2>1, SpansApart DEF PatchAt
  <2>3. (CHOOSE m \in PatchAt(a) : TRUE) = n
    BY <2>2
  <2>4. PICK p : p = patches[n]
    OBVIOUS
  <2>5. Intended(a) = IF a - p.addr + 1 <= Len(p.new) THEN p.new[a - p.addr + 1] ELSE Fill
    BY <1>5, <2>3, <2>4 DEF Intended
  <2>6. /\ p.addr \in Nat /\ p.span \in Nat \ {0} /\ Len(p.new) \in Nat
        /\ a \in Nat /\ p.addr <= a /\ a < p.addr + p.span
    BY <1>1, <1>3, <2>1, <2>4, PatchFacts, OwnerFacts DEF Span
  <2>7. p.addr \in Region(i) /\ n \in Applied(i)
    BY <1>1, <2>1, <2>4, PatchRegion, AllApplied
  <2>8. PICK lines, S : lines = buckets[i] /\ S = Star(i, buckets[i])
    OBVIOUS
  <2>9. Ordered(lines) /\ Holds(lines, i, patches, Applied(i))
    BY <2>8, PassedFacts
  <2>10. PICK j \in DOMAIN lines : lines[j] = Text(p)
    BY <2>4, <2>7, <2>9 DEF Holds, Has
  <2>11. lines[j].bytes = p.new /\ lines[j].at = p.addr
    BY <1>3, <2>4, <2>10, PatchFacts
  <2>12. S[j - 1] = p.addr
    BY <1>2, <2>4, <2>7, <2>8, <2>10, PatchStart
  <2>13. S[j] = p.addr + Len(p.new)
    BY <2>8, <2>9, <2>11, <2>12, StarFacts
  <2>14. Byte(a) = Emitted(i, lines, a)
    BY <1>1, <2>8, OwnerFacts
  <2>15. CASE a - p.addr + 1 <= Len(p.new)
    <3>1. a \in S[j - 1] .. S[j] - 1
      BY <2>6, <2>12, <2>13, <2>15
    <3>2. j \in Put(i, lines, a)
      BY <2>8, <3>1 DEF Put
    <3>3. Emitted(i, lines, a) = p.new[a - p.addr + 1]
      BY <2>8, <2>9, <2>11, <2>12, <3>2, PutOnce
    <3>. QED  BY <1>2, <2>5, <2>14, <2>15, <3>3
  <2>16. CASE ~(a - p.addr + 1 <= Len(p.new))
    <3>1. Len(p.new) < p.span /\ REGIONS[i].hi = p.addr + p.span
      <4>1. \/ Len(p.new) = p.span
            \/ Len(p.new) < p.span /\ REGIONS[i].hi = p.addr + p.span
        BY <1>2, <2>4, <2>7, <2>8, <2>10, PatchEnd
      <4>. QED  BY <2>6, <2>16, <4>1
    <3>2. Len(lines) \in Nat /\ DOMAIN lines = 1 .. Len(lines) /\ j \in 1 .. Len(lines)
      BY <2>9, LineFacts
    <3>3. j = Len(lines)
      <4>1. SUFFICES ASSUME j < Len(lines) PROVE FALSE
        BY <3>2
      <4>2. j + 1 \in DOMAIN lines /\ j < j + 1
        BY <3>2, <4>1
      <4>3. lines[j].at < lines[j + 1].at /\ lines[j + 1].at \in Nat
        BY <2>9, <4>2, LineFacts DEF Ordered
      <4>4. lines[j + 1].at \in Region(i)
        BY <2>8, <4>2, BucketStarts
      <4>5. lines[j + 1].at < REGIONS[i].hi
        BY <4>3, <4>4, RegionFacts DEF Region
      <4>6. lines[j + 1].at \in Span(p)
        BY <2>6, <2>11, <3>1, <4>3, <4>5 DEF Span
      <4>7. lines[j + 1].at = p.addr
        BY <2>4, <2>7, <2>8, <4>2, <4>6, BucketStarts
      <4>. QED  BY <2>6, <2>11, <4>3, <4>7
    <3>4. ASSUME NEW k \in Put(i, lines, a) PROVE FALSE
      <4>1. k \in DOMAIN lines /\ a < S[k]
        <5>1. k \in DOMAIN lines /\ a \in S[k - 1] .. S[k] - 1
          BY <2>8 DEF Put
        <5>2. k \in 0 .. Len(lines)
          BY <3>2, <5>1
        <5>3. S \in [0 .. Len(lines) -> Nat]
          BY <2>8, <2>9, StarFacts
        <5>4. S[k] \in Nat
          BY <5>2, <5>3
        <5>. QED  BY <2>6, <5>1, <5>4
      <4>2. k \in 0 .. Len(lines) /\ j \in 0 .. Len(lines) /\ k <= j
        BY <3>2, <3>3, <4>1
      <4>3. S[k] <= S[j] /\ S[k] \in Nat
        BY <2>8, <2>9, <4>2, StarFacts
      <4>. QED  BY <2>6, <2>13, <2>16, <4>1, <4>3
    <3>5. Emitted(i, lines, a) = Fill
      BY <3>4 DEF Emitted
    <3>. QED  BY <1>2, <2>5, <2>14, <2>16, <3>5
  <2>. QED  BY <2>15, <2>16
<1>. QED  BY <1>4, <1>5

LEMMA PassedDeclared == SplitInv => AsDeclared
<1>. SUFFICES ASSUME SplitInv, phase = "accepted",
                     \A i, j \in DOMAIN patches : ~Touch(patches[i], patches[j]),
                     \A i \in DOMAIN patches : patches[i].addr \in Starts,
                     ~Disguised
              PROVE  /\ \A b \in Bank : \A a \in Owned(b) : built[b][a] = Intended(a)
                     /\ \A n \in DOMAIN patches : \A b \in Bank :
                          Owns(b, patches[n].addr) =>
                            \/ Len(patches[n].new) = patches[n].span
                            \/ AtEnd(patches[n]) /\ Len(patches[n].new) < patches[n].span
  BY DEF AsDeclared
<1>1. Passed
  BY DEF Passed
<1>2. ASSUME NEW n \in DOMAIN patches, NEW b \in Bank, Owns(b, patches[n].addr)
      PROVE  \/ Len(patches[n].new) = patches[n].span
             \/ AtEnd(patches[n]) /\ Len(patches[n].new) < patches[n].span
  <2>1. PICK i \in DOMAIN REGIONS : b \in REGIONS[i].banks /\ patches[n].addr \in Region(i)
    BY <1>2 DEF Owns
  <2>2. n \in Applied(i)
    BY <1>1, <2>1, AllApplied
  <2>3. PICK j \in DOMAIN buckets[i] : buckets[i][j] = Text(patches[n])
    BY <1>1, <2>2, PassedFacts DEF Holds, Has
  <2>4. \/ Len(patches[n].new) = patches[n].span
        \/ /\ Len(patches[n].new) < patches[n].span
           /\ REGIONS[i].hi = patches[n].addr + patches[n].span
    BY <1>1, <2>1, <2>3, PatchEnd
  <2>. QED  BY <2>1, <2>4 DEF AtEnd
<1>. QED  BY <1>1, <1>2, PassedImage

(* "EVERY BYTE KEEPS THE ADDRESS IT HAS TODAY" (mkbanks.py:15), whatever   *)
(* the cartridge, its regions and the table: the audit, which looks at the *)
(* bytes outside the spans only, answers for those inside too, but where   *)
(* every byte that moved came to where it finds its own value.             *)
THEOREM AuditIsEnough == Spec => []AsDeclared
BY SplitInvariant, PassedDeclared, PTL

-----------------------------------------------------------------------------
(* A right table: every patch replaces whole lines.                        *)
LEMMA RightPatch ==
  ASSUME SplitInv, Right, NEW n \in DOMAIN patches, NEW i \in DOMAIN REGIONS,
         patches[n].addr \in Region(i)
  PROVE  LET p == patches[n]
         IN  /\ Span(p) \subseteq Region(i) /\ Fits(i, p) /\ REGIONS[i].banks # {}
             /\ Len(p.new) = p.span /\ Place(Text(p)) = Span(p)
             /\ \E a \in Span(p) : p.new[a - p.addr + 1] # Stock[a]
             /\ p.addr \in Starts
             /\ \A m \in DOMAIN Source : Source[m].at \in Span(p) => Place(Source[m]) \subseteq Span(p)
             /\ Within(Source, Span(p)) # <<>>
             /\ p.old = [k \in DOMAIN Within(Source, Span(p)) |-> Within(Source, Span(p))[k].at]
<1>1. PICK p : p = patches[n]
  OBVIOUS
<1>2. /\ p.addr \in Nat /\ p.span \in Nat \ {0} /\ p.addr \in Span(p) /\ Len(p.new) \in Nat
      /\ Text(p).at = p.addr /\ Text(p).bytes = p.new
  BY <1>1, PatchFacts DEF SplitInv, Steps
<1>3. PICK W : W = Within(Source, Span(p))
  OBVIOUS
<1>4. PICK r \in DOMAIN REGIONS :
        /\ Span(p) \subseteq Region(r) /\ REGIONS[r].banks # {}
        /\ Len(p.new) = p.span /\ \E a \in Span(p) : p.new[a - p.addr + 1] # Stock[a]
        /\ p.old = [j \in DOMAIN W |-> W[j].at]
        /\ p.old # <<>> /\ p.old[1] = p.addr
        /\ W[Len(W)].at + Len(W[Len(W)].bytes) = p.addr + p.span
  BY <1>1, <1>3 DEF Right, WellFormed
<1>5. r = i
  BY <1>1, <1>2, <1>4, RegionFacts
<1>6. /\ Ordered(W)
      /\ \A l : Has(W, l) <=> Has(Source, l) /\ l.at \in Span(p)
  <2>1. p.addr \in Int /\ p.addr + p.span - 1 \in Int
    BY <1>2
  <2>. QED  BY <1>3, <2>1, SourceLines, WithinLines DEF Span
<1>7. Len(W) \in Nat /\ DOMAIN W = 1 .. Len(W)
  BY <1>6, LineFacts
<1>8. Len(W) # 0
  <2>1. SUFFICES ASSUME Len(W) = 0 PROVE FALSE
    OBVIOUS
  <2>2. W = <<>>
    BY <1>6, <2>1, EmptySeq DEF Ordered
  <2>3. p.old = W
    BY <1>4, <1>7, <2>1, <2>2
  <2>. QED  BY <1>4, <2>2, <2>3
<1>9. 1 \in DOMAIN W /\ Len(W) \in DOMAIN W /\ W # <<>>
  BY <1>7, <1>8
<1>10. p.addr \in Starts
  <2>1. W[1].at = p.addr
    BY <1>4, <1>9
  <2>2. Has(Source, W[1])
    BY <1>6, <1>9 DEF Has
  <2>. QED  BY <2>1, <2>2 DEF Has, Starts
<1>11. ASSUME NEW m \in DOMAIN Source, Source[m].at \in Span(p)
       PROVE  Place(Source[m]) \subseteq Span(p)
  <2>1. Has(Source, W[Len(W)])
    BY <1>6, <1>9 DEF Has
  <2>2. PICK x \in DOMAIN Source : Source[x] = W[Len(W)]
    BY <2>1 DEF Has
  <2>3. Source[x].at + Len(Source[x].bytes) = p.addr + p.span
    BY <1>4, <2>2
  <2>4. /\ Source[x].at \in Nat /\ Len(Source[x].bytes) \in Nat \ {0}
        /\ Source[m].at \in Nat /\ Len(Source[m].bytes) \in Nat \ {0}
    BY SourceLines
  <2>5. Source[m].at + Len(Source[m].bytes) <= p.addr + p.span
    <3>1. SUFFICES ASSUME p.addr + p.span < Source[m].at + Len(Source[m].bytes) PROVE FALSE
      BY <1>2, <2>4
    <3>2. PICK e : e = p.addr + p.span - 1
      OBVIOUS
    <3>3. e \in Place(Source[x])
      <4>1. PICK u \in Nat, L \in Nat \ {0} : u = Source[x].at /\ L = Len(Source[x].bytes)
        BY <2>4
      <4>2. e = u + L - 1
        <5>1. u + L = p.addr + p.span
          BY <2>3, <4>1
        <5>2. PICK c \in Nat, d \in Nat : c = p.addr /\ d = p.span
          BY <1>2
        <5>3. u + L = c + d /\ e = c + d - 1
          BY <3>2, <5>1, <5>2
        <5>. QED  BY <5>3
      <4>3. e \in u .. u + L - 1
        BY <4>2
      <4>. QED  BY <4>1, <4>3 DEF Place
    <3>4. e \in Place(Source[m])
      <4>1. PICK u \in Nat, L \in Nat \ {0} : u = Source[m].at /\ L = Len(Source[m].bytes)
        BY <2>4
      <4>2. PICK c \in Nat, d \in Nat \ {0} : c = p.addr /\ d = p.span
        BY <1>2
      <4>3. u \in c .. c + d - 1 /\ c + d < u + L /\ e = c + d - 1
        BY <1>11, <3>1, <3>2, <4>1, <4>2 DEF Span
      <4>4. e \in u .. u + L - 1
        BY <4>3
      <4>. QED  BY <4>1, <4>4 DEF Place
    <3>5. x = m
      BY <3>3, <3>4, StockLine
    <3>. QED  BY <1>2, <2>3, <3>1, <3>5
  <2>. QED  BY SMTT(40), <1>2, <1>11, <2>4, <2>5 DEF Place, Span
<1>12. Fits(i, p)
  <2>1. p.addr + p.span - 1 \in Span(p)
    BY <1>2 DEF Span
  <2>2. p.addr + p.span - 1 \in Region(i)
    BY <1>4, <1>5, <2>1
  <2>. QED  BY <1>2, <2>2, RegionFacts DEF Region, Fits
<1>13. Place(Text(p)) = Span(p)
  BY <1>2, <1>4 DEF Place, Span
<1>. QED  BY <1>1, <1>3, <1>4, <1>5, <1>9, <1>10, <1>11, <1>12, <1>13

LEMMA RightApart ==
  ASSUME SplitInv, Right, NEW n \in DOMAIN patches, NEW m \in DOMAIN patches, NEW a,
         a \in Span(patches[n]), a \in Span(patches[m])
  PROVE  n = m
BY DEF Right

(* A patch of a right table writes the bytes it owns and whole lines.      *)
LEMMA RightSpan ==
  ASSUME SplitInv, Right, NEW n \in DOMAIN patches, NEW i \in DOMAIN REGIONS,
         patches[n].addr \in Region(i)
  PROVE  /\ Place(Text(patches[n])) = Span(patches[n])
         /\ \A m \in DOMAIN Source :
              Source[m].at \in Span(patches[n]) => Place(Source[m]) \subseteq Span(patches[n])
BY RightPatch

(* The selftest lets it pass,                                              *)
LEMMA RightSelfTested ==
  ASSUME SplitInv, Right
  PROVE  SelfTested
<1>1. ASSUME NEW n \in DOMAIN patches, NEW m \in DOMAIN patches, n # m
      PROVE  Disjoint(patches[n], patches[m])
  <2>1. /\ patches[n].addr \in Nat /\ patches[n].span \in Nat \ {0}
        /\ patches[m].addr \in Nat /\ patches[m].span \in Nat \ {0}
        /\ patches[n].addr \in Span(patches[n]) /\ patches[m].addr \in Span(patches[m])
    BY PatchFacts DEF SplitInv, Steps
  <2>2. patches[n].addr \notin Span(patches[m]) /\ patches[m].addr \notin Span(patches[n])
    BY <1>1, <2>1, RightApart
  <2>. QED  BY <2>1, <2>2 DEF Span, Disjoint
<1>. QED  BY <1>1 DEF SelfTested, Right

(* a patch finds the lines it expects, whichever were applied before,      *)
LEMMA RightMatches ==
  ASSUME SplitInv, Right, phase = "apply", next <= Len(patches),
         NEW i \in DOMAIN REGIONS, patches[next].addr \in Region(i)
  PROVE  Fits(i, patches[next]) /\ Matches(i, patches[next])
<1>1. /\ next \in 1 .. Len(patches) + 1 /\ \E t \in Tables : patches = t.patches
      /\ DOMAIN buckets = DOMAIN REGIONS /\ Filed
  BY DEF SplitInv, Steps
<1>2. next \in DOMAIN patches /\ next \in Nat /\ \A n \in 1 .. next - 1 : n \in DOMAIN patches /\ n # next
  BY <1>1, PatchFacts
<1>3. PICK p, lines, A : p = patches[next] /\ lines = buckets[i] /\ A = Applied(i)
  OBVIOUS
<1>4. Holds(lines, i, patches, A) /\ Ordered(lines)
  BY <1>1, <1>3 DEF Filed, Holds
<1>5. PICK V, W : V = Within(lines, Span(p)) /\ W = Within(Source, Span(p))
  OBVIOUS
<1>6. /\ Span(p) \subseteq Region(i) /\ Fits(i, p) /\ W # <<>>
      /\ p.old = [k \in DOMAIN W |-> W[k].at]
  BY <1>2, <1>3, <1>5, RightPatch
<1>7. p.addr \in Int /\ p.addr + p.span - 1 \in Int
  BY <1>1, <1>2, <1>3, PatchFacts
<1>8. /\ Ordered(V) /\ \A l : Has(V, l) <=> Has(lines, l) /\ l.at \in Span(p)
      /\ Ordered(W) /\ \A l : Has(W, l) <=> Has(Source, l) /\ l.at \in Span(p)
  BY <1>4, <1>5, <1>7, SourceLines, WithinLines DEF Span
<1>9. ASSUME NEW n \in A, NEW a, a \in Span(p) PROVE a \notin Span(patches[n])
  <2>1. n \in 1 .. next - 1
    BY <1>3 DEF Applied
  <2>. QED  BY <1>2, <1>3, <1>9, <2>1, RightApart
<1>10. ASSUME NEW l, l.at \in Span(p) PROVE Has(V, l) <=> Has(W, l)
  <2>1. ASSUME Has(V, l) PROVE Has(W, l)
    <3>1. PICK j \in DOMAIN lines : lines[j] = l
      BY <1>8, <2>1 DEF Has
    <3>2. CASE Kept(i, l, patches, A)
      BY <1>8, <1>10, <3>2 DEF Kept
    <3>3. CASE \E n \in A : l = Text(patches[n])
      <4>1. PICK n \in A : l = Text(patches[n])
        BY <3>3
      <4>2. n \in DOMAIN patches
        BY <1>2, <1>3, <4>1 DEF Applied
      <4>3. l.at \in Span(patches[n])
        BY <1>1, <4>1, <4>2, PatchFacts
      <4>. QED  BY <1>9, <1>10, <4>1, <4>3
    <3>. QED  BY <1>4, <3>1, <3>2, <3>3 DEF Holds
  <2>2. ASSUME Has(W, l) PROVE Has(V, l)
    <3>1. Has(Source, l)
      BY <1>8, <2>2
    <3>2. Kept(i, l, patches, A)
      BY <1>6, <1>9, <1>10, <3>1 DEF Kept
    <3>3. Has(lines, l)
      BY <1>4, <3>1, <3>2 DEF Holds, Has
    <3>. QED  BY <1>8, <1>10, <3>3
  <2>. QED  BY <2>1, <2>2
<1>11. ASSUME NEW j \in DOMAIN V PROVE \E k \in DOMAIN W : V[j].at = W[k].at
  <2>1. Has(V, V[j])
    BY DEF Has
  <2>2. Has(W, V[j])
    BY <1>8, <1>10, <2>1
  <2>. QED  BY <2>2 DEF Has
<1>12. ASSUME NEW k \in DOMAIN W PROVE \E j \in DOMAIN V : V[j].at = W[k].at
  <2>1. Has(W, W[k])
    BY DEF Has
  <2>2. Has(V, W[k])
    BY <1>8, <1>10, <2>1
  <2>. QED  BY <2>2 DEF Has
<1>13. [j \in DOMAIN V |-> V[j].at] = [k \in DOMAIN W |-> W[k].at]
  BY <1>8, <1>11, <1>12, SameOrder
<1>14. Old(lines, p) = p.old
  BY <1>5, <1>6, <1>13 DEF Old
<1>15. Covered(lines, p) # {}
  <2>1. 1 \in DOMAIN W
    BY <1>6, <1>8, LineFacts, EmptySeq DEF Ordered
  <2>2. PICK j \in DOMAIN V : TRUE
    BY <1>12, <2>1
  <2>3. Has(V, V[j])
    BY DEF Has
  <2>4. Has(lines, V[j]) /\ V[j].at \in Span(p)
    BY <1>8, <2>3
  <2>. QED  BY <2>4 DEF Has, Covered, At
<1>. QED  BY <1>3, <1>6, <1>14, <1>15 DEF Matches

(* the lines then fill the region without a gap,                           *)
Full(i, lines) ==
  /\ Ordered(lines)
  /\ \A k \in DOMAIN lines : lines[k].at \in Place(lines[k]) /\ Place(lines[k]) \subseteq Region(i)
  /\ \A k, m \in DOMAIN lines : \A a : a \in Place(lines[k]) /\ a \in Place(lines[m]) => k = m
  /\ \A a \in Region(i) : \E k \in DOMAIN lines : a \in Place(lines[k])

Ready == SplitInv /\ Right /\ phase \in {"apply", "audit"} /\ next > Len(patches)

LEMMA ReadyFacts ==
  ASSUME Ready, NEW i \in DOMAIN REGIONS
  PROVE  /\ SplitInv /\ Right
         /\ \E t \in Tables : patches = t.patches
         /\ Holds(buckets[i], i, patches, Applied(i)) /\ Ordered(buckets[i])
         /\ Applied(i) = {n \in DOMAIN patches : patches[n].addr \in Region(i)}
<1>1. /\ next \in 1 .. Len(patches) + 1 /\ next > Len(patches) /\ \E t \in Tables : patches = t.patches
      /\ SplitInv /\ Right /\ DOMAIN buckets = DOMAIN REGIONS /\ Filed
  BY DEF Ready, SplitInv, Steps
<1>2. DOMAIN patches = 1 .. Len(patches) /\ Len(patches) \in Nat
  BY <1>1, PatchFacts
<1>3. 1 .. next - 1 = DOMAIN patches
  BY <1>1, <1>2
<1>4. Applied(i) = {n \in DOMAIN patches : patches[n].addr \in Region(i)}
  BY <1>3 DEF Applied
<1>. QED  BY <1>1, <1>4 DEF Filed, Holds

LEMMA ReadyLines ==
  ASSUME Ready, NEW i \in DOMAIN REGIONS, NEW k \in DOMAIN buckets[i]
  PROVE  \/ \E m \in DOMAIN Source :
              /\ buckets[i][k] = Source[m] /\ Place(Source[m]) \subseteq Region(i)
              /\ \A n \in DOMAIN patches : Source[m].at \notin Span(patches[n])
         \/ \E n \in DOMAIN patches :
              /\ buckets[i][k] = Text(patches[n]) /\ patches[n].addr \in Region(i)
              /\ Place(Text(patches[n])) = Span(patches[n])
<1>1. /\ SplitInv /\ Right
      /\ \E t \in Tables : patches = t.patches
      /\ Holds(buckets[i], i, patches, Applied(i))
      /\ Applied(i) = {n \in DOMAIN patches : patches[n].addr \in Region(i)}
  BY ReadyFacts
<1>2. CASE Kept(i, buckets[i][k], patches, Applied(i))
  <2>1. PICK m \in DOMAIN Source : Source[m] = buckets[i][k]
    BY <1>2 DEF Kept, Has
  <2>2. Source[m].at \in Region(i) /\ Place(Source[m]) \subseteq Region(i)
    BY <1>2, <2>1, SourceLines, StockLine DEF Kept
  <2>3. ASSUME NEW n \in DOMAIN patches, Source[m].at \in Span(patches[n]) PROVE FALSE
    <3>1. PICK r \in DOMAIN REGIONS : Span(patches[n]) \subseteq Region(r)
      BY <1>1 DEF Right, WellFormed
    <3>2. r = i
      BY <2>2, <2>3, <3>1, RegionFacts
    <3>3. patches[n].addr \in Region(i)
      BY <1>1, <3>1, <3>2, PatchFacts
    <3>4. n \in Applied(i)
      BY <1>1, <3>3
    <3>. QED  BY <1>2, <2>1, <2>3, <3>4 DEF Kept
  <2>. QED  BY <2>1, <2>2, <2>3
<1>3. CASE \E n \in Applied(i) : buckets[i][k] = Text(patches[n])
  <2>1. PICK n \in DOMAIN patches : buckets[i][k] = Text(patches[n]) /\ patches[n].addr \in Region(i)
    BY <1>1, <1>3
  <2>2. Place(Text(patches[n])) = Span(patches[n])
    BY <1>1, <2>1, RightPatch
  <2>. QED  BY <2>1, <2>2
<1>. QED  BY <1>1, <1>2, <1>3 DEF Holds

LEMMA ReadyFull ==
  ASSUME Ready, NEW i \in DOMAIN REGIONS
  PROVE  Full(i, buckets[i])
<1>1. PICK lines : lines = buckets[i]
  OBVIOUS
<1>2. /\ SplitInv /\ Right
      /\ \E t \in Tables : patches = t.patches
      /\ Holds(lines, i, patches, Applied(i)) /\ Ordered(lines)
      /\ Applied(i) = {n \in DOMAIN patches : patches[n].addr \in Region(i)}
  BY <1>1, ReadyFacts
<1>3. ASSUME NEW k \in DOMAIN lines
      PROVE  lines[k].at \in Place(lines[k]) /\ Place(lines[k]) \subseteq Region(i)
  <2>1. CASE \E m \in DOMAIN Source : lines[k] = Source[m] /\ Place(Source[m]) \subseteq Region(i)
    BY <2>1, SourceLines
  <2>2. ASSUME NEW n \in DOMAIN patches, lines[k] = Text(patches[n]), patches[n].addr \in Region(i),
               Place(Text(patches[n])) = Span(patches[n])
        PROVE  lines[k].at \in Place(lines[k]) /\ Place(lines[k]) \subseteq Region(i)
    <3>1. Span(patches[n]) \subseteq Region(i)
      BY <1>2, <2>2, RightPatch
    <3>2. Text(patches[n]).at \in Span(patches[n])
      BY <1>2, PatchFacts
    <3>. QED  BY <2>2, <3>1, <3>2
  <2>. QED  BY <1>1, <2>1, <2>2, ReadyLines
<1>4. ASSUME NEW m \in DOMAIN Source, NEW n \in DOMAIN patches, NEW a,
             Source[m].at \notin Span(patches[n]), patches[n].addr \in Region(i),
             a \in Place(Source[m]), a \in Span(patches[n])
      PROVE  FALSE
  <2>1. /\ patches[n].addr \in Nat /\ patches[n].span \in Nat \ {0} /\ patches[n].addr \in Starts
        /\ Source[m].at \in Nat /\ Len(Source[m].bytes) \in Nat
    BY <1>2, <1>4, PatchFacts, RightPatch, SourceLines
  <2>2. a \in Int /\ Source[m].at <= a /\ patches[n].addr <= a /\ a < patches[n].addr + patches[n].span
        /\ a < Source[m].at + Len(Source[m].bytes)
    <3>1. a \in Int /\ Source[m].at <= a /\ a < Source[m].at + Len(Source[m].bytes)
      BY <1>4, <2>1, InPlace
    <3>2. patches[n].addr <= a /\ a < patches[n].addr + patches[n].span
      BY <1>4, <2>1, <3>1 DEF Span
    <3>. QED  BY <3>1, <3>2
  <2>3. Source[m].at < patches[n].addr
    BY <1>4, <2>1, <2>2 DEF Span
  <2>4. patches[n].addr \in Place(Source[m])
    BY <2>1, <2>2, <2>3 DEF Place
  <2>5. patches[n].addr = Source[m].at
    BY <2>1, <2>4, NoneWithin
  <2>. QED  BY <2>1, <2>3, <2>5
<1>5. ASSUME NEW k \in DOMAIN lines, NEW x \in DOMAIN lines, NEW a, a \in Place(lines[k]), a \in Place(lines[x])
      PROVE  lines[k] = lines[x]
  <2>1. ASSUME NEW m \in DOMAIN Source, lines[k] = Source[m],
               \A n \in DOMAIN patches : Source[m].at \notin Span(patches[n])
        PROVE  lines[k] = lines[x]
    <3>1. CASE \E y \in DOMAIN Source : lines[x] = Source[y]
      BY <1>5, <2>1, <3>1, StockLine
    <3>2. ASSUME NEW n \in DOMAIN patches, lines[x] = Text(patches[n]), patches[n].addr \in Region(i),
                 Place(Text(patches[n])) = Span(patches[n])
          PROVE  FALSE
      BY <1>4, <1>5, <2>1, <3>2
    <3>. QED  BY <1>1, <3>1, <3>2, ReadyLines
  <2>2. ASSUME NEW n \in DOMAIN patches, lines[k] = Text(patches[n]), patches[n].addr \in Region(i),
               Place(Text(patches[n])) = Span(patches[n])
        PROVE  lines[k] = lines[x]
    <3>1. ASSUME NEW m \in DOMAIN Source, lines[x] = Source[m],
                 \A y \in DOMAIN patches : Source[m].at \notin Span(patches[y])
          PROVE  FALSE
      BY <1>4, <1>5, <2>2, <3>1
    <3>2. ASSUME NEW y \in DOMAIN patches, lines[x] = Text(patches[y]),
                 Place(Text(patches[y])) = Span(patches[y])
          PROVE  lines[k] = lines[x]
      <4>1. y = n
        BY <1>2, <1>5, <2>2, <3>2, RightApart
      <4>. QED  BY <2>2, <3>2, <4>1
    <3>. QED  BY <1>1, <3>1, <3>2, ReadyLines
  <2>. QED  BY <1>1, <2>1, <2>2, ReadyLines
<1>6. \A k, x \in DOMAIN lines : \A a : a \in Place(lines[k]) /\ a \in Place(lines[x]) => k = x
  BY <1>2, <1>5, LineFacts
<1>7. ASSUME NEW a \in Region(i) PROVE \E k \in DOMAIN lines : a \in Place(lines[k])
  <2>1. PICK m \in DOMAIN Source : a \in Place(Source[m])
    BY OwnerFacts, StockLine
  <2>2. Place(Source[m]) \subseteq Region(i) /\ Source[m].at \in Region(i)
    BY <2>1, SourceLines, StockLine
  <2>3. CASE \E n \in Applied(i) : Source[m].at \in Span(patches[n])
    <3>1. PICK n \in Applied(i) : Source[m].at \in Span(patches[n])
      BY <2>3
    <3>2. n \in DOMAIN patches /\ patches[n].addr \in Region(i)
      BY <1>2
    <3>3. a \in Place(Text(patches[n]))
      <4>1. Place(Source[m]) \subseteq Span(patches[n])
        BY <1>2, <3>1, <3>2, RightSpan
      <4>2. Place(Text(patches[n])) = Span(patches[n])
        BY <1>2, <3>2, RightSpan
      <4>. QED  BY <2>1, <4>1, <4>2
    <3>. QED  BY <1>2, <3>1, <3>3 DEF Holds, Has
  <2>4. CASE \A n \in Applied(i) : Source[m].at \notin Span(patches[n])
    <3>1. Kept(i, Source[m], patches, Applied(i))
      BY <2>2, <2>4 DEF Kept, Has
    <3>. QED  BY <1>2, <2>1, <3>1 DEF Holds, Has
  <2>. QED  BY <2>3, <2>4
<1>. QED  BY <1>1, <1>2, <1>3, <1>6, <1>7 DEF Full

(* so that each is assembled where it was and the last ends at the end,    *)
LEMMA FullNext ==
  ASSUME NEW i \in DOMAIN REGIONS, NEW lines, Full(i, lines)
  PROVE  LET N == Len(lines)
             Start(k) == IF k = N + 1 THEN REGIONS[i].hi ELSE lines[k].at
         IN  /\ Start(1) = REGIONS[i].lo
             /\ \A k \in 1 .. N : lines[k].at + Len(lines[k].bytes) = Start(k + 1)
<1>1. PICK N \in Nat : N = Len(lines) /\ DOMAIN lines = 1 .. N
  BY LineFacts DEF Full
<1>2. PICK lo \in Nat, hi \in Nat : lo = REGIONS[i].lo /\ hi = REGIONS[i].hi /\ lo <= hi
  BY RegionFacts
<1>3. Region(i) = lo .. hi - 1
  BY <1>2 DEF Region
<1>4. ASSUME NEW k \in 1 .. N
      PROVE  /\ lines[k].at \in Nat /\ Len(lines[k].bytes) \in Nat \ {0}
             /\ lo <= lines[k].at /\ lines[k].at + Len(lines[k].bytes) <= hi
  <2>1. lines[k].at \in Nat /\ Len(lines[k].bytes) \in Nat /\ lines[k].at \in Place(lines[k])
        /\ Place(lines[k]) \subseteq Region(i)
    BY <1>1, LineFacts DEF Full
  <2>2. Len(lines[k].bytes) # 0
    BY <2>1 DEF Place
  <2>3. PICK u \in Nat, L \in Nat \ {0} : u = lines[k].at /\ L = Len(lines[k].bytes)
    BY <2>1, <2>2
  <2>4. u \in lo .. hi - 1 /\ u + L - 1 \in lo .. hi - 1
    <3>1. u + L - 1 \in Place(lines[k])
      BY <2>3 DEF Place
    <3>. QED  BY <1>3, <2>1, <2>3, <3>1
  <2>5. lo <= u /\ u + L <= hi
    BY <2>4
  <2>. QED  BY <2>3, <2>5
<1>5. \A k, m \in 1 .. N : k < m => lines[k].at < lines[m].at
  BY <1>1 DEF Full, Ordered
<1>6. ASSUME NEW k \in 1 .. N, NEW m \in 1 .. N, NEW a, a \in Place(lines[k]), a \in Place(lines[m])
      PROVE  k = m
  BY <1>1, <1>6 DEF Full
<1>7. (IF 1 = N + 1 THEN hi ELSE lines[1].at) = lo
  <2>1. CASE lo = hi
    <3>1. N = 0
      <4>1. SUFFICES ASSUME N # 0 PROVE FALSE
        OBVIOUS
      <4>2. 1 \in 1 .. N
        BY <4>1
      <4>. QED  BY <1>4, <2>1, <4>2
    <3>. QED  BY <2>1, <3>1
  <2>2. CASE lo < hi
    <3>1. lo \in Region(i)
      BY <1>3, <2>2
    <3>2. PICK k \in 1 .. N : lo \in Place(lines[k])
      BY <1>1, <3>1 DEF Full
    <3>3. lines[k].at = lo
      <4>1. lines[k].at <= lo
        BY <3>2, <1>4 DEF Place
      <4>. QED  BY <1>4, <4>1
    <3>4. k = 1
      <4>1. SUFFICES ASSUME 1 < k PROVE FALSE
        OBVIOUS
      <4>2. 1 \in 1 .. N
        BY <4>1
      <4>3. lines[1].at < lo
        BY <1>5, <3>3, <4>1, <4>2
      <4>. QED  BY <1>4, <4>2, <4>3
    <3>. QED  BY <3>3, <3>4
  <2>. QED  BY <1>2, <2>1, <2>2
<1>8. ASSUME NEW k \in 1 .. N
      PROVE  lines[k].at + Len(lines[k].bytes) = IF k + 1 = N + 1 THEN hi ELSE lines[k + 1].at
  <2>1. PICK u \in Nat, L \in Nat \ {0}, e \in Nat :
          u = lines[k].at /\ L = Len(lines[k].bytes) /\ e = u + L
    BY <1>4
  <2>2. Place(lines[k]) = u .. e - 1 /\ lo <= u /\ e <= hi
    <3>1. Place(lines[k]) = u .. e - 1
      BY <2>1 DEF Place
    <3>. QED  BY <1>4, <2>1, <3>1
  <2>3. ASSUME NEW m \in 1 .. N, lines[m].at \in u .. e - 1 PROVE m = k
    <3>1. lines[m].at \in Place(lines[m])
      BY <1>1 DEF Full
    <3>. QED  BY <1>6, <2>2, <2>3, <3>1
  <2>4. CASE e = hi
    <3>1. k = N
      <4>1. SUFFICES ASSUME k < N PROVE FALSE
        OBVIOUS
      <4>2. k + 1 \in 1 .. N /\ k < k + 1 /\ k + 1 # k
        BY <4>1
      <4>3. u < lines[k + 1].at
        BY <1>5, <2>1, <4>2
      <4>4. lines[k + 1].at \in Nat /\ lines[k + 1].at < hi
        BY <1>4, <4>2
      <4>5. lines[k + 1].at \in u .. e - 1
        BY <2>4, <4>3, <4>4
      <4>. QED  BY <2>3, <4>2, <4>5
    <3>. QED  BY <2>1, <2>4, <3>1
  <2>5. CASE e < hi
    <3>1. e \in Region(i)
      BY <1>3, <2>1, <2>2, <2>5
    <3>2. PICK m \in 1 .. N : e \in Place(lines[m])
      BY <1>1, <3>1 DEF Full
    <3>3. lines[m].at = e
      <4>1. lines[m].at <= e /\ lines[m].at \in Nat /\ e < lines[m].at + Len(lines[m].bytes)
        BY <1>4, <2>1, <3>2, InPlace
      <4>2. ASSUME lines[m].at < e PROVE FALSE
        <5>1. e - 1 \in Place(lines[m])
          <6>1. PICK v \in Nat, M \in Nat : v = lines[m].at /\ M = Len(lines[m].bytes)
            BY <1>4
          <6>2. e - 1 \in Int /\ v <= e - 1 /\ e - 1 < v + M
            <7>1. v <= e /\ e < v + M /\ v < e
              BY <4>1, <4>2, <6>1
            <7>. QED  BY <7>1
          <6>. QED  BY <6>1, <6>2, InPlace
        <5>2. e - 1 \in Place(lines[k])
          BY <2>1, <2>2
        <5>3. m = k
          BY <1>6, <5>1, <5>2
        <5>. QED  BY <2>1, <2>2, <3>2, <5>3
      <4>. QED  BY <2>1, <4>1, <4>2
    <3>4. k < m
      <4>1. ~(m < k) /\ m # k
        BY <1>5, <2>1, <3>3
      <4>. QED  BY <4>1
    <3>5. m = k + 1
      <4>1. SUFFICES ASSUME k + 1 < m PROVE FALSE
        BY <3>4
      <4>2. k + 1 \in 1 .. N /\ k < k + 1 /\ k + 1 # k
        BY <4>1
      <4>3. u < lines[k + 1].at /\ lines[k + 1].at < e /\ lines[k + 1].at \in Nat
        BY <1>4, <1>5, <2>1, <3>3, <4>1, <4>2
      <4>4. lines[k + 1].at \in u .. e - 1
        BY <2>1, <4>3
      <4>. QED  BY <2>3, <4>2, <4>4
    <3>. QED  BY <2>1, <3>3, <3>5
  <2>. QED  BY <1>2, <2>1, <2>2, <2>4, <2>5
<1>. QED  BY <1>1, <1>2, <1>7, <1>8

LEMMA FullStar ==
  ASSUME NEW i \in DOMAIN REGIONS, NEW lines, Full(i, lines)
  PROVE  /\ \A k \in DOMAIN lines : Star(i, lines)[k - 1] = lines[k].at
         /\ Star(i, lines)[Len(lines)] = REGIONS[i].hi
<1>1. PICK N \in Nat : N = Len(lines) /\ DOMAIN lines = 1 .. N
  BY LineFacts DEF Full
<1>. DEFINE Start(k) == IF k = N + 1 THEN REGIONS[i].hi ELSE lines[k].at
            S == Star(i, lines)
<1>2. Start(1) = REGIONS[i].lo /\ \A k \in 1 .. N : lines[k].at + Len(lines[k].bytes) = Start(k + 1)
  BY <1>1, FullNext
<1>3. S[0] = REGIONS[i].lo /\ \A k \in 1 .. N : S[k] = S[k - 1] + Len(lines[k].bytes)
  BY <1>1, StarFacts DEF Full
<1>. HIDE DEF S
<1>4. PICK P : P = {k \in 0 .. N : S[k] = Start(k + 1)}
  OBVIOUS
<1>5. 0 \in P
  BY <1>2, <1>3, <1>4
<1>6. ASSUME NEW k \in 0 .. N - 1, k \in P PROVE k + 1 \in P
  <2>1. k + 1 \in 1 .. N /\ (k + 1) - 1 = k /\ k + 1 # N + 1
    OBVIOUS
  <2>2. S[k] = lines[k + 1].at
    BY <1>4, <1>6, <2>1
  <2>3. S[k + 1] = lines[k + 1].at + Len(lines[k + 1].bytes)
    BY <1>3, <2>1, <2>2
  <2>4. S[k + 1] = Start((k + 1) + 1)
    BY <1>2, <2>1, <2>3
  <2>. QED  BY <1>4, <2>1, <2>4
<1>7. 0 .. N \subseteq P
  BY <1>5, <1>6, UpTo
<1>8. S[N] = REGIONS[i].hi
  <2>1. N \in P
    BY <1>7
  <2>. QED  BY <1>4, <2>1
<1>9. ASSUME NEW k \in 1 .. N PROVE S[k - 1] = lines[k].at
  <2>1. k - 1 \in P /\ (k - 1) + 1 = k /\ k # N + 1
    BY <1>7
  <2>. QED  BY <1>4, <2>1
<1>. QED  BY <1>1, <1>8, <1>9 DEF S

(* an address holds the byte of the line it is in,                         *)
LEMMA ReadyByte ==
  ASSUME Ready, NEW i \in DOMAIN REGIONS, NEW k \in DOMAIN buckets[i], NEW a \in Place(buckets[i][k])
  PROVE  Byte(a) = buckets[i][k].bytes[a - buckets[i][k].at + 1] /\ a \in Region(i)
<1>1. PICK lines, S : lines = buckets[i] /\ S = Star(i, buckets[i])
  OBVIOUS
<1>2. Full(i, lines)
  BY <1>1, ReadyFull
<1>3. a \in Region(i)
  BY <1>1, <1>2 DEF Full
<1>4. S[k - 1] = lines[k].at /\ S[k] = lines[k].at + Len(lines[k].bytes)
  <2>1. S[k - 1] = lines[k].at
    BY <1>1, <1>2, FullStar
  <2>2. S[k] = S[k - 1] + Len(lines[k].bytes)
    BY <1>1, <1>2, StarFacts DEF Full
  <2>. QED  BY <2>1, <2>2
<1>5. k \in Put(i, lines, a)
  <2>1. Place(lines[k]) = S[k - 1] .. S[k] - 1
    <3>1. PICK u \in Nat, L \in Nat : u = lines[k].at /\ L = Len(lines[k].bytes)
      BY <1>1, <1>2, LineFacts DEF Full
    <3>2. S[k - 1] = u /\ S[k] = u + L
      BY <1>4, <3>1
    <3>3. Place(lines[k]) = u .. u + L - 1
      BY <3>1 DEF Place
    <3>. QED  BY <3>2, <3>3
  <2>. QED  BY <1>1, <2>1 DEF Put
<1>6. Emitted(i, lines, a) = lines[k].bytes[a - lines[k].at + 1]
  BY <1>1, <1>2, <1>4, <1>5, PutOnce DEF Full
<1>. QED  BY <1>1, <1>3, <1>6, OwnerFacts

(* and the audit finds what was declared.                                  *)
LEMMA ReadyAudit ==
  ASSUME Ready, phase = "audit"
  PROVE  Audited
<1>0. /\ SplitInv /\ Right /\ \E t \in Tables : patches = t.patches
      /\ spans = Have
      /\ built = [b \in Bank |-> [a \in Owned(b) |-> Byte(a)]]
  BY DEF Ready, SplitInv, Steps, Right
<1>1. ASSUME NEW b \in Bank, NEW a \in DOMAIN Stock, Owns(b, a) PROVE built[b][a] = Byte(a)
  BY <1>0, <1>1 DEF Owned
<1>2. ASSUME NEW a \in Changed PROVE a \in Allowed
  <2>1. PICK b \in Bank : a \in DOMAIN Stock /\ Owns(b, a) /\ built[b][a] # Stock[a]
    BY DEF Changed
  <2>2. PICK i \in DOMAIN REGIONS : a \in Region(i)
    BY <2>1 DEF Owns
  <2>3. Byte(a) # Stock[a]
    BY <1>1, <2>1
  <2>4. PICK k \in DOMAIN buckets[i] : a \in Place(buckets[i][k])
    BY <2>2, ReadyFull DEF Full
  <2>5. Byte(a) = buckets[i][k].bytes[a - buckets[i][k].at + 1]
    BY <2>4, ReadyByte
  <2>6. ~\E m \in DOMAIN Source : buckets[i][k] = Source[m]
    BY <2>3, <2>4, <2>5, StockLine
  <2>7. PICK n \in DOMAIN patches : /\ buckets[i][k] = Text(patches[n])
                                    /\ Place(Text(patches[n])) = Span(patches[n])
    BY <2>6, ReadyLines
  <2>8. PICK s : s = [addr |-> patches[n].addr, span |-> patches[n].span]
    OBVIOUS
  <2>9. s \in spans /\ a \in Span(s)
    BY <1>0, <2>4, <2>7, <2>8 DEF Have, Span
  <2>. QED  BY <2>9 DEF Allowed
<1>3. ASSUME NEW s \in spans PROVE Span(s) \cap Changed # {}
  <2>1. PICK n \in DOMAIN patches : s = [addr |-> patches[n].addr, span |-> patches[n].span]
    BY <1>0 DEF Have
  <2>2. PICK p : p = patches[n]
    OBVIOUS
  <2>3. Span(s) = Span(p)
    BY <2>1, <2>2 DEF Span
  <2>4. PICK i \in DOMAIN REGIONS : Span(p) \subseteq Region(i)
    BY <1>0, <2>2 DEF Right, WellFormed
  <2>5. p.addr \in Region(i) /\ Text(p).at = p.addr /\ Text(p).bytes = p.new
    BY <1>0, <2>2, <2>4, PatchFacts
  <2>6. PICK a \in Span(p) : p.new[a - p.addr + 1] # Stock[a]
    BY <1>0, <2>2, <2>5, RightPatch
  <2>7. REGIONS[i].banks # {} /\ Place(Text(p)) = Span(p)
    BY <1>0, <2>2, <2>5, RightPatch
  <2>8. PICK b \in REGIONS[i].banks : TRUE
    BY <2>7
  <2>9. a \in Region(i) /\ a \in DOMAIN Stock
    BY <2>4, OwnerFacts
  <2>10. b \in Bank /\ Owns(b, a)
    BY <2>9 DEF Bank, Owns
  <2>11. PICK k \in DOMAIN buckets[i] : buckets[i][k] = Text(p)
    BY <2>2, <2>5, ReadyFacts DEF Holds, Has
  <2>12. Byte(a) = p.new[a - p.addr + 1]
    BY <2>5, <2>7, <2>11, ReadyByte
  <2>13. a \in Changed
    BY <1>1, <2>6, <2>9, <2>10, <2>12 DEF Changed
  <2>. QED  BY <2>3, <2>13
<1>. QED  BY <1>2, <1>3 DEF Audited

LEMMA RightAsBefore ==
  ASSUME UNCHANGED <<patches, spans>>
  PROVE  Right' <=> Right
BY DEF Right, Have, WellFormed

LEMMA NeverTurnedAway ==
  ASSUME SplitInv, NoWolf, [Next]_vars
  PROVE  NoWolf'
<1>1. UNCHANGED <<patches, spans>>
  BY DEF Next, SelfTest, ApplyPatch, Assemble, Audit, vars
<1>2. SUFFICES ASSUME Right PROVE phase' # "rejected"
  BY <1>1, RightAsBefore DEF NoWolf
<1>3. phase # "rejected" /\ SplitInv /\ Right
  BY <1>2 DEF NoWolf
<1>4. CASE SelfTest
  BY <1>3, <1>4, RightSelfTested DEF SelfTest
<1>5. CASE ApplyPatch
  <2>1. phase = "apply" /\ next <= Len(patches)
    BY <1>5 DEF ApplyPatch
  <2>2. \A i \in DOMAIN REGIONS : patches[next].addr \in Region(i)
                                 => Fits(i, patches[next]) /\ Matches(i, patches[next])
    BY <1>3, <2>1, RightMatches
  <2>. QED  BY <1>3, <1>5, <2>2 DEF ApplyPatch
<1>6. CASE Assemble
  <2>1. Ready
    BY <1>3, <1>6 DEF Assemble, Ready
  <2>2. ASSUME NEW i \in DOMAIN REGIONS PROVE ~Overrun(i)
    <3>1. Star(i, buckets[i])[Len(buckets[i])] = REGIONS[i].hi /\ REGIONS[i].hi \in Nat
      BY <2>1, ReadyFull, FullStar, RegionFacts
    <3>. QED  BY <3>1 DEF Overrun
  <2>. QED  BY <1>3, <1>6, <2>2 DEF Assemble
<1>7. CASE Audit
  <2>1. phase = "audit" /\ next = Len(patches) + 1 /\ Len(patches) \in Nat
    BY <1>3, <1>7, PatchFacts DEF Audit, SplitInv, Steps
  <2>2. Ready
    BY <1>3, <2>1 DEF Ready
  <2>. QED  BY <1>7, <2>1, <2>2, ReadyAudit DEF Audit
<1>8. CASE UNCHANGED vars
  BY <1>3, <1>8 DEF vars
<1>. QED  BY <1>4, <1>5, <1>6, <1>7, <1>8 DEF Next

(* "a gate that cries wolf that loudly is not a gate" (check_patch.py:     *)
(* 18-19), for every cartridge and map of regions: a table whose patches   *)
(* replace whole lines by as many bytes, all declared, goes through every  *)
(* step, in whichever order it lists them and however close they lie.      *)
THEOREM RightTablesPass == Spec => []NoWolf
<1>1. Init => NoWolf
  BY DEF Init, NoWolf
<1>2. SplitInv /\ NoWolf /\ [Next]_vars => NoWolf'
  BY NeverTurnedAway
<1>. QED  BY <1>1, <1>2, SplitInvariant, PTL DEF Spec
=============================================================================
