----------------------------- MODULE RelayProofs -----------------------------
(***************************************************************************)
(* The relay's room, for any number of connections, whatever their mix and *)
(* whatever the limits: how many it announces, and that a match has two    *)
(* sides.                                                                  *)
(***************************************************************************)
EXTENDS Relay, Induction, SequenceTheorems, FiniteSetTheorems, TLAPS

-----------------------------------------------------------------------------
(* The inductive invariant.                                                *)
IsSeq(s) == s \in Seq({s[i] : i \in DOMAIN s})

Names == Name \X ({0} \cup Digits)

Shape ==
  /\ conn \in [Client -> {"new", "open", "closed", "refused"}]
  /\ name \in [Client -> {NoName} \cup Names]
  /\ partner \in [Client -> Client \cup {NoClient}]
  /\ client \in Client \cup {NoClient}
  /\ DOMAIN tx = Client /\ DOMAIN down = Client
  /\ DOMAIN up = Client /\ DOMAIN sent = Client
  /\ IsSeq(serving) /\ (serving # <<>> => client # NoClient)
  /\ \A c \in Client : IsSeq(tx[c]) /\ IsSeq(down[c]) /\ IsSeq(up[c]) /\ IsSeq(sent[c])

(* Frames that can still be handled: at most one HELLO of a console, of one *)
(* that has no name yet; goodbye is the last; JOIN only if clients say it.  *)
Hellos(frames) == {i \in DOMAIN frames : frames[i].type = "HELLO"}
WellSaid(frames) ==
  /\ \A i, j \in Hellos(frames) : i = j
  /\ \A i \in Hellos(frames) : frames[i].name \in Name
  /\ \A i \in DOMAIN frames : frames[i].type \in {"BYE", "BAD"} => i = Len(frames)
  /\ \A i \in DOMAIN frames : frames[i].type = "JOIN" => "JOIN" \in Extra

InService(c) == client = c /\ Has(serving, {"HELLO"})

Pending ==
  /\ WellSaid(serving)
  /\ \A c \in Client :
       /\ WellSaid(up[c])
       /\ Has(up[c], {"HELLO"}) \/ InService(c) => name[c] = NoName /\ Has(sent[c], {"HELLO"})
       /\ InService(c) => conn[c] = "open" /\ ~Has(up[c], {"HELLO"})
       /\ name[c] # NoName => Has(sent[c], {"HELLO"})
       /\ Has(up[c], {"BYE", "BAD"}) => Has(sent[c], {"BYE", "BAD"})

Room ==
  /\ \A c \in Open : name[c] # NoName => name[c] \in DOMAIN byName /\ byName[name[c]] = c
  /\ \A n \in DOMAIN byName : n \in Names /\ byName[n] \in Open /\ name[byName[n]] = n
  /\ curplayers = Cardinality(DOMAIN byName)
  /\ \A c \in Client : conn[c] = "new" => name[c] = NoName

(* The last START of a stream gives this lane and this opponent.           *)
Started(frames, role, opp) ==
  \E i \in DOMAIN frames :
    /\ frames[i].type = "START" /\ frames[i].role = role /\ frames[i].opp = opp
    /\ \A j \in DOMAIN frames : frames[j].type = "START" => j <= i

BothSides(c, p) ==
  /\ p \in Open /\ p # c /\ partner[p] = c
  /\ \/ Started(Stream(c), 0, name[p]) /\ Started(Stream(p), 1, name[c])
     \/ Started(Stream(c), 1, name[p]) /\ Started(Stream(p), 0, name[c])

Sides ==
  /\ \A c \in Client : name[c] = NoName => partner[c] = NoClient
  /\ \A c \in Open : partner[c] # NoClient => BothSides(c, partner[c])

-----------------------------------------------------------------------------
(* Sequences of frames.                                                    *)
LEMMA SeqOf ==
  ASSUME NEW S, NEW s \in Seq(S)
  PROVE  IsSeq(s)
<1> DEFINE R == {s[i] : i \in DOMAIN s}
<1>1. Len(s) \in Nat /\ DOMAIN s = 1 .. Len(s)
  BY LenProperties
<1>2. \A i \in 1 .. Len(s) : s[i] \in R
  BY <1>1
<1>3. SubSeq(s, 1, Len(s)) \in Seq(R)
  <2> HIDE DEF R
  <2> QED BY <1>1, <1>2, SubSeqProperties
<1> QED
  BY <1>3, SubSeqFull DEF IsSeq

LEMMA SeqFacts ==
  ASSUME NEW s, IsSeq(s)
  PROVE  Len(s) \in Nat /\ DOMAIN s = 1 .. Len(s)
BY LenProperties DEF IsSeq

LEMMA SeqAppend ==
  ASSUME NEW s, IsSeq(s), NEW e
  PROVE  /\ IsSeq(Append(s, e)) /\ Len(Append(s, e)) = Len(s) + 1
         /\ DOMAIN Append(s, e) = 1 .. Len(s) + 1
         /\ \A i \in 1 .. Len(s) : Append(s, e)[i] = s[i]
         /\ Append(s, e)[Len(s) + 1] = e
<1> DEFINE S == {s[i] : i \in DOMAIN s} \cup {e}
<1>1. s \in Seq(S) /\ e \in S
  BY SeqMonotonic, {s[i] : i \in DOMAIN s} \subseteq S DEF IsSeq
<1> HIDE DEF S
<1>2. Append(s, e) \in Seq(S) /\ Len(Append(s, e)) = Len(s) + 1
  BY <1>1, AppendProperties
<1>3. Len(s) \in Nat
  BY SeqFacts
<1>4. /\ \A i \in 1 .. Len(s) : Append(s, e)[i] = s[i]
      /\ Append(s, e)[Len(s) + 1] = e
  BY <1>1, AppendProperties
<1>5. IsSeq(Append(s, e))
  BY <1>2, SeqOf
<1>6. DOMAIN Append(s, e) = 1 .. Len(s) + 1
  BY <1>2, LenProperties
<1> QED
  BY <1>2, <1>4, <1>5, <1>6

LEMMA SeqSub ==
  ASSUME NEW s, IsSeq(s), NEW m \in Nat \ {0}, NEW n \in 0 .. Len(s), m <= n + 1
  PROVE  /\ IsSeq(SubSeq(s, m, n)) /\ Len(SubSeq(s, m, n)) = n - m + 1
         /\ DOMAIN SubSeq(s, m, n) = 1 .. n - m + 1
         /\ \A i \in 1 .. n - m + 1 : SubSeq(s, m, n)[i] = s[m + i - 1]
<1> DEFINE S == {s[i] : i \in DOMAIN s}
<1>1. Len(s) \in Nat /\ \A i \in 1 .. Len(s) : s[i] \in S
  BY SeqFacts
<1>2. n \in Int /\ m \in Int /\ \A i \in m .. n : i \in 1 .. Len(s)
  BY <1>1
<1> HIDE DEF S
<1>3. SubSeq(s, m, n) \in Seq(S) /\ Len(SubSeq(s, m, n)) = n - m + 1
  <2>1. Len(SubSeq(s, m, n)) = IF m <= n THEN n - m + 1 ELSE 0
    BY <1>1, <1>2, SubSeqProperties
  <2> QED BY <1>1, <1>2, <2>1, SubSeqProperties
<1>4. \A i \in 1 .. n - m + 1 : SubSeq(s, m, n)[i] = s[m + i - 1]
  BY <1>1, <1>2, SubSeqProperties
<1> QED
  BY <1>3, <1>4, SeqOf, LenProperties

LEMMA SeqTail ==
  ASSUME NEW s, IsSeq(s), s # <<>>
  PROVE  Len(s) \in Nat \ {0} /\ Tail(s) = SubSeq(s, 2, Len(s)) /\ Head(s) = s[1]
BY EmptySeq, TailIsSubSeq DEF IsSeq

LEMMA SeqConcat ==
  ASSUME NEW s, IsSeq(s), NEW t, IsSeq(t)
  PROVE  IsSeq(s \o t)
<1> DEFINE S == {s[i] : i \in DOMAIN s} \cup {t[i] : i \in DOMAIN t}
<1>1. s \in Seq(S) /\ t \in Seq(S)
  BY SeqMonotonic, {s[i] : i \in DOMAIN s} \subseteq S, {t[i] : i \in DOMAIN t} \subseteq S
     DEF IsSeq
<1> HIDE DEF S
<1> QED
  BY <1>1, ConcatProperties, SeqOf

LEMMA ConcatAppend ==
  ASSUME NEW s, IsSeq(s), NEW t, IsSeq(t), NEW e
  PROVE  s \o Append(t, e) = Append(s \o t, e)
<1> DEFINE S == {s[i] : i \in DOMAIN s} \cup {t[i] : i \in DOMAIN t} \cup {e}
<1>1. s \in Seq(S) /\ t \in Seq(S) /\ e \in S
  BY SeqMonotonic, {s[i] : i \in DOMAIN s} \subseteq S, {t[i] : i \in DOMAIN t} \subseteq S
     DEF IsSeq
<1> HIDE DEF S
<1>2. <<e>> \in Seq(S) /\ s \o t \in Seq(S)
  BY <1>1, ConcatProperties
<1>3. Append(t, e) = t \o <<e>> /\ Append(s \o t, e) = (s \o t) \o <<e>>
  BY <1>1, <1>2, AppendIsConcat
<1> QED
  BY <1>1, <1>2, <1>3, ConcatAssociative

(* What a send() takes of tx and what it leaves are the same stream.       *)
LEMMA ConcatSplit ==
  ASSUME NEW s, IsSeq(s), NEW t, IsSeq(t), NEW n \in 0 .. Len(t)
  PROVE  (s \o SubSeq(t, 1, n)) \o SubSeq(t, n + 1, Len(t)) = s \o t
<1> DEFINE S == {s[i] : i \in DOMAIN s} \cup {t[i] : i \in DOMAIN t}
           R == {t[i] : i \in DOMAIN t}
<1>1. s \in Seq(S) /\ t \in Seq(S) /\ t \in Seq(R) /\ Len(t) \in Nat
  BY SeqMonotonic, {s[i] : i \in DOMAIN s} \subseteq S, {t[i] : i \in DOMAIN t} \subseteq S, SeqFacts
     DEF IsSeq
<1>2. \A i \in 1 .. Len(t) : t[i] \in S
  BY SeqFacts
<1> HIDE DEF S, R
<1>3. \A i \in 1 .. n : t[i] \in S
  BY <1>1, <1>2
<1>4. \A i \in n + 1 .. Len(t) : t[i] \in S
  BY <1>1, <1>2
<1>5. SubSeq(t, 1, n) \in Seq(S)
  BY <1>1, <1>3, n \in Int, SubSeqProperties
<1>6. SubSeq(t, n + 1, Len(t)) \in Seq(S)
  BY <1>1, <1>4, n + 1 \in Int, Len(t) \in Int, SubSeqProperties
<1>7. SubSeq(t, 1, n) \o SubSeq(t, n + 1, Len(t)) = t
  <2>1. 1 \in 1 .. Len(t) + 1 /\ n \in 1 - 1 .. Len(t) /\ Len(t) \in n .. Len(t)
    BY <1>1
  <2>2. SubSeq(t, 1, n) \o SubSeq(t, n + 1, Len(t)) = SubSeq(t, 1, Len(t))
    BY <1>1, <2>1, ConcatAdjacentSubSeq
  <2> QED BY <1>1, <2>2, SubSeqFull
<1>8. (s \o SubSeq(t, 1, n)) \o SubSeq(t, n + 1, Len(t))
      = s \o (SubSeq(t, 1, n) \o SubSeq(t, n + 1, Len(t)))
  <2> DEFINE a == SubSeq(t, 1, n)
             b == SubSeq(t, n + 1, Len(t))
  <2>1. a \in Seq(S) /\ b \in Seq(S)
    BY <1>5, <1>6
  <2> HIDE DEF a, b
  <2>2. (s \o a) \o b = s \o (a \o b)
    BY <1>1, <2>1, ConcatAssociative, SMTT(30)
  <2> QED
    BY <2>2 DEF a, b
<1> QED
  BY <1>7, <1>8

-----------------------------------------------------------------------------
(* What is queued, when a frame is added, taken from the front or cut off. *)
LEMMA HasAppend ==
  ASSUME NEW s, IsSeq(s), NEW e, NEW T
  PROVE  Has(Append(s, e), T) <=> Has(s, T) \/ e.type \in T
<1>1. Len(s) \in Nat /\ DOMAIN s = 1 .. Len(s)
  BY SeqFacts
<1>2. \A i \in 1 .. Len(s) : i \in 1 .. Len(s) + 1
  BY <1>1
<1>3. Len(s) + 1 \in 1 .. Len(s) + 1
  BY <1>1
<1>4. \A i \in 1 .. Len(s) + 1 : i \in 1 .. Len(s) \/ i = Len(s) + 1
  BY <1>1
<1> HIDE DEF IsSeq
<1>5. CASE Has(s, T)
  BY <1>1, <1>2, <1>5, SeqAppend DEF Has
<1>6. CASE e.type \in T
  BY <1>1, <1>3, <1>6, SeqAppend DEF Has
<1>7. CASE Has(Append(s, e), T)
  BY <1>1, <1>4, <1>7, SeqAppend DEF Has
<1> QED
  BY <1>5, <1>6, <1>7

LEMMA HasSub ==
  ASSUME NEW s, IsSeq(s), NEW m \in Nat \ {0}, NEW n \in 0 .. Len(s), m <= n + 1, NEW T,
         Has(SubSeq(s, m, n), T)
  PROVE  \E i \in m .. n : i \in DOMAIN s /\ s[i].type \in T
<1>1. Len(s) \in Nat /\ DOMAIN s = 1 .. Len(s)
  BY SeqFacts
<1> DEFINE t == SubSeq(s, m, n)
<1>2. DOMAIN t = 1 .. n - m + 1 /\ \A i \in 1 .. n - m + 1 : t[i] = s[m + i - 1]
  BY SeqSub
<1>3. Has(t, T)
  OBVIOUS
<1> HIDE DEF t
<1>4. PICK i \in 1 .. n - m + 1 : s[m + i - 1].type \in T
  BY <1>2, <1>3 DEF Has
<1>5. m + i - 1 \in m .. n /\ m + i - 1 \in 1 .. Len(s)
  BY <1>1
<1> QED
  BY <1>1, <1>4, <1>5

LEMMA WellSaidEmpty ==
  WellSaid(<<>>) /\ IsSeq(<<>>) /\ \A T : ~Has(<<>>, T)
<1>1. IsSeq(<<>>)
  BY EmptySeq DEF IsSeq
<1>2. DOMAIN <<>> = {}
  BY <1>1, SeqFacts, EmptySeq
<1> QED
  BY <1>1, <1>2 DEF WellSaid, Has, Hellos

LEMMA WellSaidAppend ==
  ASSUME NEW s, IsSeq(s), NEW e, WellSaid(s), ~Has(s, {"BYE", "BAD"}),
         e.type = "HELLO" => ~Has(s, {"HELLO"}) /\ e.name \in Name,
         e.type = "JOIN" => "JOIN" \in Extra
  PROVE  WellSaid(Append(s, e))
<1> DEFINE t == Append(s, e)
<1>1. /\ Len(s) \in Nat /\ DOMAIN s = 1 .. Len(s)
      /\ Len(t) = Len(s) + 1 /\ DOMAIN t = 1 .. Len(s) + 1
      /\ \A i \in 1 .. Len(s) : t[i] = s[i]
      /\ t[Len(s) + 1] = e
  BY SeqFacts, SeqAppend
<1> HIDE DEF t
<1>2. \A i \in DOMAIN t : (i \in DOMAIN s /\ t[i] = s[i]) \/ (i = Len(t) /\ t[i] = e)
  BY <1>1
<1>3. \A i \in Hellos(t) : i \in Hellos(s) \/ (i = Len(t) /\ e.type = "HELLO")
  BY <1>2 DEF Hellos
<1>4. e.type = "HELLO" => Hellos(s) = {}
  BY DEF Has, Hellos
<1>5. \A i, j \in Hellos(t) : i = j
  BY <1>3, <1>4 DEF WellSaid
<1>6. \A i \in Hellos(t) : t[i].name \in Name
  BY <1>2 DEF WellSaid, Hellos
<1>7. \A i \in DOMAIN t : t[i].type \in {"BYE", "BAD"} => i = Len(t)
  BY <1>2 DEF Has
<1>8. \A i \in DOMAIN t : t[i].type = "JOIN" => "JOIN" \in Extra
  BY <1>2 DEF WellSaid
<1>9. WellSaid(t)
  BY <1>5, <1>6, <1>7, <1>8 DEF WellSaid
<1> QED
  BY <1>9 DEF t

LEMMA WellSaidSub ==
  ASSUME NEW s, IsSeq(s), WellSaid(s), NEW m \in Nat \ {0}, NEW n \in 0 .. Len(s), m <= n + 1
  PROVE  WellSaid(SubSeq(s, m, n))
<1> DEFINE t == SubSeq(s, m, n)
<1>1. /\ Len(s) \in Nat /\ DOMAIN s = 1 .. Len(s)
      /\ Len(t) = n - m + 1 /\ DOMAIN t = 1 .. n - m + 1
      /\ \A i \in 1 .. n - m + 1 : t[i] = s[m + i - 1]
  BY SeqFacts, SeqSub
<1> HIDE DEF t
<1>2. \A i \in DOMAIN t : m + i - 1 \in DOMAIN s /\ t[i] = s[m + i - 1]
  BY <1>1
<1>3. \A i \in Hellos(t) : m + i - 1 \in Hellos(s)
  BY <1>2 DEF Hellos
<1>4. \A i, j \in Hellos(t) : i = j
  <2>1. SUFFICES ASSUME NEW i \in Hellos(t), NEW j \in Hellos(t) PROVE i = j
    OBVIOUS
  <2>2. m + i - 1 = m + j - 1
    BY <1>3 DEF WellSaid
  <2>3. i \in Int /\ j \in Int
    BY <1>1 DEF Hellos
  <2> QED
    BY <2>2, <2>3
<1>5. \A i \in Hellos(t) : t[i].name \in Name
  BY <1>2, <1>3 DEF WellSaid, Hellos
<1>6. \A i \in DOMAIN t : t[i].type \in {"BYE", "BAD"} => i = Len(t)
  <2>1. SUFFICES ASSUME NEW i \in DOMAIN t, t[i].type \in {"BYE", "BAD"} PROVE i = Len(t)
    OBVIOUS
  <2>2. m + i - 1 = Len(s)
    BY <1>2, <2>1 DEF WellSaid
  <2> QED
    BY <1>1, <2>2
<1>7. \A i \in DOMAIN t : t[i].type = "JOIN" => "JOIN" \in Extra
  BY <1>2 DEF WellSaid
<1>8. WellSaid(t)
  BY <1>4, <1>5, <1>6, <1>7 DEF WellSaid
<1> QED
  BY <1>8 DEF t

(* A HELLO is in one part of a queue that is cut, at most.                 *)
LEMMA HelloCut ==
  ASSUME NEW s, IsSeq(s), WellSaid(s), NEW n \in 0 .. Len(s)
  PROVE  /\ ~(Has(SubSeq(s, 1, n), {"HELLO"}) /\ Has(SubSeq(s, n + 1, Len(s)), {"HELLO"}))
         /\ \A T : Has(SubSeq(s, 1, n), T) => Has(s, T)
         /\ \A T : Has(SubSeq(s, n + 1, Len(s)), T) => Has(s, T)
<1>1. /\ Len(s) \in Nat /\ n + 1 \in Nat \ {0} /\ 1 \in Nat \ {0} /\ Len(s) \in 0 .. Len(s)
      /\ n + 1 <= Len(s) + 1 /\ 1 <= n + 1
  BY SeqFacts
<1>2. \A T : Has(SubSeq(s, 1, n), T) => \E i \in 1 .. n : i \in DOMAIN s /\ s[i].type \in T
  BY <1>1, HasSub
<1>3. \A T : Has(SubSeq(s, n + 1, Len(s)), T) =>
               \E i \in n + 1 .. Len(s) : i \in DOMAIN s /\ s[i].type \in T
  BY <1>1, HasSub
<1>4. ASSUME NEW i \in 1 .. n, NEW j \in n + 1 .. Len(s), i \in Hellos(s), j \in Hellos(s)
      PROVE  FALSE
  BY <1>4 DEF WellSaid
<1> QED
  BY <1>2, <1>3, <1>4 DEF Has, Hellos

(* The frame that is handled next, and what is left after it.              *)
LEMMA HeadOff ==
  ASSUME NEW s, IsSeq(s), WellSaid(s), s # <<>>
  PROVE  /\ IsSeq(Tail(s)) /\ WellSaid(Tail(s))
         /\ Has(Tail(s), {"HELLO"}) => Has(s, {"HELLO"})
         /\ Head(s).type = "HELLO" =>
              Has(s, {"HELLO"}) /\ ~Has(Tail(s), {"HELLO"}) /\ Head(s).name \in Name
         /\ Head(s).type \in {"BYE", "BAD"} => Tail(s) = <<>>
         /\ Head(s).type = "JOIN" => "JOIN" \in Extra
<1>1. Len(s) \in Nat \ {0} /\ Tail(s) = SubSeq(s, 2, Len(s)) /\ Head(s) = s[1]
  BY SeqTail
<1>2. /\ DOMAIN s = 1 .. Len(s) /\ 1 \in DOMAIN s /\ 2 \in Nat \ {0}
      /\ 2 <= Len(s) + 1 /\ Len(s) \in 0 .. Len(s)
  BY <1>1, SeqFacts
<1>3. IsSeq(Tail(s)) /\ WellSaid(Tail(s)) /\ Len(Tail(s)) = Len(s) - 1
  <2> DEFINE n == Len(s)
             t == SubSeq(s, 2, n)
  <2>1. n \in 0 .. Len(s) /\ 2 <= n + 1
    BY <1>2
  <2> HIDE DEF n
  <2>2. IsSeq(t) /\ WellSaid(t) /\ Len(t) = n - 2 + 1
    BY <1>2, <2>1, SeqSub, WellSaidSub
  <2>3. Tail(s) = t
    BY <1>1 DEF n
  <2>4. n - 2 + 1 = Len(s) - 1
    BY <1>1 DEF n
  <2> QED BY <2>2, <2>3, <2>4
<1>4. \A T : Has(Tail(s), T) => \E i \in 2 .. Len(s) : i \in DOMAIN s /\ s[i].type \in T
  BY <1>1, <1>2, HasSub
<1>5. Has(Tail(s), {"HELLO"}) => Has(s, {"HELLO"})
  BY <1>4 DEF Has
<1>6. ASSUME Head(s).type = "HELLO"
      PROVE  Has(s, {"HELLO"}) /\ ~Has(Tail(s), {"HELLO"}) /\ Head(s).name \in Name
  <2>1. 1 \in Hellos(s)
    BY <1>1, <1>2, <1>6 DEF Hellos
  <2>2. \A i \in 2 .. Len(s) : i \notin Hellos(s)
    BY <2>1 DEF WellSaid
  <2>3. ~Has(Tail(s), {"HELLO"})
    BY <1>4, <2>2 DEF Hellos
  <2> QED
    BY <1>1, <2>1, <2>3 DEF WellSaid, Has, Hellos
<1>7. ASSUME Head(s).type \in {"BYE", "BAD"}
      PROVE  Tail(s) = <<>>
  <2>1. 1 = Len(s)
    BY <1>1, <1>2, <1>7 DEF WellSaid
  <2>2. Len(Tail(s)) = 0
    <3>1. Len(s) - 1 = 0
      BY <2>1
    <3> QED BY <1>3, <3>1
  <2>3. IsSeq(Tail(s)) /\ 0 \notin Nat \ {0}
    BY <1>3
  <2> QED
    BY <2>2, <2>3, SeqTail
<1> QED
  BY <1>1, <1>2, <1>3, <1>5, <1>6, <1>7 DEF WellSaid

-----------------------------------------------------------------------------
(* What a step does to the room and to what consoles are sent: nothing but *)
(* frames that are no START, or a console comes, gets its name and perhaps *)
(* an opponent, says JOIN, or leaves.                                      *)
Goes(d) ==
  \/ Stream(d)' = Stream(d)
  \/ \E e : /\ e.type \notin {"START", "PEER_LEFT"}
            /\ e.type = "INPUT" =>
                 client \in Client /\ serving # <<>> /\ d = partner[client] /\ e = Head(serving)
            /\ Stream(d)' = Append(Stream(d), e)

Calm ==
  /\ UNCHANGED <<conn, name, partner, byName, curplayers>>
  /\ \A d \in Client : Goes(d)

Comes(c) ==
  /\ conn[c] = "new" /\ conn' \in {[conn EXCEPT ![c] = k] : k \in {"open", "refused"}}
  /\ UNCHANGED <<name, partner, byName, curplayers>>
  /\ \A d \in Client : Stream(d)' = Stream(d)

Pairs(c) ==
  \/ partner' = partner /\ \A d \in Client : Stream(d)' = Stream(d)
  \/ \E host \in Open \ {c} :
       /\ name'[host] # NoName /\ partner[host] = NoClient
       /\ partner' = [partner EXCEPT ![host] = c, ![c] = host]
       /\ Stream(host)' = Append(Stream(host), Start(0, name'[c]))
       /\ Stream(c)' = Append(Stream(c), Start(1, name'[host]))
       /\ \A d \in Client \ {host, c} : Stream(d)' = Stream(d)

Joins(c) ==
  /\ c \in Open /\ name[c] = NoName
  /\ \E n \in Names \ DOMAIN byName :
       /\ name' = [name EXCEPT ![c] = n]
       /\ byName' = [m \in DOMAIN byName \cup {n} |-> IF m = n THEN c ELSE byName[m]]
  /\ UNCHANGED conn
  /\ LobbyUpdate
  /\ Pairs(c)

Rejoins ==
  /\ "JOIN" \in Extra
  /\ UNCHANGED <<conn, name, byName>>
  /\ LobbyUpdate

Leaves(c) ==
  /\ c \in Open /\ conn' = [conn EXCEPT ![c] = "closed"]
  /\ byName' = [n \in {m \in DOMAIN byName : m = name[c] => byName[m] # c} |-> byName[n]]
  /\ LobbyUpdate
  /\ UNCHANGED name
  /\ partner' = IF partner[c] = NoClient THEN partner
                ELSE [partner EXCEPT ![partner[c]] = NoClient]
  /\ \A d \in Client : Stream(d)' = IF d = partner[c] THEN Append(Stream(d), PeerLeft)
                                   ELSE Stream(d)

RoomStep ==
  Calm \/ Rejoins \/ \E c \in Client : Comes(c) \/ Joins(c) \/ Leaves(c)

(* One more frame for one console.                                         *)
LEMMA OneFrame ==
  ASSUME Shape, NEW p \in Client, NEW e, UNCHANGED down,
         tx' = [tx EXCEPT ![p] = Append(@, e)]
  PROVE  /\ DOMAIN tx' = Client /\ \A d \in Client : IsSeq(tx'[d])
         /\ Stream(p)' = Append(Stream(p), e)
         /\ \A d \in Client \ {p} : Stream(d)' = Stream(d)
<1>1. DOMAIN tx = Client /\ \A d \in Client : IsSeq(tx[d]) /\ IsSeq(down[d])
  BY DEF Shape
<1>2. /\ DOMAIN tx' = Client /\ tx'[p] = Append(tx[p], e)
      /\ \A d \in Client \ {p} : tx'[d] = tx[d]
  BY <1>1
<1>3. IsSeq(tx'[p])
  BY <1>1, <1>2, SeqAppend
<1>4. \A d \in Client : IsSeq(tx'[d])
  BY <1>1, <1>2, <1>3
<1>5. Stream(p)' = Append(Stream(p), e)
  <2>1. Stream(p)' = down[p] \o Append(tx[p], e)
    BY <1>2 DEF Stream
  <2>2. down[p] \o Append(tx[p], e) = Append(down[p] \o tx[p], e)
    <3> DEFINE a == down[p]
               b == tx[p]
    <3>1. IsSeq(a) /\ IsSeq(b)
      BY <1>1
    <3> HIDE DEF a, b
    <3>2. a \o Append(b, e) = Append(a \o b, e)
      BY <3>1, ConcatAppend
    <3> QED
      BY <3>2 DEF a, b
  <2> QED
    BY <2>1, <2>2 DEF Stream
<1> QED
  BY <1>2, <1>4, <1>5 DEF Stream

(* drop, of a connection that is there.  "out" is what the send() before   *)
(* it has left, when there was one.                                        *)
LEMMA Dropping ==
  ASSUME Shape, NEW c \in Open, NEW out, DOMAIN out = Client,
         \A d \in Client : IsSeq(out[d]) /\ IsSeq(down'[d]) /\ down'[d] \o out[d] = Stream(d),
         DropAfter(c, out)
  PROVE  /\ DOMAIN tx' = Client /\ \A d \in Client : IsSeq(tx'[d])
         /\ Leaves(c)
<1>1. /\ conn' = [conn EXCEPT ![c] = "closed"]
      /\ byName' = [n \in {m \in DOMAIN byName : m = name[c] => byName[m] # c} |-> byName[n]]
      /\ Tell(c, out) /\ LobbyUpdate /\ UNCHANGED name
  BY DEF DropAfter
<1>2. c \in Client /\ partner[c] \in Client \cup {NoClient}
  BY DEF Open, Shape
<1>3. CASE partner[c] = NoClient
  <2>1. tx' = out /\ partner' = partner
    BY <1>1, <1>3 DEF Tell
  <2>2. \A d \in Client : Stream(d)' = IF d = partner[c] THEN Append(Stream(d), PeerLeft)
                                     ELSE Stream(d)
    BY <1>3, <2>1, Someone DEF Stream
  <2> QED
    BY <1>1, <1>3, <2>1, <2>2 DEF Leaves
<1>4. CASE partner[c] # NoClient
  <2>1. PICK p \in Client : p = partner[c]
    BY <1>2, <1>4
  <2>2. partner' = [partner EXCEPT ![p] = NoClient] /\ tx' = [out EXCEPT ![p] = Append(@, PeerLeft)]
    BY <1>1, <1>4, <2>1 DEF Tell
  <2>3. /\ DOMAIN tx' = Client /\ tx'[p] = Append(out[p], PeerLeft)
        /\ \A d \in Client \ {p} : tx'[d] = out[d]
    BY <2>1, <2>2
  <2>4. IsSeq(tx'[p])
    BY <2>1, <2>3, SeqAppend
  <2>5. \A d \in Client : IsSeq(tx'[d])
    BY <2>3, <2>4
  <2>6. Stream(p)' = Append(Stream(p), PeerLeft)
    <3> DEFINE a == down'[p]
               b == out[p]
    <3>1. IsSeq(a) /\ IsSeq(b) /\ a \o b = Stream(p)
      BY <2>1
    <3>2. Stream(p)' = a \o tx'[p]
      BY DEF Stream
    <3>3. tx'[p] = Append(b, PeerLeft)
      BY <2>3
    <3> HIDE DEF a, b
    <3>4. a \o Append(b, PeerLeft) = Append(a \o b, PeerLeft)
      BY <3>1, ConcatAppend
    <3> QED
      BY <3>1, <3>2, <3>3, <3>4
  <2>7. \A d \in Client \ {p} : Stream(d)' = Stream(d)
    BY <2>3 DEF Stream
  <2>8. \A d \in Client : Stream(d)' = IF d = partner[c] THEN Append(Stream(d), PeerLeft)
                                     ELSE Stream(d)
    BY <2>1, <2>6, <2>7
  <2> QED
    BY <1>1, <1>4, <2>1, <2>2, <2>3, <2>5, <2>8 DEF Leaves
<1> QED
  BY <1>3, <1>4

(* drop, with nothing sent before it.                                      *)
LEMMA DroppingNow ==
  ASSUME Shape, NEW c \in Client, Drop(c), UNCHANGED down
  PROVE  /\ DOMAIN tx' = Client /\ \A d \in Client : IsSeq(tx'[d])
         /\ Leaves(c) \/ UNCHANGED serverVars
<1>1. CASE c \in Open
  <2>1. DOMAIN tx = Client /\ \A d \in Client : IsSeq(tx[d]) /\ IsSeq(down[d])
    BY DEF Shape
  <2>2. \A d \in Client : IsSeq(tx[d]) /\ IsSeq(down'[d]) /\ down'[d] \o tx[d] = Stream(d)
    BY <2>1 DEF Stream
  <2>3. DropAfter(c, tx)
    BY DEF Drop
  <2> QED
    BY <1>1, <2>1, <2>2, <2>3, Dropping
<1>2. CASE c \notin Open
  BY <1>2 DEF Drop, DropAfter, serverVars, Shape
<1> QED
  BY <1>1, <1>2

(* try_pair, whoever calls it.                                             *)
LEMMA Pairing ==
  ASSUME Shape, NEW c \in Client, TryPair(c), UNCHANGED <<conn, down>>
  PROVE  /\ Pairs(c)
         /\ partner' \in [Client -> Client \cup {NoClient}]
         /\ DOMAIN tx' = Client /\ \A d \in Client : IsSeq(tx'[d])
<1>1. /\ DOMAIN tx = Client /\ \A d \in Client : IsSeq(tx[d]) /\ IsSeq(down[d])
      /\ partner \in [Client -> Client \cup {NoClient}]
  BY DEF Shape
<1>2. CASE UNCHANGED <<partner, tx, crcVars>>
  BY <1>1, <1>2 DEF Pairs, Stream
<1>3. CASE ~UNCHANGED <<partner, tx, crcVars>>
  <2>1. PICK host \in Waiting \ {c} :
          /\ partner' = [partner EXCEPT ![host] = c, ![c] = host]
          /\ tx' = [tx EXCEPT ![host] = Append(@, Start(0, name'[c])),
                              ![c] = Append(@, Start(1, name'[host]))]
    BY <1>3 DEF TryPair
  <2>2. /\ host \in Open \ {c} /\ host \in Client
        /\ name'[host] # NoName /\ partner[host] = NoClient
    BY <2>1 DEF Waiting, Named, Open
  <2> DEFINE a == Start(0, name'[c])
             b == Start(1, name'[host])
  <2>3. /\ DOMAIN tx' = Client
        /\ tx'[host] = Append(tx[host], a) /\ tx'[c] = Append(tx[c], b)
        /\ \A d \in Client \ {host, c} : tx'[d] = tx[d]
    BY <1>1, <2>1, <2>2
  <2> HIDE DEF a, b
  <2>4. IsSeq(Append(tx[host], a)) /\ IsSeq(Append(tx[c], b))
    BY <1>1, <2>2, SeqAppend
  <2>5. \A d \in Client : IsSeq(tx'[d])
    BY <1>1, <2>3, <2>4
  <2>6. Stream(host)' = Append(Stream(host), a)
    <3> DEFINE s == down[host]
               t == tx[host]
    <3>1. IsSeq(s) /\ IsSeq(t)
      BY <1>1, <2>2
    <3>2. Stream(host)' = s \o Append(t, a) /\ Stream(host) = s \o t
      BY <2>3 DEF Stream
    <3> HIDE DEF s, t
    <3>3. s \o Append(t, a) = Append(s \o t, a)
      BY <3>1, ConcatAppend
    <3> QED
      BY <3>2, <3>3
  <2>7. Stream(c)' = Append(Stream(c), b)
    <3> DEFINE s == down[c]
               t == tx[c]
    <3>1. IsSeq(s) /\ IsSeq(t)
      BY <1>1
    <3>2. Stream(c)' = s \o Append(t, b) /\ Stream(c) = s \o t
      BY <2>3 DEF Stream
    <3> HIDE DEF s, t
    <3>3. s \o Append(t, b) = Append(s \o t, b)
      BY <3>1, ConcatAppend
    <3> QED
      BY <3>2, <3>3
  <2>8. \A d \in Client \ {host, c} : Stream(d)' = Stream(d)
    BY <2>3 DEF Stream
  <2>9. Pairs(c)
    BY <2>1, <2>2, <2>6, <2>7, <2>8 DEF Pairs, a, b
  <2>10. partner' \in [Client -> Client \cup {NoClient}]
    BY <1>1, <2>1, <2>2
  <2> QED
    BY <2>3, <2>5, <2>9, <2>10
<1> QED
  BY <1>2, <1>3

Served ==
  /\ conn' \in [Client -> {"new", "open", "closed", "refused"}]
  /\ name' \in [Client -> {NoName} \cup Names]
  /\ partner' \in [Client -> Client \cup {NoClient}]
  /\ DOMAIN tx' = Client /\ \A c \in Client : IsSeq(tx'[c])
  /\ RoomStep

LEMMA StillServed ==
  ASSUME Shape, UNCHANGED <<conn, name, partner, byName, curplayers, tx, down>>
  PROVE  Served
BY DEF Shape, Served, RoomStep, Calm, Goes, Stream

LEMMA CalmServed ==
  ASSUME Shape, NEW p \in Client, NEW e, e.type \notin {"START", "PEER_LEFT"},
         e.type = "INPUT" =>
           client \in Client /\ serving # <<>> /\ p = partner[client] /\ e = Head(serving),
         UNCHANGED <<conn, name, partner, byName, curplayers, down>>,
         tx' = [tx EXCEPT ![p] = Append(@, e)]
  PROVE  Served
<1>1. /\ DOMAIN tx' = Client /\ \A d \in Client : IsSeq(tx'[d])
      /\ \A d \in Client : Goes(d)
  BY OneFrame DEF Goes
<1> QED
  BY <1>1 DEF Shape, Served, RoomStep, Calm

LEMMA LeavesServed ==
  ASSUME Shape, NEW c \in Client, Leaves(c),
         DOMAIN tx' = Client, \A d \in Client : IsSeq(tx'[d])
  PROVE  Served
BY DEF Shape, Served, RoomStep, Leaves

LEMMA DropServed ==
  ASSUME Shape, NEW c \in Client, Drop(c), UNCHANGED down
  PROVE  Served
BY DroppingNow, LeavesServed, StillServed DEF serverVars

LEMMA HelloServed ==
  ASSUME Shape, Pending, serving # <<>>, NEW c \in Client, client = c,
         NEW f, f = Head(serving), f.type = "HELLO", OnHello(c, f), UNCHANGED down
  PROVE  Served
<1>1. IsSeq(serving) /\ WellSaid(serving)
  BY DEF Shape, Pending
<1>2. Has(serving, {"HELLO"}) /\ f.name \in Name
  BY <1>1, HeadOff
<1>3. conn[c] = "open" /\ name[c] = NoName
  BY <1>2 DEF Pending, InService
<1>4. CASE ~f.good /\ Drop(c)
  BY <1>4, DropServed
<1>5. CASE ~(~f.good /\ Drop(c))
  <2>1. PICK n \in FreeNames(f.name) :
          /\ name' = [name EXCEPT ![c] = n]
          /\ byName' = [m \in DOMAIN byName \cup {n} |-> IF m = n THEN c ELSE byName[m]]
    BY <1>5 DEF OnHello
  <2>2. TryPair(c) /\ LobbyUpdate /\ UNCHANGED conn
    BY <1>5 DEF OnHello
  <2>3. n \in Names \ DOMAIN byName
    BY <1>2, <2>1 DEF FreeNames, Names
  <2>4. /\ Pairs(c)
        /\ partner' \in [Client -> Client \cup {NoClient}]
        /\ DOMAIN tx' = Client /\ \A d \in Client : IsSeq(tx'[d])
    BY <2>2, Pairing
  <2>5. Joins(c)
    BY <1>3, <2>1, <2>2, <2>3, <2>4 DEF Joins, Open
  <2>6. name' \in [Client -> {NoName} \cup Names]
    BY <2>1, <2>3 DEF Shape
  <2> QED
    BY <2>2, <2>4, <2>5, <2>6 DEF Served, RoomStep, Shape
<1> QED
  BY <1>4, <1>5 DEF OnHello

LEMMA DispatchServed ==
  ASSUME Shape, Pending, serving # <<>>, NEW c \in Client, client = c,
         NEW f, f = Head(serving), Dispatch(c, f), UNCHANGED down
  PROVE  Served
<1>1. IsSeq(serving) /\ WellSaid(serving)
  BY DEF Shape, Pending
<1>2. CASE f.type \in RelayTypes /\ Forward(c, f)
  <2>1. partner[c] \in Client \cup {NoClient}
    BY DEF Shape
  <2>2. UNCHANGED <<conn, setup, name, partner, byName, curplayers>>
    BY <1>2 DEF Forward
  <2>3. CASE partner[c] = NoClient
    BY <1>2, <2>2, <2>3, StillServed DEF Forward
  <2>4. CASE partner[c] # NoClient
    <3>1. PICK p \in Client : p = partner[c]
      BY <2>1, <2>4
    <3>2. tx' = [tx EXCEPT ![p] = Append(@, f)]
      BY <1>2, <2>4, <3>1 DEF Forward
    <3>3. f.type \notin {"START", "PEER_LEFT"}
      BY <1>2 DEF RelayTypes
    <3> QED
      BY <2>2, <3>1, <3>2, <3>3, CalmServed
  <2> QED
    BY <2>3, <2>4
<1>3. CASE f.type = "HELLO" /\ OnHello(c, f)
  BY <1>3, HelloServed
<1>4. CASE f.type = "JOIN" /\ OnJoin(c)
  <2>1. "JOIN" \in Extra
    BY <1>1, <1>4, HeadOff
  <2>2. UNCHANGED <<conn, name, byName>> /\ TryPair(c) /\ LobbyUpdate
    BY <1>4 DEF OnJoin
  <2>3. /\ partner' \in [Client -> Client \cup {NoClient}]
        /\ DOMAIN tx' = Client /\ \A d \in Client : IsSeq(tx'[d])
    BY <2>2, Pairing
  <2> QED
    BY <2>1, <2>2, <2>3 DEF Served, RoomStep, Rejoins, Shape
<1>5. CASE f.type \in {"LIST", "PING"} /\ Answer(c, f)
  <2> DEFINE e == IF f.type = "LIST" THEN [type |-> "LOBBY", entries |-> Lobby]
                  ELSE [type |-> "PONG"]
  <2>1. e.type \notin {"START", "PEER_LEFT", "INPUT"}
    OBVIOUS
  <2>2. /\ UNCHANGED <<conn, name, partner, byName, curplayers>>
        /\ tx' = [tx EXCEPT ![c] = Append(@, e)]
    BY <1>5 DEF Answer
  <2> HIDE DEF e
  <2>3. PICK g : g = e
    OBVIOUS
  <2> QED
    BY <2>1, <2>2, <2>3, CalmServed
<1>6. CASE f.type \in {"BYE", "BAD"} /\ Drop(c)
  BY <1>6, DropServed
<1>7. CASE UNCHANGED serverVars
  BY <1>7, StillServed DEF serverVars
<1> QED
  BY <1>2, <1>3, <1>4, <1>5, <1>6, <1>7 DEF Dispatch

-----------------------------------------------------------------------------
(* The shapes are kept, and every step is one of the kinds above.          *)
Queued ==
  /\ client' \in Client \cup {NoClient}
  /\ DOMAIN down' = Client /\ DOMAIN up' = Client /\ DOMAIN sent' = Client
  /\ IsSeq(serving') /\ (serving' # <<>> => client' # NoClient)
  /\ \A c \in Client : IsSeq(down'[c]) /\ IsSeq(up'[c]) /\ IsSeq(sent'[c])

LEMMA StillQueued ==
  ASSUME Shape, UNCHANGED <<client, serving, up, sent, down>>
  PROVE  Queued
BY DEF Shape, Queued

LEMMA ShapeOf ==
  ASSUME Served, Queued
  PROVE  Shape'
BY DEF Served, Queued, Shape, IsSeq

LEMMA HandleShape ==
  ASSUME Shape, Pending, Handle
  PROVE  Served /\ Queued
<1>1. /\ serving # <<>> /\ IsSeq(serving) /\ WellSaid(serving)
      /\ client \in Client /\ UNCHANGED <<up, sent, down>>
  BY DEF Handle, Shape, Pending, consoleVars
<1>2. Served
  <2>1. PICK c \in Client : c = client
    BY <1>1
  <2>2. PICK f : f = Head(serving)
    OBVIOUS
  <2>3. Dispatch(c, f)
    BY <2>1, <2>2 DEF Handle
  <2> QED
    BY <1>1, <2>1, <2>2, <2>3, DispatchServed
<1>3. IsSeq(Tail(serving)) /\ IsSeq(<<>>)
  BY <1>1, HeadOff, WellSaidEmpty
<1>4. IsSeq(serving') /\ (serving' # <<>> => client' # NoClient)
  BY <1>1, <1>3, Someone DEF Handle
<1>5. client' \in Client \cup {NoClient}
  BY <1>1 DEF Handle
<1> QED
  BY <1>1, <1>2, <1>4, <1>5 DEF Shape, Queued

LEMMA RecvShape ==
  ASSUME Shape, NEW c \in Client, Recv(c)
  PROVE  Served /\ Queued
<1>1. UNCHANGED <<conn, name, partner, byName, curplayers, tx, sent, down>>
  BY DEF Recv, serverVars, consoleVars
<1>2. PICK n \in 1 .. Len(up[c]) :
        /\ serving' = SubSeq(up[c], 1, n)
        /\ up' = [up EXCEPT ![c] = SubSeq(@, n + 1, Len(@))]
  BY DEF Recv
<1>3. IsSeq(up[c]) /\ DOMAIN up = Client /\ \A d \in Client : IsSeq(up[d])
  BY DEF Shape
<1>4. Len(up[c]) \in Nat
  BY <1>3, SeqFacts
<1>5. IsSeq(SubSeq(up[c], 1, n))
  <2>1. n \in 0 .. Len(up[c]) /\ 1 \in Nat \ {0} /\ 1 <= n + 1
    BY <1>4
  <2> QED BY <1>3, <2>1, SeqSub
<1>6. IsSeq(SubSeq(up[c], n + 1, Len(up[c])))
  <2>1. Len(up[c]) \in 0 .. Len(up[c]) /\ n + 1 \in Nat \ {0} /\ n + 1 <= Len(up[c]) + 1
    BY <1>4
  <2> QED BY <1>3, <2>1, SeqSub
<1>7. DOMAIN up' = Client /\ \A d \in Client : IsSeq(up'[d])
  BY <1>2, <1>3, <1>6
<1>8. IsSeq(serving') /\ client' = c
  BY <1>2, <1>5 DEF Recv
<1>9. Queued
  BY <1>1, <1>7, <1>8, Someone DEF Queued, Shape
<1> QED
  BY <1>1, <1>9, StillServed

Sends(c, n, out) ==
  /\ out = [tx EXCEPT ![c] = Unsent(@, n)]
  /\ down' = [down EXCEPT ![c] = @ \o SubSeq(tx[c], 1, n)]

LEMMA FlushCut ==
  ASSUME Shape, NEW c \in Client, NEW n \in 0 .. Len(tx[c]), NEW out, Sends(c, n, out)
  PROVE  /\ DOMAIN out = Client /\ DOMAIN down' = Client
         /\ \A d \in Client : IsSeq(out[d]) /\ IsSeq(down'[d]) /\ down'[d] \o out[d] = Stream(d)
<1>1. /\ DOMAIN tx = Client /\ DOMAIN down = Client
      /\ \A d \in Client : IsSeq(tx[d]) /\ IsSeq(down[d])
  BY DEF Shape
<1> DEFINE s == down[c]
           t == tx[c]
           a == SubSeq(t, 1, n)
           b == SubSeq(t, n + 1, Len(t))
<1>2. IsSeq(s) /\ IsSeq(t) /\ Len(t) \in Nat
  BY <1>1, SeqFacts
<1>3. IsSeq(a)
  <2>1. 1 \in Nat \ {0} /\ 1 <= n + 1
    BY <1>2
  <2> HIDE DEF t
  <2> QED BY <1>2, <2>1, SeqSub DEF t
<1>4. IsSeq(b)
  <2>1. Len(t) \in 0 .. Len(t) /\ n + 1 \in Nat \ {0} /\ n + 1 <= Len(t) + 1
    BY <1>2
  <2> QED BY <1>2, <2>1, SeqSub
<1>5. (s \o a) \o b = s \o t
  <2>1. n \in 0 .. Len(t)
    OBVIOUS
  <2> HIDE DEF s, t
  <2> QED BY <1>2, <2>1, ConcatSplit DEF a, b
<1>6. /\ DOMAIN out = Client /\ out[c] = b /\ DOMAIN down' = Client /\ down'[c] = s \o a
      /\ \A d \in Client \ {c} : out[d] = tx[d] /\ down'[d] = down[d]
  BY <1>1 DEF Unsent, Sends
<1>7. Stream(c) = s \o t
  BY DEF Stream
<1> HIDE DEF s, t, a, b
<1>8. IsSeq(s \o a)
  BY <1>2, <1>3, SeqConcat
<1>9. IsSeq(out[c]) /\ IsSeq(down'[c]) /\ down'[c] \o out[c] = Stream(c)
  BY <1>4, <1>5, <1>6, <1>7, <1>8
<1>10. \A d \in Client \ {c} :
         IsSeq(out[d]) /\ IsSeq(down'[d]) /\ down'[d] \o out[d] = Stream(d)
  BY <1>1, <1>6 DEF Stream
<1> QED
  BY <1>6, <1>9, <1>10

LEMMA FlushShape ==
  ASSUME Shape, NEW c \in Client, Flush(c)
  PROVE  Served /\ Queued
<1>1. PICK n \in 0 .. Len(tx[c]) :
        /\ down' = [down EXCEPT ![c] = @ \o SubSeq(tx[c], 1, n)]
        /\ tx' = [tx EXCEPT ![c] = Unsent(@, n)]
  BY DEF Flush
<1>2. UNCHANGED <<conn, name, partner, byName, curplayers, up, sent, serving, client>>
  BY DEF Flush, consoleVars
<1>3. PICK out : out = [tx EXCEPT ![c] = Unsent(@, n)]
  OBVIOUS
<1>4. /\ DOMAIN out = Client /\ DOMAIN down' = Client
      /\ \A d \in Client : IsSeq(out[d]) /\ IsSeq(down'[d]) /\ down'[d] \o out[d] = Stream(d)
  <2>1. Sends(c, n, out)
    BY <1>1, <1>3 DEF Sends
  <2> QED BY <2>1, FlushCut
<1>5. tx' = out
  BY <1>1, <1>3
<1>6. \A d \in Client : Goes(d)
  BY <1>4, <1>5 DEF Goes, Stream
<1> QED
  BY <1>2, <1>4, <1>5, <1>6 DEF Shape, Served, Queued, RoomStep, Calm

LEMMA FlushDropsShape ==
  ASSUME Shape, NEW c \in Client, FlushDrops(c)
  PROVE  Served /\ Queued
<1>1. c \in Open /\ UNCHANGED <<up, sent, serving, client>>
  BY DEF FlushDrops, consoleVars
<1>2. CASE UNCHANGED down /\ Drop(c)
  BY <1>1, <1>2, DropServed, StillQueued
<1>3. CASE ~(UNCHANGED down /\ Drop(c))
  <2>1. PICK n \in 0 .. Len(tx[c]) :
          /\ down' = [down EXCEPT ![c] = @ \o SubSeq(tx[c], 1, n)]
          /\ DropAfter(c, [tx EXCEPT ![c] = Unsent(@, n)])
    BY <1>3 DEF FlushDrops
  <2>2. PICK out : out = [tx EXCEPT ![c] = Unsent(@, n)]
    OBVIOUS
  <2>3. /\ DOMAIN out = Client /\ DOMAIN down' = Client
        /\ \A d \in Client : IsSeq(out[d]) /\ IsSeq(down'[d]) /\ down'[d] \o out[d] = Stream(d)
    <3>1. Sends(c, n, out)
      BY <2>1, <2>2 DEF Sends
    <3> QED BY <3>1, FlushCut
  <2>4. DropAfter(c, out)
    BY <2>1, <2>2
  <2>5. /\ DOMAIN tx' = Client /\ \A d \in Client : IsSeq(tx'[d])
        /\ Leaves(c)
    BY <1>1, <2>3, <2>4, Dropping
  <2>6. Served
    BY <2>5, LeavesServed
  <2>7. Queued
    BY <1>1, <2>3 DEF Shape, Queued
  <2> QED
    BY <2>6, <2>7
<1> QED
  BY <1>2, <1>3

LEMMA AcceptShape ==
  ASSUME Shape, NEW c \in Client, Accept(c)
  PROVE  Served /\ Queued
<1>1. /\ conn[c] = "new"
      /\ conn' \in {[conn EXCEPT ![c] = k] : k \in {"open", "refused"}}
      /\ UNCHANGED <<name, partner, byName, curplayers, tx, down, up, sent, serving, client>>
  BY DEF Accept, Admit, consoleVars
<1>2. Comes(c)
  BY <1>1 DEF Comes, Stream
<1>3. conn' \in [Client -> {"new", "open", "closed", "refused"}]
  BY <1>1 DEF Shape
<1> QED
  BY <1>1, <1>2, <1>3 DEF Shape, Served, Queued, RoomStep

LEMMA SayShape ==
  ASSUME Shape, NEW c \in Client, NEW f, Say(c, f)
  PROVE  Served /\ Queued
<1>1. /\ sent' = [sent EXCEPT ![c] = Append(@, f)] /\ up' = [up EXCEPT ![c] = Append(@, f)]
      /\ UNCHANGED <<conn, name, partner, byName, curplayers, tx, down, serving, client>>
  BY DEF Say, serverVars
<1>2. IsSeq(Append(sent[c], f)) /\ IsSeq(Append(up[c], f))
  BY SeqAppend DEF Shape
<1>3. /\ DOMAIN up' = Client /\ DOMAIN sent' = Client
      /\ \A d \in Client : IsSeq(up'[d]) /\ IsSeq(sent'[d])
  BY <1>1, <1>2 DEF Shape
<1> QED
  BY <1>1, <1>3, StillServed DEF Shape, Queued

LEMMA HangUpShape ==
  ASSUME Shape, NEW c \in Client, HangUp(c)
  PROVE  Served /\ Queued
<1>1. PICK n \in 0 .. Len(up[c]) : up' = [up EXCEPT ![c] = SubSeq(@, 1, n)]
  BY DEF HangUp
<1>2. UNCHANGED <<conn, name, partner, byName, curplayers, tx, down, sent, serving, client>>
  BY DEF HangUp, serverVars
<1>3. DOMAIN up = Client /\ \A d \in Client : IsSeq(up[d])
  BY DEF Shape
<1>4. IsSeq(SubSeq(up[c], 1, n))
  <2>1. 1 \in Nat \ {0} /\ 1 <= n + 1
    BY <1>3, SeqFacts
  <2> QED BY <1>3, <2>1, SeqSub
<1>5. DOMAIN up' = Client /\ \A d \in Client : IsSeq(up'[d])
  BY <1>1, <1>3, <1>4
<1> QED
  BY <1>2, <1>5, StillServed DEF Shape, Queued

LEMMA Steps ==
  ASSUME Shape, Pending, [Next]_vars
  PROVE  Shape' /\ RoomStep
<1>1. CASE Handle
  BY <1>1, HandleShape, ShapeOf DEF Served
<1>2. ASSUME NEW c \in Client,
             \/ Accept(c) \/ Recv(c) \/ Flush(c) \/ FlushDrops(c) \/ HangUp(c)
             \/ \E f : Say(c, f)
      PROVE  Shape' /\ RoomStep
  BY <1>2, AcceptShape, RecvShape, FlushShape, FlushDropsShape, HangUpShape, SayShape, ShapeOf
     DEF Served
<1>3. ASSUME NEW c \in Client, RecvEnd(c) \/ Sweep(c)
      PROVE  Shape' /\ RoomStep
  <2>1. Drop(c) /\ UNCHANGED <<down, up, sent, serving, client>>
    BY <1>3 DEF RecvEnd, Sweep, consoleVars
  <2> QED
    BY <2>1, DropServed, StillQueued, ShapeOf DEF Served
<1>4. ASSUME NEW c \in Client, SayHello(c) \/ SayInput(c) \/ SayExtra(c)
      PROVE  \E f : Say(c, f)
  BY <1>4 DEF SayHello, SayInput, SayExtra
<1>5. CASE UNCHANGED vars
  BY <1>5, StillServed, StillQueued, ShapeOf DEF Served, vars, serverVars, consoleVars
<1> QED
  BY <1>1, <1>2, <1>3, <1>4, <1>5 DEF Next, Server, Console

-----------------------------------------------------------------------------
(* What can still be handled stays as it was said.                         *)
LEMMA Dispatched ==
  ASSUME NEW c, NEW f, Dispatch(c, f)
  PROVE  /\ f.type # "HELLO" => UNCHANGED name
         /\ f.type \notin {"HELLO", "JOIN", "BYE", "BAD"} => UNCHANGED partner
         /\ f.type \notin {"HELLO", "BYE", "BAD"} => UNCHANGED conn
         /\ UNCHANGED name \/ \E n : name' = [name EXCEPT ![c] = n]
BY DEF Dispatch, Forward, OnHello, OnJoin, Answer, Drop, DropAfter, serverVars, RelayTypes

LEMMA HandlePending ==
  ASSUME Shape, Pending, Handle
  PROVE  Pending'
<1>1. /\ serving # <<>> /\ IsSeq(serving) /\ WellSaid(serving)
      /\ client \in Client /\ UNCHANGED <<up, sent, down>>
  BY DEF Handle, Shape, Pending, consoleVars
<1>2. PICK f : f = Head(serving)
  OBVIOUS
<1>3. PICK c \in Client : c = client
  BY <1>1
<1>4. /\ f.type # "HELLO" => UNCHANGED name
      /\ f.type \notin {"HELLO", "BYE", "BAD"} => UNCHANGED conn
      /\ UNCHANGED name \/ \E n : name' = [name EXCEPT ![c] = n]
  <2>1. Dispatch(c, f)
    BY <1>2, <1>3 DEF Handle
  <2> QED BY <2>1, Dispatched
<1>5. /\ serving' = <<>> \/ serving' = Tail(serving)
      /\ serving' # <<>> => client' = c
      /\ serving' = <<>> => client' = NoClient
  BY <1>1, <1>3 DEF Handle
<1>6. /\ WellSaid(Tail(serving)) /\ WellSaid(<<>>)
      /\ ~Has(<<>>, {"HELLO"})
      /\ Has(Tail(serving), {"HELLO"}) => Has(serving, {"HELLO"})
      /\ f.type = "HELLO" => Has(serving, {"HELLO"}) /\ ~Has(Tail(serving), {"HELLO"})
      /\ f.type \in {"BYE", "BAD"} => Tail(serving) = <<>>
  BY <1>1, <1>2, HeadOff, WellSaidEmpty
<1>7. WellSaid(serving)'
  <2>1. WellSaid(serving')
    BY <1>5, <1>6
  <2> QED BY <2>1 DEF WellSaid, Hellos
<1>8. ASSUME NEW d \in Client, InService(d)'
      PROVE  /\ d = c /\ InService(c) /\ f.type \notin {"HELLO", "BYE", "BAD"}
  <2>1. Has(serving', {"HELLO"}) /\ client' = d
    BY <1>8 DEF InService, Has
  <2>2. serving' # <<>> /\ serving' = Tail(serving)
    BY <1>5, <1>6, <2>1
  <2> QED
    BY <1>3, <1>5, <1>6, <2>1, <2>2 DEF InService
<1>9. ASSUME NEW d \in Client, name'[d] # name[d]
      PROVE  d = c /\ f.type = "HELLO"
  BY <1>4, <1>9 DEF Shape
<1>10. f.type = "HELLO" => InService(c)
  BY <1>3, <1>6 DEF InService
<1>11. ASSUME NEW d \in Client
       PROVE  /\ WellSaid(up[d])'
              /\ (Has(up[d], {"HELLO"}) \/ InService(d) => name[d] = NoName /\ Has(sent[d], {"HELLO"}))'
              /\ (InService(d) => conn[d] = "open" /\ ~Has(up[d], {"HELLO"}))'
              /\ (name[d] # NoName => Has(sent[d], {"HELLO"}))'
              /\ (Has(up[d], {"BYE", "BAD"}) => Has(sent[d], {"BYE", "BAD"}))'
  <2>1. WellSaid(up[d])' /\ (Has(up[d], {"BYE", "BAD"}) => Has(sent[d], {"BYE", "BAD"}))'
    BY <1>1 DEF Pending, WellSaid, Hellos, Has
  <2>2. /\ Has(up[d], {"HELLO"})' <=> Has(up[d], {"HELLO"})
        /\ Has(sent[d], {"HELLO"})' <=> Has(sent[d], {"HELLO"})
    BY <1>1 DEF Has
  <2>3. CASE name'[d] = name[d]
    BY <1>4, <1>8, <2>1, <2>2, <2>3 DEF Pending
  <2>4. CASE name'[d] # name[d]
    <3>1. d = c /\ f.type = "HELLO" /\ InService(d)
      BY <1>9, <1>10, <2>4
    <3>2. ~InService(d)'
      BY <1>8, <3>1
    <3>3. ~Has(up[d], {"HELLO"}) /\ Has(sent[d], {"HELLO"})
      BY <3>1 DEF Pending
    <3> QED
      BY <2>1, <2>2, <3>2, <3>3
  <2> QED
    BY <2>3, <2>4
<1> QED
  BY <1>7, <1>11 DEF Pending

LEMMA IdlePending ==
  ASSUME Shape, Pending, Idle, UNCHANGED <<name, up, sent, serving, client>>
  PROVE  Pending'
<1>1. \A c \in Client : ~InService(c)'
  BY Someone DEF Idle, InService
<1> QED
  BY <1>1 DEF Pending, WellSaid, Hellos, Has

LEMMA StutterPending ==
  ASSUME Pending, UNCHANGED <<conn, name, up, sent, serving, client>>
  PROVE  Pending'
BY DEF Pending, WellSaid, Hellos, Has, InService

LEMMA RecvPending ==
  ASSUME Shape, Pending, NEW c \in Client, Recv(c)
  PROVE  Pending'
<1>1. /\ UNCHANGED <<conn, name, sent>> /\ client = NoClient /\ client' = c
      /\ conn[c] = "open"
  BY DEF Recv, serverVars, consoleVars, Idle, Open
<1>2. PICK n \in 1 .. Len(up[c]) :
        /\ serving' = SubSeq(up[c], 1, n)
        /\ up' = [up EXCEPT ![c] = SubSeq(@, n + 1, Len(@))]
  BY DEF Recv
<1>3. IsSeq(up[c]) /\ DOMAIN up = Client /\ WellSaid(up[c])
  BY DEF Shape, Pending
<1>4. /\ Len(up[c]) \in Nat /\ n \in 0 .. Len(up[c]) /\ 1 \in Nat \ {0} /\ 1 <= n + 1
      /\ Len(up[c]) \in 0 .. Len(up[c]) /\ n + 1 \in Nat \ {0} /\ n + 1 <= Len(up[c]) + 1
  BY <1>3, SeqFacts
<1> DEFINE a == SubSeq(up[c], 1, n)
           b == SubSeq(up[c], n + 1, Len(up[c]))
<1>5. WellSaid(a)
  BY <1>3, <1>4, WellSaidSub
<1>6. WellSaid(b)
  BY <1>3, <1>4, WellSaidSub
<1>7. /\ ~(Has(a, {"HELLO"}) /\ Has(b, {"HELLO"}))
      /\ \A T : Has(a, T) => Has(up[c], T)
      /\ \A T : Has(b, T) => Has(up[c], T)
  BY <1>3, <1>4, HelloCut
<1>8. serving' = a /\ up'[c] = b /\ \A d \in Client \ {c} : up'[d] = up[d]
  BY <1>2, <1>3
<1> HIDE DEF a, b
<1>9. WellSaid(serving)'
  <2>1. WellSaid(serving')
    BY <1>5, <1>8
  <2> QED BY <2>1 DEF WellSaid, Hellos
<1>10. ASSUME NEW d \in Client
       PROVE  /\ WellSaid(up[d])'
              /\ (Has(up[d], {"HELLO"}) \/ InService(d) => name[d] = NoName /\ Has(sent[d], {"HELLO"}))'
              /\ (InService(d) => conn[d] = "open" /\ ~Has(up[d], {"HELLO"}))'
              /\ (name[d] # NoName => Has(sent[d], {"HELLO"}))'
              /\ (Has(up[d], {"BYE", "BAD"}) => Has(sent[d], {"BYE", "BAD"}))'
  <2>1. WellSaid(up'[d]) /\ \A T : Has(up'[d], T) => Has(up[d], T)
    BY <1>6, <1>7, <1>8 DEF Pending
  <2>2. WellSaid(up[d])'
    BY <2>1 DEF WellSaid, Hellos
  <2>3. \A T : Has(up[d], T)' <=> Has(up'[d], T)
    BY DEF Has
  <2>4. \A T : Has(sent[d], T)' <=> Has(sent[d], T)
    BY <1>1 DEF Has
  <2>5. InService(d)' => d = c /\ Has(a, {"HELLO"})
    BY <1>1, <1>8 DEF InService, Has
  <2>6. InService(d)' => conn[d] = "open" /\ ~Has(up'[d], {"HELLO"}) /\ Has(up[d], {"HELLO"})
    BY <1>1, <1>7, <1>8, <2>5
  <2> QED
    BY <1>1, <2>1, <2>2, <2>3, <2>4, <2>6 DEF Pending
<1> QED
  BY <1>9, <1>10 DEF Pending

(* What a console may say next.                                            *)
Proper(c, f) ==
  /\ f.type = "HELLO" => ~Has(sent[c], {"HELLO"}) /\ f.name \in Name
  /\ f.type = "JOIN" => "JOIN" \in Extra

LEMMA SayPending ==
  ASSUME Shape, Pending, NEW c \in Client, NEW f, Say(c, f), Proper(c, f)
  PROVE  Pending'
<1>1. /\ ~Has(sent[c], {"BYE", "BAD"})
      /\ sent' = [sent EXCEPT ![c] = Append(@, f)] /\ up' = [up EXCEPT ![c] = Append(@, f)]
      /\ UNCHANGED <<conn, name, serving, client>>
  BY DEF Say, serverVars
<1>2. /\ DOMAIN up = Client /\ DOMAIN sent = Client /\ IsSeq(up[c]) /\ IsSeq(sent[c])
      /\ WellSaid(up[c])
      /\ Has(up[c], {"HELLO"}) \/ InService(c) \/ name[c] # NoName => Has(sent[c], {"HELLO"})
      /\ Has(up[c], {"BYE", "BAD"}) => Has(sent[c], {"BYE", "BAD"})
  BY DEF Shape, Pending
<1>3. WellSaid(Append(up[c], f))
  BY <1>1, <1>2, WellSaidAppend DEF Proper
<1>4. /\ \A T : Has(Append(up[c], f), T) <=> Has(up[c], T) \/ f.type \in T
      /\ \A T : Has(Append(sent[c], f), T) <=> Has(sent[c], T) \/ f.type \in T
  BY <1>2, HasAppend
<1>5. /\ up'[c] = Append(up[c], f) /\ sent'[c] = Append(sent[c], f)
      /\ \A d \in Client \ {c} : up'[d] = up[d] /\ sent'[d] = sent[d]
  BY <1>1, <1>2
<1>6. WellSaid(serving)'
  BY <1>1 DEF Pending, WellSaid, Hellos
<1>7. \A d \in Client : InService(d)' <=> InService(d)
  BY <1>1 DEF InService, Has
<1>8. \A d \in Client : \A T : /\ Has(up[d], T)' <=> Has(up'[d], T)
                               /\ Has(sent[d], T)' <=> Has(sent'[d], T)
  BY DEF Has
<1>9. \A d \in Client : WellSaid(up[d])' <=> WellSaid(up'[d])
  BY DEF WellSaid, Hellos
<1>10. ASSUME NEW d \in Client
       PROVE  /\ WellSaid(up[d])'
              /\ (Has(up[d], {"HELLO"}) \/ InService(d) => name[d] = NoName /\ Has(sent[d], {"HELLO"}))'
              /\ (InService(d) => conn[d] = "open" /\ ~Has(up[d], {"HELLO"}))'
              /\ (name[d] # NoName => Has(sent[d], {"HELLO"}))'
              /\ (Has(up[d], {"BYE", "BAD"}) => Has(sent[d], {"BYE", "BAD"}))'
  <2>1. CASE d = c
    <3>1. WellSaid(up'[d])
      BY <1>3, <1>5, <2>1
    <3>2. f.type \in {"HELLO"} => ~Has(up[c], {"HELLO"}) /\ ~InService(c) /\ name[c] = NoName
      BY <1>2 DEF Proper
    <3>3. /\ Has(up[d], {"HELLO"})' <=> Has(up[d], {"HELLO"}) \/ f.type \in {"HELLO"}
          /\ Has(sent[d], {"HELLO"})' <=> Has(sent[d], {"HELLO"}) \/ f.type \in {"HELLO"}
          /\ Has(up[d], {"BYE", "BAD"})' <=> Has(up[d], {"BYE", "BAD"}) \/ f.type \in {"BYE", "BAD"}
          /\ Has(sent[d], {"BYE", "BAD"})' <=> Has(sent[d], {"BYE", "BAD"}) \/ f.type \in {"BYE", "BAD"}
      BY <1>4, <1>5, <1>8, <2>1
    <3>4. name'[d] = name[d] /\ conn'[d] = conn[d]
      BY <1>1
    <3> QED
      BY <1>7, <1>9, <2>1, <3>1, <3>2, <3>3, <3>4 DEF Pending
  <2>2. CASE d # c
    <3>1. /\ up'[d] = up[d] /\ sent'[d] = sent[d]
          /\ name'[d] = name[d] /\ conn'[d] = conn[d]
      BY <1>1, <1>5, <2>2
    <3> QED
      BY <1>7, <1>8, <1>9, <3>1 DEF Pending
  <2> QED
    BY <2>1, <2>2
<1> QED
  BY <1>6, <1>10 DEF Pending

LEMMA HangUpPending ==
  ASSUME Shape, Pending, NEW c \in Client, HangUp(c)
  PROVE  Pending'
<1>1. PICK n \in 0 .. Len(up[c]) : up' = [up EXCEPT ![c] = SubSeq(@, 1, n)]
  BY DEF HangUp
<1>2. UNCHANGED <<conn, name, sent, serving, client>>
  BY DEF HangUp, serverVars
<1>3. /\ DOMAIN up = Client /\ IsSeq(up[c]) /\ WellSaid(up[c])
      /\ 1 \in Nat \ {0} /\ 1 <= n + 1
  BY SeqFacts DEF Shape, Pending
<1>4. WellSaid(SubSeq(up[c], 1, n)) /\ \A T : Has(SubSeq(up[c], 1, n), T) => Has(up[c], T)
  BY <1>3, WellSaidSub, HelloCut
<1>5. up'[c] = SubSeq(up[c], 1, n) /\ \A d \in Client \ {c} : up'[d] = up[d]
  BY <1>1, <1>3
<1>6. \A d \in Client : WellSaid(up'[d]) /\ \A T : Has(up'[d], T) => Has(up[d], T)
  BY <1>4, <1>5 DEF Pending
<1>7. \A d \in Client : WellSaid(up[d])' /\ \A T : Has(up[d], T)' => Has(up[d], T)
  BY <1>6 DEF WellSaid, Hellos, Has
<1>8. WellSaid(serving)'
  BY <1>2 DEF Pending, WellSaid, Hellos
<1>9. \A d \in Client : /\ InService(d)' <=> InService(d)
                        /\ \A T : Has(sent[d], T)' <=> Has(sent[d], T)
  BY <1>2 DEF InService, Has
<1> QED
  BY <1>2, <1>7, <1>8, <1>9 DEF Pending

LEMMA PendingStep ==
  ASSUME Shape, Pending, [Next]_vars
  PROVE  Pending'
<1>1. CASE Handle
  BY <1>1, HandlePending
<1>2. ASSUME NEW c \in Client, Recv(c)
      PROVE  Pending'
  BY <1>2, RecvPending
<1>3. ASSUME NEW c \in Client, Accept(c) \/ RecvEnd(c) \/ Flush(c) \/ FlushDrops(c) \/ Sweep(c)
      PROVE  Pending'
  <2>1. Idle /\ UNCHANGED <<name, up, sent, serving, client>>
    BY <1>3 DEF Accept, Admit, RecvEnd, Flush, FlushDrops, Sweep, Drop, DropAfter, serverVars,
                consoleVars
  <2> QED
    BY <2>1, IdlePending
<1>4. ASSUME NEW c \in Client, SayHello(c) \/ SayInput(c) \/ SayExtra(c)
      PROVE  \E f : Say(c, f) /\ Proper(c, f)
  <2>1. CASE SayHello(c)
    BY <2>1 DEF SayHello, Proper
  <2>2. CASE SayInput(c)
    BY <2>2 DEF SayInput, Proper
  <2>3. CASE SayExtra(c)
    <3>1. PICK type \in Extra : Say(c, [type |-> type])
      BY <2>3 DEF SayExtra
    <3>2. type # "HELLO"
      BY Limits
    <3> QED
      BY <3>1, <3>2 DEF Proper
  <2> QED
    BY <1>4, <2>1, <2>2, <2>3
<1>5. ASSUME NEW c \in Client, HangUp(c)
      PROVE  Pending'
  BY <1>5, HangUpPending
<1>6. CASE UNCHANGED vars
  BY <1>6, StutterPending DEF vars, serverVars, consoleVars
<1> QED
  BY <1>1, <1>2, <1>3, <1>4, <1>5, <1>6, SayPending DEF Next, Server, Console

-----------------------------------------------------------------------------
(* The room: connected and named is to be in by_name, under that name.     *)
LEMMA RoomKept ==
  ASSUME Shape, Room, RoomStep
  PROVE  Room'
<1>1. ASSUME Calm PROVE Room'
  BY <1>1 DEF Calm, Room, Open
<1>2. ASSUME Rejoins PROVE Room'
  BY <1>2 DEF Rejoins, LobbyUpdate, Room, Open
<1>3. ASSUME NEW c \in Client, Comes(c) PROVE Room'
  <2>1. PICK k \in {"open", "refused"} : conn' = [conn EXCEPT ![c] = k]
    BY <1>3 DEF Comes
  <2>2. /\ conn[c] = "new" /\ name[c] = NoName
        /\ UNCHANGED <<name, byName, curplayers>>
    BY <1>3 DEF Comes, Room
  <2>3. \A d \in Client \ {c} : conn'[d] = conn[d]
    BY <2>1 DEF Shape
  <2>4. conn'[c] = k /\ k # "new"
    BY <2>1 DEF Shape
  <2>5. \A d \in Open' : d \in Open \/ name[d] = NoName
    BY <2>2, <2>3 DEF Open
  <2>6. \A d \in Open : d \in Open'
    BY <2>2, <2>3 DEF Open
  <2> QED
    BY <2>2, <2>3, <2>4, <2>5, <2>6 DEF Room
<1>4. ASSUME NEW c \in Client, Joins(c) PROVE Room'
  <2>1. PICK n \in Names \ DOMAIN byName :
          /\ name' = [name EXCEPT ![c] = n]
          /\ byName' = [m \in DOMAIN byName \cup {n} |-> IF m = n THEN c ELSE byName[m]]
    BY <1>4 DEF Joins
  <2>2. /\ c \in Open /\ name[c] = NoName /\ Open' = Open /\ conn' = conn
        /\ curplayers' = Cardinality(DOMAIN byName')
    BY <1>4 DEF Joins, Open, LobbyUpdate
  <2>3. name'[c] = n /\ \A d \in Client \ {c} : name'[d] = name[d]
    BY <2>1 DEF Shape
  <2>4. /\ DOMAIN byName' = DOMAIN byName \cup {n} /\ byName'[n] = c
        /\ \A m \in DOMAIN byName : byName'[m] = byName[m]
    BY <2>1
  <2>5. NoName \notin Names
    BY Limits DEF NoName, Names
  <2>6. \A m \in DOMAIN byName : byName[m] # c
    BY <2>2, <2>5 DEF Room
  <2>7. \A d \in Open' : name'[d] # NoName => name'[d] \in DOMAIN byName' /\ byName'[name'[d]] = d
    BY <2>2, <2>3, <2>4 DEF Room, Open
  <2>8. \A m \in DOMAIN byName' : m \in Names /\ byName'[m] \in Open' /\ name'[byName'[m]] = m
    BY <2>2, <2>3, <2>4, <2>6 DEF Room, Open
  <2>9. \A d \in Client : conn'[d] = "new" => name'[d] = NoName
    BY <2>2, <2>3 DEF Room, Open
  <2> QED
    BY <2>2, <2>7, <2>8, <2>9 DEF Room
<1>5. ASSUME NEW c \in Client, Leaves(c) PROVE Room'
  <2>1. /\ c \in Open /\ conn' = [conn EXCEPT ![c] = "closed"] /\ UNCHANGED name
        /\ byName' = [n \in {m \in DOMAIN byName : m = name[c] => byName[m] # c} |-> byName[n]]
        /\ curplayers' = Cardinality(DOMAIN byName')
    BY <1>5 DEF Leaves, LobbyUpdate
  <2>2. /\ Open' = Open \ {c}
        /\ \A d \in Client : conn'[d] = "new" => conn[d] = "new"
    BY <2>1 DEF Open, Shape
  <2>3. /\ \A m \in DOMAIN byName' : m \in DOMAIN byName /\ byName'[m] = byName[m]
        /\ \A m \in DOMAIN byName : m # name[c] => m \in DOMAIN byName'
        /\ \A m \in DOMAIN byName' : byName[m] # c
    <3>1. DOMAIN byName' = {m \in DOMAIN byName : m = name[c] => byName[m] # c}
      BY <2>1
    <3>2. \A m \in DOMAIN byName : byName[m] = c => m = name[c]
      BY DEF Room
    <3> QED
      BY <2>1, <3>1, <3>2
  <2>4. \A d \in Open' : name'[d] # NoName => name'[d] \in DOMAIN byName' /\ byName'[name'[d]] = d
    <3> SUFFICES ASSUME NEW d \in Open', name[d] # NoName
                 PROVE  name[d] \in DOMAIN byName' /\ byName'[name[d]] = d
      BY <2>1
    <3>1. d \in Open \ {c} /\ name[d] \in DOMAIN byName /\ byName[name[d]] = d
      BY <2>2 DEF Room
    <3>2. name[d] # name[c]
      <4>1. name[c] # NoName => byName[name[c]] = c
        BY <2>1 DEF Room
      <4> QED BY <3>1, <4>1
    <3> QED
      BY <2>3, <3>1, <3>2
  <2>5. \A m \in DOMAIN byName' : m \in Names /\ byName'[m] \in Open' /\ name'[byName'[m]] = m
    BY <2>1, <2>2, <2>3 DEF Room
  <2>6. \A d \in Client : conn'[d] = "new" => name'[d] = NoName
    BY <2>1, <2>2 DEF Room
  <2> QED
    BY <2>1, <2>4, <2>5, <2>6 DEF Room
<1> QED
  BY <1>1, <1>2, <1>3, <1>4, <1>5 DEF RoomStep

(* With names its own, by_name counts the consoles in the room.            *)
LEMMA RoomIsCounted ==
  ASSUME Shape, Room
  PROVE  Announced /\ curplayers \in 0 .. Cardinality(Client)
<1> DEFINE S == {c \in Open : name[c] # NoName}
           N == DOMAIN byName
           f == [c \in S |-> name[c]]
<1>1. S \in SUBSET Client /\ IsFiniteSet(Client)
  BY Limits DEF Open
<1>2. IsFiniteSet(S) /\ Cardinality(S) <= Cardinality(Client)
  BY <1>1, FS_Subset
<1>3. NoName \notin Names
  BY Limits DEF NoName, Names
<1>4. f \in [S -> N] /\ (\A a, b \in S : f[a] = f[b] => a = b)
  BY DEF Room
<1>5. \A n \in N : byName[n] \in S /\ f[byName[n]] = n
  BY <1>3 DEF Room
<1>6. f \in Bijection(S, N)
  BY <1>4, <1>5 DEF Bijection, Injection, Surjection, IsInjective
<1>7. ExistsBijection(S, N)
  BY <1>6 DEF ExistsBijection
<1>8. Cardinality(N) = Cardinality(S)
  BY <1>2, <1>7, FS_Bijection
<1>9. Cardinality(S) \in Nat /\ Cardinality(Client) \in Nat
  BY <1>1, <1>2, FS_CardinalityType
<1>10. curplayers = Cardinality(S)
  BY <1>8 DEF Room
<1> QED
  BY <1>2, <1>9, <1>10 DEF Announced

-----------------------------------------------------------------------------
(* The sides of a match.                                                   *)
LEMMA StartedAppend ==
  ASSUME NEW s, IsSeq(s), NEW e, e.type # "START", NEW r, NEW o, Started(s, r, o)
  PROVE  Started(Append(s, e), r, o)
<1> DEFINE t == Append(s, e)
<1>1. /\ Len(s) \in Nat /\ DOMAIN s = 1 .. Len(s) /\ DOMAIN t = 1 .. Len(s) + 1
      /\ \A i \in 1 .. Len(s) : t[i] = s[i]
      /\ t[Len(s) + 1] = e
  BY SeqFacts, SeqAppend
<1> HIDE DEF t
<1>2. DOMAIN s \subseteq DOMAIN t
  BY <1>1
<1>3. \A j \in DOMAIN t : t[j].type = "START" => j \in DOMAIN s /\ t[j] = s[j]
  BY <1>1
<1>4. Started(t, r, o)
  BY <1>1, <1>2, <1>3 DEF Started
<1> QED
  BY <1>4 DEF t

LEMMA StartedNew ==
  ASSUME NEW s, IsSeq(s), NEW r, NEW o
  PROVE  Started(Append(s, Start(r, o)), r, o)
<1> DEFINE t == Append(s, Start(r, o))
<1>1. /\ Len(s) \in Nat /\ DOMAIN t = 1 .. Len(s) + 1
      /\ t[Len(s) + 1] = Start(r, o)
  BY SeqFacts, SeqAppend
<1> HIDE DEF t
<1>2. /\ Len(s) + 1 \in DOMAIN t
      /\ \A j \in DOMAIN t : j <= Len(s) + 1
  BY <1>1
<1>3. /\ t[Len(s) + 1].type = "START" /\ t[Len(s) + 1].role = r /\ t[Len(s) + 1].opp = o
  BY <1>1 DEF Start
<1>4. Started(t, r, o)
  BY <1>2, <1>3 DEF Started
<1> QED
  BY <1>4 DEF t

(* Frames that are no START leave the sides as they are.                   *)
NoStart(d) ==
  \/ Stream(d)' = Stream(d)
  \/ \E e : e.type # "START" /\ Stream(d)' = Append(Stream(d), e)

LEMMA NoStartKeepsStarted ==
  ASSUME Shape, NEW d \in Client, NoStart(d), NEW r, NEW o, Started(Stream(d), r, o)
  PROVE  Started(Stream(d)', r, o)
<1>1. PICK s : s = Stream(d)
  OBVIOUS
<1>2. IsSeq(s)
  BY <1>1, SeqConcat DEF Shape, Stream
<1> QED
  BY <1>1, <1>2, StartedAppend DEF NoStart

(* A match that a step leaves alone, but for its records.                  *)
LEMMA SidesCarry ==
  ASSUME Shape, NEW c \in Client, NEW p \in Client, BothSides(c, p),
         NoStart(c), NoStart(p), name'[c] = name[c], name'[p] = name[p],
         partner'[p] = partner[p], conn'[p] = conn[p]
  PROVE  BothSides(c, p)'
<1>1. \A r : /\ Started(Stream(c), r, name[p]) => Started(Stream(c)', r, name[p])
             /\ Started(Stream(p), r, name[c]) => Started(Stream(p)', r, name[c])
  BY NoStartKeepsStarted
<1>2. p \in Open' /\ p # c /\ partner'[p] = c
  BY DEF BothSides, Open
<1>3. \/ Started(Stream(c)', 0, name'[p]) /\ Started(Stream(p)', 1, name'[c])
      \/ Started(Stream(c)', 1, name'[p]) /\ Started(Stream(p)', 0, name'[c])
  BY <1>1 DEF BothSides
<1>4. (BothSides(c, p))' <=>
        /\ p \in Open' /\ p # c /\ partner'[p] = c
        /\ \/ Started(Stream(c)', 0, name'[p]) /\ Started(Stream(p)', 1, name'[c])
           \/ Started(Stream(c)', 1, name'[p]) /\ Started(Stream(p)', 0, name'[c])
  BY DEF BothSides, Started
<1> QED
  BY <1>2, <1>3, <1>4

LEMMA SidesFrom ==
  ASSUME partner' \in [Client -> Client \cup {NoClient}],
         \A c \in Client : name'[c] = NoName => partner'[c] = NoClient,
         \A c \in Client : \A p \in Client :
           c \in Open' /\ partner'[c] = p => BothSides(c, p)'
  PROVE  Sides'
<1>1. ASSUME NEW c \in Open', partner'[c] # NoClient
      PROVE  BothSides(c, partner[c])'
  <2>1. c \in Client
    BY DEF Open
  <2>2. PICK p \in Client : p = partner'[c]
    BY <1>1, <2>1
  <2>3. BothSides(c, p)'
    BY <2>1, <2>2
  <2> QED
    BY <2>2, <2>3 DEF BothSides
<1> QED
  BY <1>1 DEF Sides

(* Both sides are drawn by the step that gives a console its name.         *)
LEMMA PairsBoth ==
  ASSUME Shape, NEW k \in Client, NEW host \in Client \ {k}, k \in Open, host \in Open,
         UNCHANGED conn,
         partner' = [partner EXCEPT ![host] = k, ![k] = host],
         Stream(host)' = Append(Stream(host), Start(0, name'[k])),
         Stream(k)' = Append(Stream(k), Start(1, name'[host]))
  PROVE  BothSides(k, host)' /\ BothSides(host, k)'
<1>1. /\ partner'[host] = k /\ partner'[k] = host /\ host # k
      /\ host \in Open' /\ k \in Open'
  BY DEF Shape, Open
<1>2. PICK s : s = Stream(k)
  OBVIOUS
<1>3. PICK t : t = Stream(host)
  OBVIOUS
<1>4. IsSeq(s) /\ IsSeq(t)
  BY <1>2, <1>3, SeqConcat DEF Shape, Stream
<1>5. Started(Stream(k)', 1, name'[host])
  BY <1>2, <1>4, StartedNew
<1>6. Started(Stream(host)', 0, name'[k])
  BY <1>3, <1>4, StartedNew
<1>7. /\ Started(Stream(k), 1, name[host])' <=> Started(Stream(k)', 1, name'[host])
      /\ Started(Stream(host), 0, name[k])' <=> Started(Stream(host)', 0, name'[k])
  BY DEF Started
<1> QED
  BY <1>1, <1>5, <1>6, <1>7 DEF BothSides

LEMMA SidesKept ==
  ASSUME Shape, Room, Sides, RoomStep, partner' \in [Client -> Client \cup {NoClient}],
         "JOIN" \notin Extra
  PROVE  Sides'
<1>0. /\ partner \in [Client -> Client \cup {NoClient}] /\ Open \subseteq Client
      /\ NoClient \notin Client
  BY Someone DEF Shape, Open
<1>1. ASSUME NEW c \in Open, NEW p \in Client, partner[c] = p
      PROVE  BothSides(c, p) /\ p \in Open /\ p # c /\ partner[p] = c /\ name[c] # NoName
  BY <1>0, <1>1 DEF Sides, BothSides
<1>2. \A c \in Client : name[c] = NoName => partner[c] = NoClient
  BY DEF Sides
<1>3. ASSUME Calm PROVE Sides'
  <2>1. UNCHANGED <<conn, name, partner>> /\ Open' = Open /\ \A d \in Client : NoStart(d)
    <3>1. ASSUME NEW d \in Client, Goes(d) PROVE NoStart(d)
      <4>1. CASE Stream(d)' = Stream(d)
        BY <4>1 DEF NoStart
      <4>2. ASSUME NEW e, e.type \notin {"START", "PEER_LEFT"}, Stream(d)' = Append(Stream(d), e)
            PROVE  NoStart(d)
        BY <4>2, e.type # "START" DEF NoStart
      <4> QED
        BY <3>1, <4>1, <4>2 DEF Goes
    <3> QED BY <1>3, <3>1 DEF Calm, Open
  <2>2. ASSUME NEW c \in Client, NEW p \in Client, c \in Open', partner'[c] = p
        PROVE  BothSides(c, p)'
    <3>1. c \in Open /\ BothSides(c, p)
      BY <1>1, <2>1, <2>2
    <3> QED
      BY <2>1, <3>1, SidesCarry
  <2> QED
    BY <1>2, <2>1, <2>2, SidesFrom
<1>4. ASSUME NEW k \in Client, Comes(k) PROVE Sides'
  <2>1. /\ conn[k] = "new" /\ UNCHANGED <<name, partner>> /\ \A d \in Client : NoStart(d)
        /\ \A d \in Client \ {k} : conn'[d] = conn[d]
    BY <1>4 DEF Comes, NoStart, Shape
  <2>2. partner[k] = NoClient
    BY <1>2, <2>1 DEF Room
  <2>3. ASSUME NEW c \in Client, NEW p \in Client, c \in Open', partner'[c] = p
        PROVE  BothSides(c, p)'
    <3>1. c # k /\ partner[c] = p
      BY <1>0, <2>1, <2>2, <2>3
    <3>2. c \in Open
      BY <2>1, <2>3, <3>1 DEF Open
    <3>3. BothSides(c, p) /\ p \in Open
      BY <1>1, <3>1, <3>2
    <3>4. p # k
      BY <2>1, <3>3 DEF Open
    <3> QED
      BY <2>1, <3>3, <3>4, SidesCarry
  <2> QED
    BY <1>2, <2>1, <2>3, SidesFrom
<1>5. ASSUME NEW k \in Client, Leaves(k) PROVE Sides'
  <2>1. /\ k \in Open /\ conn' = [conn EXCEPT ![k] = "closed"] /\ UNCHANGED name
        /\ \A d \in Client : NoStart(d)
        /\ partner' = IF partner[k] = NoClient THEN partner
                      ELSE [partner EXCEPT ![partner[k]] = NoClient]
    BY <1>5, PeerLeft.type # "START" DEF Leaves, NoStart, PeerLeft
  <2>2. Open' = Open \ {k} /\ \A d \in Client \ {k} : conn'[d] = conn[d]
    BY <2>1 DEF Open, Shape
  <2>3. \A d \in Client : partner'[d] = IF d = partner[k] THEN NoClient ELSE partner[d]
    BY <1>0, <2>1
  <2>4. ASSUME NEW c \in Client, NEW p \in Client, c \in Open', partner'[c] = p
        PROVE  BothSides(c, p)'
    <3>1. c # k /\ c \in Open /\ c # partner[k] /\ partner[c] = p
      BY <1>0, <2>2, <2>3, <2>4
    <3>2. BothSides(c, p) /\ p \in Open /\ partner[p] = c
      BY <1>1, <3>1
    <3>3. p # k
      BY <3>1, <3>2
    <3>4. p # partner[k]
      BY <1>1, <2>1, <3>1, <3>2
    <3>5. partner'[p] = partner[p] /\ conn'[p] = conn[p]
      BY <2>2, <2>3, <3>3, <3>4
    <3> QED
      BY <2>1, <3>2, <3>5, SidesCarry
  <2>5. \A c \in Client : name'[c] = NoName => partner'[c] = NoClient
    BY <1>2, <2>1, <2>3
  <2> QED
    BY <2>4, <2>5, SidesFrom
<1>6. ASSUME NEW k \in Client, Joins(k) PROVE Sides'
  <2>1. k \in Open /\ name[k] = NoName /\ partner[k] = NoClient /\ UNCHANGED conn /\ Pairs(k)
    BY <1>2, <1>6 DEF Joins
  <2>2. PICK n \in Names : name' = [name EXCEPT ![k] = n]
    BY <1>6 DEF Joins
  <2>3. name'[k] # NoName /\ \A d \in Client \ {k} : name'[d] = name[d]
    BY <2>2, Limits DEF Shape, Names, NoName
  <2>4. Open' = Open
    BY <2>1 DEF Open
  <2>5. ASSUME NEW c \in Open, NEW p \in Client, partner[c] = p,
               Stream(c)' = Stream(c), Stream(p)' = Stream(p), partner'[p] = partner[p]
        PROVE  BothSides(c, p)'
    <3>1. BothSides(c, p) /\ p # k /\ c # k /\ c \in Client
      BY <1>0, <1>1, <2>1, <2>5
    <3>2. NoStart(c) /\ NoStart(p)
      BY <2>5 DEF NoStart
    <3> QED
      BY <2>1, <2>3, <2>5, <3>1, <3>2, SidesCarry
  <2>6. CASE partner' = partner /\ \A d \in Client : Stream(d)' = Stream(d)
    <3>1. \A c \in Client : \A p \in Client :
            c \in Open' /\ partner'[c] = p => BothSides(c, p)'
      BY <2>4, <2>5, <2>6
    <3>2. \A c \in Client : name'[c] = NoName => partner'[c] = NoClient
      BY <1>2, <2>3, <2>6
    <3> QED
      BY <3>1, <3>2, SidesFrom
  <2>7. ASSUME NEW host \in Open \ {k},
               name'[host] # NoName, partner[host] = NoClient,
               partner' = [partner EXCEPT ![host] = k, ![k] = host],
               Stream(host)' = Append(Stream(host), Start(0, name'[k])),
               Stream(k)' = Append(Stream(k), Start(1, name'[host])),
               \A d \in Client \ {host, k} : Stream(d)' = Stream(d)
        PROVE  Sides'
    <3>1. host \in Client \ {k} /\ host \in Open
      BY <1>0
    <3>2. BothSides(k, host)' /\ BothSides(host, k)'
      BY <2>1, <2>7, <3>1, PairsBoth
    <3>3. /\ partner'[host] = k /\ partner'[k] = host
          /\ \A d \in Client \ {host, k} : partner'[d] = partner[d]
      BY <1>0, <2>7, <3>1
    <3>4. ASSUME NEW c \in Client, NEW p \in Client, c \in Open', partner'[c] = p
          PROVE  BothSides(c, p)'
      <4>1. CASE c \in {host, k}
        BY <3>2, <3>3, <3>4, <4>1
      <4>2. CASE c \notin {host, k}
        <5>1. partner[c] = p /\ c \in Open /\ partner[p] = c
          BY <1>1, <2>4, <3>3, <3>4, <4>2
        <5>2. p \notin {host, k}
          BY <1>0, <2>1, <2>7, <5>1
        <5> QED
          BY <2>5, <2>7, <3>3, <4>2, <5>1, <5>2
      <4> QED
        BY <4>1, <4>2
    <3>5. \A c \in Client : name'[c] = NoName => partner'[c] = NoClient
      BY <1>2, <2>3, <2>7, <3>3
    <3> QED
      BY <3>4, <3>5, SidesFrom
  <2> QED
    BY <2>1, <2>6, <2>7 DEF Pairs
<1> QED
  BY <1>3, <1>4, <1>5, <1>6 DEF RoomStep, Rejoins

(* The last START of a stream is where a START is that none comes after.    *)
LEMMA ThatStart ==
  ASSUME NEW s, IsSeq(s), NEW i \in DOMAIN s, s[i].type = "START",
         \A j \in DOMAIN s : s[j].type = "START" => j <= i
  PROVE  LastStart(s) = i
<1>1. Len(s) \in Nat /\ DOMAIN s = 1 .. Len(s)
  BY SeqFacts
<1> DEFINE P(x) == \A j \in DOMAIN s : s[j].type = "START" => j <= x
           S == {0} \cup {j \in DOMAIN s : s[j].type = "START"}
<1>2. i \in S /\ P(i)
  OBVIOUS
<1>3. \A x \in S : P(x) => x = i
  <2>1. SUFFICES ASSUME NEW x \in S, P(x) PROVE x = i
    OBVIOUS
  <2>2. i <= x
    BY <2>1
  <2>3. i \in 1 .. Len(s) /\ (x = 0 \/ (x \in 1 .. Len(s) /\ x <= i))
    BY <1>1, <2>1
  <2> QED
    BY <1>1, <2>2, <2>3
<1>4. LastStart(s) = CHOOSE x \in S : P(x)
  BY DEF LastStart
<1> HIDE DEF S, P
<1> QED
  BY <1>2, <1>3, <1>4

(* Matched says of the two what BothSides says.                            *)
LEMMA TheLastStart ==
  ASSUME NEW s, IsSeq(s), NEW r, NEW o, Started(s, r, o)
  PROVE  /\ LastStart(s) # 0
         /\ s[LastStart(s)].role = r /\ s[LastStart(s)].opp = o
<1>1. PICK i \in DOMAIN s :
        /\ s[i].type = "START" /\ s[i].role = r /\ s[i].opp = o
        /\ \A j \in DOMAIN s : s[j].type = "START" => j <= i
  BY DEF Started
<1>2. i # 0
  BY SeqFacts
<1>3. LastStart(s) = i
  BY <1>1, ThatStart
<1> QED
  BY <1>1, <1>2, <1>3

LEMMA SidesMatch ==
  ASSUME Shape, Sides
  PROVE  Matched
<1>1. SUFFICES ASSUME NEW c \in Open, partner[c] # NoClient, NEW p, p = partner[c]
               PROVE  LET mine == LastStart(Stream(c))
                          theirs == LastStart(Stream(p))
                      IN  /\ p \in Open /\ partner[p] = c
                          /\ mine # 0 /\ theirs # 0
                          /\ {Stream(c)[mine].role, Stream(p)[theirs].role} = {0, 1}
                          /\ Stream(c)[mine].opp = name[p]
  BY DEF Matched
<1>2. BothSides(c, p)
  BY <1>1 DEF Sides
<1>3. p \in Open /\ partner[p] = c /\ c \in Client /\ p \in Client
  BY <1>2 DEF BothSides, Open
<1>4. IsSeq(Stream(c)) /\ IsSeq(Stream(p))
  BY <1>3, SeqConcat DEF Shape, Stream
<1>5. PICK r \in {0, 1} : Started(Stream(c), r, name[p]) /\ Started(Stream(p), 1 - r, name[c])
  <2>1. 1 - 0 = 1 /\ 1 - 1 = 0
    OBVIOUS
  <2> QED BY <1>2, <2>1 DEF BothSides
<1>6. /\ LastStart(Stream(c)) # 0
      /\ Stream(c)[LastStart(Stream(c))].role = r
      /\ Stream(c)[LastStart(Stream(c))].opp = name[p]
  BY <1>4, <1>5, TheLastStart
<1>7. /\ LastStart(Stream(p)) # 0
      /\ Stream(p)[LastStart(Stream(p))].role = 1 - r
  BY <1>4, <1>5, TheLastStart
<1>8. {r, 1 - r} = {0, 1}
  OBVIOUS
<1> QED
  BY <1>3, <1>6, <1>7, <1>8

-----------------------------------------------------------------------------
(* One match at a time: a console is free when nothing of play was sent to *)
(* it yet, or PEER_LEFT was the last of it.                                *)
Free(frames) ==
  \A j \in Plays(frames) : (\A k \in Plays(frames) : k <= j) => frames[j].type = "PEER_LEFT"

(* What is handled comes from a connection that is there, or from one that *)
(* was dropped for its HELLO and has no partner to forward to.             *)
ServedOpen == (client \in Client /\ partner[client] # NoClient) => client \in Open

Turns ==
  /\ \A c \in Client : OneByOne(Stream(c))
  /\ \A c \in Client :
       conn[c] \in {"new", "open"} => (partner[c] = NoClient <=> Free(Stream(c)))

LEMMA OneMore ==
  ASSUME NEW s, IsSeq(s), NEW e, OneByOne(s)
  PROVE  /\ e.type \notin {"START", "INPUT", "PEER_LEFT"} =>
              OneByOne(Append(s, e)) /\ (Free(Append(s, e)) <=> Free(s))
         /\ e.type = "START" /\ Free(s) => OneByOne(Append(s, e)) /\ ~Free(Append(s, e))
         /\ e.type = "INPUT" /\ ~Free(s) => OneByOne(Append(s, e)) /\ ~Free(Append(s, e))
         /\ e.type = "PEER_LEFT" /\ ~Free(s) => OneByOne(Append(s, e)) /\ Free(Append(s, e))
<1> DEFINE t == Append(s, e)
           n == Len(s) + 1
<1>1. /\ n \in Nat \ {0} /\ DOMAIN s = 1 .. n - 1 /\ DOMAIN t = 1 .. n
      /\ \A i \in 1 .. n - 1 : t[i] = s[i]
      /\ t[n] = e
  <2>1. Len(s) \in Nat /\ DOMAIN s = 1 .. Len(s) /\ n - 1 = Len(s)
    BY SeqFacts
  <2> QED BY <2>1, SeqAppend
<1> HIDE DEF t, n
<1>2. \A i \in Plays(s) : i \in Int /\ i < n /\ i \in Plays(t) /\ t[i] = s[i]
  BY <1>1 DEF Plays
<1>3. \A i \in Plays(t) : i \in Plays(s) \/ i = n
  BY <1>1 DEF Plays
<1>4. n \in Plays(t) <=> e.type \in {"START", "INPUT", "PEER_LEFT"}
  BY <1>1 DEF Plays
<1>5. \A i, j \in Plays(s) : Precedes(t, j, i) <=> Precedes(s, j, i)
  BY <1>1, <1>2, <1>3 DEF Precedes
<1>6. \A i \in Plays(s) : ~Precedes(t, n, i)
  BY <1>1, <1>2 DEF Precedes
<1>7. \A i \in Plays(s) :
        t[i].type = "START" <=>
          \A j \in Plays(t) : Precedes(t, j, i) => t[j].type = "PEER_LEFT"
  BY <1>2, <1>3, <1>5, <1>6 DEF OneByOne
<1>8. \A j \in Plays(s) : Precedes(t, j, n) <=> \A k \in Plays(s) : k <= j
  BY <1>1, <1>2, <1>3 DEF Precedes
<1>9. ~Precedes(t, n, n)
  BY <1>1 DEF Precedes
<1>10. (\A j \in Plays(t) : Precedes(t, j, n) => t[j].type = "PEER_LEFT") <=> Free(s)
  BY <1>2, <1>3, <1>8, <1>9 DEF Free
<1>11. CASE e.type \notin {"START", "INPUT", "PEER_LEFT"}
  <2>1. Plays(t) = Plays(s)
    BY <1>2, <1>3, <1>4, <1>11
  <2>2. OneByOne(t)
    BY <1>7, <2>1 DEF OneByOne
  <2>3. Free(t) <=> Free(s)
    BY <1>2, <2>1 DEF Free
  <2> QED
    BY <1>11, <2>2, <2>3 DEF t
<1>12. CASE e.type \in {"START", "INPUT", "PEER_LEFT"}
  <2>1. n \in Plays(t) /\ \A k \in Plays(t) : k <= n
    BY <1>1, <1>2, <1>3, <1>4, <1>12
  <2>2. \A j \in Plays(t) : (\A k \in Plays(t) : k <= j) => j = n
    BY <1>1, <1>2, <1>3, <2>1
  <2>3. Free(t) <=> e.type = "PEER_LEFT"
    BY <1>1, <2>1, <2>2 DEF Free
  <2>4. (e.type = "START" <=> Free(s)) => OneByOne(t)
    BY <1>1, <1>3, <1>7, <1>10 DEF OneByOne
  <2> QED
    BY <1>12, <2>3, <2>4 DEF t
<1> QED
  BY <1>11, <1>12

LEMMA ServedOpenKept ==
  ASSUME Shape, Pending, Sides, ServedOpen, [Next]_vars, "JOIN" \notin Extra
  PROVE  ServedOpen'
<1>1. CASE Handle
  <2>1. /\ serving # <<>> /\ IsSeq(serving) /\ WellSaid(serving) /\ client \in Client
    BY <1>1 DEF Handle, Shape, Pending
  <2>2. PICK f : f = Head(serving)
    OBVIOUS
  <2>3. PICK c \in Client : c = client
    BY <2>1
  <2>4. Dispatch(c, f) /\ (client' # NoClient => client' = c /\ serving' # <<>>)
    BY <1>1, <2>2, <2>3 DEF Handle
  <2>5. CASE client' = NoClient
    BY <2>5, Someone DEF ServedOpen
  <2>6. CASE client' = c /\ f.type # "HELLO"
    <3>1. f.type \notin {"BYE", "BAD", "JOIN"}
      <4>1. serving' # <<>> /\ (serving' = <<>> \/ serving' = Tail(serving))
        BY <1>1, <2>4, <2>6, Someone DEF Handle
      <4> QED BY <2>1, <2>2, <4>1, HeadOff
    <3>2. UNCHANGED <<conn, partner>>
      BY <2>4, <2>6, <3>1, Dispatched
    <3> QED
      BY <2>3, <2>6, <3>2 DEF ServedOpen, Open
  <2>7. CASE client' = c /\ f.type = "HELLO"
    <3>1. conn[c] = "open" /\ partner[c] = NoClient
      <4>1. Has(serving, {"HELLO"})
        BY <2>1, <2>2, <2>7, HeadOff
      <4> QED BY <2>3, <4>1 DEF Pending, InService, Sides
    <3>2. OnHello(c, f)
      BY <2>4, <2>7 DEF Dispatch, RelayTypes, OnHello, Drop, DropAfter, serverVars
    <3>3. UNCHANGED conn \/ UNCHANGED partner
      BY <3>1, <3>2 DEF OnHello, Drop, DropAfter, Tell, serverVars
    <3> QED
      BY <2>7, <3>1, <3>3 DEF ServedOpen, Open
  <2> QED
    BY <2>4, <2>5, <2>6, <2>7
<1>2. ASSUME NEW c \in Client, Recv(c) PROVE ServedOpen'
  BY <1>2 DEF Recv, serverVars, ServedOpen, Open
<1>3. ASSUME NEW c \in Client, Accept(c) \/ RecvEnd(c) \/ Flush(c) \/ FlushDrops(c) \/ Sweep(c)
      PROVE  ServedOpen'
  <2>1. client' = NoClient
    BY <1>3 DEF Accept, RecvEnd, Flush, FlushDrops, Sweep, Idle
  <2> QED BY <2>1, Someone DEF ServedOpen
<1>4. ASSUME NEW c \in Client, Console(c) PROVE ServedOpen'
  BY <1>4 DEF Console, SayHello, SayInput, SayExtra, Say, HangUp, serverVars, ServedOpen, Open
<1>5. CASE UNCHANGED vars
  BY <1>5 DEF vars, serverVars, ServedOpen, Open
<1> QED
  BY <1>1, <1>2, <1>3, <1>4, <1>5 DEF Next, Server

(* What one more frame does to a console's stream.                         *)
LEMMA TurnsAppend ==
  ASSUME Shape, Turns, NEW d \in Client, NEW e, Stream(d)' = Append(Stream(d), e)
  PROVE  /\ e.type \notin {"START", "INPUT", "PEER_LEFT"} =>
              OneByOne(Stream(d))' /\ (Free(Stream(d))' <=> Free(Stream(d)))
         /\ e.type = "START" /\ Free(Stream(d)) => OneByOne(Stream(d))' /\ ~Free(Stream(d))'
         /\ e.type = "INPUT" /\ ~Free(Stream(d)) => OneByOne(Stream(d))' /\ ~Free(Stream(d))'
         /\ e.type = "PEER_LEFT" /\ ~Free(Stream(d)) => OneByOne(Stream(d))' /\ Free(Stream(d))'
<1>1. PICK s : s = Stream(d)
  OBVIOUS
<1>2. IsSeq(s) /\ OneByOne(s)
  BY <1>1, SeqConcat DEF Shape, Stream, Turns
<1>3. /\ OneByOne(Stream(d))' <=> OneByOne(Stream(d)')
      /\ Free(Stream(d))' <=> Free(Stream(d)')
  BY DEF OneByOne, Free, Plays, Precedes
<1>4. Stream(d)' = Append(s, e)
  BY <1>1
<1> QED
  BY <1>1, <1>2, <1>3, <1>4, OneMore

LEMMA TurnsSame ==
  ASSUME Turns, NEW d \in Client, Stream(d)' = Stream(d)
  PROVE  OneByOne(Stream(d))' /\ (Free(Stream(d))' <=> Free(Stream(d)))
<1>1. /\ OneByOne(Stream(d))' <=> OneByOne(Stream(d)')
      /\ Free(Stream(d))' <=> Free(Stream(d)')
  BY DEF OneByOne, Free, Plays, Precedes
<1> QED
  BY <1>1 DEF Turns

LEMMA TurnsKept ==
  ASSUME Shape, Sides, ServedOpen, Turns, RoomStep, "JOIN" \notin Extra
  PROVE  Turns'
<1>1. /\ partner \in [Client -> Client \cup {NoClient}] /\ Open \subseteq Client
      /\ NoClient \notin Client
  BY Someone DEF Shape, Open
<1>2. ASSUME NEW c \in Open, NEW p \in Client, partner[c] = p
      PROVE  p \in Open /\ partner[p] = c /\ ~Free(Stream(p))
  BY <1>1, <1>2 DEF Sides, BothSides, Turns, Open
<1>3. ASSUME NEW d \in Client
      PROVE  /\ OneByOne(Stream(d))'
             /\ conn'[d] \in {"new", "open"} => (partner'[d] = NoClient <=> Free(Stream(d))')
  <2>1. CASE Calm
    <3>1. UNCHANGED <<conn, partner>> /\ Goes(d)
      BY <2>1 DEF Calm
    <3>2. CASE Stream(d)' = Stream(d)
      BY <3>1, <3>2, TurnsSame DEF Turns
    <3>3. ASSUME NEW e, e.type \notin {"START", "PEER_LEFT"},
                 e.type = "INPUT" => client \in Client /\ d = partner[client],
                 Stream(d)' = Append(Stream(d), e)
          PROVE  OneByOne(Stream(d))' /\ (Free(Stream(d))' <=> Free(Stream(d)))
      <4>1. CASE e.type # "INPUT"
        BY <3>3, <4>1, TurnsAppend
      <4>2. CASE e.type = "INPUT"
        <5>1. PICK c \in Client : c = client
          BY <3>3, <4>2
        <5>2. c \in Open /\ partner[c] = d
          BY <1>1, <3>3, <4>2, <5>1 DEF ServedOpen
        <5>3. ~Free(Stream(d))
          BY <1>2, <5>2
        <5> QED
          BY <3>3, <4>2, <5>3, TurnsAppend
      <4> QED
        BY <4>1, <4>2
    <3>4. CASE \E e : /\ e.type \notin {"START", "PEER_LEFT"}
                      /\ e.type = "INPUT" =>
                           /\ client \in Client /\ serving # <<>>
                           /\ d = partner[client] /\ e = Head(serving)
                      /\ Stream(d)' = Append(Stream(d), e)
      <4>1. OneByOne(Stream(d))' /\ (Free(Stream(d))' <=> Free(Stream(d)))
        BY <3>3, <3>4
      <4> QED
        BY <3>1, <4>1 DEF Turns
    <3> QED
      BY <3>1, <3>2, <3>4 DEF Goes
  <2>2. ASSUME NEW k \in Client, Comes(k)
        PROVE  /\ OneByOne(Stream(d))'
               /\ conn'[d] \in {"new", "open"} => (partner'[d] = NoClient <=> Free(Stream(d))')
    <3>1. /\ Stream(d)' = Stream(d) /\ partner' = partner
          /\ conn'[d] \in {"new", "open"} => conn[d] \in {"new", "open"}
      BY <2>2 DEF Comes, Shape
    <3> QED
      BY <3>1, TurnsSame DEF Turns
  <2>3. ASSUME NEW k \in Client, Leaves(k)
        PROVE  /\ OneByOne(Stream(d))'
               /\ conn'[d] \in {"new", "open"} => (partner'[d] = NoClient <=> Free(Stream(d))')
    <3>1. /\ k \in Open /\ conn' = [conn EXCEPT ![k] = "closed"]
          /\ partner' = IF partner[k] = NoClient THEN partner
                        ELSE [partner EXCEPT ![partner[k]] = NoClient]
          /\ Stream(d)' = IF d = partner[k] THEN Append(Stream(d), PeerLeft) ELSE Stream(d)
      BY <2>3 DEF Leaves
    <3>2. conn'[d] \in {"new", "open"} => conn[d] \in {"new", "open"}
      BY <3>1 DEF Shape
    <3>3. partner'[d] = IF d = partner[k] THEN NoClient ELSE partner[d]
      BY <1>1, <3>1
    <3>4. CASE d = partner[k]
      <4>1. ~Free(Stream(d)) /\ Stream(d)' = Append(Stream(d), PeerLeft)
        BY <1>2, <3>1, <3>4
      <4>2. PeerLeft.type = "PEER_LEFT"
        BY DEF PeerLeft
      <4>3. PICK e : e = PeerLeft
        OBVIOUS
      <4>4. OneByOne(Stream(d))' /\ Free(Stream(d))'
        BY <4>1, <4>2, <4>3, TurnsAppend
      <4> QED
        BY <3>3, <3>4, <4>4
    <3>5. CASE d # partner[k]
      <4>1. OneByOne(Stream(d))' /\ (Free(Stream(d))' <=> Free(Stream(d)))
        BY <3>1, <3>5, TurnsSame
      <4> QED
        BY <3>2, <3>3, <3>5, <4>1 DEF Turns
    <3> QED
      BY <3>4, <3>5
  <2>4. ASSUME NEW k \in Client, Joins(k)
        PROVE  /\ OneByOne(Stream(d))'
               /\ conn'[d] \in {"new", "open"} => (partner'[d] = NoClient <=> Free(Stream(d))')
    <3>1. k \in Open /\ partner[k] = NoClient /\ UNCHANGED conn /\ Pairs(k)
      BY <2>4 DEF Joins, Sides
    <3>2. CASE partner' = partner /\ Stream(d)' = Stream(d)
      BY <3>1, <3>2, TurnsSame DEF Turns
    <3>3. ASSUME NEW host \in Open \ {k}, partner[host] = NoClient,
                 partner' = [partner EXCEPT ![host] = k, ![k] = host],
                 Stream(host)' = Append(Stream(host), Start(0, name'[k])),
                 Stream(k)' = Append(Stream(k), Start(1, name'[host])),
                 \A o \in Client \ {host, k} : Stream(o)' = Stream(o)
          PROVE  /\ OneByOne(Stream(d))'
                 /\ conn'[d] \in {"new", "open"} => (partner'[d] = NoClient <=> Free(Stream(d))')
      <4>1. CASE d \in {host, k}
        <5>1. partner'[d] # NoClient
          BY <1>1, <3>1, <3>3, <4>1
        <5>2. PICK e : e.type = "START" /\ Stream(d)' = Append(Stream(d), e)
          <6>1. \A r, o : Start(r, o).type = "START"
            BY DEF Start
          <6> QED BY <3>3, <4>1, <6>1
        <5>3. Free(Stream(d))
          BY <3>1, <3>3, <4>1 DEF Turns, Open
        <5>4. OneByOne(Stream(d))' /\ ~Free(Stream(d))'
          BY <5>2, <5>3, TurnsAppend
        <5> QED
          BY <5>1, <5>4
      <4>2. CASE d \notin {host, k}
        <5>1. Stream(d)' = Stream(d) /\ partner'[d] = partner[d]
          BY <1>1, <3>3, <4>2
        <5> QED
          BY <3>1, <5>1, TurnsSame DEF Turns
      <4> QED
        BY <4>1, <4>2
    <3> QED
      BY <3>1, <3>2, <3>3 DEF Pairs
  <2> QED
    BY <2>1, <2>2, <2>3, <2>4 DEF RoomStep, Rejoins
<1> QED
  BY <1>3 DEF Turns

-----------------------------------------------------------------------------
(* Whose records they are: a record carries its sender's mark as long as   *)
(* the server has not handled it.                                          *)
SignedBy(frames, c) == \A i \in DOMAIN frames : frames[i].type = "INPUT" => frames[i].from = c
Signed == SignedBy(serving, client) /\ \A c \in Client : SignedBy(up[c], c)

LEMMA SignedSub ==
  ASSUME NEW s, IsSeq(s), NEW c, SignedBy(s, c),
         NEW m \in Nat \ {0}, NEW n \in 0 .. Len(s), m <= n + 1
  PROVE  SignedBy(SubSeq(s, m, n), c)
<1>1. /\ DOMAIN SubSeq(s, m, n) = 1 .. n - m + 1
      /\ \A i \in 1 .. n - m + 1 : SubSeq(s, m, n)[i] = s[m + i - 1]
  BY SeqSub
<1>2. Len(s) \in Nat /\ DOMAIN s = 1 .. Len(s)
  BY SeqFacts
<1>3. \A i \in 1 .. n - m + 1 : m + i - 1 \in DOMAIN s
  BY <1>2
<1> QED
  BY <1>1, <1>3 DEF SignedBy

LEMMA SignedKept ==
  ASSUME Shape, Signed, [Next]_vars
  PROVE  Signed'
<1>1. \A c \in Client : IsSeq(up[c]) /\ SignedBy(up[c], c)
  BY DEF Shape, Signed
<1>2. SignedBy(<<>>, client') /\ SignedBy(<<>>, client)
  <2>1. DOMAIN <<>> = {}
    BY WellSaidEmpty, SeqFacts, EmptySeq
  <2> QED BY <2>1 DEF SignedBy
<1>3. CASE UNCHANGED <<up, serving, client>>
  <2>1. SignedBy(serving, client)' <=> SignedBy(serving', client')
    BY DEF SignedBy
  <2>2. \A c \in Client : SignedBy(up[c], c)' <=> SignedBy(up'[c], c)
    BY DEF SignedBy
  <2> QED
    BY <1>3, <2>1, <2>2 DEF Signed
<1>4. CASE Handle
  <2>1. serving # <<>> /\ IsSeq(serving) /\ SignedBy(serving, client) /\ UNCHANGED up
    BY <1>4 DEF Handle, Shape, Signed
  <2>2. SignedBy(Tail(serving), client)
    <3>1. Len(serving) \in Nat \ {0} /\ Tail(serving) = SubSeq(serving, 2, Len(serving))
      BY <2>1, SeqTail
    <3>2. PICK n : n = Len(serving)
      OBVIOUS
    <3>3. n \in 0 .. Len(serving) /\ 2 \in Nat \ {0} /\ 2 <= n + 1
      BY <3>1, <3>2
    <3>4. SignedBy(SubSeq(serving, 2, n), client)
      BY <2>1, <3>3, SignedSub
    <3> QED BY <3>1, <3>2, <3>4
  <2>3. \/ serving' = <<>>
        \/ serving' = Tail(serving) /\ client' = client
    BY <1>4 DEF Handle
  <2>4. SignedBy(serving', client')
    BY <1>2, <2>2, <2>3
  <2> QED
    BY <2>1, <2>4 DEF Signed, SignedBy
<1>5. ASSUME NEW c \in Client, Recv(c) PROVE Signed'
  <2>1. PICK n \in 1 .. Len(up[c]) :
          /\ serving' = SubSeq(up[c], 1, n)
          /\ up' = [up EXCEPT ![c] = SubSeq(@, n + 1, Len(@))]
    BY <1>5 DEF Recv
  <2>2. Len(up[c]) \in Nat /\ client' = c /\ DOMAIN up = Client
    BY <1>1, <1>5, SeqFacts DEF Recv, Shape
  <2>3. SignedBy(SubSeq(up[c], 1, n), c)
    <3>1. n \in 0 .. Len(up[c]) /\ 1 \in Nat \ {0} /\ 1 <= n + 1
      BY <2>2
    <3> QED BY <1>1, <3>1, SignedSub
  <2>4. SignedBy(SubSeq(up[c], n + 1, Len(up[c])), c)
    <3>1. PICK k : k = Len(up[c])
      OBVIOUS
    <3>2. k \in 0 .. Len(up[c]) /\ n + 1 \in Nat \ {0} /\ n + 1 <= k + 1
      BY <2>2, <3>1
    <3>3. SignedBy(SubSeq(up[c], n + 1, k), c)
      BY <1>1, <3>2, SignedSub
    <3> QED BY <3>1, <3>3
  <2>5. \A d \in Client : SignedBy(up'[d], d)
    BY <1>1, <2>1, <2>2, <2>4
  <2>6. SignedBy(serving', client')
    BY <2>1, <2>2, <2>3
  <2> QED
    BY <2>5, <2>6 DEF Signed, SignedBy
<1>6. ASSUME NEW c \in Client, NEW f, f.type = "INPUT" => f.from = c, Say(c, f)
      PROVE  Signed'
  <2>1. up' = [up EXCEPT ![c] = Append(@, f)] /\ UNCHANGED <<serving, client>> /\ DOMAIN up = Client
    BY <1>6 DEF Say, Shape
  <2>2. SignedBy(Append(up[c], f), c)
    <3>1. PICK s : s = up[c]
      OBVIOUS
    <3>2. IsSeq(s) /\ SignedBy(s, c)
      BY <1>1, <3>1
    <3>3. /\ DOMAIN Append(s, f) = 1 .. Len(s) + 1 /\ Len(s) \in Nat /\ DOMAIN s = 1 .. Len(s)
          /\ \A i \in 1 .. Len(s) : Append(s, f)[i] = s[i]
          /\ Append(s, f)[Len(s) + 1] = f
      BY <3>2, SeqAppend, SeqFacts
    <3>4. \A i \in 1 .. Len(s) + 1 : i \in 1 .. Len(s) \/ i = Len(s) + 1
      BY <3>3
    <3>5. SignedBy(Append(s, f), c)
      BY <1>6, <3>2, <3>3, <3>4 DEF SignedBy
    <3> QED BY <3>1, <3>5
  <2>3. \A d \in Client : SignedBy(up'[d], d)
    BY <1>1, <2>1, <2>2
  <2>4. SignedBy(serving', client')
    BY <2>1 DEF Signed
  <2> QED
    BY <2>3, <2>4 DEF Signed, SignedBy
<1>7. ASSUME NEW c \in Client, SayHello(c) \/ SayInput(c) \/ SayExtra(c) PROVE Signed'
  <2>1. CASE SayHello(c)
    <3>1. PICK f : f.type = "HELLO" /\ Say(c, f)
      BY <2>1 DEF SayHello
    <3> QED BY <1>6, <3>1
  <2>2. CASE SayInput(c)
    <3>1. PICK f : f.from = c /\ Say(c, f)
      BY <2>2 DEF SayInput
    <3> QED BY <1>6, <3>1
  <2>3. CASE SayExtra(c)
    <3>1. PICK f : f.type \in Extra /\ Say(c, f)
      BY <2>3 DEF SayExtra
    <3>2. f.type # "INPUT"
      BY <3>1, Limits
    <3> QED BY <1>6, <3>1, <3>2
  <2> QED
    BY <1>7, <2>1, <2>2, <2>3
<1>8. ASSUME NEW c \in Client, HangUp(c) PROVE Signed'
  <2>1. PICK n \in 0 .. Len(up[c]) : up' = [up EXCEPT ![c] = SubSeq(@, 1, n)]
    BY <1>8 DEF HangUp
  <2>2. UNCHANGED <<serving, client>> /\ DOMAIN up = Client /\ Len(up[c]) \in Nat
    BY <1>1, <1>8, SeqFacts DEF HangUp, Shape
  <2>3. SignedBy(SubSeq(up[c], 1, n), c)
    <3>1. 1 \in Nat \ {0} /\ 1 <= n + 1
      BY <2>2
    <3> QED BY <1>1, <3>1, SignedSub
  <2>4. \A d \in Client : SignedBy(up'[d], d)
    BY <1>1, <2>1, <2>2, <2>3
  <2>5. SignedBy(serving', client')
    BY <2>2 DEF Signed
  <2> QED
    BY <2>4, <2>5 DEF Signed, SignedBy
<1>9. ASSUME NEW c \in Client, Accept(c) \/ RecvEnd(c) \/ Flush(c) \/ FlushDrops(c) \/ Sweep(c)
      PROVE  Signed'
  BY <1>3, <1>9 DEF Accept, RecvEnd, Flush, FlushDrops, Sweep
<1>10. CASE UNCHANGED vars
  BY <1>3, <1>10 DEF vars
<1> QED
  BY <1>4, <1>5, <1>7, <1>8, <1>9, <1>10 DEF Next, Server, Console

-----------------------------------------------------------------------------
(* The sender of a record is the one the START before it named: the last   *)
(* frame of play sent to a console that has a partner is of that partner.  *)
OneSenderAs(frames, names) ==
  \A i, j \in Plays(frames) : frames[i].type = "INPUT" /\ Precedes(frames, j, i) =>
    \/ frames[j].type = "START" /\ frames[j].opp = names[frames[i].from]
    \/ frames[j].type = "INPUT" /\ frames[j].from = frames[i].from
FromNamed(frames, names) ==
  \A i \in Plays(frames) :
    frames[i].type = "INPUT" => frames[i].from \in Client /\ names[frames[i].from] # NoName
LatestOf(frames, p, names) ==
  \A j \in Plays(frames) : (\A k \in Plays(frames) : k <= j) =>
    \/ frames[j].type = "START" /\ frames[j].opp = names[p]
    \/ frames[j].type = "INPUT" /\ frames[j].from = p

Senders ==
  /\ \A c \in Client : OneSenderAs(Stream(c), name) /\ FromNamed(Stream(c), name)
  /\ \A c \in Open : partner[c] # NoClient => LatestOf(Stream(c), partner[c], name)

LEMMA SenderAppend ==
  ASSUME NEW s, IsSeq(s), NEW e, NEW names, OneSenderAs(s, names), FromNamed(s, names),
         e.type = "INPUT" => /\ e.from \in Client /\ names[e.from] # NoName
                             /\ LatestOf(s, e.from, names)
  PROVE  /\ OneSenderAs(Append(s, e), names) /\ FromNamed(Append(s, e), names)
         /\ \A p : \/ e.type = "INPUT" /\ e.from = p
                   \/ e.type = "START" /\ e.opp = names[p]
                   \/ e.type \notin {"START", "INPUT", "PEER_LEFT"} /\ LatestOf(s, p, names)
                   => LatestOf(Append(s, e), p, names)
<1> DEFINE t == Append(s, e)
           n == Len(s) + 1
<1>1. /\ n \in Nat \ {0} /\ DOMAIN s = 1 .. n - 1 /\ DOMAIN t = 1 .. n
      /\ \A i \in 1 .. n - 1 : t[i] = s[i]
      /\ t[n] = e
  <2>1. Len(s) \in Nat /\ DOMAIN s = 1 .. Len(s) /\ n - 1 = Len(s)
    BY SeqFacts
  <2> QED BY <2>1, SeqAppend
<1> HIDE DEF t, n
<1>2. \A i \in Plays(s) : i \in Int /\ i < n /\ i \in Plays(t) /\ t[i] = s[i]
  BY <1>1 DEF Plays
<1>3. \A i \in Plays(t) : i \in Plays(s) \/ i = n
  BY <1>1 DEF Plays
<1>4. n \in Plays(t) <=> e.type \in {"START", "INPUT", "PEER_LEFT"}
  BY <1>1 DEF Plays
<1>5. \A i, j \in Plays(s) : Precedes(t, j, i) => Precedes(s, j, i)
  BY <1>1, <1>2, <1>3 DEF Precedes
<1>6. \A i \in Plays(s) : ~Precedes(t, n, i)
  BY <1>1, <1>2 DEF Precedes
<1>7. \A j \in Plays(s) : Precedes(t, j, n) => \A k \in Plays(s) : k <= j
  BY <1>1, <1>2, <1>3 DEF Precedes
<1>8. ~Precedes(t, n, n)
  BY <1>1 DEF Precedes
<1>9. FromNamed(t, names)
  BY <1>1, <1>2, <1>3 DEF FromNamed
<1>10. OneSenderAs(t, names)
  <2> SUFFICES ASSUME NEW i \in Plays(t), NEW j \in Plays(t),
                      t[i].type = "INPUT", Precedes(t, j, i)
               PROVE  \/ t[j].type = "START" /\ t[j].opp = names[t[i].from]
                      \/ t[j].type = "INPUT" /\ t[j].from = t[i].from
    BY DEF OneSenderAs
  <2>1. j \in Plays(s) /\ t[j] = s[j]
    BY <1>2, <1>3, <1>6, <1>8
  <2>2. CASE i \in Plays(s)
    BY <1>2, <1>5, <2>1, <2>2 DEF OneSenderAs
  <2>3. CASE i = n
    <3>1. \A k \in Plays(s) : k <= j
      BY <1>7, <2>1, <2>3
    <3> QED BY <1>1, <2>1, <2>3, <3>1 DEF LatestOf
  <2> QED
    BY <1>3, <2>2, <2>3
<1>11. ASSUME NEW p,
              \/ e.type = "INPUT" /\ e.from = p
              \/ e.type = "START" /\ e.opp = names[p]
              \/ e.type \notin {"START", "INPUT", "PEER_LEFT"} /\ LatestOf(s, p, names)
       PROVE  LatestOf(t, p, names)
  <2> SUFFICES ASSUME NEW j \in Plays(t), \A k \in Plays(t) : k <= j
               PROVE  \/ t[j].type = "START" /\ t[j].opp = names[p]
                      \/ t[j].type = "INPUT" /\ t[j].from = p
    BY DEF LatestOf
  <2>1. CASE e.type \in {"START", "INPUT", "PEER_LEFT"}
    <3>1. j = n
      BY <1>1, <1>2, <1>3, <1>4, <2>1
    <3> QED BY <1>1, <1>11, <2>1, <3>1
  <2>2. CASE e.type \notin {"START", "INPUT", "PEER_LEFT"}
    <3>1. j \in Plays(s) /\ \A k \in Plays(s) : k <= j
      BY <1>2, <1>3, <1>4, <2>2
    <3> QED BY <1>2, <1>11, <2>2, <3>1 DEF LatestOf
  <2> QED
    BY <2>1, <2>2
<1> QED
  BY <1>9, <1>10, <1>11 DEF t

(* A name once given stays.                                                *)
NamesStay == \A x \in Client : name[x] # NoName => name'[x] = name[x]

LEMMA NamesDoStay ==
  ASSUME Shape, RoomStep
  PROVE  NamesStay
<1>1. ASSUME NEW c \in Client, Joins(c) PROVE NamesStay
  <2>1. PICK n : name' = [name EXCEPT ![c] = n]
    BY <1>1 DEF Joins
  <2> QED BY <1>1, <2>1 DEF Joins, NamesStay, Shape
<1> QED
  BY <1>1 DEF RoomStep, Calm, Rejoins, Comes, Leaves, NamesStay

LEMMA SendersStay ==
  ASSUME NEW s, NamesStay, OneSenderAs(s, name), FromNamed(s, name)
  PROVE  OneSenderAs(s, name') /\ FromNamed(s, name')
<1>1. \A i \in Plays(s) : s[i].type = "INPUT" =>
        /\ s[i].from \in Client /\ name'[s[i].from] = name[s[i].from]
        /\ name[s[i].from] # NoName
  BY DEF FromNamed, NamesStay
<1> QED
  BY <1>1 DEF OneSenderAs, FromNamed

LEMMA SendersKept ==
  ASSUME Shape, Room, Sides, ServedOpen, Signed, Senders, RoomStep, "JOIN" \notin Extra
  PROVE  Senders'
<1>1. /\ partner \in [Client -> Client \cup {NoClient}] /\ Open \subseteq Client
      /\ NoClient \notin Client /\ NamesStay
  BY Someone, NamesDoStay DEF Shape, Open
<1>2. ASSUME NEW c \in Open, NEW p \in Client, partner[c] = p
      PROVE  p \in Open /\ partner[p] = c /\ name[p] # NoName /\ name[c] # NoName
  BY <1>1, <1>2 DEF Sides, BothSides
<1>3. \A d \in Client : /\ IsSeq(Stream(d))
                        /\ OneSenderAs(Stream(d), name') /\ FromNamed(Stream(d), name')
  BY <1>1, SendersStay, SeqConcat DEF Senders, Shape, Stream
<1>4. ASSUME NEW d \in Open, partner[d] # NoClient
      PROVE  LatestOf(Stream(d), partner[d], name')
  <2>1. PICK p \in Client : p = partner[d]
    BY <1>1, <1>4
  <2>2. name'[p] = name[p]
    BY <1>1, <1>2, <2>1 DEF NamesStay
  <2> QED
    BY <1>4, <2>1, <2>2 DEF Senders, LatestOf
<1>5. ASSUME NEW d \in Client, NEW e, Stream(d)' = Append(Stream(d), e),
             e.type = "INPUT" => /\ e.from \in Client /\ name'[e.from] # NoName
                                 /\ LatestOf(Stream(d), e.from, name')
      PROVE  /\ OneSenderAs(Stream(d)', name') /\ FromNamed(Stream(d)', name')
             /\ \A p : \/ e.type = "INPUT" /\ e.from = p
                       \/ e.type = "START" /\ e.opp = name'[p]
                       \/ /\ e.type \notin {"START", "INPUT", "PEER_LEFT"}
                          /\ LatestOf(Stream(d), p, name')
                       => LatestOf(Stream(d)', p, name')
  <2>1. PICK s, names : s = Stream(d) /\ names = name'
    OBVIOUS
  <2>2. /\ IsSeq(s) /\ OneSenderAs(s, names) /\ FromNamed(s, names)
        /\ e.type = "INPUT" => /\ e.from \in Client /\ names[e.from] # NoName
                               /\ LatestOf(s, e.from, names)
    BY <1>3, <1>5, <2>1
  <2>3. /\ OneSenderAs(Append(s, e), names) /\ FromNamed(Append(s, e), names)
        /\ \A p : \/ e.type = "INPUT" /\ e.from = p
                  \/ e.type = "START" /\ e.opp = names[p]
                  \/ e.type \notin {"START", "INPUT", "PEER_LEFT"} /\ LatestOf(s, p, names)
                  => LatestOf(Append(s, e), p, names)
    BY <2>2, SenderAppend
  <2>4. Stream(d)' = Append(s, e)
    BY <1>5, <2>1
  <2> QED
    BY <2>1, <2>3, <2>4
<1>6. ASSUME NEW d \in Client
      PROVE  /\ OneSenderAs(Stream(d)', name') /\ FromNamed(Stream(d)', name')
             /\ conn'[d] = "open" /\ partner'[d] # NoClient =>
                  LatestOf(Stream(d)', partner'[d], name')
  <2>1. CASE Calm
    <3>1. UNCHANGED <<conn, name, partner>> /\ Goes(d)
      BY <2>1 DEF Calm
    <3>2. CASE Stream(d)' = Stream(d)
      BY <1>3, <1>4, <3>1, <3>2 DEF Open
    <3>3. ASSUME NEW e, e.type \notin {"START", "PEER_LEFT"},
                 e.type = "INPUT" => /\ client \in Client /\ serving # <<>>
                                     /\ d = partner[client] /\ e = Head(serving),
                 Stream(d)' = Append(Stream(d), e)
          PROVE  /\ OneSenderAs(Stream(d)', name') /\ FromNamed(Stream(d)', name')
                 /\ conn'[d] = "open" /\ partner'[d] # NoClient =>
                      LatestOf(Stream(d)', partner'[d], name')
      <4>1. CASE e.type # "INPUT"
        <5>1. /\ OneSenderAs(Stream(d)', name') /\ FromNamed(Stream(d)', name')
              /\ \A p : LatestOf(Stream(d), p, name') => LatestOf(Stream(d)', p, name')
          BY <1>5, <3>3, <4>1
        <5> QED BY <1>4, <3>1, <5>1 DEF Open
      <4>2. CASE e.type = "INPUT"
        <5>1. PICK c \in Client : c = client
          BY <3>3, <4>2
        <5>2. c \in Open /\ partner[c] = d
          BY <1>1, <3>3, <4>2, <5>1 DEF ServedOpen
        <5>3. d \in Open /\ partner[d] = c /\ name[c] # NoName
          BY <1>2, <5>2
        <5>4. e.from = c
          <6>1. IsSeq(serving) /\ serving # <<>> /\ SignedBy(serving, c) /\ e = Head(serving)
            BY <3>3, <4>2, <5>1 DEF Shape, Signed
          <6>2. e = serving[1] /\ 1 \in DOMAIN serving
            BY <6>1, SeqTail, SeqFacts
          <6> QED BY <4>2, <6>1, <6>2 DEF SignedBy
        <5>5. LatestOf(Stream(d), c, name')
          BY <1>1, <1>4, <5>3
        <5>6. /\ OneSenderAs(Stream(d)', name') /\ FromNamed(Stream(d)', name')
              /\ \A p : e.from = p => LatestOf(Stream(d)', p, name')
          BY <1>5, <3>1, <3>3, <4>2, <5>3, <5>4, <5>5
        <5> QED BY <3>1, <5>3, <5>4, <5>6
      <4> QED
        BY <4>1, <4>2
    <3> QED
      BY <3>1, <3>2, <3>3 DEF Goes
  <2>2. ASSUME NEW k \in Client, Comes(k)
        PROVE  /\ OneSenderAs(Stream(d)', name') /\ FromNamed(Stream(d)', name')
               /\ conn'[d] = "open" /\ partner'[d] # NoClient =>
                    LatestOf(Stream(d)', partner'[d], name')
    <3>1. /\ Stream(d)' = Stream(d) /\ partner' = partner
          /\ conn'[d] = "open" /\ partner[d] # NoClient => d \in Open
      <4>1. conn[k] = "new" /\ partner[k] = NoClient
        BY <2>2 DEF Comes, Room, Sides
      <4> QED BY <2>2, <4>1 DEF Comes, Shape, Open
    <3> QED
      BY <1>3, <1>4, <3>1
  <2>3. ASSUME NEW k \in Client, Leaves(k)
        PROVE  /\ OneSenderAs(Stream(d)', name') /\ FromNamed(Stream(d)', name')
               /\ conn'[d] = "open" /\ partner'[d] # NoClient =>
                    LatestOf(Stream(d)', partner'[d], name')
    <3>1. /\ k \in Open /\ conn' = [conn EXCEPT ![k] = "closed"]
          /\ partner' = IF partner[k] = NoClient THEN partner
                        ELSE [partner EXCEPT ![partner[k]] = NoClient]
          /\ Stream(d)' = IF d = partner[k] THEN Append(Stream(d), PeerLeft) ELSE Stream(d)
      BY <2>3 DEF Leaves
    <3>2. conn'[d] = "open" => d \in Open
      BY <3>1 DEF Shape, Open
    <3>3. partner'[d] = IF d = partner[k] THEN NoClient ELSE partner[d]
      BY <1>1, <3>1
    <3>4. CASE d = partner[k]
      <4>0. PeerLeft.type = "PEER_LEFT"
        BY DEF PeerLeft
      <4>1. PICK e : e = PeerLeft
        OBVIOUS
      <4>2. OneSenderAs(Stream(d)', name') /\ FromNamed(Stream(d)', name')
        BY <1>5, <3>1, <3>4, <4>0, <4>1
      <4> QED BY <3>3, <3>4, <4>2
    <3>5. CASE d # partner[k]
      BY <1>3, <1>4, <3>1, <3>2, <3>3, <3>5
    <3> QED
      BY <3>4, <3>5
  <2>4. ASSUME NEW k \in Client, Joins(k)
        PROVE  /\ OneSenderAs(Stream(d)', name') /\ FromNamed(Stream(d)', name')
               /\ conn'[d] = "open" /\ partner'[d] # NoClient =>
                    LatestOf(Stream(d)', partner'[d], name')
    <3>1. k \in Open /\ UNCHANGED conn /\ Pairs(k)
      BY <2>4 DEF Joins
    <3>2. CASE partner' = partner /\ Stream(d)' = Stream(d)
      BY <1>3, <1>4, <3>1, <3>2 DEF Open
    <3>3. ASSUME NEW host \in Open \ {k},
                 partner' = [partner EXCEPT ![host] = k, ![k] = host],
                 Stream(host)' = Append(Stream(host), Start(0, name'[k])),
                 Stream(k)' = Append(Stream(k), Start(1, name'[host])),
                 \A o \in Client \ {host, k} : Stream(o)' = Stream(o)
          PROVE  /\ OneSenderAs(Stream(d)', name') /\ FromNamed(Stream(d)', name')
                 /\ conn'[d] = "open" /\ partner'[d] # NoClient =>
                      LatestOf(Stream(d)', partner'[d], name')
      <4>1. CASE d \in {host, k}
        <5>1. PICK p \in Client : p = partner'[d]
          BY <1>1, <3>1, <3>3, <4>1
        <5>2. PICK e : e.type = "START" /\ e.opp = name'[p] /\ Stream(d)' = Append(Stream(d), e)
          <6>1. \A r, o : Start(r, o).type = "START" /\ Start(r, o).opp = o
            BY DEF Start
          <6>2. (d = host => p = k) /\ (d = k => p = host)
            BY <1>1, <3>1, <3>3, <5>1
          <6> QED BY <3>3, <4>1, <6>1, <6>2
        <5>3. /\ OneSenderAs(Stream(d)', name') /\ FromNamed(Stream(d)', name')
              /\ LatestOf(Stream(d)', p, name')
          BY <1>5, <5>2
        <5> QED BY <5>1, <5>3
      <4>2. CASE d \notin {host, k}
        <5>1. Stream(d)' = Stream(d) /\ partner'[d] = partner[d]
          BY <1>1, <3>3, <4>2
        <5> QED BY <1>3, <1>4, <3>1, <5>1 DEF Open
      <4> QED
        BY <4>1, <4>2
    <3> QED
      BY <3>1, <3>2, <3>3 DEF Pairs
  <2> QED
    BY <2>1, <2>2, <2>3, <2>4 DEF RoomStep, Rejoins
<1> QED
  BY <1>6 DEF Senders, Open, OneSenderAs, FromNamed, LatestOf, Plays, Precedes

-----------------------------------------------------------------------------
RelayInv == Shape /\ Pending /\ Room

LEMMA RelayInit ==
  Init => RelayInv /\ Sides
<1> SUFFICES ASSUME Init PROVE RelayInv /\ Sides
  OBVIOUS
<1>1. IsSeq(<<>>) /\ WellSaid(<<>>) /\ \A T : ~Has(<<>>, T)
  BY WellSaidEmpty
<1>2. DOMAIN byName = {} /\ curplayers = 0 /\ Cardinality({}) = 0
  <2>1. DOMAIN << >> = {}
    BY <1>1, SeqFacts, EmptySeq
  <2> QED BY <2>1, FS_EmptySet DEF Init
<1>3. Open = {}
  BY DEF Init, Open
<1>4. Shape
  BY <1>1 DEF Init, Shape
<1>5. Pending
  BY <1>1, Someone DEF Init, Pending, InService
<1>6. Room
  BY <1>2, <1>3 DEF Init, Room
<1>7. Sides
  BY <1>3 DEF Init, Sides
<1> QED
  BY <1>4, <1>5, <1>6, <1>7 DEF RelayInv

LEMMA RelayNext ==
  RelayInv /\ [Next]_vars => RelayInv'
BY Steps, PendingStep, RoomKept DEF RelayInv

LEMMA RelayInvariant ==
  Spec => []RelayInv
<1>1. Init => RelayInv
  BY RelayInit
<1> QED
  BY <1>1, RelayNext, PTL DEF Spec

(* The Lobby is told how many consoles are connected and have said HELLO,  *)
(* after every step of the server: a name is in by_name as long as its     *)
(* console is there, and under that console only (lobby_update, drop).     *)
THEOREM RoomIsAnnounced == Spec => []Announced
<1>1. RelayInv => Announced
  BY RoomIsCounted DEF RelayInv
<1> QED
  BY <1>1, RelayInvariant, PTL

(* The types of the relay's own state, and no more in the room than there  *)
(* are connections.                                                        *)
THEOREM RelayTypeOK == Spec => []TypeOK
<1>1. RelayInv => TypeOK
  <2> SUFFICES ASSUME RelayInv PROVE TypeOK
    OBVIOUS
  <2>1. curplayers \in 0 .. Cardinality(Client)
    BY RoomIsCounted DEF RelayInv
  <2>2. \A n \in DOMAIN byName : n \in Name \X ({0} \cup Digits) /\ byName[n] \in Client
    BY DEF RelayInv, Room, Names, Open
  <2> QED
    BY <2>1, <2>2 DEF RelayInv, Shape, TypeOK, Names
<1> QED
  BY <1>1, RelayInvariant, PTL

(* A match has two sides, however many consoles come and go, as long as no *)
(* client says JOIN: partners are each other's, both connected, and their  *)
(* last STARTs give them different lanes and each other's names.  on_join  *)
(* does not ask whether its sender has a partner, which would cross it.    *)
THEOREM MatchHasTwoSides ==
  ASSUME "JOIN" \notin Extra
  PROVE  Spec => []Matched
<1>1. Init => Sides
  BY RelayInit
<1>2. RelayInv /\ Sides /\ [Next]_vars => Sides'
  <2> SUFFICES ASSUME RelayInv, Sides, [Next]_vars PROVE Sides'
    OBVIOUS
  <2>1. RoomStep /\ partner' \in [Client -> Client \cup {NoClient}]
    <3>1. Shape' /\ RoomStep
      BY Steps DEF RelayInv
    <3> QED BY <3>1 DEF Shape
  <2> QED
    BY <2>1, SidesKept DEF RelayInv
<1>3. RelayInv /\ Sides => Matched
  BY SidesMatch DEF RelayInv
<1> QED
  BY <1>1, <1>2, <1>3, RelayInvariant, PTL DEF Spec

(* A console is in one match at a time, as long as no client says JOIN:    *)
(* START, records, PEER_LEFT and only then another START, and the records  *)
(* in between are all of the console that START named, though frames of    *)
(* both are handled, flushed and lost in any order with drops.             *)
THEOREM MatchAfterMatch ==
  ASSUME "JOIN" \notin Extra
  PROVE  Spec => []OneMatchAtATime
<1> DEFINE Inv == Sides /\ ServedOpen /\ Turns /\ Signed /\ Senders
<1>1. Init => Inv
  <2> SUFFICES ASSUME Init PROVE Inv
    OBVIOUS
  <2>1. Shape /\ Sides
    BY RelayInit DEF RelayInv
  <2>2. ServedOpen
    BY Someone DEF Init, ServedOpen
  <2>3. ASSUME NEW c \in Client PROVE OneByOne(Stream(c)) /\ Free(Stream(c))
    <3>1. Stream(c) = <<>>
      <4>1. Stream(c) = <<>> \o <<>> /\ <<>> \in Seq({})
        BY EmptySeq DEF Init, Stream
      <4> QED BY <4>1, ConcatEmptySeq
    <3>2. Plays(<<>>) = {}
      <4>1. DOMAIN <<>> = {}
        BY WellSaidEmpty, SeqFacts, EmptySeq
      <4> QED BY <4>1 DEF Plays
    <3> QED
      BY <3>1, <3>2 DEF OneByOne, Free
  <2>4. Turns
    BY <2>3 DEF Init, Turns
  <2>5. Signed
    <3>1. DOMAIN <<>> = {}
      BY WellSaidEmpty, SeqFacts, EmptySeq
    <3> QED BY <3>1 DEF Init, Signed, SignedBy
  <2>6. Senders
    <3>1. \A c \in Client : Plays(Stream(c)) = {}
      <4> SUFFICES ASSUME NEW c \in Client PROVE Plays(Stream(c)) = {}
        OBVIOUS
      <4>1. Stream(c) = <<>> \o <<>> /\ <<>> \in Seq({})
        BY EmptySeq DEF Init, Stream
      <4>2. Stream(c) = <<>> /\ DOMAIN <<>> = {}
        BY <4>1, ConcatEmptySeq, WellSaidEmpty, SeqFacts, EmptySeq
      <4> QED BY <4>2 DEF Plays
    <3>2. Open = {}
      BY DEF Init, Open
    <3> QED
      BY <3>1, <3>2 DEF Senders, OneSenderAs, FromNamed
  <2> QED
    BY <2>1, <2>2, <2>4, <2>5, <2>6
<1>2. RelayInv /\ Inv /\ [Next]_vars => Inv'
  <2> SUFFICES ASSUME RelayInv, Inv, [Next]_vars PROVE Inv'
    OBVIOUS
  <2>1. RoomStep /\ partner' \in [Client -> Client \cup {NoClient}]
    <3>1. Shape' /\ RoomStep
      BY Steps DEF RelayInv
    <3> QED BY <3>1 DEF Shape
  <2>2. Sides'
    BY <2>1, SidesKept DEF RelayInv
  <2>3. ServedOpen'
    BY ServedOpenKept DEF RelayInv
  <2>4. Turns'
    BY <2>1, TurnsKept DEF RelayInv
  <2>5. Signed' /\ Senders'
    BY <2>1, SignedKept, SendersKept DEF RelayInv
  <2> QED
    BY <2>2, <2>3, <2>4, <2>5
<1>3. Inv => OneMatchAtATime
  BY DEF Turns, Senders, OneSenderAs, OneSender, OneMatchAtATime
<1> HIDE DEF Inv
<1> QED
  BY <1>1, <1>2, <1>3, RelayInvariant, PTL DEF Spec

(***************************************************************************)
(* What the gate takes the relay for: the records of a console reach its   *)
(* partner complete and in order, for any number of connections, however   *)
(* their bytes are cut into recv() and send(), whoever comes and leaves.   *)
(***************************************************************************)

-----------------------------------------------------------------------------
(* Types, by induction over the frames.                                    *)
Sift(g, s, T, n) == IF s[n].type \in T THEN Append(g[n - 1], s[n]) ELSE g[n - 1]
Sifts(g, s, T) ==
  g = [n \in 0 .. Len(s) |->
        IF n = 0 THEN <<>>
        ELSE IF s[n].type \in T THEN Append(g[n - 1], s[n]) ELSE g[n - 1]]

LEMMA SiftExists ==
  ASSUME NEW S, NEW s \in Seq(S), NEW T
  PROVE  \E g : Sifts(g, s, T)
<1>1. PICK N \in Nat : N = Len(s)
  OBVIOUS
<1>2. PICK Q : Q = Seq(S)
  OBVIOUS
<1>3. \A q \in Q, x \in S : Append(q, x) \in Q
  BY <1>2
<1>4. PICK z \in Q : z = <<>>
  <2>1. <<>> \in Q
    BY <1>2, EmptySeq
  <2> QED BY <2>1
<1>5. PICK step : step = [p \in Nat \X Q |-> IF p[1] \in 1 .. N /\ s[p[1]].type \in T
                                            THEN Append(p[2], s[p[1]]) ELSE p[2]]
  OBVIOUS
<1>6. step \in [Nat \X Q -> Q]
  <2>1. \A n \in 1 .. N : s[n] \in S
    BY <1>1
  <2> QED
    BY <1>3, <1>5, <2>1
<1>7. PICK g \in [0 .. N -> Q] : StepDefined(g, N, z, step)
  BY <1>1, <1>4, <1>6, StepByStep
<1>8. g \in [0 .. N -> Q] /\ g[0] = z /\ \A n \in 1 .. N : g[n] = step[<<n, g[n - 1]>>]
  BY <1>7 DEF StepDefined
<1>9. ASSUME NEW n \in 1 .. N PROVE g[n] = Sift(g, s, T, n)
  <2>1. n \in Nat /\ g[n - 1] \in Q
    BY <1>8
  <2> QED
    BY <1>5, <1>8, <2>1 DEF Sift
<1>10. ASSUME NEW n \in 0 .. N PROVE g[n] = IF n = 0 THEN <<>> ELSE Sift(g, s, T, n)
  <2>1. CASE n = 0
    BY <1>4, <1>8, <2>1
  <2>2. CASE n # 0
    <3>1. n \in 1 .. N
      BY <2>2
    <3> QED
      BY <1>9, <2>2, <3>1
  <2> QED
    BY <2>1, <2>2
<1>11. g = [n \in 0 .. N |-> g[n]]
  BY <1>8
<1> QED
  BY <1>1, <1>10, <1>11 DEF Sifts, Sift

Sifted(g, s, T) ==
  /\ Types(s, T) = g[Len(s)] /\ g[0] = <<>>
  /\ \A n \in 1 .. Len(s) : g[n] = Sift(g, s, T, n)
  /\ \A n \in 0 .. Len(s) : IsSeq(g[n])

LEMMA SiftTypes ==
  ASSUME NEW s, IsSeq(s), NEW T
  PROVE  \E g : Sifted(g, s, T)
<1>1. PICK N \in Nat : N = Len(s)
  BY SeqFacts
<1>2. PICK g : g = CHOOSE f : Sifts(f, s, T)
  OBVIOUS
<1>3. Sifts(g, s, T)
  BY <1>2, SiftExists DEF IsSeq
<1>4. Types(s, T) = g[N]
  BY <1>1, <1>2 DEF Types, Sifts
<1>5. g[0] = <<>>
  BY <1>1, <1>3 DEF Sifts
<1>6. ASSUME NEW n \in 1 .. N PROVE g[n] = Sift(g, s, T, n)
  <2>1. n \in 0 .. N /\ n # 0
    BY <1>1
  <2> QED
    BY <1>1, <1>3, <2>1 DEF Sifts, Sift
<1>7. PICK P : P = {n \in 0 .. N : IsSeq(g[n])}
  OBVIOUS
<1>8. 0 \in P
  BY <1>5, <1>7, WellSaidEmpty
<1>9. ASSUME NEW n \in 0 .. N - 1, n \in P PROVE n + 1 \in P
  <2>1. n + 1 \in 1 .. N /\ (n + 1) - 1 = n
    OBVIOUS
  <2>2. g[n + 1] = IF s[n + 1].type \in T THEN Append(g[n], s[n + 1]) ELSE g[n]
    BY <1>6, <2>1 DEF Sift
  <2>3. IsSeq(g[n]) /\ IsSeq(Append(g[n], s[n + 1]))
    BY <1>7, <1>9, SeqAppend
  <2> QED
    BY <1>7, <2>1, <2>2, <2>3
<1>10. 0 .. N \subseteq P
  BY <1>8, <1>9, UpTo
<1>11. \A n \in 0 .. N : IsSeq(g[n])
  BY <1>7, <1>10
<1>12. Sifted(g, s, T)
  BY <1>1, <1>4, <1>5, <1>6, <1>11 DEF Sifted
<1> QED
  BY <1>12

LEMMA TypesSeq ==
  ASSUME NEW s, IsSeq(s), NEW T
  PROVE  IsSeq(Types(s, T))
<1>1. PICK g : Sifted(g, s, T)
  BY SiftTypes
<1>2. Len(s) \in 0 .. Len(s)
  BY SeqFacts
<1> QED
  BY <1>1, <1>2 DEF Sifted

LEMMA TypesEmpty ==
  ASSUME NEW T
  PROVE  Types(<<>>, T) = <<>>
<1>1. IsSeq(<<>>) /\ Len(<<>>) = 0
  BY WellSaidEmpty, EmptySeq
<1>2. PICK g : Sifted(g, <<>>, T)
  BY <1>1, SiftTypes
<1> QED
  BY <1>1, <1>2 DEF Sifted

LEMMA TypesAppend ==
  ASSUME NEW s, IsSeq(s), NEW e, NEW T
  PROVE  Types(Append(s, e), T) = IF e.type \in T THEN Append(Types(s, T), e) ELSE Types(s, T)
<1>1. PICK N \in Nat : N = Len(s)
  BY SeqFacts
<1>2. PICK t : t = Append(s, e)
  OBVIOUS
<1>3. /\ IsSeq(t) /\ Len(t) = N + 1 /\ t[N + 1] = e
      /\ \A n \in 1 .. N : t[n] = s[n]
  BY <1>1, <1>2, SeqAppend
<1>13. PICK g : Sifted(g, s, T)
  BY SiftTypes
<1>4. /\ Types(s, T) = g[N] /\ g[0] = <<>>
      /\ \A n \in 1 .. N : g[n] = Sift(g, s, T, n)
  BY <1>1, <1>13 DEF Sifted
<1>14. PICK h : Sifted(h, t, T)
  BY <1>3, SiftTypes
<1>5. /\ Types(t, T) = h[N + 1] /\ h[0] = <<>>
      /\ \A n \in 1 .. N + 1 : h[n] = Sift(h, t, T, n)
  BY <1>3, <1>14 DEF Sifted
<1>6. PICK P : P = {n \in 0 .. N : h[n] = g[n]}
  OBVIOUS
<1>7. 0 \in P
  BY <1>4, <1>5, <1>6
<1>8. ASSUME NEW n \in 0 .. N - 1, n \in P PROVE n + 1 \in P
  <2>1. n + 1 \in 1 .. N /\ n + 1 \in 1 .. N + 1 /\ (n + 1) - 1 = n
    OBVIOUS
  <2>2. h[n] = g[n] /\ t[n + 1] = s[n + 1]
    BY <1>3, <1>6, <1>8, <2>1
  <2>3. h[n + 1] = g[n + 1]
    BY <1>4, <1>5, <2>1, <2>2 DEF Sift
  <2> QED
    BY <1>6, <2>1, <2>3
<1>9. N \in P
  BY <1>7, <1>8, UpTo, N \in 0 .. N
<1>10. h[N] = g[N]
  BY <1>6, <1>9
<1>11. N + 1 \in 1 .. N + 1 /\ (N + 1) - 1 = N
  OBVIOUS
<1>12. h[N + 1] = IF e.type \in T THEN Append(h[N], e) ELSE h[N]
  BY <1>3, <1>5, <1>11 DEF Sift
<1> QED
  BY <1>2, <1>4, <1>5, <1>10, <1>12

(* A sequence, prefix by prefix.                                           *)
LEMMA Prefixes ==
  ASSUME NEW t, IsSeq(t)
  PROVE  /\ Len(t) \in Nat /\ SubSeq(t, 1, 0) = <<>> /\ SubSeq(t, 1, Len(t)) = t
         /\ \A n \in 0 .. Len(t) : IsSeq(SubSeq(t, 1, n))
         /\ \A n \in 0 .. Len(t) - 1 : SubSeq(t, 1, n + 1) = Append(SubSeq(t, 1, n), t[n + 1])
<1> DEFINE S == {t[i] : i \in DOMAIN t}
<1>1. Len(t) \in Nat /\ DOMAIN t = 1 .. Len(t) /\ t \in Seq(S)
  BY SeqFacts DEF IsSeq
<1>2. \A i \in 1 .. Len(t) : t[i] \in S
  BY <1>1
<1> HIDE DEF S
<1>3. SubSeq(t, 1, Len(t)) = t
  BY <1>1, SubSeqFull
<1>4. ASSUME NEW n \in 0 .. Len(t) PROVE IsSeq(SubSeq(t, 1, n)) /\ Len(SubSeq(t, 1, n)) = n
  <2>1. 1 \in Nat \ {0} /\ 1 <= n + 1 /\ n - 1 + 1 = n
    OBVIOUS
  <2> QED BY <2>1, SeqSub
<1>5. SubSeq(t, 1, 0) = <<>>
  <2>1. Len(SubSeq(t, 1, 0)) = 0 /\ IsSeq(SubSeq(t, 1, 0))
    BY <1>1, <1>4
  <2> QED BY <2>1, EmptySeq DEF IsSeq
<1>6. ASSUME NEW n \in 0 .. Len(t) - 1
      PROVE  SubSeq(t, 1, n + 1) = Append(SubSeq(t, 1, n), t[n + 1])
  <2> DEFINE a == SubSeq(t, 1, n)
             b == SubSeq(t, 1, n + 1)
             c == Append(a, t[n + 1])
  <2>1. n \in 0 .. Len(t) /\ n + 1 \in 0 .. Len(t) /\ 1 \in Nat \ {0} /\ 1 <= n + 1 /\ 1 <= n + 1 + 1
    BY <1>1
  <2>2. IsSeq(a) /\ Len(a) = n /\ \A i \in 1 .. n : a[i] = t[i]
    <3>1. /\ IsSeq(a) /\ Len(a) = n - 1 + 1
          /\ \A i \in 1 .. n - 1 + 1 : a[i] = t[1 + i - 1]
      BY <2>1, SeqSub
    <3>2. n - 1 + 1 = n /\ \A i \in 1 .. n : 1 + i - 1 = i
      OBVIOUS
    <3> HIDE DEF a
    <3> QED BY <3>1, <3>2
  <2>3. IsSeq(b) /\ Len(b) = n + 1 /\ \A i \in 1 .. n + 1 : b[i] = t[i]
    <3>1. /\ IsSeq(b) /\ Len(b) = n + 1 - 1 + 1
          /\ \A i \in 1 .. n + 1 - 1 + 1 : b[i] = t[1 + i - 1]
      BY <2>1, SeqSub
    <3>2. n + 1 - 1 + 1 = n + 1 /\ \A i \in 1 .. n + 1 : 1 + i - 1 = i
      OBVIOUS
    <3> HIDE DEF b
    <3> QED BY <3>1, <3>2
  <2> HIDE DEF a, b
  <2>4. IsSeq(c) /\ Len(c) = n + 1 /\ c[n + 1] = t[n + 1] /\ \A i \in 1 .. n : c[i] = a[i]
    BY <2>2, SeqAppend
  <2>5. \A i \in 1 .. n + 1 : b[i] = c[i]
    BY <2>2, <2>3, <2>4
  <2> HIDE DEF c
  <2>6. b = c
    BY <2>3, <2>4, <2>5, SeqEqual DEF IsSeq
  <2> QED
    BY <2>6 DEF a, b, c
<1> QED
  BY <1>1, <1>3, <1>4, <1>5, <1>6

LEMMA ConcatNothing ==
  ASSUME NEW s, IsSeq(s)
  PROVE  s \o <<>> = s /\ <<>> \o s = s
BY ConcatEmptySeq DEF IsSeq

LEMMA ConcatThrice ==
  ASSUME NEW s, IsSeq(s), NEW t, IsSeq(t), NEW u, IsSeq(u)
  PROVE  (s \o t) \o u = s \o (t \o u)
<1> DEFINE S == {s[i] : i \in DOMAIN s} \cup {t[i] : i \in DOMAIN t} \cup {u[i] : i \in DOMAIN u}
<1>1. s \in Seq(S) /\ t \in Seq(S) /\ u \in Seq(S)
  BY SeqMonotonic, {s[i] : i \in DOMAIN s} \subseteq S, {t[i] : i \in DOMAIN t} \subseteq S,
     {u[i] : i \in DOMAIN u} \subseteq S DEF IsSeq
<1> HIDE DEF S
<1> QED
  BY <1>1, ConcatAssociative

LEMMA OneAlone ==
  ASSUME NEW f
  PROVE  Append(<<>>, f) = <<f>> /\ IsSeq(<<f>>)
<1>1. Append(<<>>, f) = <<f>>
  OBVIOUS
<1>2. PICK a : a = Append(<<>>, f)
  OBVIOUS
<1>3. IsSeq(a)
  BY <1>2, WellSaidEmpty, SeqAppend
<1> QED
  BY <1>1, <1>2, <1>3, Zenon

LEMMA TypesConcat ==
  ASSUME NEW s, IsSeq(s), NEW t, IsSeq(t), NEW T
  PROVE  Types(s \o t, T) = Types(s, T) \o Types(t, T)
<1>1. PICK p : p = [n \in 0 .. Len(t) |-> SubSeq(t, 1, n)]
  OBVIOUS
<1>2. PICK N \in Nat : N = Len(t)
  BY SeqFacts
<1>3. /\ p[0] = <<>> /\ p[N] = t
      /\ \A n \in 0 .. N : IsSeq(p[n])
      /\ \A n \in 0 .. N - 1 : p[n + 1] = Append(p[n], t[n + 1])
  <2>1. 0 \in 0 .. N /\ N \in 0 .. N /\ \A n \in 0 .. N - 1 : n \in 0 .. N /\ n + 1 \in 0 .. N
    OBVIOUS
  <2> QED
    BY <1>1, <1>2, <2>1, Prefixes
<1>4. PICK P : P = {n \in 0 .. N : Types(s \o p[n], T) = Types(s, T) \o Types(p[n], T)}
  OBVIOUS
<1>5. 0 \in P
  <2>1. Types(s, T) \o <<>> = Types(s, T) /\ s \o <<>> = s
    BY TypesSeq, ConcatNothing
  <2>2. Types(<<>>, T) = <<>> /\ 0 \in 0 .. N
    BY TypesEmpty
  <2>3. Types(s \o p[0], T) = Types(s, T) \o Types(p[0], T)
    BY <1>3, <2>1, <2>2, Zenon
  <2> QED
    BY <1>3, <1>4, <2>1, <2>2, <2>3
<1>6. ASSUME NEW n \in 0 .. N - 1, n \in P PROVE n + 1 \in P
  <2>1. PICK q : q = p[n]
    OBVIOUS
  <2>2. PICK e : e = t[n + 1]
    OBVIOUS
  <2>3. n + 1 \in 0 .. N /\ IsSeq(q) /\ p[n + 1] = Append(q, e)
    BY <1>3, <2>1, <2>2
  <2>4. Types(s \o q, T) = Types(s, T) \o Types(q, T)
    BY <1>4, <1>6, <2>1
  <2>5. s \o Append(q, e) = Append(s \o q, e) /\ IsSeq(s \o q)
    BY <2>3, ConcatAppend, SeqConcat
  <2>6. /\ Types(s \o Append(q, e), T) =
             IF e.type \in T THEN Append(Types(s \o q, T), e) ELSE Types(s \o q, T)
        /\ Types(Append(q, e), T) = IF e.type \in T THEN Append(Types(q, T), e) ELSE Types(q, T)
    BY <2>3, <2>5, TypesAppend, SMTT(30)
  <2>7. PICK a : a = Types(s, T)
    OBVIOUS
  <2>8. PICK b : b = Types(q, T)
    OBVIOUS
  <2>9. a \o Append(b, e) = Append(a \o b, e)
    BY <2>3, <2>7, <2>8, TypesSeq, ConcatAppend
  <2>10. Types(s \o p[n + 1], T) = Types(s, T) \o Types(p[n + 1], T)
    BY <2>3, <2>4, <2>6, <2>7, <2>8, <2>9
  <2> QED
    BY <1>4, <2>3, <2>10
<1>7. N \in P
  BY <1>5, <1>6, UpTo, N \in 0 .. N
<1> QED
  BY <1>3, <1>4, <1>7

LEMMA TypesNone ==
  ASSUME NEW t, IsSeq(t), NEW T
  PROVE  Types(t, T) = <<>> <=> ~Has(t, T)
<1>1. PICK p : p = [n \in 0 .. Len(t) |-> SubSeq(t, 1, n)]
  OBVIOUS
<1>2. PICK N \in Nat : N = Len(t)
  BY SeqFacts
<1>3. /\ p[0] = <<>> /\ p[N] = t
      /\ \A n \in 0 .. N : IsSeq(p[n])
      /\ \A n \in 0 .. N - 1 : p[n + 1] = Append(p[n], t[n + 1])
  <2>1. 0 \in 0 .. N /\ N \in 0 .. N /\ \A n \in 0 .. N - 1 : n \in 0 .. N /\ n + 1 \in 0 .. N
    OBVIOUS
  <2> QED
    BY <1>1, <1>2, <2>1, Prefixes
<1>4. PICK P : P = {n \in 0 .. N : Types(p[n], T) = <<>> <=> ~Has(p[n], T)}
  OBVIOUS
<1>5. 0 \in P
  BY <1>3, <1>4, TypesEmpty, WellSaidEmpty
<1>6. ASSUME NEW n \in 0 .. N - 1, n \in P PROVE n + 1 \in P
  <2>1. PICK q : q = p[n]
    OBVIOUS
  <2>2. PICK e : e = t[n + 1]
    OBVIOUS
  <2>3. n + 1 \in 0 .. N /\ IsSeq(q) /\ p[n + 1] = Append(q, e)
    BY <1>3, <2>1, <2>2
  <2>4. Types(q, T) = <<>> <=> ~Has(q, T)
    BY <1>4, <1>6, <2>1
  <2>5. Types(Append(q, e), T) = IF e.type \in T THEN Append(Types(q, T), e) ELSE Types(q, T)
    BY <2>3, TypesAppend
  <2>6. Has(Append(q, e), T) <=> Has(q, T) \/ e.type \in T
    BY <2>3, HasAppend
  <2>7. Append(Types(q, T), e) # <<>>
    <3>1. PICK a : a = Types(q, T)
      OBVIOUS
    <3>2. IsSeq(a)
      BY <2>3, <3>1, TypesSeq
    <3>3. Len(Append(a, e)) = Len(a) + 1 /\ Len(a) \in Nat /\ Len(<<>>) = 0
      BY <3>2, SeqAppend, SeqFacts, EmptySeq
    <3>4. Append(a, e) # <<>>
      BY <3>3
    <3> QED BY <3>1, <3>4
  <2>8. Types(p[n + 1], T) = <<>> <=> ~Has(p[n + 1], T)
    BY <2>3, <2>4, <2>5, <2>6, <2>7
  <2> QED
    BY <1>4, <2>3, <2>8
<1>7. N \in P
  BY <1>5, <1>6, UpTo, N \in 0 .. N
<1> QED
  BY <1>3, <1>4, <1>7

LEMMA HasConcat ==
  ASSUME NEW s, IsSeq(s), NEW t, IsSeq(t), NEW T, Has(s, T)
  PROVE  Has(s \o t, T)
<1>1. Types(s \o t, T) = Types(s, T) \o Types(t, T)
  BY TypesConcat
<1>6. IsSeq(s \o t)
  BY SeqConcat
<1>2. PICK a : a = Types(s, T)
  OBVIOUS
<1>3. PICK b : b = Types(t, T)
  OBVIOUS
<1>4. IsSeq(a) /\ IsSeq(b) /\ a # <<>>
  BY <1>2, <1>3, TypesSeq, TypesNone
<1>5. a \o b # <<>>
  <2> DEFINE S == {a[i] : i \in DOMAIN a} \cup {b[i] : i \in DOMAIN b}
  <2>1. a \in Seq(S) /\ b \in Seq(S)
    BY <1>4, SeqMonotonic, {a[i] : i \in DOMAIN a} \subseteq S, {b[i] : i \in DOMAIN b} \subseteq S
       DEF IsSeq
  <2> HIDE DEF S
  <2> QED
    BY <1>4, <2>1, ConcatEmptySeq
<1>7. Types(s \o t, T) # <<>>
  BY <1>1, <1>2, <1>3, <1>5
<1> QED
  BY <1>6, <1>7, TypesNone

(* The frame that is handled, and those that wait behind it.               *)
LEMMA TypesHead ==
  ASSUME NEW s, IsSeq(s), s # <<>>, NEW T
  PROVE  /\ Head(s).type \notin T => Types(s, T) = Types(Tail(s), T)
         /\ Head(s).type \in T => Types(s, T) = <<Head(s)>> \o Types(Tail(s), T)
<1>1. PICK f : f = Head(s)
  OBVIOUS
<1>2. PICK t : t = Tail(s)
  OBVIOUS
<1>3. IsSeq(t) /\ s = <<f>> \o t
  <2>1. Len(s) \in Nat \ {0} /\ t = SubSeq(s, 2, Len(s)) /\ f = s[1]
    BY <1>1, <1>2, SeqTail
  <2>2. SubSeq(s, 1, 1) = <<f>>
    <3>1. SubSeq(s, 1, 0) = <<>> /\ SubSeq(s, 1, 0 + 1) = Append(SubSeq(s, 1, 0), s[0 + 1])
      BY <2>1, Prefixes, 0 \in 0 .. Len(s) - 1
    <3>2. 0 + 1 = 1
      OBVIOUS
    <3>3. SubSeq(s, 1, 1) = Append(<<>>, f)
      BY <2>1, <3>1, <3>2, Zenon
    <3> QED BY <3>3, OneAlone, Zenon
  <2>3. 1 \in 0 .. Len(s) /\ 1 + 1 = 2
    BY <2>1
  <2>4. (<<>> \o SubSeq(s, 1, 1)) \o SubSeq(s, 1 + 1, Len(s)) = <<>> \o s
    BY <2>3, WellSaidEmpty, ConcatSplit
  <2>5. IsSeq(<<f>>) /\ IsSeq(t)
    <3>1. 2 \in Nat \ {0} /\ Len(s) \in 0 .. Len(s) /\ 2 <= Len(s) + 1
      BY <2>1
    <3>2. IsSeq(SubSeq(s, 2, Len(s)))
      BY <3>1, SeqSub
    <3> QED BY <2>1, <3>2, OneAlone, Zenon
  <2> QED
    BY <2>1, <2>2, <2>3, <2>4, <2>5, ConcatNothing
<1>4. IsSeq(<<>>) /\ IsSeq(<<f>>) /\ <<f>> = Append(<<>>, f)
  BY WellSaidEmpty, OneAlone, Zenon
<1>5. Types(<<f>>, T) = IF f.type \in T THEN <<f>> ELSE <<>>
  <2>1. Types(Append(<<>>, f), T) =
          IF f.type \in T THEN Append(Types(<<>>, T), f) ELSE Types(<<>>, T)
    BY <1>4, TypesAppend
  <2>2. Types(<<>>, T) = <<>>
    BY TypesEmpty
  <2> QED
    BY <1>4, <2>1, <2>2, Zenon
<1>6. Types(s, T) = Types(<<f>>, T) \o Types(t, T)
  <2>1. PICK o : o = <<f>>
    OBVIOUS
  <2>2. IsSeq(o)
    BY <1>4, <2>1, Zenon
  <2>3. Types(o \o t, T) = Types(o, T) \o Types(t, T)
    BY <1>3, <2>2, TypesConcat
  <2> QED
    BY <1>3, <2>1, <2>3, Zenon
<1>7. <<>> \o Types(t, T) = Types(t, T)
  BY <1>3, TypesSeq, ConcatNothing
<1> QED
  BY <1>1, <1>2, <1>5, <1>6, <1>7

-----------------------------------------------------------------------------
(* The records since the last START, when a frame is added.                *)
SinceStart(s) == Inputs(SubSeq(s, LastStart(s) + 1, Len(s)))

(* The records since the last START are a sequence, when there is one.     *)
LEMMA SinceSeq ==
  ASSUME NEW s, IsSeq(s), \E r, o : Started(s, r, o)
  PROVE  IsSeq(SinceStart(s))
<1>1. PICK i \in DOMAIN s : /\ s[i].type = "START"
                            /\ \A j \in DOMAIN s : s[j].type = "START" => j <= i
  BY DEF Started
<1>2. LastStart(s) = i
  BY <1>1, ThatStart
<1>3. i + 1 \in Nat \ {0} /\ Len(s) \in 0 .. Len(s) /\ i + 1 <= Len(s) + 1
  BY SeqFacts
<1>4. IsSeq(SubSeq(s, i + 1, Len(s)))
  BY <1>3, SeqSub
<1> QED
  BY <1>2, <1>4, TypesSeq DEF SinceStart, Inputs

LEMMA SinceNew ==
  ASSUME NEW s, IsSeq(s), NEW e, e.type = "START"
  PROVE  SinceStart(Append(s, e)) = <<>>
<1>1. PICK t : t = Append(s, e)
  OBVIOUS
<1>2. PICK N \in Nat : N = Len(s)
  BY SeqFacts
<1>3. IsSeq(t) /\ Len(t) = N + 1 /\ DOMAIN t = 1 .. N + 1 /\ t[N + 1] = e
  BY <1>1, <1>2, SeqAppend
<1>4. LastStart(t) = N + 1
  <2>1. N + 1 \in DOMAIN t /\ t[N + 1].type = "START"
    BY <1>3
  <2>2. \A j \in DOMAIN t : t[j].type = "START" => j <= N + 1
    BY <1>3
  <2> QED
    BY <1>3, <2>1, <2>2, ThatStart
<1>5. SubSeq(t, LastStart(t) + 1, Len(t)) = <<>>
  <2>1. PICK u : u = SubSeq(t, N + 2, N + 1)
    OBVIOUS
  <2>2. /\ N + 2 \in Nat \ {0} /\ N + 1 \in 0 .. Len(t) /\ N + 2 <= (N + 1) + 1
        /\ (N + 1) - (N + 2) + 1 = 0
    BY <1>3
  <2>3. IsSeq(u) /\ Len(u) = 0
    BY <1>3, <2>1, <2>2, SeqSub
  <2>4. u = <<>>
    BY <2>3, EmptySeq DEF IsSeq
  <2>5. (N + 1) + 1 = N + 2
    OBVIOUS
  <2> QED
    BY <1>3, <1>4, <2>1, <2>4, <2>5
<1>6. Types(<<>>, {"INPUT"}) = <<>>
  BY TypesEmpty
<1> QED
  BY <1>1, <1>5, <1>6 DEF SinceStart, Inputs

LEMMA SinceAppend ==
  ASSUME NEW s, IsSeq(s), NEW e, e.type # "START", NEW r, NEW o, Started(s, r, o)
  PROVE  SinceStart(Append(s, e)) =
           IF e.type = "INPUT" THEN Append(SinceStart(s), e) ELSE SinceStart(s)
<1>1. PICK t : t = Append(s, e)
  OBVIOUS
<1>2. PICK N \in Nat : N = Len(s)
  BY SeqFacts
<1>3. /\ IsSeq(t) /\ Len(t) = N + 1 /\ DOMAIN t = 1 .. N + 1 /\ t[N + 1] = e
      /\ DOMAIN s = 1 .. N /\ \A i \in 1 .. N : t[i] = s[i]
  BY <1>1, <1>2, SeqAppend, SeqFacts
<1>4. PICK i \in 1 .. N : /\ s[i].type = "START"
                          /\ \A j \in DOMAIN s : s[j].type = "START" => j <= i
  BY <1>3 DEF Started
<1>5. LastStart(s) = i
  BY <1>3, <1>4, ThatStart
<1>6. LastStart(t) = i
  <2>1. i \in DOMAIN t /\ t[i].type = "START"
    BY <1>3, <1>4
  <2>2. \A j \in DOMAIN t : t[j].type = "START" => j <= i
    BY <1>3, <1>4
  <2> QED
    BY <1>3, <2>1, <2>2, ThatStart
<1>7. PICK u : u = SubSeq(s, i + 1, N)
  OBVIOUS
<1>8. PICK v : v = SubSeq(t, i + 1, N + 1)
  OBVIOUS
<1>9. IsSeq(u) /\ v = Append(u, e)
  <2>1. /\ i + 1 \in Nat \ {0} /\ N \in 0 .. Len(s) /\ i + 1 <= N + 1
        /\ N + 1 \in 0 .. Len(t) /\ i + 1 <= N + 1 + 1
        /\ N - (i + 1) + 1 = N - i /\ (N + 1) - (i + 1) + 1 = N - i + 1 /\ N - i \in Nat
    BY <1>2, <1>3
  <2>2. IsSeq(u) /\ Len(u) = N - i /\ \A k \in 1 .. N - i : u[k] = s[i + 1 + k - 1]
    BY <1>7, <2>1, SeqSub, SMTT(30)
  <2>3. IsSeq(v) /\ Len(v) = N - i + 1 /\ \A k \in 1 .. N - i + 1 : v[k] = t[i + 1 + k - 1]
    BY <1>3, <1>8, <2>1, SeqSub
  <2>4. PICK w : w = Append(u, e)
    OBVIOUS
  <2>5. /\ IsSeq(w) /\ Len(w) = N - i + 1 /\ w[N - i + 1] = e
        /\ \A k \in 1 .. N - i : w[k] = u[k]
    BY <2>2, <2>4, SeqAppend
  <2>6. ASSUME NEW k \in 1 .. N - i + 1 PROVE v[k] = w[k]
    <3>1. CASE k \in 1 .. N - i
      <4>1. i + 1 + k - 1 \in 1 .. N
        BY <3>1
      <4> QED
        BY <1>3, <2>2, <2>3, <2>5, <3>1, <4>1
    <3>2. CASE k = N - i + 1
      <4>1. i + 1 + k - 1 = N + 1
        BY <3>2
      <4> QED
        BY <1>3, <2>3, <2>5, <3>2, <4>1
    <3> QED
      BY <2>1, <3>1, <3>2
  <2>7. v = w
    BY <2>3, <2>5, <2>6, SeqEqual, SMTT(30) DEF IsSeq
  <2> QED
    BY <2>2, <2>4, <2>7
<1>10. Inputs(v) = IF e.type = "INPUT" THEN Append(Inputs(u), e) ELSE Inputs(u)
  BY <1>9, TypesAppend DEF Inputs
<1> QED
  BY <1>1, <1>2, <1>3, <1>5, <1>6, <1>7, <1>8, <1>10 DEF SinceStart

-----------------------------------------------------------------------------
(* What ends in a sequence.                                                *)
EndsWith(s, t) == \E r : IsSeq(r) /\ s = r \o t

LEMMA SameSeq ==
  ASSUME NEW s, IsSeq(s), NEW t, IsSeq(t), Len(s) = Len(t), \A i \in 1 .. Len(s) : s[i] = t[i]
  PROVE  s = t
<1> DEFINE S == {s[i] : i \in DOMAIN s} \cup {t[i] : i \in DOMAIN t}
<1>1. s \in Seq(S) /\ t \in Seq(S)
  BY SeqMonotonic, {s[i] : i \in DOMAIN s} \subseteq S, {t[i] : i \in DOMAIN t} \subseteq S
     DEF IsSeq
<1> HIDE DEF S
<1> QED
  BY <1>1, SeqEqual

LEMMA EndsItself ==
  ASSUME NEW s, IsSeq(s)
  PROVE  EndsWith(s, s)
BY WellSaidEmpty, ConcatNothing DEF EndsWith

LEMMA EndsAppend ==
  ASSUME NEW s, NEW t, IsSeq(t), EndsWith(s, t), NEW e
  PROVE  EndsWith(Append(s, e), Append(t, e))
<1>1. PICK r : IsSeq(r) /\ s = r \o t
  BY DEF EndsWith
<1>2. r \o Append(t, e) = Append(s, e)
  BY <1>1, ConcatAppend
<1> QED
  BY <1>1, <1>2 DEF EndsWith

LEMMA EndsLater ==
  ASSUME NEW s, NEW t, IsSeq(t), NEW u, IsSeq(u), EndsWith(s, t \o u)
  PROVE  EndsWith(s, u)
<1>1. PICK r : IsSeq(r) /\ s = r \o (t \o u)
  BY DEF EndsWith
<1>2. PICK v : v = r \o t
  OBVIOUS
<1>3. IsSeq(v)
  BY <1>1, <1>2, SeqConcat
<1>4. (r \o t) \o u = r \o (t \o u)
  BY <1>1, ConcatThrice
<1>5. s = v \o u
  BY <1>1, <1>2, <1>4, Zenon
<1> QED
  BY <1>3, <1>5 DEF EndsWith

LEMMA EndsSuffix ==
  ASSUME NEW s, NEW t, IsSeq(t), EndsWith(s, t)
  PROVE  Suffix(t, s)
<1>1. PICK r : IsSeq(r) /\ s = r \o t
  BY DEF EndsWith
<1> DEFINE S == {r[i] : i \in DOMAIN r} \cup {t[i] : i \in DOMAIN t}
<1>2. r \in Seq(S) /\ t \in Seq(S) /\ Len(r) \in Nat /\ Len(t) \in Nat
  BY <1>1, SeqMonotonic, {r[i] : i \in DOMAIN r} \subseteq S, {t[i] : i \in DOMAIN t} \subseteq S,
     SeqFacts DEF IsSeq
<1> HIDE DEF S
<1>3. /\ IsSeq(s) /\ Len(s) = Len(r) + Len(t)
      /\ \A k \in 1 .. Len(s) : s[k] = IF k <= Len(r) THEN r[k] ELSE t[k - Len(r)]
  BY <1>1, <1>2, SeqConcat, ConcatProperties
<1>4. PICK m \in Nat \ {0} : m = Len(r) + 1
  BY <1>2
<1>5. PICK v : v = SubSeq(s, m, Len(s))
  OBVIOUS
<1>6. Len(s) - Len(t) + 1 = m /\ Len(s) - m + 1 = Len(t) /\ Len(s) \in 0 .. Len(s) /\ m <= Len(s) + 1
  BY <1>2, <1>3, <1>4
<1>7. IsSeq(v) /\ Len(v) = Len(t) /\ \A k \in 1 .. Len(t) : v[k] = s[m + k - 1]
  BY <1>3, <1>5, <1>6, SeqSub
<1>8. ASSUME NEW k \in 1 .. Len(t) PROVE v[k] = t[k]
  <2>1. /\ m + k - 1 \in 1 .. Len(s) /\ ~(m + k - 1 <= Len(r)) /\ (m + k - 1) - Len(r) = k
    BY <1>2, <1>3, <1>4
  <2> QED
    BY <1>3, <1>7, <2>1
<1>9. v = t
  BY <1>7, <1>8, SameSeq
<1>10. Len(t) <= Len(s)
  BY <1>2, <1>3
<1>11. SubSeq(s, Len(s) - Len(t) + 1, Len(s)) = v
  BY <1>5, <1>6
<1> QED
  BY <1>9, <1>10, <1>11 DEF Suffix

-----------------------------------------------------------------------------
(* What a console has recorded, and what of it the server has not handled. *)
Pipe(c) == (IF client = c THEN serving ELSE <<>>) \o up[c]
Recorded(c) == Inputs(sent[c])
Coming(c) == Inputs(Pipe(c))
Attached(c) == conn[c] \in {"new", "open"} /\ ~hung[c]

(* What a step does to that, for one console.                              *)
Kept(c) == Recorded(c)' = Recorded(c) /\ Coming(c)' = Coming(c)
Records(c) ==
  /\ Has(Stream(c), {"START"})
  /\ \E f : Recorded(c)' = Append(Recorded(c), f) /\ Coming(c)' = Append(Coming(c), f)
Gone(c) == Recorded(c)' = Recorded(c) /\ ~Attached(c)'

(* And for the room: the partner gets the record that is handled, nobody   *)
(* gets one, or nobody gets anything.                                      *)
Passes(c) ==
  /\ client = c /\ UNCHANGED <<conn, partner, hung>>
  /\ \A d \in Client : Stream(d)' = IF d = partner[c] THEN Append(Stream(d), Head(serving))
                                   ELSE Stream(d)
  /\ Head(serving).type = "INPUT"
  /\ Recorded(c)' = Recorded(c)
  /\ Coming(c) = <<Head(serving)>> \o Coming(c)'
  /\ \A d \in Client \ {c} : Kept(d)
Silent ==
  /\ client \in Client => Head(serving).type # "INPUT"
  /\ UNCHANGED hung
  /\ \A c \in Client : Kept(c)
Still ==
  /\ UNCHANGED <<conn, partner>> /\ \A d \in Client : Stream(d)' = Stream(d)
  /\ hung' \in [Client -> BOOLEAN] /\ \A c \in Client : hung[c] => hung'[c]
  /\ \A c \in Client : Kept(c) \/ Records(c) \/ Gone(c)

LEMMA PipeSeq ==
  ASSUME Shape, NEW c \in Client
  PROVE  /\ IsSeq(Pipe(c)) /\ IsSeq(Recorded(c)) /\ IsSeq(Coming(c))
         /\ Pipe(c) = IF client = c THEN serving \o up[c] ELSE up[c]
<1>1. IsSeq(serving) /\ IsSeq(up[c]) /\ IsSeq(sent[c])
  BY DEF Shape
<1>2. <<>> \o up[c] = up[c] /\ IsSeq(serving \o up[c])
  BY <1>1, ConcatNothing, SeqConcat
<1>3. Pipe(c) = IF client = c THEN serving \o up[c] ELSE up[c]
  BY <1>2 DEF Pipe
<1>4. IsSeq(Pipe(c))
  BY <1>1, <1>2, <1>3
<1> QED
  BY <1>1, <1>3, <1>4, TypesSeq DEF Recorded, Coming, Inputs

LEMMA PipeIsUnhandled ==
  ASSUME Shape, NEW c \in Client
  PROVE  Unhandled(c) = Coming(c)
<1>1. IsSeq(serving) /\ IsSeq(up[c])
  BY DEF Shape
<1>2. CASE client = c
  <2>1. Types(serving \o up[c], {"INPUT"}) = Types(serving, {"INPUT"}) \o Types(up[c], {"INPUT"})
    BY <1>1, TypesConcat
  <2> QED
    BY <1>2, <2>1, PipeSeq DEF Unhandled, Coming, Inputs
<1>3. CASE client # c
  <2>1. <<>> \o Types(up[c], {"INPUT"}) = Types(up[c], {"INPUT"})
    BY <1>1, TypesSeq, ConcatNothing
  <2> QED
    BY <1>3, <2>1, PipeSeq DEF Unhandled, Coming, Inputs
<1> QED
  BY <1>2, <1>3

LEMMA SamePipe ==
  ASSUME NEW c \in Client, sent'[c] = sent[c], Pipe(c)' = Pipe(c)
  PROVE  Kept(c)
BY DEF Kept, Recorded, Coming

LEMMA HandleTraffic ==
  ASSUME Shape, Shape', Pending, Handle, hung \in [Client -> BOOLEAN]
  PROVE  Silent \/ \E c \in Client : Passes(c)
<1>1. /\ serving # <<>> /\ IsSeq(serving) /\ WellSaid(serving)
      /\ client \in Client /\ UNCHANGED <<up, sent, hung, down>>
  BY DEF Handle, Shape, Pending, consoleVars
<1>2. PICK c \in Client : c = client
  BY <1>1
<1>3. PICK f : f = Head(serving)
  OBVIOUS
<1>4. Dispatch(c, f) /\ serving' = Tail(serving)
  BY <1>1, <1>2, <1>3, HeadOff DEF Handle
<1>5. ASSUME NEW d \in Client, d # c PROVE Kept(d)
  <2>1. client' # d
    BY <1>2, <1>5, Someone DEF Handle
  <2>2. Pipe(d)' = Pipe(d)
    BY <1>1, <1>2, <1>5, <2>1 DEF Pipe
  <2> QED
    BY <1>1, <2>2, SamePipe
<1>6. Pipe(c) = serving \o up[c] /\ Pipe(c)' = Tail(serving) \o up[c]
  <2>1. Pipe(c)' = Tail(serving) \o up[c]
    BY <1>1, <1>2, <1>4 DEF Handle, Pipe
  <2> QED
    BY <1>2, <2>1 DEF Pipe
<1>7. /\ Coming(c) = Inputs(serving) \o Inputs(up[c])
      /\ Coming(c)' = Inputs(Tail(serving)) \o Inputs(up[c])
      /\ IsSeq(Inputs(up[c])) /\ IsSeq(Inputs(Tail(serving)))
  <2>1. IsSeq(up[c]) /\ IsSeq(Tail(serving))
    BY <1>1, HeadOff DEF Shape
  <2>2. Coming(c) = Inputs(serving) \o Inputs(up[c])
    <3>1. Inputs(serving \o up[c]) = Inputs(serving) \o Inputs(up[c])
      BY <1>1, <2>1, TypesConcat DEF Inputs
    <3> QED
      BY <1>6, <3>1 DEF Coming
  <2>3. Coming(c)' = Inputs(Pipe(c)')
    BY DEF Coming, Inputs, Types
  <2>4. Inputs(Tail(serving) \o up[c]) = Inputs(Tail(serving)) \o Inputs(up[c])
    BY <2>1, TypesConcat DEF Inputs
  <2>5. Coming(c)' = Inputs(Tail(serving)) \o Inputs(up[c])
    BY <1>6, <2>3, <2>4
  <2> QED
    BY <2>1, <2>2, <2>5, TypesSeq DEF Inputs
<1>8. Recorded(c)' = Recorded(c)
  BY <1>1 DEF Recorded, Inputs, Types
<1>9. CASE f.type # "INPUT"
  <2>1. Inputs(serving) = Inputs(Tail(serving))
    BY <1>1, <1>3, <1>9, TypesHead DEF Inputs
  <2>2. Kept(c)
    BY <1>7, <1>8, <2>1 DEF Kept
  <2> QED
    BY <1>1, <1>3, <1>5, <1>9, <2>2 DEF Silent
<1>10. CASE f.type = "INPUT"
  <2>1. Forward(c, f)
    BY <1>4, <1>10 DEF Dispatch, RelayTypes
  <2>2. UNCHANGED <<conn, partner>>
    BY <2>1 DEF Forward
  <2>3. ASSUME NEW d \in Client
        PROVE  Stream(d)' = IF d = partner[c] THEN Append(Stream(d), f) ELSE Stream(d)
    <3>1. CASE partner[c] = NoClient
      BY <1>1, <2>1, <3>1, Someone DEF Forward, Stream
    <3>2. CASE partner[c] # NoClient
      <4>1. PICK p \in Client : p = partner[c]
        BY <3>2 DEF Shape
      <4>2. tx' = [tx EXCEPT ![p] = Append(@, f)]
        BY <2>1, <3>2, <4>1 DEF Forward
      <4> QED
        BY <1>1, <4>1, <4>2, OneFrame
    <3> QED
      BY <3>1, <3>2
  <2>4. Inputs(serving) = <<f>> \o Inputs(Tail(serving))
    BY <1>1, <1>3, <1>10, TypesHead DEF Inputs
  <2>5. PICK o : o = <<f>>
    OBVIOUS
  <2>6. IsSeq(o)
    BY <2>5, OneAlone, Zenon
  <2>7. (o \o Inputs(Tail(serving))) \o Inputs(up[c]) = o \o (Inputs(Tail(serving)) \o Inputs(up[c]))
    BY <1>7, <2>6, ConcatThrice
  <2>8. Coming(c) = <<f>> \o Coming(c)'
    BY <1>7, <2>4, <2>5, <2>7, Zenon
  <2> QED
    BY <1>1, <1>2, <1>3, <1>5, <1>8, <1>10, <2>2, <2>3, <2>8 DEF Passes
<1> QED
  BY <1>9, <1>10

LEMMA RecvTraffic ==
  ASSUME Shape, NEW k \in Client, Recv(k)
  PROVE  Silent
<1>1. /\ client = NoClient /\ client' = k /\ UNCHANGED <<sent, hung>>
      /\ DOMAIN up = Client /\ IsSeq(up[k])
  BY DEF Recv, Idle, consoleVars, Shape
<1>2. PICK n \in 1 .. Len(up[k]) :
        /\ serving' = SubSeq(up[k], 1, n)
        /\ up' = [up EXCEPT ![k] = SubSeq(@, n + 1, Len(@))]
  BY DEF Recv
<1>3. Pipe(k)' = Pipe(k)
  <2>1. PICK t : t = up[k]
    OBVIOUS
  <2>2. IsSeq(t) /\ n \in 0 .. Len(t)
    BY <1>1, <2>1, SeqFacts
  <2>3. (<<>> \o SubSeq(t, 1, n)) \o SubSeq(t, n + 1, Len(t)) = <<>> \o t
    BY <2>2, WellSaidEmpty, ConcatSplit
  <2>4. <<>> \o SubSeq(t, 1, n) = SubSeq(t, 1, n)
    <3>1. IsSeq(SubSeq(t, 1, n))
      BY <2>2, Prefixes
    <3> QED BY <3>1, ConcatNothing
  <2>5. Pipe(k)' = SubSeq(t, 1, n) \o SubSeq(t, n + 1, Len(t))
    BY <1>1, <1>2, <2>1 DEF Pipe
  <2>6. Pipe(k) = <<>> \o t
    BY <1>1, <2>1, Someone DEF Pipe
  <2> QED
    BY <2>3, <2>4, <2>5, <2>6, Zenon
<1>4. ASSUME NEW d \in Client PROVE Kept(d)
  <2>1. CASE d = k
    BY <1>1, <1>3, <2>1, SamePipe
  <2>2. CASE d # k
    <3>1. Pipe(d)' = Pipe(d)
      BY <1>1, <1>2, <2>2, Someone DEF Pipe
    <3> QED
      BY <1>1, <3>1, SamePipe
  <2> QED
    BY <2>1, <2>2
<1> QED
  BY <1>1, <1>4, Someone DEF Silent

LEMMA IdleTraffic ==
  ASSUME NEW k \in Client, Accept(k) \/ RecvEnd(k) \/ Flush(k) \/ FlushDrops(k) \/ Sweep(k)
  PROVE  Silent
<1>1. client = NoClient /\ UNCHANGED <<client, serving, up, sent, hung>>
  BY DEF Accept, RecvEnd, Flush, FlushDrops, Sweep, Idle, consoleVars
<1>2. \A d \in Client : Pipe(d)' = Pipe(d)
  BY <1>1 DEF Pipe
<1> QED
  BY <1>1, <1>2, SamePipe, Someone DEF Silent

LEMMA SayTraffic ==
  ASSUME Shape, hung \in [Client -> BOOLEAN], NEW k \in Client, NEW f, Say(k, f),
         f.type = "INPUT" => Has(Stream(k), {"START"})
  PROVE  Still
<1>1. /\ sent' = [sent EXCEPT ![k] = Append(@, f)] /\ up' = [up EXCEPT ![k] = Append(@, f)]
      /\ UNCHANGED <<conn, partner, tx, down, hung, serving, client>>
  BY DEF Say, serverVars
<1>2. /\ DOMAIN sent = Client /\ DOMAIN up = Client
      /\ IsSeq(sent[k]) /\ IsSeq(up[k]) /\ IsSeq(serving)
  BY DEF Shape
<1>3. ASSUME NEW d \in Client, d # k PROVE Kept(d)
  <2>1. sent'[d] = sent[d] /\ Pipe(d)' = Pipe(d)
    BY <1>1, <1>2, <1>3 DEF Pipe
  <2> QED
    BY <2>1, SamePipe
<1>4. Pipe(k)' = Append(Pipe(k), f)
  <2>1. PICK s : s = IF client = k THEN serving ELSE <<>>
    OBVIOUS
  <2>2. PICK t : t = up[k]
    OBVIOUS
  <2>3. IsSeq(s) /\ IsSeq(t)
    BY <1>2, <2>1, <2>2, WellSaidEmpty
  <2>4. s \o Append(t, f) = Append(s \o t, f)
    BY <2>3, ConcatAppend
  <2>5. Pipe(k) = s \o t
    BY <2>1, <2>2 DEF Pipe
  <2>6. Pipe(k)' = s \o Append(t, f)
    BY <1>1, <1>2, <2>1, <2>2 DEF Pipe
  <2> QED
    BY <2>4, <2>5, <2>6
<1>5. Recorded(k)' = IF f.type = "INPUT" THEN Append(Recorded(k), f) ELSE Recorded(k)
  <2>1. Types(Append(sent[k], f), {"INPUT"}) =
          IF f.type \in {"INPUT"} THEN Append(Types(sent[k], {"INPUT"}), f)
          ELSE Types(sent[k], {"INPUT"})
    BY <1>2, TypesAppend
  <2>2. Recorded(k)' = Inputs(sent'[k]) /\ sent'[k] = Append(sent[k], f)
    BY <1>1, <1>2 DEF Recorded, Inputs, Types
  <2> QED
    BY <2>1, <2>2 DEF Recorded, Inputs
<1>6. Coming(k)' = IF f.type = "INPUT" THEN Append(Coming(k), f) ELSE Coming(k)
  <2>1. Types(Append(Pipe(k), f), {"INPUT"}) =
          IF f.type \in {"INPUT"} THEN Append(Types(Pipe(k), {"INPUT"}), f)
          ELSE Types(Pipe(k), {"INPUT"})
    BY PipeSeq, TypesAppend
  <2>2. Coming(k)' = Inputs(Pipe(k)')
    BY DEF Coming, Inputs, Types
  <2> QED
    BY <1>4, <2>1, <2>2 DEF Coming, Inputs
<1>7. Kept(k) \/ Records(k)
  <2>1. CASE f.type = "INPUT"
    BY <1>5, <1>6, <2>1 DEF Records
  <2>2. CASE f.type # "INPUT"
    BY <1>5, <1>6, <2>2 DEF Kept
  <2> QED
    BY <2>1, <2>2
<1>8. \A d \in Client : Stream(d)' = Stream(d)
  BY <1>1 DEF Stream
<1> QED
  BY <1>1, <1>3, <1>7, <1>8 DEF Still

LEMMA HangUpTraffic ==
  ASSUME Shape, hung \in [Client -> BOOLEAN], NEW k \in Client, HangUp(k)
  PROVE  Still
<1>1. /\ hung' = [hung EXCEPT ![k] = TRUE]
      /\ UNCHANGED <<conn, partner, tx, down, sent, serving, client>>
      /\ \A d \in Client \ {k} : up'[d] = up[d]
  BY DEF HangUp, serverVars, Shape
<1>2. ASSUME NEW d \in Client, d # k PROVE Kept(d)
  <2>1. Pipe(d)' = Pipe(d)
    BY <1>1, <1>2 DEF Pipe
  <2> QED
    BY <1>1, <2>1, SamePipe
<1>3. Gone(k)
  BY <1>1 DEF Gone, Recorded, Attached
<1>4. \A d \in Client : Stream(d)' = Stream(d)
  BY <1>1 DEF Stream
<1> QED
  BY <1>1, <1>2, <1>3, <1>4 DEF Still

LEMMA SaidTraffic ==
  ASSUME Shape, hung \in [Client -> BOOLEAN], NEW k \in Client, Console(k)
  PROVE  Still
<1>1. CASE SayHello(k)
  BY <1>1, SayTraffic DEF SayHello
<1>2. CASE SayExtra(k)
  <2>1. PICK type \in Extra : Say(k, [type |-> type])
    BY <1>2 DEF SayExtra
  <2>2. type # "INPUT"
    BY Limits
  <2> QED
    BY <2>1, <2>2, SayTraffic
<1>3. CASE SayInput(k)
  <2>1. PICK f : Say(k, f)
    BY <1>3 DEF SayInput
  <2>2. Has(Stream(k), {"START"})
    <3>1. Has(down[k], {"START"})
      BY <1>3 DEF SayInput
    <3>2. IsSeq(down[k]) /\ IsSeq(tx[k])
      BY DEF Shape
    <3> QED
      BY <3>1, <3>2, HasConcat DEF Stream
  <2> QED
    BY <2>1, <2>2, SayTraffic
<1>4. CASE HangUp(k)
  BY <1>4, HangUpTraffic
<1> QED
  BY <1>1, <1>2, <1>3, <1>4 DEF Console

LEMMA Traffic ==
  ASSUME Shape, Shape', Pending, hung \in [Client -> BOOLEAN], [Next]_vars
  PROVE  Still \/ Silent \/ \E c \in Client : Passes(c)
<1>1. CASE UNCHANGED vars
  <2>1. UNCHANGED <<conn, partner, tx, down, hung, sent, up, serving, client>>
    BY <1>1 DEF vars, serverVars, consoleVars
  <2>2. \A d \in Client : Stream(d)' = Stream(d) /\ Pipe(d)' = Pipe(d)
    BY <2>1 DEF Stream, Pipe
  <2> QED
    BY <2>1, <2>2, SamePipe DEF Still
<1> QED
  BY <1>1, HandleTraffic, RecvTraffic, IdleTraffic, SaidTraffic DEF Next, Server

-----------------------------------------------------------------------------
(* The inductive invariant: what a console records starts with its first   *)
(* START, what is on its way ends what it recorded, and before that comes  *)
(* what its partner was sent in this match.                                *)
Starts(c) == Types(Stream(c), {"START"})
Passed(c, p) ==
  LET passed == SinceStart(Stream(p)) \o Coming(c)
  IN  /\ EndsWith(Recorded(c), passed)
      /\ Len(Starts(c)) = 1 => passed = Recorded(c)

Order ==
  /\ hung \in [Client -> BOOLEAN]
  /\ \A c \in Client : Has(Stream(c), {"START"}) \/ Recorded(c) = <<>>
  /\ \A c \in Client : Attached(c) => EndsWith(Recorded(c), Coming(c))
  /\ \A c \in Open : partner[c] # NoClient /\ ~hung[c] => Passed(c, partner[c])

(* What a match is while a console has a partner, from Sides.              *)
LEMMA Partners ==
  ASSUME Shape, Sides, NEW c \in Open, partner[c] # NoClient, NEW p, p = partner[c]
  PROVE  /\ c \in Client /\ p \in Client /\ p \in Open /\ p # c /\ partner[p] = c
         /\ \E r, o : Started(Stream(p), r, o)
         /\ IsSeq(Stream(c)) /\ IsSeq(Stream(p))
<1>1. BothSides(c, p) /\ c \in Client /\ p \in Client
  BY DEF Sides, BothSides, Open
<1>2. IsSeq(Stream(c)) /\ IsSeq(Stream(p))
  BY <1>1, SeqConcat DEF Shape, Stream
<1> QED
  BY <1>1, <1>2 DEF BothSides

(* A step that sends neither of the two a START, nor p a record, and that  *)
(* handles nothing of c's.                                                 *)
NoNews(p) ==
  \/ Stream(p)' = Stream(p)
  \/ \E e : e.type \notin {"START", "INPUT"} /\ Stream(p)' = Append(Stream(p), e)

LEMMA StartsCarry ==
  ASSUME NEW c \in Client, IsSeq(Stream(c)), NoStart(c)
  PROVE  Starts(c)' = Starts(c)
<1>1. Starts(c)' = Types(Stream(c)', {"START"})
  BY DEF Starts, Types
<1>2. CASE Stream(c)' = Stream(c)
  BY <1>1, <1>2 DEF Starts
<1>3. ASSUME NEW e, e.type # "START", Stream(c)' = Append(Stream(c), e)
      PROVE  Starts(c)' = Starts(c)
  <2>1. Types(Append(Stream(c), e), {"START"}) = Types(Stream(c), {"START"})
    BY <1>3, TypesAppend
  <2> QED
    BY <1>1, <1>3, <2>1 DEF Starts
<1> QED
  BY <1>2, <1>3 DEF NoStart

LEMMA SinceCarries ==
  ASSUME NEW p \in Client, IsSeq(Stream(p)), NEW r, NEW o, Started(Stream(p), r, o), NoNews(p)
  PROVE  SinceStart(Stream(p)') = SinceStart(Stream(p))
<1>1. CASE Stream(p)' = Stream(p)
  BY <1>1
<1>2. ASSUME NEW e, e.type \notin {"START", "INPUT"}, Stream(p)' = Append(Stream(p), e)
      PROVE  SinceStart(Stream(p)') = SinceStart(Stream(p))
  <2>1. SinceStart(Append(Stream(p), e)) = SinceStart(Stream(p))
    BY <1>2, SinceAppend
  <2> QED
    BY <1>2, <2>1
<1> QED
  BY <1>1, <1>2 DEF NoNews

(* Passed of the next state, in terms of what is known of it.              *)
LEMMA PassedNext ==
  ASSUME NEW c, NEW p, NEW a, a = SinceStart(Stream(p)'), NEW b, b = Coming(c)',
         NEW r, r = Recorded(c)', NEW s, s = Starts(c)',
         EndsWith(r, a \o b), Len(s) = 1 => a \o b = r
  PROVE  Passed(c, p)'
<1>1. SinceStart(Stream(p))' = a
  BY DEF SinceStart, Inputs, Types, LastStart
<1>2. EndsWith(Recorded(c), SinceStart(Stream(p)) \o Coming(c))' <=> EndsWith(r, a \o b)
  BY <1>1 DEF EndsWith
<1> QED
  BY <1>1, <1>2 DEF Passed

LEMMA PassedCarries ==
  ASSUME NEW c \in Client, NEW p \in Client, IsSeq(Stream(c)), IsSeq(Stream(p)),
         NEW r, NEW o, Started(Stream(p), r, o), NoNews(p), NoStart(c), Kept(c), Passed(c, p)
  PROVE  Passed(c, p)'
<1>1. SinceStart(Stream(p)') = SinceStart(Stream(p)) /\ Starts(c)' = Starts(c)
  BY SinceCarries, StartsCarry
<1>2. Recorded(c)' = Recorded(c) /\ Coming(c)' = Coming(c)
  BY DEF Kept
<1> QED
  BY <1>1, <1>2, PassedNext DEF Passed

(* Streams only grow.                                                      *)
LEMMA StartsStay ==
  ASSUME NEW c \in Client, IsSeq(Stream(c)), Has(Stream(c), {"START"}),
         Stream(c)' = Stream(c) \/ \E e : Stream(c)' = Append(Stream(c), e)
  PROVE  Has(Stream(c), {"START"})'
<1>1. Has(Stream(c), {"START"})' <=> Has(Stream(c)', {"START"})
  BY DEF Has
<1>2. \A e : Has(Append(Stream(c), e), {"START"})
  BY HasAppend
<1> QED
  BY <1>1, <1>2

LEMMA StreamsGrow ==
  ASSUME RoomStep, "JOIN" \notin Extra, NEW c \in Client
  PROVE  Stream(c)' = Stream(c) \/ \E e : Stream(c)' = Append(Stream(c), e)
BY DEF RoomStep, Calm, Goes, Rejoins, Comes, Joins, Pairs, Leaves

(* The first three parts, whatever the step.                               *)
LEMMA RecordsKept ==
  ASSUME Shape, Shape', Order, RoomStep, "JOIN" \notin Extra,
         Still \/ Silent \/ \E c \in Client : Passes(c)
  PROVE  /\ hung' \in [Client -> BOOLEAN]
         /\ \A c \in Client : Has(Stream(c), {"START"})' \/ Recorded(c)' = <<>>
         /\ \A c \in Client : Attached(c)' => Attached(c)
         /\ \A c \in Client : Attached(c)' => EndsWith(Recorded(c)', Coming(c)')
<1>1. hung' \in [Client -> BOOLEAN] /\ \A c \in Client : hung[c] => hung'[c]
  BY DEF Order, Still, Silent, Passes
<1>2. \A c \in Client : conn'[c] \in {"new", "open"} => conn[c] \in {"new", "open"}
  BY DEF RoomStep, Calm, Rejoins, Comes, Joins, Leaves, Shape
<1>3. ASSUME NEW c \in Client
      PROVE  \/ Kept(c) \/ Records(c) \/ Gone(c)
             \/ \E f : Recorded(c)' = Recorded(c) /\ Coming(c) = <<f>> \o Coming(c)'
  BY DEF Still, Silent, Passes
<1>4. ASSUME NEW c \in Client
      PROVE  Has(Stream(c), {"START"})' \/ Recorded(c)' = <<>>
  <2>1. CASE Has(Stream(c), {"START"})
    <3>1. IsSeq(Stream(c))
      BY SeqConcat DEF Shape, Stream
    <3> QED
      BY <2>1, <3>1, StreamsGrow, StartsStay
  <2>2. CASE ~Has(Stream(c), {"START"})
    <3>1. Recorded(c) = <<>> /\ Recorded(c)' = Recorded(c)
      BY <1>3, <2>2 DEF Order, Kept, Records, Gone
    <3> QED
      BY <3>1
  <2> QED
    BY <2>1, <2>2
<1>5. ASSUME NEW c \in Client, Attached(c)'
      PROVE  Attached(c) /\ EndsWith(Recorded(c)', Coming(c)')
  <2>1. Attached(c)
    BY <1>1, <1>2, <1>5 DEF Attached
  <2>2. PICK r : r = Recorded(c)
    OBVIOUS
  <2>3. PICK w : w = Coming(c)
    OBVIOUS
  <2>4. EndsWith(r, w) /\ IsSeq(w)
    BY <2>1, <2>2, <2>3, PipeSeq DEF Order
  <2>5. CASE Kept(c)
    BY <2>1, <2>2, <2>3, <2>4, <2>5 DEF Kept
  <2>6. CASE Records(c)
    <3>1. PICK f : Recorded(c)' = Append(r, f) /\ Coming(c)' = Append(w, f)
      BY <2>2, <2>3, <2>6 DEF Records
    <3> QED
      BY <2>1, <2>4, <3>1, EndsAppend
  <2>7. CASE \E f : Recorded(c)' = Recorded(c) /\ Coming(c) = <<f>> \o Coming(c)'
    <3>1. PICK f : Recorded(c)' = r /\ w = <<f>> \o Coming(c)'
      BY <2>2, <2>3, <2>7
    <3>2. PICK o : o = <<f>>
      OBVIOUS
    <3>3. IsSeq(o)
      BY <3>2, OneAlone, Zenon
    <3>4. PICK v : v = Coming(c)'
      OBVIOUS
    <3>5. IsSeq(v)
      <4>1. Types(Pipe(c)', {"INPUT"}) = v
        BY <3>4 DEF Coming, Inputs, Types
      <4>2. IsSeq(Pipe(c)')
        <5>1. IsSeq(serving') /\ IsSeq(up'[c]) /\ IsSeq(<<>>)
          BY WellSaidEmpty DEF Shape, IsSeq
        <5>2. IsSeq(serving' \o up'[c]) /\ IsSeq(<<>> \o up'[c])
          BY <5>1, SeqConcat
        <5> QED
          BY <5>2 DEF Pipe
      <4> QED
        BY <4>1, <4>2, TypesSeq
    <3>6. EndsWith(r, o \o v)
      BY <2>4, <3>1, <3>2, <3>4, Zenon
    <3>7. EndsWith(r, v)
      BY <3>3, <3>5, <3>6, EndsLater
    <3> QED
      BY <2>1, <3>1, <3>4, <3>7
  <2> QED
    BY <1>3, <1>5, <2>5, <2>6, <2>7 DEF Gone
<1> QED
  BY <1>1, <1>4, <1>5

(* Nobody is sent anything: a record c makes now comes after all others.   *)
LEMMA StillPassed ==
  ASSUME Shape, Sides, Still, NEW c \in Open, partner[c] # NoClient, Passed(c, partner[c]),
         Attached(c)'
  PROVE  Passed(c, partner[c])'
<1>1. PICK p : p = partner[c]
  OBVIOUS
<1>2. /\ c \in Client /\ p \in Client /\ IsSeq(Stream(c)) /\ IsSeq(Stream(p))
      /\ \E r, o : Started(Stream(p), r, o)
  BY <1>1, Partners
<1>3. /\ Stream(c)' = Stream(c) /\ Stream(p)' = Stream(p) /\ partner' = partner
      /\ Kept(c) \/ Records(c)
  BY <1>2 DEF Still, Gone
<1>4. CASE Kept(c)
  <2>1. NoNews(p) /\ NoStart(c)
    BY <1>3 DEF NoNews, NoStart
  <2>2. Passed(c, p)'
    BY <1>1, <1>2, <1>4, <2>1, PassedCarries
  <2> QED
    BY <1>1, <1>3, <2>2 DEF Passed
<1>5. CASE Records(c)
  <2>1. PICK f : Recorded(c)' = Append(Recorded(c), f) /\ Coming(c)' = Append(Coming(c), f)
    BY <1>5 DEF Records
  <2>2. PICK a : a = SinceStart(Stream(p))
    OBVIOUS
  <2>3. PICK b : b = Coming(c)
    OBVIOUS
  <2>4. PICK r : r = Recorded(c)
    OBVIOUS
  <2>5. IsSeq(a) /\ IsSeq(b) /\ IsSeq(a \o b)
    <3>1. IsSeq(a)
      BY <1>2, <2>2, SinceSeq
    <3> QED
      BY <1>2, <2>3, <3>1, PipeSeq, SeqConcat
  <2>6. EndsWith(r, a \o b) /\ (Len(Starts(c)) = 1 => a \o b = r)
    BY <1>1, <2>2, <2>3, <2>4 DEF Passed
  <2>7. a \o Append(b, f) = Append(a \o b, f)
    BY <2>5, ConcatAppend
  <2>8. EndsWith(Append(r, f), a \o Append(b, f))
    BY <2>5, <2>6, <2>7, EndsAppend
  <2>9. SinceStart(Stream(p)') = a /\ Starts(c)' = Starts(c)
    BY <1>2, <1>3, <2>2, StartsCarry DEF NoStart
  <2>10. Passed(c, p)'
    BY <2>1, <2>3, <2>4, <2>6, <2>7, <2>8, <2>9, PassedNext
  <2> QED
    BY <1>1, <1>3, <2>10 DEF Passed
<1> QED
  BY <1>3, <1>4, <1>5

(* A record is handled: what was the first on its way is now the last its  *)
(* partner was sent.                                                       *)
LEMMA PassesPassed ==
  ASSUME Shape, Shape', Sides, ServedOpen, NEW k \in Client, Passes(k),
         NEW c \in Open, partner[c] # NoClient, Passed(c, partner[c])
  PROVE  Passed(c, partner[c])'
<1>1. PICK p : p = partner[c]
  OBVIOUS
<1>2. /\ c \in Client /\ p \in Client /\ IsSeq(Stream(c)) /\ IsSeq(Stream(p)) /\ partner[p] = c
      /\ \E r, o : Started(Stream(p), r, o)
  BY <1>1, Partners
<1>3. PICK f : f = Head(serving) /\ f.type = "INPUT"
  BY DEF Passes
<1>4. /\ partner' = partner /\ client = k
      /\ \A d \in Client : Stream(d)' = IF d = partner[k] THEN Append(Stream(d), f) ELSE Stream(d)
  BY <1>3 DEF Passes
<1>5. NoStart(c)
  BY <1>2, <1>3, <1>4 DEF NoStart
<1>6. CASE c # k
  <2>1. p # partner[k]
    <3>1. SUFFICES ASSUME p = partner[k] PROVE FALSE
      OBVIOUS
    <3>2. partner[k] # NoClient /\ k \in Open
      BY <1>2, <1>4, <3>1, Someone DEF ServedOpen
    <3>3. partner[p] = k
      BY <3>1, <3>2, Partners
    <3> QED
      BY <1>2, <1>6, <3>3
  <2>2. NoNews(p) /\ Kept(c)
    BY <1>2, <1>4, <1>6, <2>1 DEF NoNews, Passes
  <2>3. Passed(c, p)'
    BY <1>1, <1>2, <1>5, <2>2, PassedCarries
  <2> QED
    BY <1>1, <1>4, <2>3 DEF Passed
<1>7. CASE c = k
  <2>1. /\ Stream(p)' = Append(Stream(p), f) /\ Recorded(c)' = Recorded(c)
        /\ Coming(c) = <<f>> \o Coming(c)'
    BY <1>1, <1>2, <1>3, <1>4, <1>7 DEF Passes
  <2>2. PICK a : a = SinceStart(Stream(p))
    OBVIOUS
  <2>3. PICK b : b = Coming(c)'
    OBVIOUS
  <2>4. PICK r : r = Recorded(c)
    OBVIOUS
  <2>5. IsSeq(a) /\ IsSeq(b)
    <3>1. IsSeq(Pipe(c)')
      <4>1. IsSeq(serving') /\ IsSeq(up'[c]) /\ IsSeq(<<>>)
        BY <1>2, WellSaidEmpty DEF Shape, IsSeq
      <4>2. IsSeq(serving' \o up'[c]) /\ IsSeq(<<>> \o up'[c])
        BY <4>1, SeqConcat
      <4> QED
        BY <4>2 DEF Pipe
    <3>2. b = Types(Pipe(c)', {"INPUT"})
      BY <2>3 DEF Coming, Inputs, Types
    <3> QED
      BY <1>2, <2>2, <3>1, <3>2, SinceSeq, TypesSeq
  <2>6. PICK o : o = <<f>>
    OBVIOUS
  <2>7. IsSeq(o)
    BY <2>6, OneAlone, Zenon
  <2>8. Append(a, f) \o b = a \o (o \o b)
    <3>1. a \o Append(<<>>, f) = Append(a \o <<>>, f)
      BY <2>5, WellSaidEmpty, ConcatAppend
    <3>2. a \o o = Append(a, f)
      BY <2>5, <2>6, <3>1, OneAlone, ConcatNothing, Zenon
    <3>3. (a \o o) \o b = a \o (o \o b)
      BY <2>5, <2>7, ConcatThrice
    <3> QED
      BY <3>2, <3>3
  <2>9. EndsWith(r, a \o (o \o b)) /\ (Len(Starts(c)) = 1 => a \o (o \o b) = r)
    <3>1. Coming(c) = o \o b
      BY <2>1, <2>3, <2>6, Zenon
    <3> QED
      BY <1>1, <2>2, <2>4, <3>1 DEF Passed
  <2>10. PICK g : g = Append(a, f)
    OBVIOUS
  <2>11. SinceStart(Stream(p)') = g
    <3>1. PICK r0, o0 : Started(Stream(p), r0, o0)
      BY <1>2
    <3>2. SinceStart(Append(Stream(p), f)) = Append(SinceStart(Stream(p)), f)
      BY <1>2, <1>3, <3>1, SinceAppend
    <3> QED
      BY <2>1, <2>2, <2>10, <3>2
  <2>12. Starts(c)' = Starts(c)
    BY <1>2, <1>5, StartsCarry
  <2>13. EndsWith(r, g \o b) /\ (Len(Starts(c)) = 1 => g \o b = r)
    BY <2>8, <2>9, <2>10
  <2>14. Passed(c, p)'
    BY <2>1, <2>3, <2>4, <2>11, <2>12, <2>13, PassedNext
  <2> QED
    BY <1>1, <1>4, <2>14 DEF Passed
<1> QED
  BY <1>6, <1>7

(* A match begins: nothing of it was sent, and who starts for the first    *)
(* time has recorded nothing.                                              *)
LEMMA NewPassed ==
  ASSUME Shape, Shape', Order, NEW c \in Client, NEW p \in Client, NEW e, e.type = "START",
         Stream(p)' = Append(Stream(p), e),
         NEW g, g.type = "START", Stream(c)' = Append(Stream(c), g),
         Kept(c), Attached(c)
  PROVE  Passed(c, p)'
<1>1. IsSeq(Stream(c)) /\ IsSeq(Stream(p))
  BY SeqConcat DEF Shape, Stream
<1>2. SinceStart(Stream(p)') = <<>>
  BY <1>1, SinceNew
<1>3. PICK b : b = Coming(c)
  OBVIOUS
<1>4. PICK r : r = Recorded(c)
  OBVIOUS
<1>5. IsSeq(b) /\ IsSeq(r) /\ EndsWith(r, b) /\ Coming(c)' = b /\ Recorded(c)' = r
  BY <1>3, <1>4, PipeSeq DEF Order, Kept
<1>6. <<>> \o b = b
  BY <1>5, ConcatNothing
<1>7. PICK s : s = Starts(c)'
  OBVIOUS
<1>8. s = Append(Starts(c), g)
  <2>1. s = Types(Stream(c)', {"START"})
    BY <1>7 DEF Starts, Types
  <2>2. Types(Append(Stream(c), g), {"START"}) = Append(Types(Stream(c), {"START"}), g)
    BY <1>1, TypesAppend
  <2> QED
    BY <2>1, <2>2 DEF Starts
<1>9. ASSUME Len(s) = 1 PROVE b = r
  <2>1. PICK t : t = Starts(c)
    OBVIOUS
  <2>2. IsSeq(t)
    BY <1>1, <2>1, TypesSeq DEF Starts
  <2>3. Len(t) = 0
    <3>1. Len(Append(t, g)) = Len(t) + 1 /\ Len(t) \in Nat
      BY <2>2, SeqAppend, SeqFacts
    <3> QED
      BY <1>8, <1>9, <2>1, <3>1
  <2>4. t = <<>>
    BY <2>2, <2>3, EmptySeq DEF IsSeq
  <2>5. ~Has(Stream(c), {"START"})
    BY <1>1, <2>1, <2>4, TypesNone DEF Starts
  <2>6. r = <<>>
    BY <1>4, <2>5 DEF Order
  <2>7. PICK q : IsSeq(q) /\ r = q \o b
    BY <1>5 DEF EndsWith
  <2>8. b = <<>>
    <3> DEFINE S == {q[i] : i \in DOMAIN q} \cup {b[i] : i \in DOMAIN b}
    <3>1. q \in Seq(S) /\ b \in Seq(S)
      BY <1>5, <2>7, SeqMonotonic, {q[i] : i \in DOMAIN q} \subseteq S,
         {b[i] : i \in DOMAIN b} \subseteq S DEF IsSeq
    <3> HIDE DEF S
    <3> QED
      <4>1. Len(q \o b) = Len(q) + Len(b) /\ Len(q) \in Nat /\ Len(b) \in Nat
        BY <3>1, ConcatProperties, LenProperties
      <4>2. Len(q \o b) = 0
        BY <2>6, <2>7, EmptySeq
      <4>3. Len(b) = 0
        BY <4>1, <4>2
      <4> QED
        BY <3>1, <4>3, EmptySeq
  <2> QED
    BY <2>6, <2>8
<1>10. PICK z : z = SinceStart(Stream(p)')
  OBVIOUS
<1>11. EndsWith(r, z \o b) /\ (Len(s) = 1 => z \o b = r)
  BY <1>2, <1>5, <1>6, <1>9, <1>10
<1> QED
  BY <1>5, <1>7, <1>10, <1>11, PassedNext

(* No record is handled, but consoles may come, meet and leave.            *)
LEMMA SilentPassed ==
  ASSUME Shape, Shape', Room, Sides, Order, Silent, RoomStep, "JOIN" \notin Extra,
         NEW c \in Client, c \in Open', Attached(c), partner'[c] # NoClient
  PROVE  Passed(c, partner[c])'
<1>1. PICK p : p = partner'[c]
  OBVIOUS
<1>2. /\ p \in Client /\ Kept(c) /\ ~hung[c]
      /\ partner \in [Client -> Client \cup {NoClient}]
  BY <1>1 DEF Shape, Silent, Attached
<1>3. SUFFICES Passed(c, p)'
  BY <1>1 DEF Passed
<1>4. ASSUME c \in Open, partner[c] = p, NoNews(p), NoStart(c)
      PROVE  Passed(c, p)'
  <2>1. /\ IsSeq(Stream(c)) /\ IsSeq(Stream(p)) /\ \E r, o : Started(Stream(p), r, o)
    BY <1>2, <1>4, Partners, Someone
  <2>2. Passed(c, p)
    BY <1>2, <1>4, Someone DEF Order
  <2> QED
    BY <1>2, <1>4, <2>1, <2>2, PassedCarries
<1>5. CASE Calm
  <2>1. \A d \in Client : NoNews(d) /\ NoStart(d)
    BY <1>5 DEF Calm, Goes, Silent, NoNews, NoStart
  <2> QED
    BY <1>1, <1>2, <1>4, <1>5, <2>1 DEF Calm, Open
<1>6. ASSUME NEW k \in Client, Comes(k) PROVE Passed(c, p)'
  <2>1. /\ partner' = partner /\ \A d \in Client : Stream(d)' = Stream(d)
        /\ conn[k] = "new" /\ (c # k => conn'[c] = conn[c])
    BY <1>6 DEF Comes, Shape
  <2>2. c # k
    BY <1>1, <1>2, <2>1, Someone DEF Room, Sides
  <2> QED
    BY <1>1, <1>2, <1>4, <2>1, <2>2 DEF Open, NoNews, NoStart
<1>7. ASSUME NEW k \in Client, Leaves(k) PROVE Passed(c, p)'
  <2>1. /\ k \in Open /\ conn' = [conn EXCEPT ![k] = "closed"]
        /\ partner' = IF partner[k] = NoClient THEN partner
                      ELSE [partner EXCEPT ![partner[k]] = NoClient]
        /\ \A d \in Client : d # partner[k] => Stream(d)' = Stream(d)
    BY <1>7 DEF Leaves
  <2>2. c # k /\ c \in Open
    BY <2>1 DEF Shape, Open
  <2>3. partner[c] = p /\ c # partner[k]
    BY <1>1, <1>2, <2>1, Someone
  <2>4. p # partner[k]
    <3>1. SUFFICES ASSUME p = partner[k] PROVE FALSE
      OBVIOUS
    <3>2. partner[p] = k /\ partner[p] = c
      BY <1>2, <2>1, <2>2, <2>3, <3>1, Partners, Someone
    <3> QED
      BY <2>2, <3>2
  <2> QED
    BY <1>2, <1>4, <2>1, <2>2, <2>3, <2>4 DEF NoNews, NoStart
<1>8. ASSUME NEW k \in Client, Joins(k) PROVE Passed(c, p)'
  <2>1. k \in Open /\ partner[k] = NoClient /\ conn' = conn /\ Pairs(k) /\ c \in Open
    BY <1>8 DEF Joins, Sides, Open
  <2>2. CASE partner' = partner /\ \A d \in Client : Stream(d)' = Stream(d)
    BY <1>1, <1>2, <1>4, <2>1, <2>2 DEF NoNews, NoStart
  <2>3. ASSUME NEW host \in Open \ {k}, partner[host] = NoClient,
               partner' = [partner EXCEPT ![host] = k, ![k] = host],
               Stream(host)' = Append(Stream(host), Start(0, name'[k])),
               Stream(k)' = Append(Stream(k), Start(1, name'[host])),
               \A d \in Client \ {host, k} : Stream(d)' = Stream(d)
        PROVE  Passed(c, p)'
    <3>1. \A r, o : Start(r, o).type = "START"
      BY DEF Start
    <3>2. PICK e : e.type = "START" /\ Stream(host)' = Append(Stream(host), e)
      BY <2>3, <3>1
    <3>3. PICK g : g.type = "START" /\ Stream(k)' = Append(Stream(k), g)
      BY <2>3, <3>1
    <3>4. host \in Client
      BY DEF Open
    <3>5. CASE c = host
      <4>1. p = k
        BY <1>1, <1>2, <2>3, <3>4, <3>5
      <4> QED
        BY <1>2, <3>2, <3>3, <3>5, <4>1, NewPassed
    <3>6. CASE c = k
      <4>1. p = host
        BY <1>1, <1>2, <2>3, <3>4, <3>6
      <4> QED
        BY <1>2, <3>2, <3>3, <3>6, <4>1, NewPassed
    <3>7. CASE c \notin {host, k}
      <4>1. partner[c] = p
        BY <1>1, <1>2, <2>3, <3>4, <3>7
      <4>2. partner[p] = c
        BY <1>2, <2>1, <4>1, Partners, Someone
      <4>3. p \notin {host, k}
        BY <2>1, <2>3, <4>2, Someone
      <4> QED
        BY <1>2, <1>4, <2>1, <2>3, <3>7, <4>1, <4>3 DEF NoNews, NoStart
    <3> QED
      BY <3>5, <3>6, <3>7
  <2> QED
    BY <2>1, <2>2, <2>3 DEF Pairs
<1> QED
  BY <1>5, <1>6, <1>7, <1>8 DEF RoomStep, Rejoins

LEMMA OrderKept ==
  ASSUME RelayInv, Sides, ServedOpen, Order, [Next]_vars, "JOIN" \notin Extra
  PROVE  Order'
<1>1. Shape /\ Shape' /\ Pending /\ Room /\ RoomStep /\ hung \in [Client -> BOOLEAN]
  BY Steps DEF RelayInv, Order
<1>2. Still \/ Silent \/ \E k \in Client : Passes(k)
  BY <1>1, Traffic
<1>3. /\ hung' \in [Client -> BOOLEAN]
      /\ \A c \in Client : Has(Stream(c), {"START"})' \/ Recorded(c)' = <<>>
      /\ \A c \in Client : Attached(c)' => Attached(c)
      /\ \A c \in Client : Attached(c)' => EndsWith(Recorded(c)', Coming(c)')
  BY <1>1, <1>2, RecordsKept
<1>4. ASSUME NEW c \in Open', partner'[c] # NoClient, ~hung'[c]
      PROVE  Passed(c, partner[c])'
  <2>1. c \in Client /\ Attached(c)' /\ Attached(c)
    BY <1>3, <1>4 DEF Open, Attached
  <2>2. CASE Silent
    BY <1>1, <1>4, <2>1, <2>2, SilentPassed
  <2>3. ASSUME UNCHANGED <<conn, partner>>
        PROVE  c \in Open /\ partner[c] # NoClient /\ Passed(c, partner[c])
    BY <1>4, <2>1, <2>3 DEF Order, Open, Attached
  <2>4. CASE Still
    BY <1>1, <2>1, <2>3, <2>4, StillPassed DEF Still
  <2>5. ASSUME NEW k \in Client, Passes(k) PROVE Passed(c, partner[c])'
    BY <1>1, <2>3, <2>5, PassesPassed DEF Passes
  <2> QED
    BY <1>2, <2>2, <2>4, <2>5
<1>5. \A c \in Client : EndsWith(Recorded(c), Coming(c))' <=> EndsWith(Recorded(c)', Coming(c)')
  BY DEF EndsWith
<1> QED
  BY <1>3, <1>4, <1>5 DEF Order

LEMMA OrderInit ==
  Init => Order
<1> SUFFICES ASSUME Init PROVE Order
  OBVIOUS
<1>1. ASSUME NEW c \in Client PROVE Recorded(c) = <<>> /\ EndsWith(Recorded(c), Coming(c))
  <2>1. Recorded(c) = <<>>
    BY TypesEmpty DEF Init, Recorded, Inputs
  <2>2. Pipe(c) = <<>>
    <3>1. Pipe(c) = <<>> \o <<>>
      BY DEF Init, Pipe
    <3> QED BY <3>1, WellSaidEmpty, ConcatNothing
  <2>3. Coming(c) = <<>>
    BY <2>2, TypesEmpty DEF Coming, Inputs
  <2>4. EndsWith(<<>>, <<>>)
    BY WellSaidEmpty, EndsItself
  <2> QED
    BY <2>1, <2>3, <2>4
<1>2. Open = {}
  BY DEF Init, Open
<1> QED
  BY <1>1, <1>2 DEF Init, Order

(* What Order says of a match is InOrder.                                  *)
LEMMA OrderIsInOrder ==
  ASSUME RelayInv, Sides, Order
  PROVE  InOrder
<1> DEFINE Arrives(c, passed) ==
             /\ Suffix(passed, Inputs(sent[c]))
             /\ Len(Types(Stream(c), {"START"})) = 1 => passed = Inputs(sent[c])
<1>8. SUFFICES ASSUME NEW c \in Open, partner[c] # NoClient, ~hung[c]
               PROVE  Arrives(c, OfThisMatch(partner[c]) \o Unhandled(c))
  BY Zenon DEF InOrder
<1>9. PICK p : p = partner[c]
  OBVIOUS
<1>10. PICK passed : passed = OfThisMatch(p) \o Unhandled(c)
  OBVIOUS
<1>1. /\ c \in Open /\ partner[c] # NoClient /\ ~hung[c] /\ p = partner[c]
      /\ passed = OfThisMatch(p) \o Unhandled(c)
  BY <1>8, <1>9, <1>10
<1>2. Shape
  BY DEF RelayInv
<1>3. /\ c \in Client /\ p \in Client /\ IsSeq(Stream(p))
      /\ \E r, o : Started(Stream(p), r, o)
  BY <1>1, <1>2, Partners
<1>4. passed = SinceStart(Stream(p)) \o Coming(c)
  BY <1>1, <1>2, <1>3, PipeIsUnhandled DEF OfThisMatch, SinceStart
<1>5. Passed(c, p)
  BY <1>1 DEF Order
<1>6. IsSeq(passed)
  <2>1. IsSeq(SinceStart(Stream(p))) /\ IsSeq(Coming(c))
    BY <1>2, <1>3, SinceSeq, PipeSeq
  <2> QED BY <1>4, <2>1, SeqConcat
<1>7. EndsWith(Recorded(c), passed) /\ (Len(Starts(c)) = 1 => passed = Recorded(c))
  BY <1>4, <1>5 DEF Passed
<1>11. Arrives(c, passed)
  BY <1>6, <1>7, EndsSuffix DEF Recorded, Starts
<1> HIDE DEF Arrives
<1> QED
  BY <1>9, <1>10, <1>11

(* What Lockstep takes the relay for: in a match, what a console was sent, *)
(* with what of its partner's records is not handled yet, is what the      *)
(* partner recorded, nothing lost, swapped or sent twice, for any number   *)
(* of connections, limits and cuts of recv() and send(), while consoles    *)
(* come, meet and leave (forward, try_pair, drop, flush), as long as no    *)
(* client says JOIN.                                                       *)
THEOREM RecordsInOrder ==
  ASSUME "JOIN" \notin Extra
  PROVE  Spec => []InOrder
<1> DEFINE Inv == Sides /\ ServedOpen /\ Order
<1>1. Init => Inv
  BY RelayInit, OrderInit, Someone DEF Init, ServedOpen
<1>2. RelayInv /\ Inv /\ [Next]_vars => Inv'
  <2> SUFFICES ASSUME RelayInv, Inv, [Next]_vars PROVE Inv'
    OBVIOUS
  <2>1. RoomStep /\ partner' \in [Client -> Client \cup {NoClient}]
    <3>1. Shape' /\ RoomStep
      BY Steps DEF RelayInv
    <3> QED BY <3>1 DEF Shape
  <2>2. Sides'
    BY <2>1, SidesKept DEF RelayInv
  <2>3. ServedOpen'
    BY ServedOpenKept DEF RelayInv
  <2>4. Order'
    BY OrderKept
  <2> QED
    BY <2>2, <2>3, <2>4
<1>3. RelayInv /\ Inv => InOrder
  BY OrderIsInOrder
<1> HIDE DEF Inv
<1> QED
  BY <1>1, <1>2, <1>3, RelayInvariant, PTL DEF Spec

=============================================================================
