-------------------------- MODULE DisassemblerProofs --------------------------
(***************************************************************************)
(* What is proved of tools/disasm.py, for every dump, opcode table and     *)
(* map: when the recursive descent is over, the instructions it found are  *)
(* the least set that has the entry and is closed under "may follow"; a    *)
(* source that is written declares as code exactly their bytes, and        *)
(* assembles to the dump again.                                            *)
(*                                                                         *)
(* The invariant of the descent is about the work still to do: what        *)
(* follows an instruction that was found is found as well, or is on the    *)
(* stack, or is the one being visited.  That of the emission is about the  *)
(* lines written: what each says, and where each begins.                   *)
(***************************************************************************)
EXTENDS Disassembler, Induction, SequenceTheorems, TLAPS

ToDo == {pending[i] : i \in 1 .. Len(pending)} \cup {pc}

(* The phases after the descent.                                           *)
Done == {"labels", "proofs", "emit", "written"}

WalkType ==
  /\ img \in [Rom -> Byte]
  /\ pending \in Seq(Int)
  /\ phase \in {"totals", "walk"} => pc \in Int
  /\ \A a \in starts : Decodes(a)
  /\ phase \in {"totals", "walk", "rejected"} \cup Done

(* The entry, and what follows something found, is found or to be done.    *)
Reached(a) == Decodes(a) => a \in starts \/ a \in ToDo
NothingForgotten ==
  phase \in {"totals", "walk"} =>
    Reached(ROM_BASE) /\ \A a \in starts : \A b \in Follows(a) : Reached(b)

(* Nothing is found, or to be done, that a closed set does not have.       *)
InEvery(S) ==
  /\ starts \subseteq S
  /\ phase \in {"totals", "walk"} => \A a \in ToDo : Decodes(a) => a \in S
NothingAdded == \A S \in SUBSET Rom : Closed(S) => InEvery(S)

(* A stack is empty, and nothing is being visited, at the end.             *)
ClosedAtEnd == phase \in Done => Closed(starts)

WalkInv == WalkType /\ NothingForgotten /\ ClosedAtEnd

-----------------------------------------------------------------------------
(* A branch, a JSR and a JMP are where Follows says they are.              *)
LEMMA DecodesInRom ==
  ASSUME NEW a, Decodes(a)
  PROVE  a \in Rom /\ img[a] \in DOMAIN OPS /\ a \in Int
BY Cartridge DEF Decodes, Rom

(* What Visit does with an instruction is what can follow it.              *)
LEMMA FollowsIsDone ==
  ASSUME NEW a, Decodes(a)
  PROVE  Follows(a) = {b \in Aside(a) \cup {Onward(a)} : Decodes(b)}
<1>1. a \in Rom /\ img[a] \in DOMAIN OPS
  BY DecodesInRom
<1>2. \A b : Decodes(b) => b \in Rom
  BY DecodesInRom
<1>3. ~Decodes(NoAddress)
  BY <1>2, Cartridge DEF Rom, NoAddress
<1>. SUFFICES ASSUME NEW b
              PROVE  b \in Follows(a) <=> b \in Aside(a) \cup {Onward(a)} /\ Decodes(b)
  OBVIOUS
<1>4. b \in Follows(a) <=>
        /\ Decodes(b)
        /\ \/ img[a] \notin TERMINAL /\ b = a + Length(a)
           \/ Mode(a) = "rel" /\ b = Branch(a)
           \/ (img[a] = JSR \/ img[a] = JMP) /\ b = Word(a + 1)
  BY <1>2 DEF Follows
<1>5. CASE Mode(a) = "rel"
  <2>1. img[a] \notin TERMINAL /\ img[a] \notin {JSR, JMP}
    BY <1>1, <1>5, Cartridge DEF Mode
  <2>2. Aside(a) = {Branch(a)} /\ Onward(a) = a + Length(a)
    BY <1>5, <2>1 DEF Aside, Onward
  <2>. QED  BY <1>4, <1>5, <2>1, <2>2
<1>6. CASE Mode(a) # "rel" /\ img[a] = JSR
  <2>1. img[a] \notin TERMINAL /\ img[a] # JMP
    BY <1>6, Cartridge
  <2>2. Aside(a) = {Word(a + 1)} /\ Onward(a) = a + Length(a)
    BY <1>6, <2>1 DEF Aside, Onward
  <2>. QED  BY <1>4, <1>6, <2>1, <2>2
<1>7. CASE Mode(a) # "rel" /\ img[a] = JMP
  <2>1. img[a] \in TERMINAL /\ img[a] # JSR
    BY <1>7, Cartridge
  <2>2. Aside(a) = {} /\ Onward(a) = Word(a + 1)
    BY <1>7, <2>1 DEF Aside, Onward
  <2>. QED  BY <1>4, <1>7, <2>1, <2>2
<1>8. CASE Mode(a) # "rel" /\ img[a] \notin {JSR, JMP}
  <2>1. Aside(a) = {}
    BY <1>8 DEF Aside
  <2>2. CASE img[a] \in TERMINAL
    <3>1. Onward(a) = NoAddress
      BY <1>8, <2>2 DEF Onward
    <3>. QED  BY <1>4, <1>3, <1>8, <2>1, <2>2, <3>1
  <2>3. CASE img[a] \notin TERMINAL
    <3>1. Onward(a) = a + Length(a)
      BY <1>8, <2>3 DEF Onward
    <3>. QED  BY <1>4, <1>8, <2>1, <2>3, <3>1
  <2>. QED  BY <2>2, <2>3
<1>. QED  BY <1>5, <1>6, <1>7, <1>8

(* The operands of an instruction that decodes are numbers.                *)
LEMMA OperandsAreInt ==
  ASSUME WalkType, NEW a, Decodes(a)
  PROVE  Aside(a) \subseteq Int /\ Onward(a) \in Int
<1>1. a \in Int /\ a \in Rom /\ img[a] \in DOMAIN OPS
  BY DecodesInRom
<1>2. Length(a) \in {1, 2, 3} /\ a + Length(a) <= ROM_END
  <2>1. OPS[img[a]].mode \in DOMAIN MODES
    BY <1>1, Cartridge
  <2>2. \A m \in DOMAIN MODES : MODES[m] \in {1, 2, 3}
    BY DEF MODES
  <2>. QED  BY <2>1, <2>2 DEF Length, Mode, Decodes
<1>3. Mode(a) = "rel" => Length(a) = 2
  BY DEF Length, Mode, MODES
<1>4. img[a] \in {JSR, JMP} => Length(a) = 3
  BY Cartridge DEF Length, Mode, MODES
<1>5. \A b \in Rom : img[b] \in Int
  BY Cartridge DEF WalkType, Byte
<1>6. Mode(a) = "rel" => Branch(a) \in Int
  <2>1. Mode(a) = "rel" => a + 1 \in Rom
    BY <1>1, <1>2, <1>3, Cartridge DEF Rom
  <2>2. ByteMod \div 2 \in Int
    BY Cartridge
  <2>. QED  BY <1>1, <1>5, <2>1, <2>2, Cartridge DEF Branch
<1>7. img[a] \in {JSR, JMP} => Word(a + 1) \in Int
  <2>1. img[a] \in {JSR, JMP} => a + 1 \in Rom /\ a + 2 \in Rom
    BY <1>1, <1>2, <1>4, Cartridge DEF Rom
  <2>. SUFFICES ASSUME img[a] \in {JSR, JMP} PROVE Word(a + 1) \in Int
    OBVIOUS
  <2>2. img[a + 1] \in Int /\ img[(a + 1) + 1] \in Int
    BY <1>1, <1>5, <2>1
  <2>. QED  BY <2>2, Cartridge DEF Word
<1>. QED  BY <1>1, <1>2, <1>6, <1>7 DEF Aside, Onward, NoAddress

-----------------------------------------------------------------------------
(* How the steps of the descent change what is to be done.                 *)
Stack == {pending[i] : i \in 1 .. Len(pending)}

LEMMA PopToDo ==
  ASSUME WalkType, Pop, pending # <<>>
  PROVE  /\ ToDo' \subseteq ToDo /\ ToDo \subseteq ToDo' \cup {NoAddress}
         /\ pending' \in Seq(Int) /\ pc' \in Int
<1>1. pending \in Seq(Int) /\ Len(pending) \in Nat /\ Len(pending) > 0
  BY DEF WalkType
<1>2. pc = NoAddress /\ pc' = pending[Len(pending)]
      /\ pending' = SubSeq(pending, 1, Len(pending) - 1)
  BY DEF Pop
<1>3. /\ pending' \in Seq(Int) /\ pc' \in Int
      /\ Len(pending') = Len(pending) - 1
      /\ \A i \in 1 .. Len(pending) - 1 : pending'[i] = pending[i]
  <2>. DEFINE n == Len(pending) - 1
  <2>1. n \in Nat /\ \A i \in 1 .. n : pending[i] \in Int
    BY <1>1
  <2>. HIDE DEF n
  <2>2. /\ SubSeq(pending, 1, n) \in Seq(Int)
        /\ Len(SubSeq(pending, 1, n)) = IF 1 <= n THEN n - 1 + 1 ELSE 0
        /\ \A i \in 1 .. n - 1 + 1 : SubSeq(pending, 1, n)[i] = pending[1 + i - 1]
    BY <2>1, SubSeqProperties
  <2>3. /\ Len(SubSeq(pending, 1, n)) = n
        /\ \A i \in 1 .. n : SubSeq(pending, 1, n)[i] = pending[i]
    BY <2>1, <2>2
  <2>4. pc' \in Int
    BY <1>1, <1>2
  <2>. QED  BY <1>2, <2>2, <2>3, <2>4 DEF n
<1>4. ToDo' \subseteq ToDo
  BY <1>1, <1>2, <1>3 DEF ToDo
<1>5. ToDo \subseteq ToDo' \cup {NoAddress}
  <2>1. \A i \in 1 .. Len(pending) : i \in 1 .. Len(pending) - 1 \/ i = Len(pending)
    BY <1>1
  <2>. QED  BY <1>1, <1>2, <1>3, <2>1 DEF ToDo
<1>. QED  BY <1>3, <1>4, <1>5

LEMMA VisitToDo ==
  ASSUME WalkType, Visit
  PROVE  /\ ToDo' = Stack \cup Aside(pc) \cup {Onward(pc)}
         /\ pending' \in Seq(Int) /\ pc' \in Int
<1>1. pending \in Seq(Int) /\ Len(pending) \in Nat
  BY DEF WalkType
<1>2. Aside(pc) \subseteq Int /\ Onward(pc) \in Int
  BY OperandsAreInt DEF Visit
<1>3. pc' = Onward(pc)
  BY DEF Visit
<1>4. CASE Aside(pc) = {}
  <2>1. pending' = pending
    BY <1>4 DEF Visit
  <2>. QED  BY <1>1, <1>2, <1>3, <1>4, <2>1 DEF ToDo, Stack
<1>5. CASE Aside(pc) # {}
  <2>1. PICK a : Aside(pc) = {a}
    BY <1>5 DEF Aside
  <2>2. a \in Int /\ pending' = Append(pending, a)
    BY <1>2, <1>5, <2>1 DEF Visit
  <2>3. /\ pending' \in Seq(Int) /\ Len(pending') = Len(pending) + 1
        /\ pending'[Len(pending) + 1] = a
        /\ \A i \in 1 .. Len(pending) : pending'[i] = pending[i]
    BY <1>1, <2>2
  <2>4. {pending'[i] : i \in 1 .. Len(pending')} = Stack \cup {a}
    <3>1. 1 .. Len(pending') = (1 .. Len(pending)) \cup {Len(pending) + 1}
      BY <1>1, <2>3
    <3>. QED  BY <2>3, <3>1 DEF Stack
  <2>. QED  BY <1>2, <1>3, <2>1, <2>3, <2>4 DEF ToDo
<1>. QED  BY <1>4, <1>5

-----------------------------------------------------------------------------
LEMMA InitWalk == Init => WalkInv
<1>. SUFFICES ASSUME Init PROVE WalkInv
  OBVIOUS
<1>1. ToDo = {ROM_BASE, NoAddress}
  BY DEF Init, ToDo
<1>2. WalkType
  BY Cartridge DEF Init, WalkType, NoAddress
<1>3. NothingForgotten
  BY <1>1 DEF Init, NothingForgotten, Reached
<1>4. ClosedAtEnd
  BY DEF Init, ClosedAtEnd, Done
<1>. QED  BY <1>2, <1>3, <1>4 DEF WalkInv

(* The passes after the descent leave what was found as it is.             *)
After == BuildLabels \/ Proofs \/ Emit \/ NextRegion \/ Finish

LEMMA AfterWalk ==
  ASSUME WalkInv, After
  PROVE  WalkInv'
<1>1. phase \in Done
  BY DEF After, BuildLabels, Proofs, Emit, NextRegion, Finish, Done
<1>2. phase' \in Done \cup {"rejected"}
  BY <1>1 DEF After, BuildLabels, Proofs, Emit, NextRegion, Finish, Done
<1>3. UNCHANGED <<img, pending, starts>>
  BY DEF After, BuildLabels, Proofs, Emit, NextRegion, Finish, found
<1>4. /\ \A a : Decodes(a)' <=> Decodes(a)
      /\ \A a : Follows(a)' = Follows(a)
  BY <1>3 DEF Follows, Decodes, Mode, Length, Branch, Word
<1>5. Closed(starts)' <=> Closed(starts)
  BY <1>3, <1>4 DEF Closed
<1>. QED  BY <1>1, <1>2, <1>3, <1>4, <1>5 DEF WalkInv, WalkType, NothingForgotten, ClosedAtEnd, Done

(* Pop takes what is to be done from the stack, or ends the descent with   *)
(* nothing to be done.                                                     *)
LEMMA PopWalk ==
  ASSUME WalkInv, Pop
  PROVE  WalkInv'
<1>1. UNCHANGED <<img, starts>> /\ phase = "walk" /\ pc = NoAddress /\ ~Decodes(NoAddress)
  BY DecodesInRom, Cartridge DEF Pop, Rom, NoAddress
<1>2. /\ \A a : Decodes(a)' <=> Decodes(a)
      /\ \A a : Follows(a)' = Follows(a)
  BY <1>1 DEF Follows, Decodes, Mode, Length, Branch, Word
<1>3. CASE pending = <<>>
  <2>1. ToDo = {NoAddress}
    BY <1>1, <1>3 DEF ToDo
  <2>2. Closed(starts)
    BY <1>1, <2>1 DEF WalkInv, NothingForgotten, Reached, Closed, Follows
  <2>3. Closed(starts)'
    BY <1>1, <1>2, <2>2 DEF Closed
  <2>4. phase' = "labels" /\ UNCHANGED <<pending, pc>>
    BY <1>3 DEF Pop
  <2>. QED  BY <1>1, <1>2, <2>3, <2>4 DEF WalkInv, WalkType, NothingForgotten, ClosedAtEnd, Done
<1>4. CASE pending # <<>>
  <2>1. /\ ToDo \subseteq ToDo' \cup {NoAddress}
        /\ pending' \in Seq(Int) /\ pc' \in Int
    BY <1>4, PopToDo DEF WalkInv
  <2>2. phase' = "walk"
    BY <1>1, <1>4 DEF Pop
  <2>3. \A a : Reached(a) => Reached(a)'
    BY <1>1, <1>2, <2>1 DEF Reached
  <2>4. NothingForgotten'
    BY <1>1, <1>2, <2>3 DEF WalkInv, NothingForgotten
  <2>. QED  BY <1>1, <1>2, <2>1, <2>2, <2>4 DEF WalkInv, WalkType, ClosedAtEnd, Done
<1>. QED  BY <1>3, <1>4

(* Leave drops an address that is known, or that nothing can follow.       *)
LEMMA LeaveWalk ==
  ASSUME WalkInv, Leave
  PROVE  WalkInv'
<1>1. /\ UNCHANGED <<img, starts, pending, phase>> /\ phase = "walk" /\ pc' = NoAddress
      /\ pc \in starts \/ ~Decodes(pc)
  BY DecodesInRom DEF Leave, Stale
<1>2. /\ \A a : Decodes(a)' <=> Decodes(a)
      /\ \A a : Follows(a)' = Follows(a)
  BY <1>1 DEF Follows, Decodes, Mode, Length, Branch, Word
<1>3. ToDo \subseteq ToDo' \cup {pc}
  BY <1>1 DEF ToDo
<1>4. \A a : Reached(a) => Reached(a)'
  BY <1>1, <1>2, <1>3 DEF Reached
<1>5. NothingForgotten'
  BY <1>1, <1>2, <1>4 DEF WalkInv, NothingForgotten
<1>. QED  BY <1>1, <1>2, <1>5 DEF WalkInv, WalkType, ClosedAtEnd, Done, NoAddress

(* Visit finds an instruction, and leaves what follows it to be done.      *)
LEMMA VisitWalk ==
  ASSUME WalkInv, Visit
  PROVE  WalkInv'
<1>1. /\ UNCHANGED <<img, phase>> /\ phase = "walk"
      /\ Decodes(pc) /\ starts' = starts \cup {pc}
  BY DEF Visit
<1>2. /\ \A a : Decodes(a)' <=> Decodes(a)
      /\ \A a : Follows(a)' = Follows(a)
  BY <1>1 DEF Follows, Decodes, Mode, Length, Branch, Word
<1>3. /\ ToDo' = Stack \cup Aside(pc) \cup {Onward(pc)}
      /\ pending' \in Seq(Int) /\ pc' \in Int
  BY VisitToDo DEF WalkInv
<1>4. ToDo \subseteq ToDo' \cup {pc}
  BY <1>3 DEF ToDo, Stack
<1>5. \A a : Reached(a) => Reached(a)'
  BY <1>1, <1>2, <1>4 DEF Reached
<1>6. \A b \in Follows(pc) : Reached(b)'
  BY <1>1, <1>2, <1>3, FollowsIsDone DEF Reached
<1>7. NothingForgotten'
  BY <1>1, <1>2, <1>5, <1>6 DEF WalkInv, NothingForgotten
<1>. QED  BY <1>1, <1>2, <1>3, <1>7 DEF WalkInv, WalkType, ClosedAtEnd, Done

LEMMA NextWalk == WalkInv /\ [Next]_vars => WalkInv'
<1>. SUFFICES ASSUME WalkInv, [Next]_vars PROVE WalkInv'
  OBVIOUS
<1>1. CASE CheckTotals
  <2>1. /\ UNCHANGED <<img, pending, pc, starts>> /\ phase = "totals"
        /\ phase' \in {"walk", "rejected"}
    BY <1>1 DEF CheckTotals, found
  <2>2. NothingForgotten'
    BY <2>1 DEF WalkInv, NothingForgotten, Reached, ToDo, Follows, Decodes, Mode, Length, Branch,
                Word
  <2>. QED  BY <2>1, <2>2 DEF WalkInv, WalkType, ClosedAtEnd, Done, Decodes
<1>2. CASE UNCHANGED vars
  <2>1. UNCHANGED <<img, pending, pc, starts, phase>>
    BY <1>2 DEF vars, found
  <2>. QED  BY <2>1 DEF WalkInv, WalkType, NothingForgotten, ClosedAtEnd, Closed, Reached, ToDo,
                        Follows, Decodes, Mode, Length, Branch, Word
<1>. QED  BY <1>1, <1>2, PopWalk, LeaveWalk, VisitWalk, AfterWalk DEF Next, After

(* Recursive descent (disasm.py:162-206) finds all there is to find.       *)
THEOREM Complete == Spec => []AllReachable
<1>1. WalkInv => AllReachable
  BY DEF WalkInv, WalkType, ClosedAtEnd, AllReachable
<1>. QED  BY InitWalk, NextWalk, <1>1, PTL DEF Spec

-----------------------------------------------------------------------------
(* The other direction.  A closed set has the entry and whatever follows   *)
(* one of its members, so the descent cannot leave it.                     *)
LEMMA InitAdded == Init => NothingAdded
<1>. SUFFICES ASSUME Init, NEW S \in SUBSET Rom, Closed(S) PROVE InEvery(S)
  BY DEF NothingAdded
<1>1. ToDo = {ROM_BASE, NoAddress}
  BY DEF Init, ToDo
<1>2. ~Decodes(NoAddress)
  BY DecodesInRom, Cartridge DEF Rom, NoAddress
<1>. QED  BY <1>1, <1>2 DEF Init, InEvery, Closed

LEMMA NextAdded ==
  ASSUME WalkType, NothingAdded, [Next]_vars
  PROVE  NothingAdded'
<1>. SUFFICES ASSUME NEW S \in SUBSET Rom, Closed(S)' PROVE InEvery(S)'
  BY DEF NothingAdded
<1>1. img' = img
  BY DEF Next, vars, CheckTotals, Pop, Leave, Visit, BuildLabels, Proofs, Emit, NextRegion, Finish
<1>2. /\ \A a : Decodes(a)' <=> Decodes(a)
      /\ \A a : Follows(a)' = Follows(a)
  BY <1>1 DEF Follows, Decodes, Mode, Length, Branch, Word
<1>3. Closed(S) /\ InEvery(S)
  BY <1>1, <1>2 DEF Closed, NothingAdded
<1>4. CASE Visit
  <2>1. /\ phase = "walk" /\ Decodes(pc) /\ starts' = starts \cup {pc}
    BY <1>4 DEF Visit
  <2>2. ToDo' = Stack \cup Aside(pc) \cup {Onward(pc)}
    BY <1>4, VisitToDo
  <2>3. pc \in S /\ Follows(pc) \subseteq S
    BY <1>3, <2>1 DEF InEvery, ToDo, Closed
  <2>4. \A a \in Aside(pc) \cup {Onward(pc)} : Decodes(a) => a \in S
    BY <2>1, <2>3, FollowsIsDone
  <2>5. \A a \in Stack : Decodes(a) => a \in S
    BY <1>3, <2>1 DEF InEvery, ToDo, Stack
  <2>. QED  BY <1>2, <1>3, <2>1, <2>2, <2>3, <2>4, <2>5 DEF InEvery
<1>5. CASE Leave
  <2>1. phase = "walk" /\ UNCHANGED <<phase, starts, pending>> /\ pc' = NoAddress
    BY <1>5 DEF Leave
  <2>2. ToDo' \subseteq ToDo \cup {NoAddress} /\ ~Decodes(NoAddress)
    BY <2>1, DecodesInRom, Cartridge DEF ToDo, Rom, NoAddress
  <2>. QED  BY <1>2, <1>3, <2>1, <2>2 DEF InEvery
<1>6. CASE Pop /\ pending # <<>>
  <2>1. phase = "walk" /\ starts' = starts /\ ToDo' \subseteq ToDo
    BY <1>6, PopToDo DEF Pop
  <2>. QED  BY <1>2, <1>3, <2>1 DEF InEvery
<1>7. CASE CheckTotals
  <2>1. phase = "totals" /\ UNCHANGED <<starts, pending, pc>>
    BY <1>7 DEF CheckTotals, found
  <2>. QED  BY <1>2, <1>3, <2>1 DEF InEvery, ToDo
<1>8. CASE (Pop /\ pending = <<>>) \/ After
  <2>1. starts' = starts /\ phase' \notin {"totals", "walk"}
    BY <1>8 DEF Pop, After, BuildLabels, Proofs, Emit, NextRegion, Finish, found
  <2>. QED  BY <1>3, <2>1 DEF InEvery
<1>9. CASE UNCHANGED vars
  <2>1. UNCHANGED <<starts, pending, pc, phase>>
    BY <1>9 DEF vars, found
  <2>. QED  BY <1>2, <1>3, <2>1 DEF InEvery, ToDo
<1>. QED  BY <1>4, <1>5, <1>6, <1>7, <1>8, <1>9 DEF Next, After

(* Recursive descent finds nothing execution could not get to              *)
(* (disasm.py:162-206).                                                    *)
THEOREM NothingMore == Spec => []OnlyReachable
<1>1. Init => WalkInv /\ NothingAdded
  BY InitWalk, InitAdded
<1>2. WalkInv /\ NothingAdded /\ [Next]_vars => (WalkInv /\ NothingAdded)'
  BY NextWalk, NextAdded DEF WalkInv
<1>3. NothingAdded => OnlyReachable
  BY DecodesInRom DEF NothingAdded, OnlyReachable, InEvery
<1>. QED  BY <1>1, <1>2, <1>3, PTL DEF Spec

-----------------------------------------------------------------------------
(* What regions_agree compared is still so when the source is written:     *)
(* the bytes of what was found, and the regions declared as code.          *)
MapInv ==
  /\ covered = UNION {Bytes(a) : a \in starts}
  /\ phase \in {"totals", "walk", "labels", "proofs", "emit", "written", "rejected"}
  /\ phase \in {"emit", "written"} => "regions" \in problems \/ Agree
  /\ phase = "written" => problems = {}

LEMMA NextMap ==
  ASSUME MapInv, [Next]_vars
  PROVE  MapInv'
<1>1. img' = img /\ map' = map
  BY DEF Next, vars, CheckTotals, Pop, Leave, Visit, BuildLabels, Proofs, Emit, NextRegion, Finish
<1>2. /\ \A a : Bytes(a)' = Bytes(a)
      /\ Declared' = Declared
  BY <1>1 DEF Bytes, Length, Mode, Declared
<1>3. CASE Visit
  <2>1. /\ phase = "walk" /\ phase' = "walk"
        /\ starts' = starts \cup {pc} /\ covered' = covered \cup Bytes(pc)
    BY <1>3 DEF Visit
  <2>2. UNION {Bytes(a) : a \in starts \cup {pc}} = (UNION {Bytes(a) : a \in starts}) \cup Bytes(pc)
    OBVIOUS
  <2>3. covered' = UNION {Bytes(a)' : a \in starts'}
    BY <1>2, <2>1, <2>2 DEF MapInv
  <2>. QED  BY <2>1, <2>3 DEF MapInv
<1>4. CASE ~Visit
  <2>1. UNCHANGED <<starts, covered>>
    BY <1>4 DEF Next, vars, CheckTotals, Pop, Leave, BuildLabels, Proofs, Emit, NextRegion,
                Finish, found
  <2>2. (covered = UNION {Bytes(a) : a \in starts})'
    BY <1>2, <2>1 DEF MapInv
  <2>3. Agree' <=> Agree
    BY <1>2, <2>1 DEF Agree
  <2>4. CASE CheckTotals \/ Pop \/ Leave \/ BuildLabels
    <3>1. phase' \in {"walk", "labels", "proofs", "rejected"}
      BY <2>4 DEF CheckTotals, Pop, Leave, BuildLabels
    <3>. QED  BY <2>2, <3>1 DEF MapInv
  <2>5. CASE Proofs
    <3>1. phase' = "emit" /\ ("regions" \in problems' \/ Agree)
      BY <2>5 DEF Proofs
    <3>. QED  BY <2>2, <2>3, <3>1 DEF MapInv
  <2>6. CASE Emit \/ NextRegion
    <3>1. phase = "emit" /\ phase' = "emit" /\ problems \subseteq problems'
      BY <2>6 DEF Emit, NextRegion
    <3>. QED  BY <2>2, <2>3, <3>1 DEF MapInv
  <2>7. CASE Finish
    <3>1. /\ phase = "emit" /\ problems' = problems
          /\ phase' \in {"written", "rejected"} /\ (phase' = "written" => problems = {})
      BY <2>7 DEF Finish
    <3>. QED  BY <2>2, <2>3, <3>1 DEF MapInv
  <2>8. CASE UNCHANGED vars
    <3>1. UNCHANGED <<phase, problems>>
      BY <2>8 DEF vars
    <3>. QED  BY <2>2, <2>3, <3>1 DEF MapInv
  <2>. QED  BY <1>4, <2>4, <2>5, <2>6, <2>7, <2>8 DEF Next
<1>. QED  BY <1>3, <1>4

(* The map of a source that is written is the truth about the dump         *)
(* (disasm.py:13-16 and 304-315).                                          *)
THEOREM MapIsTheTruth == Spec => []MapIsTrue
<1>1. Init => MapInv
  BY DEF Init, MapInv
<1>2. MapInv => MapIsTrue
  <2>. SUFFICES ASSUME MapInv, phase = "written"
                PROVE  /\ \A a \in starts : Bytes(a) \subseteq Declared
                       /\ \A b \in Declared : \E a \in starts : b \in Bytes(a)
    BY DEF MapIsTrue
  <2>1. Declared = UNION {Bytes(a) : a \in starts}
    BY DEF MapInv, Agree
  <2>. QED  BY <2>1
<1>. QED  BY <1>1, <1>2, NextMap, PTL DEF Spec

-----------------------------------------------------------------------------
(* The types.  The passes after the descent walk the regions of the map.   *)
TextType ==
  /\ map \in Seq([lo : Int, hi : Int, kind : STRING]) /\ region \in 1 .. Len(map)
  /\ pc \in Int
  /\ covered \subseteq Rom /\ refs \subseteq Int /\ targets \subseteq Int
  /\ problems \subseteq {"walk", "roundtrip", "regions", "bias"}

(* The bytes of an instruction that decodes are in the cartridge, and its  *)
(* two-byte operand is a number.                                           *)
LEMMA InstructionInRom ==
  ASSUME WalkType, NEW a, Decodes(a)
  PROVE  /\ a \in Int /\ Length(a) \in {1, 2, 3} /\ Bytes(a) \subseteq Rom
         /\ Mode(a) \in {"abs", "abx", "aby", "ind"} => Word(a + 1) \in Int
<1>1. a \in Int /\ a \in Rom /\ img[a] \in DOMAIN OPS
  BY DecodesInRom
<1>2. Mode(a) \in DOMAIN MODES
  BY <1>1, Cartridge DEF Mode
<1>3. Length(a) \in {1, 2, 3} /\ (Mode(a) \in {"abs", "abx", "aby", "ind"} => Length(a) = 3)
  BY <1>2 DEF MODES, Length
<1>4. ROM_BASE \in Int /\ ROM_END \in Int /\ ByteMod \in Nat
      /\ a >= ROM_BASE /\ a + Length(a) <= ROM_END
  BY <1>1, Cartridge DEF Decodes, Rom, Length, Mode
<1>5. Bytes(a) \subseteq Rom
  BY <1>1, <1>3, <1>4 DEF Bytes, Rom
<1>6. ASSUME Mode(a) \in {"abs", "abx", "aby", "ind"} PROVE Word(a + 1) \in Int
  <2>1. a + 1 \in Rom /\ a + 1 + 1 \in Rom
    BY <1>1, <1>3, <1>4, <1>6 DEF Rom
  <2>2. img[a + 1] \in Byte /\ img[a + 1 + 1] \in Byte
    BY <2>1 DEF WalkType
  <2>3. img[a + 1] \in Int /\ img[a + 1 + 1] \in Int
    BY <1>4, <2>2 DEF Byte
  <2>. QED  BY <1>4, <2>3 DEF Word
<1>. QED  BY <1>1, <1>3, <1>5, <1>6

LEMMA InitText == Init => TextType
<1>. SUFFICES ASSUME Init PROVE TextType
  OBVIOUS
<1>1. map \in Seq([lo : Int, hi : Int, kind : STRING]) /\ map # <<>>
  BY Regions DEF Init
<1>2. Len(map) \in Nat /\ Len(map) # 0
  BY <1>1
<1>. QED  BY <1>1, <1>2 DEF Init, TextType, NoAddress

LEMMA VisitText ==
  ASSUME WalkType, TextType, Visit
  PROVE  TextType'
<1>1. Decodes(pc) /\ UNCHANGED <<map, region, problems>>
  BY DEF Visit
<1>2. pc' \in Int /\ Aside(pc) \subseteq Int /\ Onward(pc) \in Int
  BY <1>1, OperandsAreInt DEF Visit
<1>3. covered' \subseteq Rom
  BY <1>1, InstructionInRom DEF Visit, TextType
<1>4. refs' \subseteq Int
  BY <1>1, InstructionInRom DEF Visit, TextType
<1>5. targets' \subseteq Int
  BY <1>2 DEF Visit, TextType
<1>. QED  BY <1>1, <1>2, <1>3, <1>4, <1>5 DEF TextType

LEMMA AfterText ==
  ASSUME WalkType, TextType, After
  PROVE  TextType'
<1>1. UNCHANGED <<map, covered, refs, targets>>
  BY DEF After, BuildLabels, Proofs, Emit, NextRegion, Finish, found
<1>2. ASSUME NEW i \in 1 .. Len(map) PROVE map[i].lo \in Int
  <2>1. map[i] \in [lo : Int, hi : Int, kind : STRING]
    BY ElementOfSeq DEF TextType
  <2>. QED  BY <2>1
<1>3. Len(map) \in Nat /\ region \in 1 .. Len(map)
  BY DEF TextType
<1>4. CASE BuildLabels \/ Finish
  <2>1. UNCHANGED <<region, pc, problems>>
    BY <1>4 DEF BuildLabels, Finish, found
  <2>. QED  BY <1>1, <2>1 DEF TextType
<1>5. CASE Proofs
  <2>1. region' = region /\ pc' = map[1].lo
        /\ problems' \subseteq problems \cup {"roundtrip", "regions"}
    BY <1>5 DEF Proofs
  <2>2. pc' \in Int
    BY <1>2, <1>3, <2>1
  <2>. QED  BY <1>1, <2>1, <2>2 DEF TextType
<1>6. CASE Emit
  <2>1. region' = region /\ pc' = pc + LineAt(pc).size
        /\ problems' \subseteq problems \cup {"bias"}
    BY <1>6 DEF Emit
  <2>2. LineAt(pc).size \in {Length(pc), 1, 2} /\ (pc \notin starts => LineAt(pc).size \in {1, 2})
    BY DEF LineAt, Data
  <2>3. pc \in starts => Length(pc) \in {1, 2, 3}
    BY InstructionInRom DEF WalkType
  <2>4. LineAt(pc).size \in {1, 2, 3}
    BY <2>2, <2>3
  <2>5. pc' \in Int
    BY <2>1, <2>4 DEF TextType
  <2>. QED  BY <1>1, <2>1, <2>5 DEF TextType
<1>7. CASE NextRegion
  <2>1. region < Len(map) /\ region' = region + 1 /\ pc' = map[region + 1].lo
        /\ problems' = problems
    BY <1>7 DEF NextRegion
  <2>2. region' \in 1 .. Len(map) /\ pc' \in Int
    BY <1>2, <1>3, <2>1
  <2>. QED  BY <1>1, <2>1, <2>2 DEF TextType
<1>. QED  BY <1>4, <1>5, <1>6, <1>7 DEF After

LEMMA NextText ==
  ASSUME WalkInv, TextType, [Next]_vars
  PROVE  TextType'
<1>1. CASE CheckTotals \/ UNCHANGED vars
  <2>1. UNCHANGED <<map, region, pc, covered, refs, targets, problems>>
    BY <1>1 DEF CheckTotals, vars, found
  <2>. QED  BY <2>1 DEF TextType
<1>2. CASE Pop
  <2>1. UNCHANGED <<map, region, covered, refs, targets, problems>>
    BY <1>2 DEF Pop
  <2>2. pc' \in Int
    BY <1>2, PopToDo DEF Pop, WalkInv, TextType
  <2>. QED  BY <2>1, <2>2 DEF TextType
<1>3. CASE Leave
  <2>1. UNCHANGED <<map, region, covered, refs, targets>> /\ pc' = NoAddress
        /\ problems' \subseteq problems \cup {"walk"}
    BY <1>3 DEF Leave
  <2>. QED  BY <2>1 DEF TextType, NoAddress
<1>. QED  BY <1>1, <1>2, <1>3, VisitText, AfterText DEF Next, After, WalkInv

(* What disasm.py keeps stays in its types: instructions and their bytes   *)
(* are in the cartridge, whatever bytes the dump has at its end.           *)
THEOREM DisassemblerTypeOK == Spec => []TypeOK
<1>1. WalkInv /\ TextType => TypeOK
  BY DecodesInRom DEF WalkInv, WalkType, TextType, TypeOK, Done
<1>2. WalkInv /\ TextType /\ [Next]_vars => (WalkInv /\ TextType)'
  BY NextWalk, NextText
<1>. QED  BY InitWalk, InitText, <1>1, <1>2, PTL DEF Spec

-----------------------------------------------------------------------------
(* The numbers of a two-byte operand: remainder and quotient by the size   *)
(* of a byte.                                                              *)
LEMMA Division ==
  ASSUME NEW M \in Nat \ {0}, NEW x \in Int
  PROVE  /\ x \div M \in Int /\ x % M \in 0 .. M - 1
         /\ x = M * (x \div M) + (x % M)
OBVIOUS

LEMMA OneLap ==
  ASSUME NEW M \in Nat \ {0}, NEW k \in Int, -M < M * k, M * k < M
  PROVE  k = 0
<1>1. k >= 1 => M * k >= M
  OBVIOUS
<1>2. k <= -1 => M * k <= -M
  OBVIOUS
<1>. QED  BY <1>1, <1>2

LEMMA LowAndHigh ==
  ASSUME NEW M \in Nat \ {0}, NEW q \in Int, NEW r \in 0 .. M - 1
  PROVE  (r + M * q) % M = r /\ (r + M * q) \div M = q
<1>. DEFINE x == r + M * q
            p == x \div M
            s == x % M
<1>1. x \in Int /\ p \in Int /\ s \in 0 .. M - 1 /\ x = M * p + s
  BY Division
<1>2. M * (p - q) = r - s
  BY <1>1
<1>3. p - q = 0
  <2>1. -M < r - s /\ r - s < M
    BY <1>1
  <2>. HIDE DEF p, s, x
  <2>2. p - q \in Int
    BY <1>1
  <2>. QED  BY <1>2, <2>1, <2>2, OneLap
<1>4. p = q /\ s = r
  BY <1>1, <1>2, <1>3
<1>. QED  BY <1>4

LEMMA LowOfByte ==
  ASSUME NEW M \in Nat \ {0}, NEW r \in 0 .. M - 1
  PROVE  r % M = r /\ (r - M) % M = r
<1>1. (r + M * 0) % M = r /\ (r + M * (-1)) % M = r
  BY LowAndHigh
<1>2. r + M * 0 = r /\ r + M * (-1) = r - M
  OBVIOUS
<1>. QED  BY <1>1, <1>2

(* The greatest of some naturals with a bound.                             *)
LEMMA Greatest ==
  ASSUME NEW T \in SUBSET Nat, T # {}, NEW v \in Nat, \A a \in T : a <= v
  PROVE  \E m \in T : \A k \in T : k <= m
<1>1. PICK D \in SUBSET Nat : D = {d \in Nat : v - d \in T}
  OBVIOUS
<1>2. \A a \in T : v - a \in D
  <2>. SUFFICES ASSUME NEW a \in T PROVE v - a \in D
    OBVIOUS
  <2>1. a \in Nat /\ v - a \in Nat /\ v - (v - a) = a
    OBVIOUS
  <2>. QED  BY <1>1, <2>1
<1>3. D # {}
  BY <1>2
<1>4. PICK d \in D : \A e \in D : d <= e
  BY <1>3, LeastNatural
<1>5. v - d \in T /\ d \in Nat
  BY <1>1, <1>4
<1>6. ASSUME NEW k \in T PROVE k <= v - d
  <2>1. d <= v - k /\ k \in Nat
    BY <1>2, <1>4
  <2>. QED  BY <1>5, <2>1
<1>. QED  BY <1>5, <1>6

-----------------------------------------------------------------------------
(* What an operand says: the number n.                                     *)
Says(v, n) == n = v.offset + (IF v.label = NoAddress THEN 0 ELSE v.label)

LEMMA NumberSays == ASSUME NEW n \in Int PROVE Says(Number(n), n) /\ Number(n).label = NoAddress
BY DEF Says, Number, LabelPlus, NoAddress

LEMMA LabelSays ==
  ASSUME NEW a \in Nat, NEW d \in Int
  PROVE  /\ Says(LabelPlus(a, d), a + d)
         /\ LabelPlus(a, d).label = a
BY DEF Says, LabelPlus, NoAddress

LEMMA BytesOfImage ==
  ASSUME WalkType, NEW a \in Rom
  PROVE  /\ a \in Nat /\ img[a] \in 0 .. ByteMod - 1 /\ ByteMod \in Nat \ {0}
         /\ img[a] \in Nat
<1>1. img[a] \in Byte /\ ByteMod \in Nat
  BY Cartridge DEF WalkType
<1>2. a \in Nat
  BY Cartridge DEF Rom
<1>. QED  BY <1>1, <1>2 DEF Byte

LEMMA WordsOfImage ==
  ASSUME WalkType, NEW a \in Rom, a + 1 \in Rom
  PROVE  /\ Word(a) \in Nat
         /\ Word(a) % ByteMod = img[a] /\ Word(a) \div ByteMod = img[a + 1]
<1>1. /\ img[a] \in 0 .. ByteMod - 1 /\ img[a + 1] \in Nat /\ ByteMod \in Nat \ {0}
      /\ img[a] \in Nat
  BY BytesOfImage
<1>2. ByteMod * img[a + 1] \in Nat
  BY <1>1
<1>3. Word(a) \in Nat
  BY <1>1, <1>2 DEF Word
<1>4. img[a + 1] \in Int
  BY <1>1
<1>. QED  BY <1>1, <1>3, <1>4, LowAndHigh DEF Word

(* _based and absname: whatever way an address is named, it is that one.   *)
LEMMA BasedSays ==
  ASSUME NEW v \in Nat
  PROVE  Says(Based(v), v)
<1>. DEFINE below == {a \in labels \cap Rom : a <= v}
            base == CHOOSE a \in below : \A b \in below : b <= a
<1>1. CASE below # {} /\ v - base <= Near
  <2>1. below \subseteq Nat
    BY Cartridge DEF Rom
  <2>2. \E a \in below : \A b \in below : b <= a
    BY <1>1, <2>1, Greatest
  <2>3. base \in Nat
    BY <2>1, <2>2
  <2>4. Based(v) = LabelPlus(base, v - base)
    BY <1>1 DEF Based
  <2>. HIDE DEF base, below
  <2>5. v - base \in Int /\ base + (v - base) = v
    BY <2>3
  <2>. QED  BY <2>3, <2>4, <2>5, LabelSays
<1>2. CASE ~(below # {} /\ v - base <= Near)
  <2>1. Based(v) = Number(v)
    BY <1>2 DEF Based
  <2>. QED  BY <2>1, NumberSays
<1>. QED  BY <1>1, <1>2

LEMMA AbsNameSays ==
  ASSUME WalkType, NEW a, Decodes(a), Length(a) = 3, BiasHolds(a)
  PROVE  Says(AbsName(a), Word(a + 1))
<1>. DEFINE v == Word(a + 1)
<1>1. a \in Int /\ Bytes(a) \subseteq Rom
  BY InstructionInRom
<1>2. a + 1 \in Rom /\ (a + 1) + 1 \in Rom
  <2>1. a + 1 \in Bytes(a) /\ (a + 1) + 1 \in Bytes(a)
    BY <1>1 DEF Bytes
  <2>. QED  BY <1>1, <2>1
<1>3. v \in Nat
  BY <1>2, WordsOfImage
<1>. HIDE DEF v
<1>4. CASE a \in DOMAIN BIAS
  <2>1. AbsName(a) = BIAS[a]
    BY <1>4 DEF AbsName
  <2>2. BIAS[a].label \in Nat /\ BIAS[a].offset \in Int
    BY <1>4, Biases
  <2>3. BIAS[a].label + BIAS[a].offset = v
    BY <1>4 DEF BiasHolds, v
  <2>. QED  BY <2>1, <2>2, <2>3 DEF Says, NoAddress, v
<1>5. CASE a \notin DOMAIN BIAS /\ v \in labels
  <2>1. AbsName(a) = LabelPlus(v, 0)
    BY <1>5 DEF AbsName, v
  <2>2. v + 0 = v
    BY <1>3
  <2>. QED  BY <1>3, <2>1, <2>2, LabelSays DEF v
<1>6. CASE a \notin DOMAIN BIAS /\ v \notin labels
  <2>1. AbsName(a) = Based(v) \/ AbsName(a) = Number(v)
    BY <1>6 DEF AbsName, v
  <2>. QED  BY <1>3, <2>1, BasedSays, NumberSays DEF v
<1>. QED  BY <1>4, <1>5, <1>6
-----------------------------------------------------------------------------
(* What has been written: each line is the instruction, the byte or the    *)
(* vector at its address, and the operand of an instruction is the one its *)
(* opcode has (or there was a problem, and nothing will be written).       *)
IsCode(l) ==
  /\ l.at \in starts /\ l.op = img[l.at] /\ l.size = Length(l.at)
  /\ l.operand = Operand(l.at) /\ l.forced = Forced(Operand(l.at))
  /\ "bias" \in problems \/ BiasHolds(l.at)
IsByte(l) == l.op = NoAddress /\ l.size = 1 /\ l.operand = Number(img[l.at])
IsWord(l) ==
  /\ l.op = NoAddress /\ l.size = 2
  /\ l.operand = IF Word(l.at) \in labels THEN LabelPlus(Word(l.at), 0) ELSE Number(Word(l.at))

IsLine(l) == l.at \in Int /\ (IsCode(l) \/ IsByte(l) \/ IsWord(l))

(* The passes leave what the later ones rely on.                           *)
Writing == {"emit", "written"}
LinesInv ==
  /\ phase \notin Writing \cup {"rejected"} => text = <<>> /\ region = 1
  /\ phase \notin {"totals", "rejected"} => Tiles
  /\ phase \in Writing => "roundtrip" \in problems \/ RoundTrip
  /\ phase = "written" => problems = {}
  /\ phase \in Writing => \A i \in 1 .. Len(text) : IsLine(text[i])
  /\ \E S : text \in Seq(S)

LEMMA Appended ==
  ASSUME NEW t, \E S : t \in Seq(S), NEW e
  PROVE  /\ \E S : Append(t, e) \in Seq(S)
         /\ Len(t) \in Nat /\ Len(Append(t, e)) = Len(t) + 1
         /\ \A i \in 1 .. Len(t) : Append(t, e)[i] = t[i]
         /\ Append(t, e)[Len(t) + 1] = e
<1>1. PICK S : t \in Seq(S)
  OBVIOUS
<1>2. PICK T : T = S \cup {e}
  OBVIOUS
<1>3. t \in Seq(T)
  <2>1. Len(t) \in Nat /\ t = [i \in 1 .. Len(t) |-> t[i]] /\ \A i \in 1 .. Len(t) : t[i] \in T
    BY <1>1, <1>2, LenProperties, ElementOfSeq
  <2>. QED  BY <2>1, SeqDef
<1>4. e \in T
  BY <1>2
<1>. QED  BY <1>3, <1>4, AppendProperties, LenProperties

LEMMA BasedStays ==
  ASSUME labels' = labels
  PROVE  \A v : Based(v)' = Based(v)
<1>. DEFINE below(L, v) == {a \in L \cap Rom : a <= v}
            base(L, v) == CHOOSE a \in below(L, v) : \A b \in below(L, v) : b <= a
            based(L, v) == IF below(L, v) # {} /\ v - base(L, v) <= Near
                           THEN LabelPlus(base(L, v), v - base(L, v)) ELSE Number(v)
<1>1. \A v : Based(v) = based(labels, v) /\ Based(v)' = based(labels', v)
  BY DEF Based
<1>. HIDE DEF based
<1>. QED  BY <1>1

(* Operands and lines depend on the dump, on what was found and on the     *)
(* labels; a problem more does not make a line wrong.                      *)
LEMMA LinesStay ==
  ASSUME img' = img, starts' = starts, labels' = labels, problems \subseteq problems'
  PROVE  /\ \A a : BiasHolds(a)' <=> BiasHolds(a)
         /\ \A l : IsLine(l) => IsLine(l)'
<1>1. /\ \A a : Mode(a)' = Mode(a) /\ Length(a)' = Length(a)
      /\ \A a : Word(a)' = Word(a) /\ Branch(a)' = Branch(a)
  BY DEF Mode, Length, Word, Branch
<1>2. \A a : AbsName(a)' = AbsName(a)
  BY <1>1, BasedStays DEF AbsName
<1>3. \A a : Operand(a)' = Operand(a)
  BY <1>1, <1>2 DEF Operand
<1>4. \A a : BiasHolds(a)' <=> BiasHolds(a)
  BY <1>1 DEF BiasHolds
<1>5. ASSUME NEW l, IsLine(l) PROVE IsLine(l)'
  <2>1. CASE IsCode(l)
    <3>1. IsCode(l)'
      BY <1>1, <1>3, <1>4, <2>1 DEF IsCode
    <3>. QED  BY <1>5, <3>1 DEF IsLine
  <2>2. CASE IsByte(l)
    <3>1. IsByte(l)'
      BY <2>2 DEF IsByte
    <3>. QED  BY <1>5, <3>1 DEF IsLine
  <2>3. CASE IsWord(l)
    <3>1. IsWord(l)'
      BY <1>1, <2>3 DEF IsWord
    <3>. QED  BY <1>5, <3>1 DEF IsLine
  <2>. QED  BY <1>5, <2>1, <2>2, <2>3 DEF IsLine
<1>. QED  BY <1>4, <1>5

(* What Emit writes is a line.                                             *)
LEMMA EmitsLine ==
  ASSUME WalkType, TextType, Emit, NEW l, l = LineAt(pc)
  PROVE  IsLine(l)'
<1>1. /\ UNCHANGED <<img, map, starts, labels>>
      /\ problems' = IF l.op = NoAddress \/ BiasHolds(pc)
                     THEN problems ELSE problems \cup {"bias"}
  BY DEF Emit, found
<1>2. pc \in Int
  BY DEF TextType
<1>3. /\ \A a : Mode(a)' = Mode(a) /\ Length(a)' = Length(a)
      /\ \A a : Word(a)' = Word(a) /\ Branch(a)' = Branch(a)
  BY <1>1 DEF Mode, Length, Word, Branch
<1>4. \A a : AbsName(a)' = AbsName(a)
  BY <1>1, <1>3, BasedStays DEF AbsName
<1>5. /\ \A a : Operand(a)' = Operand(a)
      /\ \A a : BiasHolds(a)' <=> BiasHolds(a)
  BY <1>1, <1>3, <1>4 DEF Operand, BiasHolds
<1>6. CASE map[region].kind = "code" /\ pc \in starts
  <2>1. l = [at |-> pc, op |-> img[pc], size |-> Length(pc), operand |-> Operand(pc),
             forced |-> Forced(Operand(pc))]
    BY <1>6 DEF LineAt
  <2>2. l.op # NoAddress
    <3>1. pc \in Rom
      BY <1>6, DecodesInRom DEF WalkType
    <3>. QED  BY <2>1, <3>1, BytesOfImage DEF NoAddress
  <2>3. "bias" \in problems' \/ BiasHolds(pc)
    BY <1>1, <2>2
  <2>4. IsCode(l)'
    BY <1>1, <1>3, <1>5, <1>6, <2>1, <2>3 DEF IsCode
  <2>. QED  BY <1>2, <2>1, <2>4 DEF IsLine
<1>7. CASE ~(map[region].kind = "code" /\ pc \in starts) /\ OfVectors(map[region])
  <2>1. l = Data(pc, 2, IF Word(pc) \in labels THEN LabelPlus(Word(pc), 0) ELSE Number(Word(pc)))
    BY <1>7 DEF LineAt
  <2>2. IsWord(l)'
    BY <1>1, <1>3, <2>1 DEF IsWord, Data
  <2>. QED  BY <1>2, <2>1, <2>2 DEF IsLine, Data
<1>8. CASE ~(map[region].kind = "code" /\ pc \in starts) /\ ~OfVectors(map[region])
  <2>1. l = Data(pc, 1, Number(img[pc]))
    BY <1>8 DEF LineAt
  <2>2. IsByte(l)'
    BY <1>1, <2>1 DEF IsByte, Data
  <2>. QED  BY <1>2, <2>1, <2>2 DEF IsLine, Data
<1>. QED  BY <1>6, <1>7, <1>8

LEMMA TilesStay == ASSUME map' = map PROVE Tiles' <=> Tiles
BY DEF Tiles

LEMMA RoundTripStays == ASSUME img' = img, starts' = starts PROVE RoundTrip' <=> RoundTrip
BY DEF RoundTrip, ENC

LEMMA InitLines == Init => LinesInv
<1>. SUFFICES ASSUME Init PROVE LinesInv
  OBVIOUS
<1>1. \E S : text \in Seq(S)
  <2>1. <<>> \in Seq({})
    OBVIOUS
  <2>. QED  BY <2>1 DEF Init
<1>. QED  BY <1>1 DEF Init, LinesInv, Writing

LEMMA NextLines ==
  ASSUME WalkType, TextType, LinesInv, [Next]_vars
  PROVE  LinesInv'
<1>1. img' = img /\ map' = map
  BY DEF Next, vars, CheckTotals, Pop, Leave, Visit, BuildLabels, Proofs, Emit, NextRegion, Finish
<1>2. Tiles' <=> Tiles
  BY <1>1, TilesStay
<1>3. CASE CheckTotals
  <2>1. /\ UNCHANGED <<region, text>> /\ phase = "totals" /\ phase' \in {"walk", "rejected"}
        /\ phase' = "walk" => Tiles
    BY <1>3 DEF CheckTotals
  <2>. QED  BY <1>2, <2>1 DEF LinesInv, Writing
<1>4. CASE Pop \/ Leave \/ Visit \/ BuildLabels
  <2>1. /\ UNCHANGED <<region, text>> /\ phase \in {"walk", "labels"}
        /\ phase' \in {"walk", "labels", "proofs"}
    BY <1>4 DEF Pop, Leave, Visit, BuildLabels
  <2>. QED  BY <1>2, <2>1 DEF LinesInv, Writing
<1>5. CASE Proofs
  <2>1. /\ UNCHANGED <<region, text, starts>> /\ phase = "proofs" /\ phase' = "emit"
        /\ "roundtrip" \in problems' \/ RoundTrip
    BY <1>5 DEF Proofs, found
  <2>2. "roundtrip" \in problems' \/ RoundTrip'
    BY <1>1, <2>1, RoundTripStays
  <2>3. text' = <<>> /\ Len(text') = 0
    BY <2>1 DEF LinesInv, Writing
  <2>. QED  BY <1>2, <2>1, <2>2, <2>3 DEF LinesInv, Writing
<1>6. CASE Emit
  <2>1. /\ phase = "emit" /\ phase' = "emit" /\ UNCHANGED <<starts, labels>>
        /\ problems \subseteq problems' /\ text' = Append(text, LineAt(pc))
    BY <1>6 DEF Emit, found
  <2>2. "roundtrip" \in problems' \/ RoundTrip'
    BY <1>1, <2>1, RoundTripStays DEF LinesInv, Writing
  <2>3. PICK l : l = LineAt(pc)
    OBVIOUS
  <2>4. IsLine(l)'
    BY <1>6, <2>3, EmitsLine
  <2>5. \A k : IsLine(k) => IsLine(k)'
    BY <1>1, <2>1, LinesStay
  <2>6. /\ \E S : text' \in Seq(S)
        /\ Len(text) \in Nat /\ Len(text') = Len(text) + 1
        /\ \A i \in 1 .. Len(text) : text'[i] = text[i]
        /\ text'[Len(text) + 1] = l
    <3>1. \E S : text \in Seq(S)
      BY DEF LinesInv
    <3>2. /\ \E S : Append(text, l) \in Seq(S)
          /\ Len(text) \in Nat /\ Len(Append(text, l)) = Len(text) + 1
          /\ \A i \in 1 .. Len(text) : Append(text, l)[i] = text[i]
          /\ Append(text, l)[Len(text) + 1] = l
      BY <3>1, Appended, Zenon
    <3>3. text' = Append(text, l)
      BY <2>1, <2>3
    <3>. QED  BY <3>2, <3>3, Zenon
  <2>7. ASSUME NEW i \in 1 .. Len(text') PROVE IsLine(text[i])'
    <3>1. CASE i \in 1 .. Len(text)
      <4>1. IsLine(text[i]) /\ text'[i] = text[i]
        BY <2>1, <2>6, <3>1 DEF LinesInv, Writing
      <4>2. PICK k : k = text[i]
        OBVIOUS
      <4>3. IsLine(k)'
        BY <2>5, <4>1, <4>2
      <4>4. k = text'[i]
        BY <4>1, <4>2
      <4>. QED  BY <4>3, <4>4 DEF IsLine, IsCode, IsByte, IsWord
    <3>2. CASE i = Len(text) + 1
      <4>1. text'[i] = l
        BY <2>6, <3>2
      <4>. QED  BY <2>4, <4>1 DEF IsLine, IsCode, IsByte, IsWord
    <3>. QED  BY <2>6, <3>1, <3>2
  <2>. QED  BY <1>2, <2>1, <2>2, <2>6, <2>7 DEF LinesInv, Writing
<1>7. CASE NextRegion \/ Finish \/ UNCHANGED vars
  <2>1. /\ UNCHANGED <<starts, labels, text, problems>>
        /\ NextRegion \/ Finish => phase = "emit" /\ phase' \in {"emit", "written", "rejected"}
        /\ NextRegion => phase' = "emit"
        /\ Finish /\ phase' = "written" => problems = {}
        /\ UNCHANGED vars => phase' = phase /\ region' = region
    BY <1>7 DEF NextRegion, Finish, vars, found
  <2>2. \A k : IsLine(k) => IsLine(k)'
    BY <1>1, <2>1, LinesStay
  <2>3. RoundTrip' <=> RoundTrip
    BY <1>1, <2>1, RoundTripStays
  <2>4. phase' \in Writing => phase \in Writing
    BY <1>7, <2>1 DEF Writing
  <2>5. ASSUME NEW i \in 1 .. Len(text'), phase' \in Writing PROVE IsLine(text[i])'
    <3>1. IsLine(text[i]) /\ text'[i] = text[i]
      BY <2>1, <2>4, <2>5 DEF LinesInv
    <3>2. PICK k : k = text[i]
      OBVIOUS
    <3>3. IsLine(k)'
      BY <2>2, <3>1, <3>2
    <3>4. k = text'[i]
      BY <3>1, <3>2
    <3>. QED  BY <3>3, <3>4 DEF IsLine, IsCode, IsByte, IsWord
  <2>. QED  BY <1>2, <1>7, <2>1, <2>3, <2>4, <2>5 DEF LinesInv, Writing
<1>. QED  BY <1>3, <1>4, <1>5, <1>6, <1>7 DEF Next

-----------------------------------------------------------------------------
(* Where the lines are, if every region ends where it begins or later (a   *)
(* region is (first, last+1), dgmap.py:17) and no instruction crosses the  *)
(* end of one: each begins where the one before it ends, from the base of  *)
(* the cartridge to where emit has come, and emit does not step over the   *)
(* end of a region.  In the region of the vectors it has come an even way. *)
Forward == \A m \in Maps : \A i \in DOMAIN m : m[i].lo <= m[i].hi

NoStraddle == \A a \in starts : ~Straddles(a)

Layout ==
  /\ Len(text) = 0 => pc = ROM_BASE
  /\ Len(text) # 0 => text[1].at = ROM_BASE
  /\ \A i \in 1 .. Len(text) :
       /\ text[i].at \in Int /\ text[i].size \in 1 .. 3
       /\ ROM_BASE <= text[i].at
       /\ text[i].at + text[i].size = IF i = Len(text) THEN pc ELSE text[i + 1].at
       /\ text[i].at + text[i].size <= pc
  /\ map[region].lo <= pc /\ pc <= map[region].hi
  /\ OfVectors(map[region]) => (pc - Vectors) % 2 = 0

LayoutInv ==
  /\ map \in Maps
  /\ phase \in Writing /\ NoStraddle => Layout
  /\ phase = "written" => region = Len(map) /\ pc >= map[region].hi

LEMMA InitLayout == Init => LayoutInv
BY DEF Init, LayoutInv, Writing

LEMMA NoStraddleStays ==
  ASSUME img' = img, map' = map, starts' = starts
  PROVE  NoStraddle' <=> NoStraddle
BY DEF NoStraddle, Straddles, Length, Mode

(* The regions, as numbers.                                                *)
LEMMA RegionBounds ==
  ASSUME TextType, NEW i \in 1 .. Len(map)
  PROVE  map[i].lo \in Int /\ map[i].hi \in Int
<1>1. map[i] \in [lo : Int, hi : Int, kind : STRING]
  BY ElementOfSeq DEF TextType
<1>. QED  BY <1>1

LEMMA ProofsLayout ==
  ASSUME Forward, TextType, LinesInv, LayoutInv, Proofs
  PROVE  Layout'
<1>1. /\ map' = map /\ text' = text /\ region' = region /\ pc' = map[1].lo
      /\ phase = "proofs"
  BY DEF Proofs
<1>2. text = <<>> /\ region = 1 /\ Tiles
  BY <1>1 DEF LinesInv, Writing
<1>3. Len(text) = 0 /\ pc' = ROM_BASE /\ ROM_BASE = map[1].lo
  BY <1>1, <1>2 DEF Tiles
<1>4. 1 \in 1 .. Len(map) /\ DOMAIN map = 1 .. Len(map)
  BY <1>2 DEF TextType
<1>5. map[1].lo \in Int /\ map[1].hi \in Int /\ map[1].lo <= map[1].hi
  BY <1>4, RegionBounds DEF Forward, LayoutInv
<1>6. OfVectors(map[1]) => (map[1].lo - Vectors) % 2 = 0
  BY <1>5, Cartridge DEF OfVectors
<1>. QED  BY <1>1, <1>2, <1>3, <1>5, <1>6 DEF Layout, OfVectors

LEMMA RegionLayout ==
  ASSUME Forward, TextType, LinesInv, LayoutInv, Layout, NextRegion
  PROVE  Layout'
<1>1. /\ map' = map /\ text' = text /\ region' = region + 1 /\ pc' = map[region + 1].lo
      /\ phase = "emit" /\ pc >= map[region].hi /\ region < Len(map)
  BY DEF NextRegion
<1>2. /\ region \in 1 .. Len(map) /\ region + 1 \in 1 .. Len(map) /\ pc \in Int
      /\ DOMAIN map = 1 .. Len(map) /\ Len(map) \in Nat
  BY <1>1 DEF TextType
<1>3. Tiles
  BY <1>1 DEF LinesInv
<1>4. map[region].hi \in Int /\ map[region + 1].lo \in Int /\ map[region + 1].hi \in Int
  BY <1>2, RegionBounds
<1>5. map[region + 1].lo = map[region].hi
  <2>1. region + 1 \in 2 .. Len(map) /\ (region + 1) - 1 = region
    BY <1>1, <1>2
  <2>. QED  BY <1>3, <2>1 DEF Tiles
<1>6. pc' = pc
  BY <1>1, <1>2, <1>4, <1>5 DEF Layout
<1>7. map[region + 1].lo <= map[region + 1].hi
  BY <1>2 DEF Forward, LayoutInv
<1>8. OfVectors(map[region + 1]) => (pc - Vectors) % 2 = 0
  <2>1. OfVectors(map[region + 1]) => pc = Vectors
    BY <1>1, <1>6 DEF OfVectors
  <2>2. pc = Vectors => pc - Vectors = 0
    BY <1>2
  <2>. QED  BY <2>1, <2>2
<1>9. /\ map'[region'].lo <= pc' /\ pc' <= map'[region'].hi
      /\ OfVectors(map[region])' => (pc' - Vectors) % 2 = 0
  BY <1>1, <1>4, <1>6, <1>7, <1>8 DEF OfVectors
<1>. QED  BY <1>1, <1>6, <1>9 DEF Layout

LEMMA EmitLayout ==
  ASSUME Forward, WalkType, TextType, LinesInv, LayoutInv, NoStraddle, Layout, Emit
  PROVE  Layout'
<1>1. PICK l : l = LineAt(pc)
  OBVIOUS
<1>2. /\ phase = "emit" /\ pc < map[region].hi /\ map' = map /\ region' = region
      /\ text' = Append(text, l) /\ pc' = pc + l.size
  BY <1>1 DEF Emit
<1>3. /\ region \in 1 .. Len(map) /\ pc \in Int /\ DOMAIN map = 1 .. Len(map)
      /\ map[region].lo \in Int /\ map[region].hi \in Int
  BY RegionBounds DEF TextType
<1>4. /\ l.at = pc /\ l.size \in 1 .. 3 /\ pc + l.size <= map[region].hi
      /\ OfVectors(map[region]) => l.size = 2
  <2>1. CASE map[region].kind = "code" /\ pc \in starts
    <3>1. l.at = pc /\ l.size = Length(pc)
      BY <1>1, <2>1 DEF LineAt
    <3>2. Length(pc) \in 1 .. 3
      BY <2>1, InstructionInRom DEF WalkType
    <3>3. ~(map[region].hi < pc + Length(pc))
      BY <1>2, <1>3, <2>1 DEF NoStraddle, Straddles
    <3>. QED  BY <1>3, <2>1, <3>1, <3>2, <3>3 DEF OfVectors
  <2>2. CASE ~(map[region].kind = "code" /\ pc \in starts) /\ OfVectors(map[region])
    <3>1. l.at = pc /\ l.size = 2
      BY <1>1, <2>2 DEF LineAt, Data
    <3>2. map[region].hi = Vectors + VectorBytes /\ (pc - Vectors) % 2 = 0
      BY <1>3, <2>2, Cartridge DEF OfVectors, Layout
    <3>3. pc # map[region].hi - 1
      BY <1>3, <3>2, Cartridge
    <3>. QED  BY <1>2, <1>3, <3>1, <3>3, SMTT(30)
  <2>3. CASE ~(map[region].kind = "code" /\ pc \in starts) /\ ~OfVectors(map[region])
    <3>1. l.at = pc /\ l.size = 1
      BY <1>1, <2>3 DEF LineAt, Data
    <3>. QED  BY <1>2, <1>3, <2>3, <3>1
  <2>. QED  BY <2>1, <2>2, <2>3
<1>5. /\ Len(text) \in Nat /\ Len(text') = Len(text) + 1
      /\ \A i \in 1 .. Len(text) : text'[i] = text[i]
      /\ text'[Len(text) + 1] = l
  <2>1. \E S : text \in Seq(S)
    BY DEF LinesInv
  <2>2. /\ Len(text) \in Nat /\ Len(Append(text, l)) = Len(text) + 1
        /\ \A i \in 1 .. Len(text) : Append(text, l)[i] = text[i]
        /\ Append(text, l)[Len(text) + 1] = l
    BY <2>1, Appended, SMTT(30)
  <2>. QED  BY <1>2, <2>2, Zenon
<1>6. pc' \in Int /\ pc < pc' /\ ROM_BASE \in Int
  BY <1>2, <1>3, <1>4, Cartridge
<1>7. ROM_BASE <= pc
  <2>1. CASE Len(text) = 0
    BY <1>6, <2>1 DEF Layout
  <2>2. CASE Len(text) # 0
    <3>1. 1 \in 1 .. Len(text)
      BY <1>5, <2>2
    <3>. QED  BY <1>3, <1>6, <2>2, <3>1, SMTT(30) DEF Layout
  <2>. QED  BY <2>1, <2>2
<1>8. Len(text') # 0 /\ text'[1].at = ROM_BASE
  <2>1. CASE Len(text) = 0
    BY <1>4, <1>5, <2>1 DEF Layout
  <2>2. CASE Len(text) # 0
    BY <1>5, <2>2 DEF Layout
  <2>. QED  BY <1>5, <2>1, <2>2
<1>9. ASSUME NEW i \in 1 .. Len(text')
      PROVE  /\ text'[i].at \in Int /\ text'[i].size \in 1 .. 3
             /\ ROM_BASE <= text'[i].at
             /\ text'[i].at + text'[i].size = IF i = Len(text') THEN pc' ELSE text'[i + 1].at
             /\ text'[i].at + text'[i].size <= pc'
  <2>1. CASE i = Len(text) + 1
    BY <1>2, <1>3, <1>4, <1>5, <1>6, <1>7, <2>1
  <2>2. CASE i = Len(text)
    <3>1. i \in 1 .. Len(text) /\ text'[i] = text[i] /\ text'[i + 1] = l /\ i # Len(text')
      BY <1>5, <2>2
    <3>. QED  BY <1>3, <1>4, <1>6, <2>2, <3>1 DEF Layout
  <2>3. CASE i < Len(text)
    <3>1. /\ i \in 1 .. Len(text) /\ i + 1 \in 1 .. Len(text) /\ i # Len(text) /\ i # Len(text')
          /\ text'[i] = text[i] /\ text'[i + 1] = text[i + 1]
      BY <1>5, <2>3
    <3>. QED  BY <1>3, <1>6, <3>1, SMTT(30) DEF Layout
  <2>. QED  BY <1>5, <2>1, <2>2, <2>3
<1>10. OfVectors(map[region]) => (pc' - Vectors) % 2 = 0
  <2>1. OfVectors(map[region]) => (pc - Vectors) % 2 = 0 /\ pc' - Vectors = (pc - Vectors) + 2
    BY <1>2, <1>3, <1>4, Cartridge DEF Layout
  <2>. QED  BY <1>3, <2>1, Cartridge
<1>11. /\ map'[region'].lo <= pc' /\ pc' <= map'[region'].hi
       /\ OfVectors(map[region])' => (pc' - Vectors) % 2 = 0
  BY <1>2, <1>3, <1>4, <1>6, <1>10 DEF Layout, OfVectors
<1>. QED  BY <1>8, <1>9, <1>11 DEF Layout

LEMMA NextLayout ==
  ASSUME Forward, WalkType, TextType, LinesInv, LayoutInv, [Next]_vars
  PROVE  LayoutInv'
<1>1. img' = img /\ map' = map
  BY DEF Next, vars, CheckTotals, Pop, Leave, Visit, BuildLabels, Proofs, Emit, NextRegion, Finish
<1>2. CASE CheckTotals \/ Pop \/ Leave \/ Visit \/ BuildLabels
  <2>1. phase' \notin Writing
    BY <1>2 DEF CheckTotals, Pop, Leave, Visit, BuildLabels, Writing
  <2>. QED  BY <1>1, <2>1 DEF LayoutInv, Writing
<1>3. CASE Proofs
  <2>1. phase' = "emit"
    BY <1>3 DEF Proofs
  <2>2. Layout'
    BY <1>3, ProofsLayout
  <2>. QED  BY <1>1, <2>1, <2>2 DEF LayoutInv
<1>4. CASE Emit \/ NextRegion
  <2>1. phase = "emit" /\ phase' = "emit" /\ starts' = starts
    BY <1>4 DEF Emit, NextRegion, found
  <2>2. NoStraddle' <=> NoStraddle
    BY <1>1, <2>1, NoStraddleStays
  <2>3. NoStraddle => Layout
    BY <2>1 DEF LayoutInv, Writing
  <2>4. NoStraddle => Layout'
    BY <1>4, <2>3, EmitLayout, RegionLayout
  <2>. QED  BY <1>1, <2>1, <2>2, <2>4 DEF LayoutInv
<1>5. CASE Finish \/ UNCHANGED vars
  <2>1. UNCHANGED <<starts, text, region, pc>>
    BY <1>5 DEF Finish, vars, found
  <2>2. NoStraddle' <=> NoStraddle
    BY <1>1, <2>1, NoStraddleStays
  <2>3. Layout' <=> Layout
    BY <1>1, <2>1 DEF Layout, OfVectors
  <2>4. /\ phase' \in Writing => phase \in Writing
        /\ phase' = "written" /\ phase # "written" => region = Len(map) /\ pc >= map[region].hi
    BY <1>5 DEF Finish, vars, Writing
  <2>. QED  BY <1>1, <2>1, <2>2, <2>3, <2>4 DEF LayoutInv
<1>. QED  BY <1>2, <1>3, <1>4, <1>5 DEF Next

-----------------------------------------------------------------------------
(* The assembler counts along: where it is at a line is where the line     *)
(* came from.                                                              *)
LEMMA OriginIsAt ==
  ASSUME Layout, \E S : text \in Seq(S), \A i \in 1 .. Len(text) : ~Folded(text[i]),
         pc \in Int
  PROVE  /\ \A i \in 1 .. Len(text) : Origin[i] = text[i].at
         /\ Origin[Len(text) + 1] = pc
<1>. DEFINE N == Len(text)
            f(h, i) == IF i = 1 THEN ROM_BASE
                       ELSE h[i - 1] + (IF Folded(text[i - 1]) THEN 2 ELSE text[i - 1].size)
            At(i) == IF i = N + 1 THEN pc ELSE text[i].at
<1>1. N \in Nat
  OBVIOUS
<1>2. PICK g : g = [i \in 1 .. N + 1 |-> At(i)]
  OBVIOUS
<1>3. ASSUME NEW i \in 1 .. N + 1 PROVE g[i] = f(g, i)
  <2>1. CASE i = 1
    BY <1>1, <1>2, <2>1 DEF Layout
  <2>2. CASE i # 1
    <3>1. i - 1 \in 1 .. N /\ (i - 1) + 1 = i /\ i - 1 \in 1 .. N + 1 /\ i - 1 # N + 1
      BY <1>1, <2>2
    <3>2. g[i - 1] = text[i - 1].at
      BY <1>2, <3>1
    <3>3. text[i - 1].at + text[i - 1].size = IF i - 1 = N THEN pc ELSE text[i].at
      BY <3>1 DEF Layout
    <3>4. i - 1 = N <=> i = N + 1
      BY <1>1, <3>1
    <3>5. g[i] = text[i - 1].at + text[i - 1].size
      BY <1>2, <3>3, <3>4
    <3>. QED  BY <2>2, <3>1, <3>2, <3>5
  <2>. QED  BY <2>1, <2>2
<1>4. g = [i \in 1 .. N + 1 |-> f(g, i)]
  BY <1>2, <1>3
<1>5. Origin = [i \in 1 .. N + 1 |-> f(Origin, i)]
  <2>1. \E h : h = [i \in 1 .. N + 1 |-> f(h, i)]
    BY <1>4
  <2>. QED  BY <2>1 DEF Origin
<1>. HIDE DEF f
<1>6. ASSUME NEW i \in 1 .. N + 1 PROVE Origin[i] = f(Origin, i) /\ g[i] = f(g, i)
  BY <1>3, <1>5
<1>7. PICK T : T = {n \in Nat : n + 1 \in 1 .. N + 1 => Origin[n + 1] = g[n + 1]}
  OBVIOUS
<1>8. 0 \in T
  <2>1. 1 \in 1 .. N + 1
    BY <1>1
  <2>2. Origin[1] = g[1]
    BY <1>6, <2>1 DEF f
  <2>. QED  BY <1>7, <2>2
<1>9. ASSUME NEW n \in 0 .. N - 1, n \in T PROVE n + 1 \in T
  <2>1. n + 1 \in 1 .. N + 1 /\ (n + 1) + 1 \in 1 .. N + 1 /\ ((n + 1) + 1) - 1 = n + 1
        /\ (n + 1) + 1 # 1
    BY <1>1
  <2>2. Origin[n + 1] = g[n + 1]
    BY <1>7, <1>9, <2>1
  <2>3. Origin[(n + 1) + 1] = g[(n + 1) + 1]
    BY <1>6, <2>1, <2>2 DEF f
  <2>. QED  BY <1>1, <1>7, <2>3
<1>10. 0 .. N \subseteq T
  BY <1>1, <1>8, <1>9, UpTo
<1>11. ASSUME NEW i \in 1 .. N + 1 PROVE Origin[i] = At(i)
  <2>1. i - 1 \in 0 .. N /\ (i - 1) + 1 = i
    BY <1>1
  <2>2. Origin[i] = g[i]
    BY <1>7, <1>10, <2>1
  <2>. QED  BY <1>2, <2>2
<1>. QED  BY <1>1, <1>11

(* A label is worth the address it is the label of.                        *)
LEMMA ValueIsSaid ==
  ASSUME Defined, \E S : text \in Seq(S), \A i \in 1 .. Len(text) : Origin[i] = text[i].at,
         NEW i \in 1 .. Len(text), NEW n, Says(text[i].operand, n)
  PROVE  Value(text[i].operand) = n
<1>. DEFINE v == text[i].operand
            j == CHOOSE k \in DOMAIN text : text[k].at = v.label
<1>1. DOMAIN text = 1 .. Len(text)
  OBVIOUS
<1>2. CASE v.label = NoAddress
  BY <1>2 DEF Value, Says
<1>3. CASE v.label # NoAddress
  <2>1. \E k \in DOMAIN text : text[k].at = v.label
    BY <1>1, <1>3 DEF Defined
  <2>2. j \in 1 .. Len(text) /\ text[j].at = v.label
    BY <1>1, <2>1
  <2>3. Origin[j] = v.label
    BY <2>2
  <2>. HIDE DEF v
  <2>. QED  BY <1>3, <2>3 DEF Value, Says, v
<1>. QED  BY <1>2, <1>3

(* The lines of a source that is written, without a problem.               *)
LEMMA LinesSay ==
  ASSUME WalkType, LinesInv, phase = "written", NEW i \in 1 .. Len(text),
         NEW l, l = text[i], l.at \in Rom, l.at + l.size <= ROM_END, l.size \in 1 .. 3
  PROVE  /\ ~Folded(l)
         /\ \/ /\ l.op = NoAddress /\ l.size \in {1, 2}
               /\ l.size = 1 => Says(l.operand, img[l.at])
               /\ l.size = 2 => Says(l.operand, Word(l.at))
            \/ /\ l.at \in starts /\ l.op = img[l.at] /\ l.size = Length(l.at)
               /\ Mode(l.at) = "rel" => Says(l.operand, Branch(l.at))
               /\ Mode(l.at) # "rel" /\ l.size = 2 => Says(l.operand, img[l.at + 1])
               /\ l.size = 3 => Mode(l.at) # "rel" /\ Says(l.operand, Word(l.at + 1))
<1>1. IsLine(l) /\ problems = {}
  BY DEF LinesInv, Writing
<1>2. l.at \in Nat /\ img[l.at] \in Nat
  BY BytesOfImage
<1>3. CASE IsCode(l)
  <2>1. /\ l.at \in starts /\ l.op = img[l.at] /\ l.size = Length(l.at)
        /\ l.operand = Operand(l.at) /\ l.forced = Forced(Operand(l.at))
        /\ BiasHolds(l.at)
    BY <1>1, <1>3 DEF IsCode
  <2>2. Decodes(l.at)
    BY <2>1 DEF WalkType
  <2>3. ~Folded(l)
    BY <2>1 DEF Folded, Forced
  <2>4. Bytes(l.at) \subseteq Rom /\ Mode(l.at) \in DOMAIN MODES
    BY <2>2, InstructionInRom, DecodesInRom, Cartridge DEF Mode
  <2>5. Mode(l.at) = "rel" => l.size = 2
    BY <2>1 DEF MODES, Length
  <2>6. ASSUME l.size >= 2 PROVE l.at + 1 \in Rom
    <3>1. Length(l.at) \in 1 .. 3 /\ Length(l.at) >= 2
      BY <2>1, <2>6
    <3>2. l.at + 1 \in Bytes(l.at)
      BY <1>2, <3>1 DEF Bytes
    <3>. QED  BY <2>4, <3>2
  <2>7. ASSUME l.size >= 2 PROVE img[l.at + 1] \in 0 .. ByteMod - 1 /\ ByteMod \in Nat
    BY <2>6, <2>7, BytesOfImage
  <2>8. ASSUME Mode(l.at) = "rel" PROVE Says(l.operand, Branch(l.at))
    <3>1. l.operand = LabelPlus(Branch(l.at), 0)
      BY <2>1, <2>8 DEF Operand
    <3>2. Branch(l.at) \in Nat
      <4>1. l.at >= ROM_BASE /\ ROM_BASE \in Nat /\ ByteMod <= ROM_BASE
        BY Cartridge DEF Rom
      <4>2. img[l.at + 1] \in 0 .. ByteMod - 1 /\ ByteMod \in Nat
        BY <2>5, <2>7, <2>8
      <4>3. \/ Branch(l.at) = l.at + 2 + img[l.at + 1]
            \/ Branch(l.at) = l.at + 2 + (img[l.at + 1] - ByteMod)
        BY DEF Branch
      <4>. QED  BY <1>2, <4>1, <4>2, <4>3, SMTT(30)
    <3>3. Branch(l.at) + 0 = Branch(l.at)
      BY <3>2
    <3>4. Says(LabelPlus(Branch(l.at), 0), Branch(l.at) + 0)
      BY <3>2, LabelSays
    <3>. QED  BY <3>1, <3>3, <3>4
  <2>9. ASSUME Mode(l.at) # "rel", l.size = 2 PROVE Says(l.operand, img[l.at + 1])
    <3>1. l.operand = Number(img[l.at + 1])
      BY <2>1, <2>9 DEF Operand
    <3>. QED  BY <2>7, <2>9, <3>1, NumberSays
  <2>10. ASSUME l.size = 3 PROVE Mode(l.at) # "rel" /\ Says(l.operand, Word(l.at + 1))
    <3>1. Mode(l.at) # "rel" /\ Length(l.at) = 3
      BY <2>1, <2>5, <2>10
    <3>2. l.operand = AbsName(l.at)
      BY <2>1, <3>1 DEF Operand
    <3>. QED  BY <2>1, <2>2, <3>1, <3>2, AbsNameSays
  <2>. QED  BY <2>1, <2>3, <2>8, <2>9, <2>10
<1>4. CASE IsByte(l)
  <2>1. ~Folded(l)
    BY <1>4 DEF IsByte, Folded
  <2>2. Says(l.operand, img[l.at])
    BY <1>2, <1>4, NumberSays DEF IsByte
  <2>. QED  BY <1>4, <2>1, <2>2 DEF IsByte
<1>5. CASE IsWord(l)
  <2>1. ~Folded(l) /\ l.op = NoAddress /\ l.size = 2
    BY <1>5 DEF IsWord, Folded
  <2>2. l.at + 1 \in Rom
    BY <1>2, <2>1, Cartridge DEF Rom
  <2>3. Word(l.at) \in Nat /\ Word(l.at) + 0 = Word(l.at)
    BY <2>2, WordsOfImage
  <2>4. Says(LabelPlus(Word(l.at), 0), Word(l.at) + 0) /\ Says(Number(Word(l.at)), Word(l.at))
    BY <2>3, LabelSays, NumberSays
  <2>5. Says(l.operand, Word(l.at))
    BY <1>5, <2>3, <2>4 DEF IsWord
  <2>. QED  BY <2>1, <2>5
<1>. QED  BY <1>1, <1>3, <1>4, <1>5 DEF IsLine

(* One line, byte for byte.                                                *)
LEMMA AssembledLine ==
  ASSUME WalkType, LinesInv, phase = "written", Defined,
         \A j \in 1 .. Len(text) : Origin[j] = text[j].at,
         NEW i \in 1 .. Len(text), NEW l, l = text[i],
         l.at \in Rom, l.at + l.size <= ROM_END, l.size \in 1 .. 3,
         NEW a \in l.at .. l.at + l.size - 1
  PROVE  Assembled(i, a) = img[a]
<1>. DEFINE v == Value(l.operand)
            rel == l.op # NoAddress /\ OPS[l.op].mode = "rel"
            k == a - l.at - (IF l.op = NoAddress THEN 0 ELSE 1)
<1>1. Assembled(i, a) = CASE k = -1 -> ENC(OPS[l.op])
                          [] k = 0 -> (IF rel THEN v - a - 1 ELSE v) % ByteMod
                          [] k = 1 -> v \div ByteMod
  BY DEF Assembled
<1>2. /\ l.at \in Nat /\ a \in Nat /\ a \in Rom
      /\ \/ a = l.at
         \/ a = l.at + 1 /\ l.size \in {2, 3}
         \/ a = l.at + 2 /\ l.size = 3
  <2>1. l.at \in Nat
    BY BytesOfImage
  <2>2. l.at + l.size - 1 \in Int
    BY <2>1
  <2>3. a \in Int /\ l.at <= a /\ a <= l.at + l.size - 1
    BY <2>1, <2>2
  <2>4. a \in Nat /\ a < ROM_END /\ ROM_BASE <= a
    BY <2>1, <2>3, Cartridge, SMTT(30) DEF Rom
  <2>5. \/ a = l.at
        \/ a = l.at + 1 /\ l.size \in {2, 3}
        \/ a = l.at + 2 /\ l.size = 3
    BY <2>1, <2>3, <2>4
  <2>. QED  BY <2>1, <2>4, <2>5, Cartridge DEF Rom
<1>3. \E S : text \in Seq(S)
  BY DEF LinesInv
<1>4. \A n : Says(l.operand, n) => v = n
  BY <1>3, ValueIsSaid
<1>5. ByteMod \in Nat \ {0} /\ img[a] \in 0 .. ByteMod - 1
  BY <1>2, BytesOfImage
<1>6. CASE l.op = NoAddress
  <2>1. /\ l.size \in {1, 2}
        /\ l.size = 1 => v = img[l.at]
        /\ l.size = 2 => v = Word(l.at)
    <3>1. l.at \in starts /\ l.op = img[l.at] => FALSE
      BY <1>6, BytesOfImage DEF NoAddress
    <3>. QED  BY <1>4, <3>1, LinesSay
  <2>2. k = a - l.at /\ ~rel
    BY <1>2, <1>6
  <2>. HIDE DEF v, k, rel
  <2>3. CASE l.size = 1
    <3>1. a = l.at /\ k = 0
      BY <1>2, <2>2, <2>3
    <3>2. Assembled(i, a) = img[a] % ByteMod
      BY <1>1, <2>1, <2>2, <2>3, <3>1
    <3>. QED  BY <1>5, <3>2, LowOfByte
  <2>4. CASE l.size = 2
    <3>1. l.at + 1 \in Rom
      BY <1>2, <2>4, Cartridge DEF Rom
    <3>2. Word(l.at) % ByteMod = img[l.at] /\ Word(l.at) \div ByteMod = img[l.at + 1]
      BY <3>1, WordsOfImage
    <3>3. CASE a = l.at
      <4>1. k = 0
        BY <1>2, <2>2, <3>3
      <4>. QED  BY <1>1, <2>1, <2>2, <2>4, <3>2, <3>3, <4>1
    <3>4. CASE a = l.at + 1
      <4>1. k = 1
        BY <1>2, <2>2, <3>4
      <4>2. Assembled(i, a) = v \div ByteMod
        BY <1>1, <4>1
      <4>3. v = Word(l.at)
        BY <2>1, <2>4
      <4>. QED  BY <3>2, <3>4, <4>2, <4>3, Zenon
    <3>. QED  BY <1>2, <2>4, <3>3, <3>4
  <2>. QED  BY <2>1, <2>3, <2>4
<1>7. CASE l.op # NoAddress
  <2>1. /\ l.at \in starts /\ l.op = img[l.at] /\ l.size = Length(l.at)
        /\ Mode(l.at) = "rel" => v = Branch(l.at) /\ l.size # 3
        /\ Mode(l.at) # "rel" /\ l.size = 2 => v = img[l.at + 1]
        /\ l.size = 3 => v = Word(l.at + 1)
    BY <1>4, <1>7, LinesSay
  <2>2. k = a - l.at - 1 /\ (rel <=> Mode(l.at) = "rel")
    BY <1>2, <1>7, <2>1 DEF Mode
  <2>3. RoundTrip
    BY DEF LinesInv, Writing
  <2>. HIDE DEF v, k, rel
  <2>4. CASE a = l.at
    <3>1. k = -1
      BY <1>2, <2>2, <2>4
    <3>2. Assembled(i, a) = ENC(OPS[img[l.at]])
      BY <1>1, <2>1, <3>1
    <3>. QED  BY <2>1, <2>3, <2>4, <3>2 DEF RoundTrip
  <2>5. CASE a = l.at + 1
    <3>1. k = 0 /\ l.size \in {2, 3}
      BY <1>2, <2>2, <2>5
    <3>2. Assembled(i, a) = (IF rel THEN v - a - 1 ELSE v) % ByteMod
      BY <1>1, <3>1
    <3>3. CASE Mode(l.at) = "rel"
      <4>1. \/ Branch(l.at) = l.at + 2 + img[l.at + 1]
            \/ Branch(l.at) = l.at + 2 + (img[l.at + 1] - ByteMod)
        BY DEF Branch
      <4>2. v = a + 1 + img[a] \/ v = a + 1 + (img[a] - ByteMod)
        <5>1. l.at + 2 = a + 1 /\ v = Branch(l.at)
          BY <1>2, <2>1, <2>5, <3>3
        <5>. QED  BY <2>5, <4>1, <5>1
      <4>3. v - a - 1 = img[a] \/ v - a - 1 = img[a] - ByteMod
        <5>1. a \in Int /\ img[a] \in Int /\ ByteMod \in Int
          BY <1>2, <1>5
        <5>2. \A b \in Int : v = a + 1 + b => v - a - 1 = b
          BY <5>1
        <5>3. img[a] - ByteMod \in Int
          BY <5>1
        <5>. QED  BY <4>2, <5>1, <5>2, <5>3, Zenon
      <4>4. (v - a - 1) % ByteMod = img[a]
        BY <1>5, <4>3, LowOfByte
      <4>. QED  BY <2>2, <3>2, <3>3, <4>4
    <3>4. CASE Mode(l.at) # "rel" /\ l.size = 2
      BY <1>5, <2>1, <2>2, <2>5, <3>2, <3>4, LowOfByte
    <3>5. CASE l.size = 3
      <4>1. a + 1 \in Rom
        BY <1>2, <2>5, <3>5, Cartridge DEF Rom
      <4>2. Word(a) % ByteMod = img[a]
        BY <1>2, <4>1, WordsOfImage
      <4>. QED  BY <2>1, <2>2, <2>5, <3>2, <3>5, <4>2
    <3>. QED  BY <3>1, <3>3, <3>4, <3>5
  <2>6. CASE a = l.at + 2
    <3>1. k = 1 /\ l.size = 3
      BY <1>2, <2>2, <2>6
    <3>2. l.at + 1 \in Rom /\ (l.at + 1) + 1 = a
      BY <1>2, <2>6, <3>1, Cartridge DEF Rom
    <3>3. Word(l.at + 1) \div ByteMod = img[a]
      BY <1>2, <3>2, WordsOfImage
    <3>4. Assembled(i, a) = v \div ByteMod
      BY <1>1, <3>1
    <3>5. v = Word(l.at + 1)
      BY <2>1, <3>1
    <3>. QED  BY <3>3, <3>4, <3>5, Zenon
  <2>. QED  BY <1>2, <2>4, <2>5, <2>6
<1>. QED  BY <1>6, <1>7

ExactInv == WalkInv /\ TextType /\ LinesInv /\ LayoutInv

LEMMA WrittenIsExact == Forward /\ ExactInv => Exact
<1>. SUFFICES ASSUME Forward, ExactInv, phase = "written", Defined, NoStraddle
              PROVE  /\ Origin[Len(text) + 1] = ROM_END
                     /\ \A i \in DOMAIN text : \A a \in Origin[i] .. Origin[i + 1] - 1 :
                          Assembled(i, a) = img[a]
  BY DEF Exact, NoStraddle
<1>1. Layout /\ region = Len(map) /\ pc >= map[region].hi
  BY DEF ExactInv, LayoutInv, Writing
<1>2. pc = ROM_END /\ pc \in Int
  <2>1. Tiles /\ region \in 1 .. Len(map) /\ pc \in Int
    BY DEF ExactInv, LinesInv, TextType
  <2>2. map[region].hi = ROM_END /\ ROM_END \in Int
    BY <1>1, <2>1, Cartridge DEF Tiles
  <2>. QED  BY <1>1, <2>1, <2>2 DEF Layout
<1>3. (\E S : text \in Seq(S)) /\ WalkType /\ LinesInv
  BY DEF ExactInv, WalkInv, LinesInv
<1>4. Len(text) \in Nat /\ DOMAIN text = 1 .. Len(text)
  BY <1>3
<1>5. ASSUME NEW i \in 1 .. Len(text)
      PROVE  text[i].at \in Rom /\ text[i].at + text[i].size <= ROM_END
             /\ text[i].size \in 1 .. 3
  BY <1>1, <1>2, Cartridge DEF Layout, Rom
<1>6. ASSUME NEW i \in 1 .. Len(text) PROVE ~Folded(text[i])
  BY <1>3, <1>5, LinesSay
<1>7. /\ \A i \in 1 .. Len(text) : Origin[i] = text[i].at
      /\ Origin[Len(text) + 1] = pc
  BY <1>1, <1>2, <1>3, <1>6, OriginIsAt
<1>8. Len(text) \in Nat
  BY <1>4
<1>9. ASSUME NEW i \in 1 .. Len(text) PROVE Origin[i + 1] = text[i].at + text[i].size
  <2>1. CASE i = Len(text)
    BY <1>1, <1>7, <2>1 DEF Layout
  <2>2. CASE i # Len(text)
    <3>1. i + 1 \in 1 .. Len(text)
      BY <1>8, <2>2
    <3>. QED  BY <1>1, <1>7, <2>2, <3>1 DEF Layout
  <2>. QED  BY <2>1, <2>2
<1>10. ASSUME NEW i \in 1 .. Len(text), NEW a \in text[i].at .. text[i].at + text[i].size - 1
       PROVE  Assembled(i, a) = img[a]
  BY <1>3, <1>5, <1>7, AssembledLine
<1>11. ASSUME NEW i \in 1 .. Len(text)
       PROVE  \A a \in Origin[i] .. Origin[i + 1] - 1 : Assembled(i, a) = img[a]
  <2>. DEFINE b == Origin[i]
              e == Origin[i + 1]
  <2>1. b = text[i].at /\ e = text[i].at + text[i].size
    BY <1>7, <1>9
  <2>. HIDE DEF b, e
  <2>2. text[i].at \in Int /\ text[i].size \in Int
    <3>1. text[i].at \in Rom /\ text[i].size \in 1 .. 3
      BY <1>5
    <3>. QED  BY <3>1, Cartridge DEF Rom
  <2>3. b \in Int /\ e \in Int
    BY <2>1, <2>2
  <2>4. ASSUME NEW a \in b .. e - 1 PROVE Assembled(i, a) = img[a]
    <3>1. a \in Int /\ b <= a /\ a <= e - 1
      BY <2>3
    <3>2. a \in text[i].at .. text[i].at + text[i].size - 1
      BY <2>1, <2>2, <3>1
    <3>. QED  BY <1>10, <3>2, Zenon
  <2>. QED  BY <2>4 DEF b, e
<1>. QED  BY <1>2, <1>4, <1>7, <1>11

(* A source that is written reassembles to the dump, byte for byte         *)
(* (disasm.py:317-423), whatever the dump, the labels and the map, if no   *)
(* region ends before it begins.                                           *)
THEOREM WrittenReassembles == ASSUME Forward PROVE Spec => []Exact
<1>1. Init => ExactInv
  BY InitWalk, InitText, InitLines, InitLayout DEF ExactInv
<1>2. ExactInv /\ [Next]_vars => ExactInv'
  BY NextWalk, NextText, NextLines, NextLayout DEF ExactInv, WalkInv
<1>3. ExactInv => Exact
  BY WrittenIsExact
<1>. QED  BY <1>1, <1>2, <1>3, PTL DEF Spec
=============================================================================
