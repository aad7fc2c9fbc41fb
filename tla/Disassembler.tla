----------------------------- MODULE Disassembler -----------------------------
(***************************************************************************)
(* tools/disasm.py turns the cartridge dump into assembler source, and     *)
(* carries its own proofs that it did so rightly.  Recursive descent finds *)
(* the instructions; what it reached is compared with the map (dgmap.py);  *)
(* then every region of the map is written out, as instructions or as      *)
(* data, with labels for operands.  A dump comes out as source only if no  *)
(* pass had a problem.                                                     *)
(*                                                                         *)
(* Addresses and bytes are as wide as the constants say.  A label is its   *)
(* address; its spelling is left out, and so are the names of registers    *)
(* and zero-page cells.                                                    *)
(***************************************************************************)
EXTENDS Integers, Sequences

CONSTANTS
  ByteMod,    (* 2^8: what a byte holds; a page is as long                 *)
  ROM_BASE,   (* first address of the cartridge                            *)
  ROM_END,    (* the address after its last                                *)
  OPS,        (* opcode to mnemonic and mode, for the official ones        *)
  JSR, JMP,   (* 0x20 and 0x4C                                             *)
  TERMINAL,   (* the opcodes nothing follows                               *)
  Named,      (* the addresses with a label of their own: dgmap.SYMBOLS    *)
              (* and dgmap.DATALBL                                         *)
  BIAS,       (* dgmap.BIAS: site to label and offset                      *)
  Near,       (* 16: how far an operand may be from the label it names     *)
  Vectors,    (* $F7FA: where the region of the vectors begins,            *)
  VectorBytes, (* 6: and how long it is                                    *)
  Images,     (* the dumps explored                                        *)
  Maps        (* the maps explored: dgmap.REGIONS as it may be edited      *)

MODES == [imp |-> 1, acc |-> 1, imm |-> 2, zp |-> 2, zpx |-> 2, zpy |-> 2, izx |-> 2,
          izy |-> 2, rel |-> 2, abs |-> 3, abx |-> 3, aby |-> 3, ind |-> 3]
Rom == ROM_BASE .. ROM_END - 1
Byte == 0 .. ByteMod - 1

ASSUME Cartridge ==
  /\ ByteMod \in Nat /\ ROM_BASE \in Nat /\ ROM_END \in Nat /\ ROM_BASE < ROM_END
  /\ DOMAIN OPS \subseteq Byte
  /\ \A op \in DOMAIN OPS : OPS[op].mode \in DOMAIN MODES
  /\ \A op \in {JSR, JMP} : op \in DOMAIN OPS /\ OPS[op].mode = "abs"
  /\ JSR \notin TERMINAL /\ JMP \in TERMINAL
  /\ \A op \in TERMINAL \cap DOMAIN OPS : OPS[op].mode # "rel"
  /\ Images \subseteq [Rom -> Byte]
  /\ Near \in Nat /\ Vectors \in Nat /\ VectorBytes \in Nat /\ VectorBytes % 2 = 0
  /\ ByteMod <= ROM_BASE
(* A bias is an offset to a label that has a name (disasm.py:271).         *)
ASSUME Biases ==
  /\ Named \subseteq Nat
  /\ \A a \in DOMAIN BIAS : BIAS[a] \in [label : Named, offset : Int]
(* A map lists at least one region.                                        *)
ASSUME Regions ==
  /\ Maps \subseteq Seq([lo : Int, hi : Int, kind : STRING])
  /\ <<>> \notin Maps

VARIABLES
  img,       (* self.img, by address                                       *)
  map,       (* dgmap.REGIONS                                              *)
  phase,     (* the pass main() is in                                      *)
  pending,   (* walk: addresses to visit, the last first                   *)
  pc,        (* walk: the address being visited, or NoAddress              *)
  starts,    (* self.starts: addresses that begin an instruction           *)
  covered,   (* self.covered: every byte of an instruction                 *)
  refs,      (* self.refs: addresses named by an operand                   *)
  targets,   (* self.targets: addresses a jump or a branch names           *)
  labels,    (* self.labels                                                *)
  problems,  (* self.problems: which passes had one                        *)
  region,    (* emit: the region being written                            *)
  text       (* emit: the source, line by line                            *)

found == <<pending, starts, covered, refs, targets>>
vars == <<img, map, phase, pc, found, labels, problems, region, text>>

NoAddress == -1

-----------------------------------------------------------------------------
(* How an instruction decodes.  Mutant: it may run off the end.            *)
Official(a) == a \in Rom /\ img[a] \in DOMAIN OPS
Decodes(a) == a \in Rom /\ img[a] \in DOMAIN OPS /\ a + MODES[OPS[img[a]].mode] <= ROM_END
Mode(a) == OPS[img[a]].mode
Length(a) == MODES[Mode(a)]
Bytes(a) == a .. a + Length(a) - 1
Word(a) == img[a] + ByteMod * img[a + 1]

(* A branch is signed.                                                     *)
Branch(a) == a + 2 + (IF img[a + 1] >= ByteMod \div 2 THEN img[a + 1] - ByteMod ELSE img[a + 1])

(* walk: what is put aside while the instruction after a is visited.       *)
(* Mutant: only the targets of branches.                                   *)
BranchAside(a) == IF Mode(a) = "rel" THEN {Branch(a)} ELSE {}
Aside(a) ==
  IF Mode(a) = "rel" THEN {Branch(a)} ELSE IF img[a] = JSR THEN {Word(a + 1)} ELSE {}

(* walk: where it goes on.  Mutant: an RTS is passed like any other.       *)
PastAny(a) == IF img[a] = JMP THEN Word(a + 1) ELSE a + Length(a)
Onward(a) ==
  IF img[a] = JMP THEN Word(a + 1)
  ELSE IF img[a] \in TERMINAL THEN NoAddress ELSE a + Length(a)

-----------------------------------------------------------------------------
Init ==
  /\ img \in Images
  /\ map \in Maps
  /\ phase = "totals"
  /\ pending = <<ROM_BASE>> /\ pc = NoAddress
  /\ starts = {} /\ covered = {} /\ refs = {} /\ targets = {}
  /\ labels = {} /\ problems = {} /\ region = 1 /\ text = <<>>

(* dgmap.check_totals: the regions tile the cartridge, or an assertion     *)
(* fails.                                                                  *)
Tiles ==
  /\ map[1].lo = ROM_BASE
  /\ \A i \in 2 .. Len(map) : map[i].lo = map[i - 1].hi
  /\ map[Len(map)].hi = ROM_END

CheckTotals ==
  /\ phase = "totals"
  /\ phase' = IF Tiles THEN "walk" ELSE "rejected"
  /\ UNCHANGED <<img, map, found, pc, labels, problems, region, text>>

(* walk: the next address put aside, or the end of the descent.            *)
Pop ==
  /\ phase = "walk" /\ pc = NoAddress
  /\ IF pending = <<>>
     THEN phase' = "labels" /\ UNCHANGED <<pending, pc>>
     ELSE /\ pc' = pending[Len(pending)]
          /\ pending' = SubSeq(pending, 1, Len(pending) - 1)
          /\ UNCHANGED phase
  /\ UNCHANGED <<img, map, starts, covered, refs, targets, labels, problems, region, text>>

(* walk: outside the cartridge, or known already.  Mutant: only outside.   *)
Outside(a) == a \notin Rom
Stale(a) == a \notin Rom \/ a \in starts

Leave ==
  /\ phase = "walk" /\ pc # NoAddress
  /\ Stale(pc) \/ ~Decodes(pc)
  /\ pc' = NoAddress
  /\ problems' = IF Stale(pc) THEN problems ELSE problems \cup {"walk"}
  /\ UNCHANGED <<img, map, phase, pending, starts, covered, refs, targets, labels, region, text>>

(* A relative branch goes on at the next instruction with its target put   *)
(* aside; so does JSR.                                                     *)
Visit ==
  /\ phase = "walk" /\ pc # NoAddress
  /\ ~Stale(pc) /\ Decodes(pc)
  /\ starts' = starts \cup {pc}
  /\ covered' = covered \cup Bytes(pc)
  /\ refs' = IF Mode(pc) \in {"abs", "abx", "aby", "ind"} THEN refs \cup {Word(pc + 1)} ELSE refs
  /\ targets' = targets \cup Aside(pc) \cup (IF img[pc] = JMP THEN {Onward(pc)} ELSE {})
  /\ pending' = IF Aside(pc) = {} THEN pending ELSE Append(pending, CHOOSE a \in Aside(pc) : TRUE)
  /\ pc' = Onward(pc)
  /\ UNCHANGED <<img, map, phase, labels, problems, region, text>>

-----------------------------------------------------------------------------
KindOf(a) == map[CHOOSE i \in DOMAIN map : a \in map[i].lo .. map[i].hi - 1].kind

(* build_labels: a reference into the middle of an instruction gets none.  *)
Labelled(a) ==
  /\ a \in Rom
  /\ ~(a \in covered /\ a \notin starts)
  /\ ~(KindOf(a) = "code" /\ a \notin starts)

BuildLabels ==
  /\ phase = "labels"
  /\ labels' = Named \cup targets \cup {a \in refs : Labelled(a)}
  /\ phase' = "proofs"
  /\ UNCHANGED <<img, map, found, pc, problems, region, text>>

(* roundtrip: the last opcode of a mnemonic and mode is this one.          *)
ENC(entry) == CHOOSE op \in DOMAIN OPS :
  OPS[op] = entry /\ \A o \in DOMAIN OPS : OPS[o] = entry => o <= op
RoundTrip == \A a \in starts : ENC(OPS[img[a]]) = img[a]

(* regions_agree.  Mutant: what is declared and not reached is let pass.   *)
Declared == UNION {map[i].lo .. map[i].hi - 1 : i \in {j \in DOMAIN map : map[j].kind = "code"}}
OnlyReached == covered \subseteq Declared
Agree == covered = Declared

Proofs ==
  /\ phase = "proofs"
  /\ problems' = problems \cup (IF RoundTrip THEN {} ELSE {"roundtrip"})
                          \cup (IF Agree THEN {} ELSE {"regions"})
  /\ phase' = "emit"
  /\ pc' = map[1].lo
  /\ UNCHANGED <<img, map, found, labels, region, text>>

-----------------------------------------------------------------------------
(* An operand: a label and an offset, or a number.                         *)
LabelPlus(a, d) == [label |-> a, offset |-> d]
Number(v) == LabelPlus(NoAddress, v)

(* _based: the nearest label at or below v.                                *)
Based(v) ==
  LET below == {a \in labels \cap Rom : a <= v}
      base == CHOOSE a \in below : \A b \in below : b <= a
  IN  IF below # {} /\ v - base <= Near THEN LabelPlus(base, v - base) ELSE Number(v)

(* absname.                                                                *)
AbsName(a) ==
  LET v == Word(a + 1)
  IN  IF a \in DOMAIN BIAS THEN BIAS[a]
      ELSE IF v \in labels THEN LabelPlus(v, 0)
      ELSE IF v \in Rom THEN Based(v) ELSE Number(v)
BiasHolds(a) ==
  Length(a) = 3 /\ a \in DOMAIN BIAS => BIAS[a].label + BIAS[a].offset = Word(a + 1)

(* absname: '>' keeps AS from folding an absolute operand to the zero page.*)
(* Mutant: it is left to AS.                                               *)
AsItIs(v) == FALSE
Forced(v) == v.label = NoAddress /\ v.offset < ByteMod

(* operand.                                                                *)
Operand(a) ==
  IF Mode(a) = "rel" THEN LabelPlus(Branch(a), 0)
  ELSE IF Length(a) = 3 THEN AbsName(a)
  ELSE IF Length(a) = 2 THEN Number(img[a + 1])
  ELSE Number(0)

(* emit_code and emit_data: the line for address a, and the bytes it eats. *)
OfVectors(r) == r.kind # "code" /\ r.lo = Vectors /\ r.hi - r.lo = VectorBytes
Data(a, n, v) == [at |-> a, op |-> NoAddress, size |-> n, operand |-> v, forced |-> FALSE]
LineAt(a) ==
  IF map[region].kind = "code" /\ a \in starts
  THEN [at |-> a, op |-> img[a], size |-> Length(a), operand |-> Operand(a),
        forced |-> Forced(Operand(a))]
  ELSE IF OfVectors(map[region])
  THEN Data(a, 2, IF Word(a) \in labels THEN LabelPlus(Word(a), 0) ELSE Number(Word(a)))
  ELSE Data(a, 1, Number(img[a]))

Emit ==
  /\ phase = "emit" /\ pc < map[region].hi
  /\ LET line == LineAt(pc)
     IN  /\ text' = Append(text, line)
         /\ pc' = pc + line.size
         /\ problems' = IF line.op = NoAddress \/ BiasHolds(pc)
                        THEN problems ELSE problems \cup {"bias"}
  /\ UNCHANGED <<img, map, phase, found, labels, region>>

NextRegion ==
  /\ phase = "emit" /\ pc >= map[region].hi /\ region < Len(map)
  /\ region' = region + 1
  /\ pc' = map[region + 1].lo
  /\ UNCHANGED <<img, map, phase, found, labels, problems, text>>

(* main: any problem at all, and nothing is written.                       *)
Finish ==
  /\ phase = "emit" /\ pc >= map[region].hi /\ region = Len(map)
  /\ phase' = IF problems = {} THEN "written" ELSE "rejected"
  /\ UNCHANGED <<img, map, pc, found, labels, problems, region, text>>

Next == CheckTotals \/ Pop \/ Leave \/ Visit \/ BuildLabels \/ Proofs \/ Emit \/ NextRegion
        \/ Finish

Spec == Init /\ [][Next]_vars
FairSpec == Spec /\ WF_vars(Next)

-----------------------------------------------------------------------------
(* What the assembler makes of the source.  A line begins where the one    *)
(* before it ended, and an absolute operand in the zero page takes one     *)
(* byte unless it is forced.                                               *)
Folded(line) == line.size = 3 /\ line.operand.label = NoAddress
                /\ line.operand.offset < ByteMod /\ ~line.forced
Origin[i \in 1 .. Len(text) + 1] ==
  IF i = 1 THEN ROM_BASE
  ELSE Origin[i - 1] + (IF Folded(text[i - 1]) THEN 2 ELSE text[i - 1].size)

(* A label stands before the line of its address, and nowhere if a line    *)
(* skips that address.                                                     *)
Defined == \A i \in DOMAIN text :
  LET a == text[i].operand.label
  IN  a # NoAddress => a \in labels /\ \E j \in DOMAIN text : text[j].at = a
Value(v) ==
  v.offset + (IF v.label = NoAddress THEN 0
              ELSE Origin[CHOOSE j \in DOMAIN text : text[j].at = v.label])

(* The byte of line i at address a.  The source has the mnemonic and the   *)
(* mode of an instruction, not its opcode.                                 *)
Assembled(i, a) ==
  LET line == text[i]
      v == Value(line.operand)
      rel == line.op # NoAddress /\ OPS[line.op].mode = "rel"
      k == a - Origin[i] - (IF line.op = NoAddress THEN 0 ELSE 1)
  IN  CASE k = -1 -> ENC(OPS[line.op])
        [] k = 0 -> (IF rel THEN v - a - 1 ELSE v) % ByteMod
        [] k = 1 -> v \div ByteMod

-----------------------------------------------------------------------------
(* The reference: what can follow an instruction, and the least set of     *)
(* instructions that has the entry and whatever follows one of them.       *)
Follows(a) == {b \in Rom : Decodes(b) /\
  \/ img[a] \notin TERMINAL /\ b = a + Length(a)
  \/ Mode(a) = "rel" /\ b = Branch(a)
  \/ img[a] \in {JSR, JMP} /\ b = Word(a + 1)}
Closed(S) ==
  /\ Decodes(ROM_BASE) => ROM_BASE \in S
  /\ \A a \in S : Follows(a) \subseteq S

TypeOK ==
  /\ phase \in {"totals", "walk", "labels", "proofs", "emit", "written", "rejected"}
  /\ pending \in Seq(Int) /\ pc \in Int
  /\ starts \subseteq Rom /\ covered \subseteq Rom
  /\ refs \subseteq Int /\ targets \subseteq Int
  /\ problems \subseteq {"walk", "roundtrip", "regions", "bias"}

(* Recursive descent (walk) finds the least closed set of instructions,    *)
(* in whatever order the stack hands them out: nothing outside one ...     *)
OnlyReachable == \A S \in SUBSET {a \in Rom : Decodes(a)} : starts \subseteq S \/ ~Closed(S)
(* ... and, once the stack is empty, all of it.                            *)
AllReachable == phase \notin {"totals", "walk", "rejected"} => Closed(starts)

(* REGION AGREEMENT (disasm.py:13-16), of what is written: the bytes of    *)
(* the instructions execution can get to, no more and no less, are the     *)
(* bytes the map declares as code.                                         *)
MapIsTrue ==
  phase = "written" =>
    /\ \A a \in starts : Bytes(a) \subseteq Declared
    /\ \A b \in Declared : \E a \in starts : b \in Bytes(a)

(* A source that is written reassembles to the dump, byte for byte, if the *)
(* assembler takes it: neither a folded operand nor a label that ended up  *)
(* elsewhere shifts anything.  An instruction across the border of two     *)
(* regions is what none of the passes sees; only comparing the assembled   *)
(* file with the dump does.                                                *)
Straddles(a) == \E i \in DOMAIN map : a < map[i].hi /\ map[i].hi < a + Length(a)
Exact ==
  phase = "written" /\ Defined /\ (\A a \in starts : ~Straddles(a)) =>
    /\ Origin[Len(text) + 1] = ROM_END
    /\ \A i \in DOMAIN text : \A a \in Origin[i] .. Origin[i + 1] - 1 : Assembled(i, a) = img[a]

(* It ends, whatever loops the program in the dump has.                    *)
Ends == <>(phase \in {"written", "rejected"})
=============================================================================
