------------------------------- MODULE BankSplit -------------------------------
(***************************************************************************)
(* How the cartridge is split across the banks and patched (mkbanks.py,    *)
(* patches.py), and what audits the result (check_patch.py): a table of    *)
(* patches and a list of declared spans, both edited by hand, the source   *)
(* with an address for every line, and a map that says which banks own a   *)
(* region.  A build goes through every step or stops at the first that     *)
(* complains.                                                              *)
(*                                                                         *)
(* Comments and labels, which emit nothing, are left out, and so are the   *)
(* holes that the netcode goes to: the bytes audited are those a region    *)
(* owns.                                                                   *)
(***************************************************************************)
EXTENDS Integers, Sequences

CONSTANTS
  REGIONS,  (* dgmap.REGIONS: first, last + 1 and banks, in order          *)
  Source,   (* the lines of dragster.asm: address and bytes, in order      *)
  Tables,   (* the PATCHES explored, each with the SPANS declared for it   *)
  Fill      (* what p2bin puts where nothing was assembled                 *)

Region(i) == REGIONS[i].lo .. REGIONS[i].hi - 1
Place(l) == l.at .. l.at + Len(l.bytes) - 1
Span(p) == p.addr .. p.addr + p.span - 1
Bank == UNION {REGIONS[i].banks : i \in DOMAIN REGIONS}
Stock == [a \in UNION {Region(i) : i \in DOMAIN REGIONS} |->
  LET l == Source[CHOOSE j \in DOMAIN Source : a \in Place(Source[j])]
  IN  l.bytes[a - l.at + 1]]

(* What is declared and what a patch replaces are address and length; what *)
(* it expects to find ("old") is lines, by the address they had when it    *)
(* was written, and what it puts there ("new") is bytes.                   *)
ASSUME Written ==
  \A t \in Tables :
    t.patches \in Seq([addr : Nat, span : Nat \ {0}, old : Seq(Nat), new : Seq(Nat)])

(* The regions follow each other, and the lines fill them: none crosses    *)
(* from one to the next.                                                   *)
ASSUME Mapped ==
  /\ REGIONS \in Seq([lo : Nat, hi : Nat, banks : SUBSET STRING])
  /\ \A i \in DOMAIN REGIONS : REGIONS[i].lo <= REGIONS[i].hi
  /\ \A i, j \in DOMAIN REGIONS : i < j => REGIONS[i].hi <= REGIONS[j].lo
ASSUME Listed ==
  /\ Source \in Seq([at : Nat, bytes : Seq(Nat) \ {<<>>}])
  /\ \A j \in DOMAIN Source : \E i \in DOMAIN REGIONS : Place(Source[j]) \subseteq Region(i)
  /\ \A j, k \in DOMAIN Source : j < k => Source[j].at + Len(Source[j].bytes) <= Source[k].at
  /\ \A a \in DOMAIN Stock : \E j \in DOMAIN Source : a \in Place(Source[j])

VARIABLES
  patches,  (* PATCHES                                                     *)
  spans,    (* SPANS and REWRITTEN                                         *)
  phase,    (* the step of the build                                       *)
  next,     (* the patch that is applied next                              *)
  buckets,  (* the lines of every region                                   *)
  built     (* the image: for every bank and address it owns, a byte       *)

vars == <<patches, spans, phase, next, buckets, built>>

Owns(b, a) == \E i \in DOMAIN REGIONS : b \in REGIONS[i].banks /\ a \in Region(i)
Owned(b) == {a \in DOMAIN Stock : Owns(b, a)}

Init ==
  /\ \E t \in Tables : patches = t.patches /\ spans = t.spans
  /\ phase = "selftest"
  /\ next = 1
  /\ buckets = <<>> /\ built = <<>>

-----------------------------------------------------------------------------
(* selftest: a span for every patch and a patch for every span, and no two *)
(* patches overlap.  Mutant: nor touch.                                    *)
Have == {[addr |-> patches[i].addr, span |-> patches[i].span] : i \in DOMAIN patches}
Apart(p, q) == p.addr + p.span < q.addr \/ q.addr + q.span < p.addr
Disjoint(p, q) == p.addr + p.span <= q.addr \/ q.addr + q.span <= p.addr
SelfTested ==
  /\ Have = spans
  /\ \A i, j \in DOMAIN patches : i # j => Disjoint(patches[i], patches[j])

(* The lines whose address is in A, an interval: they follow each other.   *)
At(lines, A) == {j \in DOMAIN lines : lines[j].at \in A}
First(J) == CHOOSE j \in J : \A k \in J : j <= k
Last(J) == CHOOSE j \in J : \A k \in J : k <= j
Within(lines, A) ==
  IF At(lines, A) = {} THEN <<>>
  ELSE SubSeq(lines, First(At(lines, A)), Last(At(lines, A)))

(* main: every line goes to the region of its stock address.               *)
Bucketed == [i \in DOMAIN REGIONS |-> Within(Source, Region(i))]

SelfTest ==
  /\ phase = "selftest"
  /\ IF SelfTested
     THEN phase' = "apply" /\ buckets' = Bucketed
     ELSE phase' = "rejected" /\ UNCHANGED buckets
  /\ UNCHANGED <<patches, spans, next, built>>

-----------------------------------------------------------------------------
(* apply_region: the lines a patch covers, by address.                     *)
Covered(lines, p) == At(lines, Span(p))
Old(lines, p) ==
  LET covered == Within(lines, Span(p))
  IN  [k \in DOMAIN covered |-> covered[k].at]

(* It ends in its region, there are lines, and they are the ones expected. *)
Fits(i, p) == p.addr + p.span <= REGIONS[i].hi
Matches(i, p) == Covered(buckets[i], p) # {} /\ Old(buckets[i], p) = p.old

(* The new text takes the place of all of them.  Mutant: of the first.     *)
Text(p) == [at |-> p.addr, bytes |-> p.new]
FirstReplaced(lines, p) == [lines EXCEPT ![First(Covered(lines, p))] = Text(p)]
Replaced(lines, p) ==
  SubSeq(lines, 1, First(Covered(lines, p)) - 1)
  \o <<Text(p)>>
  \o SubSeq(lines, Last(Covered(lines, p)) + 1, Len(lines))

(* A patch whose address is in no region is not applied, and not missed.   *)
ApplyPatch ==
  /\ phase = "apply" /\ next <= Len(patches)
  /\ LET p == patches[next]
         mine == {i \in DOMAIN REGIONS : p.addr \in Region(i)}
     IN  \/ /\ \E i \in mine : ~(Fits(i, p) /\ Matches(i, p))
            /\ phase' = "rejected" /\ UNCHANGED <<buckets, next>>
         \/ /\ \A i \in mine : Fits(i, p) /\ Matches(i, p)
            /\ buckets' = [i \in DOMAIN buckets |->
                 IF i \in mine THEN Replaced(buckets[i], p) ELSE buckets[i]]
            /\ next' = next + 1
            /\ UNCHANGED phase
  /\ UNCHANGED <<patches, spans, built>>

-----------------------------------------------------------------------------
(* main and the assembler: a region is emitted from its first address into *)
(* every bank that owns it, a line where the one before ends, and it is an *)
(* error if it ends past its slot.  Mutant: what does not fit is cut off.  *)
Star(i, lines) ==
  LET star[j \in 0 .. Len(lines)] ==
        IF j = 0 THEN REGIONS[i].lo ELSE star[j - 1] + Len(lines[j].bytes)
  IN  star
CutOff(i) == FALSE
Overrun(i) == Star(i, buckets[i])[Len(buckets[i])] > REGIONS[i].hi

Put(i, lines, a) == {j \in DOMAIN lines : a \in Star(i, lines)[j - 1] .. Star(i, lines)[j] - 1}
Emitted(i, lines, a) ==
  LET j == CHOOSE n \in Put(i, lines, a) : TRUE
  IN  IF Put(i, lines, a) = {} THEN Fill ELSE lines[j].bytes[a - Star(i, lines)[j - 1] + 1]

Owner(a) == CHOOSE i \in DOMAIN REGIONS : a \in Region(i)
Byte(a) == Emitted(Owner(a), buckets[Owner(a)], a)

Assemble ==
  /\ phase = "apply" /\ next > Len(patches)
  /\ IF \E i \in DOMAIN REGIONS : REGIONS[i].banks # {} /\ Overrun(i)
     THEN phase' = "rejected" /\ UNCHANGED built
     ELSE phase' = "audit" /\ built' = [b \in Bank |-> [a \in Owned(b) |-> Byte(a)]]
  /\ UNCHANGED <<patches, spans, next, buckets>>

(* check_patch: the bytes that differ, in whichever bank.                  *)
Changed == {a \in DOMAIN Stock : \E b \in Bank : Owns(b, a) /\ built[b][a] # Stock[a]}
Allowed == UNION {Span(s) : s \in spans}

(* No change outside the spans, no span without a change.                  *)
Audited == Changed \subseteq Allowed /\ \A s \in spans : Span(s) \cap Changed # {}

Audit ==
  /\ phase = "audit"
  /\ phase' = IF Audited THEN "accepted" ELSE "rejected"
  /\ UNCHANGED <<patches, spans, next, buckets, built>>

Next == SelfTest \/ ApplyPatch \/ Assemble \/ Audit

Spec == Init /\ [][Next]_vars

-----------------------------------------------------------------------------
(* The lines of a region stay in the order of their addresses, whichever   *)
(* patches were applied (apply_region files by address, not by line).      *)
TypeOK ==
  /\ phase \in {"selftest", "apply", "audit", "accepted", "rejected"}
  /\ next \in 1 .. Len(patches) + 1
  /\ \A i \in DOMAIN buckets : \A j, k \in DOMAIN buckets[i] :
       /\ buckets[i][j].at \in Region(i)
       /\ j < k => buckets[i][j].at < buckets[i][k].at
       /\ \A n \in 1 .. next - 1 :
            patches[n].addr \in Region(i) /\ buckets[i][j].at \in Span(patches[n])
            => buckets[i][j].at = patches[n].addr

(* What the image should hold at a: what the patch there puts, or stock.   *)
PatchAt(a) == {i \in DOMAIN patches : a \in Span(patches[i])}
Intended(a) ==
  IF PatchAt(a) = {} THEN Stock[a]
  ELSE LET p == patches[CHOOSE i \in PatchAt(a) : TRUE]
           n == a - p.addr + 1
       IN  IF n <= Len(p.new) THEN p.new[n] ELSE Fill
Touch(p, q) == p.addr + p.span = q.addr
AtEnd(p) == \E i \in DOMAIN REGIONS : REGIONS[i].hi = p.addr + p.span

(* "EVERY BYTE KEEPS THE ADDRESS IT HAS TODAY" (mkbanks.py:15): a build    *)
(* that passes holds, in every bank that owns an address, exactly what the *)
(* table puts there, with every patch whole and inside its span.  Four     *)
(* things no step sees: of two spans that touch, one patch may be longer   *)
(* by what the other is shorter; a patch at the end of its region may be   *)
(* too short, and leave fill to be executed; one whose address is not that *)
(* of a line goes to the next line, and may be too short by as much; and   *)
(* bytes may move to where every one of them finds its own value, for it   *)
(* is values that are compared.                                            *)
Starts == {Source[j].at : j \in DOMAIN Source}
AtHome(a) ==
  LET i == Owner(a)
  IN  \E j \in Put(i, buckets[i], a) :
        /\ Star(i, buckets[i])[j - 1] = buckets[i][j].at
        /\ PatchAt(buckets[i][j].at) = {}
Moved == {a \in DOMAIN Stock : REGIONS[Owner(a)].banks # {} /\ PatchAt(a) = {} /\ ~AtHome(a)}
Disguised == Moved # {} /\ \A a \in Moved : Byte(a) = Stock[a]
AsDeclared ==
  /\ phase = "accepted"
  /\ \A i, j \in DOMAIN patches : ~Touch(patches[i], patches[j])
  /\ \A i \in DOMAIN patches : patches[i].addr \in Starts
  /\ ~Disguised
  =>
  /\ \A b \in Bank : \A a \in Owned(b) : built[b][a] = Intended(a)
  /\ \A i \in DOMAIN patches : \A b \in Bank :
       LET p == patches[i]
       IN  Owns(b, p.addr) => Len(p.new) = p.span \/ (AtEnd(p) /\ Len(p.new) < p.span)

(* And the other way round, a gate that does not cry wolf (check_patch.py: *)
(* 18-19): a table whose patches each replace the whole lines of a span in *)
(* one region, by as many bytes and not the same ones, all declared, is    *)
(* never turned away.                                                      *)
WellFormed(p) ==
  \E i \in DOMAIN REGIONS :
    /\ Span(p) \subseteq Region(i) /\ REGIONS[i].banks # {}
    /\ Len(p.new) = p.span /\ \E a \in Span(p) : p.new[a - p.addr + 1] # Stock[a]
    /\ LET lines == Within(Source, Span(p))
       IN  /\ p.old = [j \in DOMAIN lines |-> lines[j].at]
           /\ p.old # <<>> /\ p.old[1] = p.addr
           /\ LET l == lines[Len(lines)] IN l.at + Len(l.bytes) = p.addr + p.span
Right ==
  /\ Have = spans
  /\ \A i, j \in DOMAIN patches : i # j => Span(patches[i]) \cap Span(patches[j]) = {}
  /\ \A i \in DOMAIN patches : WellFormed(patches[i])
NoWolf == Right => phase # "rejected"
=============================================================================
