------------------------------ MODULE MCBankSplit ------------------------------
(***************************************************************************)
(* Five regions of a cartridge of thirteen bytes: one that is rewritten    *)
(* whole, one of the other bank, one with a patch in its middle, a shared  *)
(* one and one that no bank has.  The table has the rewrite, the patch     *)
(* and perhaps a third one, next to it, in the shared region or in the     *)
(* middle of a line; every field may be off by one, a patch may put back   *)
(* the byte after its span, and the declarations may lag behind.  Every    *)
(* address holds its own number, but one that holds what fills a gap.      *)
(***************************************************************************)
EXTENDS BankSplit

Part(lo, hi, banks) == [lo |-> lo, hi |-> hi, banks |-> banks]
MCREGIONS == <<Part(0, 3, {"GAME"}), Part(3, 6, {"KERN"}), Part(6, 10, {"GAME"}),
               Part(10, 12, {"GAME", "KERN"}), Part(12, 13, {})>>

Line(a, n) == [at |-> a, bytes |-> [k \in 1 .. n |-> a + k - 1]]
MCSource == <<Line(0, 2), Line(2, 1), Line(3, 2), Line(5, 1), Line(6, 1), Line(7, 1), Line(8, 1),
              Line(9, 1), Line(10, 1), [at |-> 11, bytes |-> <<255>>], Line(12, 1)>>

Patch(a, n, old, new) == [addr |-> a, span |-> n, old |-> old, new |-> new]
New(base, n) == [k \in 1 .. n |-> base + k]
Heads == {Patch(0, 3, <<0, 2>>, New(100, n)) : n \in 2 .. 4}
Middles == UNION {
  {Patch(a, n, old, new) :
    old \in {<<7, 8>>, <<7>>, <<8, 9>>, <<7, 8, 9>>},
    new \in {New(110, 1), New(110, 2), New(110, 3), <<111, 8>>, [k \in 1 .. n |-> a + k - 1]}} :
  a \in 6 .. 8, n \in 1 .. 3}
Thirds == {<<>>} \cup {<<Patch(9, 1, <<9>>, New(120, n))>> : n \in 0 .. 2}
                 \cup {<<Patch(10, 1, <<10>>, New(120, n))>> : n \in 0 .. 2}
                 \cup {<<Patch(4, 2, <<5>>, New(120, n))>> : n \in 0 .. 2}
                 \cup {<<Patch(12, 1, <<12>>, <<121>>)>>, <<Patch(13, 1, <<12>>, <<121>>)>>}
Declared(ps) == {[addr |-> ps[i].addr, span |-> ps[i].span] : i \in DOMAIN ps}
Behind(ps) == Declared([ps EXCEPT ![2] = Patch(7, 2, <<>>, <<>>)])
MCTables ==
  {[patches |-> ps, spans |-> Declared(ps)] :
     ps \in {<<h, m>> \o t : h \in Heads, m \in Middles, t \in Thirds}}
  \cup {[patches |-> ps, spans |-> Behind(ps)] : ps \in {<<h, m>> : h \in Heads, m \in Middles}}
=============================================================================
