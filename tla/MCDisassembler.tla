---------------------------- MODULE MCDisassembler ----------------------------
(***************************************************************************)
(* A cartridge of six bytes, the last two a vector to its base, in an      *)
(* address space of 64: bytes are three bits, an address two bytes.  All   *)
(* dumps of it are explored, under six maps, one of which does not tile.   *)
(* One site is declared as biased.                                         *)
(***************************************************************************)
EXTENDS Disassembler, TLC

Op(m, md) == [mnem |-> m, mode |-> md]
MCOPS == 0 :> Op("RTS", "imp") @@ 1 :> Op("LDA", "imm") @@ 2 :> Op("NOP", "imp")
         @@ 3 :> Op("BNE", "rel") @@ 4 :> Op("JSR", "abs") @@ 5 :> Op("JMP", "abs")
         @@ 6 :> Op("LDA", "abs")
MCBIAS == 9 :> LabelPlus(11, -1)
MCImages == {[a \in Rom |-> IF a = 12 THEN 0 ELSE IF a = 13 THEN 1 ELSE f[a]] :
               f \in [8 .. 11 -> Byte]}

Part(lo, hi, kind) == [lo |-> lo, hi |-> hi, kind |-> kind]
MCMaps == {
  <<Part(8, 12, "code"), Part(12, 14, "data")>>,
  <<Part(8, 11, "code"), Part(11, 12, "data"), Part(12, 14, "data")>>,
  <<Part(8, 9, "code"), Part(9, 10, "data"), Part(10, 12, "code"), Part(12, 14, "data")>>,
  <<Part(8, 10, "code"), Part(10, 12, "code"), Part(12, 14, "data")>>,
  <<Part(8, 11, "code"), Part(11, 14, "data")>>,
  <<Part(8, 10, "code"), Part(11, 14, "data")>>}
=============================================================================
