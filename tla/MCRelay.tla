------------------------------ MODULE MCRelay ------------------------------
(***************************************************************************)
(* Three connections in accept order.  Either three cartridges at three    *)
(* addresses, or two cartridges and another client that shares the second  *)
(* one's address, where only one connection is allowed: it is refused as   *)
(* long as that one is there.                                              *)
(***************************************************************************)
EXTENDS Relay

MCSetup ==
  {[behind |-> {}, other |-> {}], [behind |-> {2, 3}, other |-> {3}]}
=============================================================================
