----------------------------- MODULE MCServerDiff -----------------------------
(***************************************************************************)
(* The limits of the server as they are; every client at one address.  Two *)
(* digits are enough for the one name that is taken.                       *)
(***************************************************************************)
EXTENDS ServerDiff

MCSetup == {[behind |-> Client, other |-> {}]}
=============================================================================
