----------------------------- MODULE MCOcppCommand -----------------------------
(* OcppCommand on two requests, each for a charger of its own. *)
EXTENDS OcppCommand, TLC

CONSTANTS c1, c2, r1, r2

MCTarget == r1 :> c1 @@ r2 :> c2
===============================================================================
