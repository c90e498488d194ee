------------------------------ MODULE MCSessions ------------------------------
(* Sessions on the life of one transaction. *)
EXTENDS Sessions
===============================================================================
