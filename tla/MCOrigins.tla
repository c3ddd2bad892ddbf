----------------------------- MODULE MCOrigins -----------------------------
(* Every acyclic closure of three or four modules.                           *)
EXTENDS Origins
=============================================================================
