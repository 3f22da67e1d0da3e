---------------------------- MODULE MCDetection ----------------------------
(***************************************************************************)
(* Detection on a text of four characters, with two Tier-1 detectors and   *)
(* one Tier-2 detector whose surrogates are longer than what they replace. *)
(***************************************************************************)
EXTENDS Detection, TLC

MCSurrogateLength == (1 :> None) @@ (2 :> None) @@ (3 :> 3)
=============================================================================
