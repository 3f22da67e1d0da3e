----------------------------- MODULE MCGateway -----------------------------
(***************************************************************************)
(* Gateway with two requests of two conversations and a store of one, so  *)
(* that sessions are evicted and replaced under requests in flight.  rahul *)
(* is a real person and a candidate name; FF1 takes n1 to n2 and n2 to n1, *)
(* and p1, of another type, to n2 as well.                                 *)
(***************************************************************************)
EXTENDS Gateway, TLC

MCNames == {"asha", "ravi", "rahul", "meera"}
MCNumbers == {"n1", "n2", "p1"}
MCFormat == [n1 |-> "AADHAAR", n2 |-> "AADHAAR", p1 |-> "PHONE"]
MCAddresses == {"mail"}
MCPool == {"rahul", "meera"}
MCEncrypt == [n1 |-> "n2", n2 |-> "n1", p1 |-> "n2"]

MCBodies ==
    {<<{"asha", "n1"}, {"rahul"}>>, <<{"ravi"}, {"n2"}>>, <<{"p1", "mail"}>>}
=============================================================================
