---------------------------- MODULE MCSession ----------------------------
(***************************************************************************)
(* Session on small sets.  asha and ravi are real people; rahul is a real  *)
(* person whose name is also in the PERSON pool; FF1 turns the Aadhaar a1  *)
(* into a2 and back, so each may be a user's own number and a surrogate.   *)
(* A phone number written with 91 has 12 digits as well: FF1 turns p1 into *)
(* a2 too, and f1 is p1 in the digits of another script.  mail has no FF1  *)
(* domain.  asha may be tagged PERSON or ORG.  Two names for three people, *)
(* so the pool runs out.                                                   *)
(***************************************************************************)
EXTENDS Session, TLC

MCTexts == {"asha", "ravi", "rahul", "meera", "acme", "a1", "a2", "p1", "f1", "mail"}
MCNameTypes == {"PERSON", "ORG"}
MCStructuredTypes == {"AADHAAR", "PHONE", "EMAIL"}
MCCandidates == [PERSON |-> {"rahul", "meera"}, ORG |-> {"acme"}]

MCPlain == [v \in MCTexts |-> IF v = "f1" THEN "p1" ELSE v]

MCEncrypt ==
    [AADHAAR |-> [v \in MCTexts |-> CASE v = "a1" -> "a2" [] v = "a2" -> "a1" [] OTHER -> None],
     PHONE |-> [v \in MCTexts |->
                   CASE MCPlain[v] = "p1" -> "a2" [] v = "a2" -> "p1" [] OTHER -> None],
     EMAIL |-> [v \in MCTexts |-> None]]

MCDetectable ==
    {<<"asha", "PERSON">>, <<"asha", "ORG">>, <<"ravi", "PERSON">>, <<"rahul", "PERSON">>,
     <<"a1", "AADHAAR">>, <<"a2", "AADHAAR">>, <<"p1", "PHONE">>, <<"f1", "PHONE">>,
     <<"mail", "EMAIL">>}

CallerSymmetry == Permutations(Callers)
=============================================================================
