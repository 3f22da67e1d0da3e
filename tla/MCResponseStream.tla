------------------------- MODULE MCResponseStream -------------------------
(***************************************************************************)
(* ResponseStream with two known surrogates, of which one begins with the  *)
(* other and ends with its beginning, and which the upstream may split     *)
(* between events; a role chunk without text, one or two structural        *)
(* events, malformed events and [DONE], in any order and any batching.     *)
(***************************************************************************)
EXTENDS ResponseStream, TLC

CONSTANTS a, b, x

MCChars == {a, b, x}
MCKnown == (<<a, b>> :> <<x, x, x, x>>) @@ (<<a, b, a>> :> <<b>>)

Content(text) == [kind |-> "content", text |-> text, mark |-> "plain"]
Structural(mark) == [kind |-> "structural", text |-> <<>>, mark |-> mark]
Malformed == [kind |-> "malformed", text |-> <<>>, mark |-> "plain"]

MCEvents ==
    {Content(<<>>), Content(<<a>>), Content(<<b, x>>), Content(<<b, a>>),
     Structural("finish"), Malformed, Done[1]}
=============================================================================
