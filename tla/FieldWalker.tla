---------------------------- MODULE FieldWalker ----------------------------
(***************************************************************************)
(* The request body as a tree, the enumeration of its strings, its         *)
(* rebuilding from substitutions (src/src/pipeline/field_walker.py) and    *)
(* the protocol's own words (protocol_fields.py).                          *)
(*                                                                         *)
(* A node is an object, whose fields are key-node pairs in order, a list,  *)
(* a string of plain text, a string of JSON or a scalar.  A JSON string    *)
(* keeps the node it encodes and how it is spaced: as its sender wrote it, *)
(* or as json.dumps does.  A path is a sequence of keys; an index stands   *)
(* in it as the decimal that ToString gives.                               *)
(***************************************************************************)
EXTENDS Checksums, FiniteSets, TLC

Object(fields) == [kind |-> "object", fields |-> fields]
List(items) == [kind |-> "list", items |-> items]
Text(text) == [kind |-> "text", text |-> text]
Json(inner, spacing) == [kind |-> "json", inner |-> inner, spacing |-> spacing]
Scalar == [kind |-> "scalar"]

IsString(node) == node.kind \in {"text", "json"}

\* An object's or a list's nodes, each with its segment of the path.
Children(node) ==
    CASE node.kind = "object" -> node.fields
      [] node.kind = "list" -> [i \in 1..Len(node.items) |-> <<ToString(i - 1), node.items[i]>>]

\* The characters of a JSON document, by its strings and their marks: enough to tell the
\* two spacings apart and to keep neighbouring strings from running together.
RECURSIVE Characters(_, _)
Characters(node, spacing) ==
    CASE node.kind = "text"   -> <<Quote>> \o node.text \o <<Quote>>
      [] node.kind = "json"   ->
            <<Quote>> \o Characters(node.inner, node.spacing) \o <<Quote>>
      [] node.kind = "scalar" -> <<Quote, 1, Quote>>
      [] node.kind \in {"object", "list"} ->
            FlattenSeq([i \in 1..Len(Children(node)) |->
                (IF spacing = "sender" THEN <<Colon>> ELSE <<Colon, Space>>)
                    \o Characters(Children(node)[i][2], spacing)]) \o <<Quote>>

\* What a string says when it is taken as it is.
StringText(node) ==
    IF node.kind = "text" THEN node.text ELSE Characters(node.inner, node.spacing)

UnderArguments(path) == path # <<>> /\ Last(path) = "arguments"

\* _try_parse_json_container: an object or a list, and only under `arguments'.
Opens(node, path) ==
    node.kind = "json" /\ UnderArguments(path) /\ node.inner.kind \in {"object", "list"}

\* _walk: a JSON string that is opened adds no segment to the path.
RECURSIVE Walk(_, _)
Walk(node, path) ==
    CASE node.kind \in {"object", "list"} ->
            FlattenSeq([i \in 1..Len(Children(node)) |->
                Walk(Children(node)[i][2], Append(path, Children(node)[i][1]))])
      [] Opens(node, path) -> Walk(node.inner, path)
      [] IsString(node) /\ ~Opens(node, path) -> <<[path |-> path, text |-> StringText(node)]>>
      [] OTHER -> <<>>

\* Mutant: a substitution anywhere is one beneath.
HasBeneathAny(path, substitutions) == DOMAIN substitutions # {}

\* Mutant: only the fields right beneath are looked at.
HasBeneathDirect(path, substitutions) ==
    \E p \in DOMAIN substitutions : IsStrictPrefix(path, p) /\ Len(p) = Len(path) + 1

\* _has_substitution_beneath
HasBeneath(path, substitutions) ==
    \E p \in DOMAIN substitutions : IsStrictPrefix(path, p)

\* _rebuild: a string named exactly is replaced; one that opens is written anew when
\* something beneath it is; every other one is the string it was.
RECURSIVE Rebuild(_, _, _)
Rebuild(node, path, substitutions) ==
    CASE node.kind = "object" ->
            Object([i \in 1..Len(node.fields) |->
                <<node.fields[i][1],
                  Rebuild(node.fields[i][2], Append(path, node.fields[i][1]), substitutions)>>])
      [] node.kind = "list" ->
            List([i \in 1..Len(node.items) |->
                Rebuild(node.items[i], Append(path, ToString(i - 1)), substitutions)])
      [] IsString(node) /\ path \in DOMAIN substitutions -> Text(substitutions[path])
      [] /\ IsString(node) /\ path \notin DOMAIN substitutions
         /\ Opens(node, path) /\ HasBeneath(path, substitutions) ->
            Json(Rebuild(node.inner, path, substitutions), "dumps")
      [] OTHER -> node
-----------------------------------------------------------------------------
(* protocol_fields.py *)

\* _PROTOCOL_ENUM_FIELDS: a role of a message, at any index, with one of its values.
AnyIndex == "<any index>"
ProtocolFields == {<<"messages", AnyIndex, "role">>}

\* is_protocol_enum_value: the place and the word, both.
IsProtocolEnumValue(path, text, words) ==
    \E pattern \in ProtocolFields :
        /\ text \in words
        /\ Len(pattern) = Len(path)
        /\ \A i \in 1..Len(path) : pattern[i] \in {path[i], AnyIndex}
=============================================================================
