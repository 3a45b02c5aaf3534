----------------------------- MODULE FieldPath ------------------------------
(***************************************************************************)
(* Field paths (filter/path.rs): how the text of a rule's field becomes a  *)
(* path, and the scalars a path resolves to in a parsed record.            *)
(*                                                                         *)
(* The text of a path is a sequence of characters: "." "[" "]" "*", "n" (a *)
(* decimal number, one token) and letters.  A parsed value is a record     *)
(* with a field t: "scalar" (text: its literal form), "null", "object"     *)
(* (map: its last value for each key) or "array" (items).                  *)
(***************************************************************************)
EXTENDS Naturals, Sequences, FiniteSets, SequencesExt

Key(name) == [s |-> "key", key |-> name]
Index(i) == [s |-> "index", at |-> i]
Wildcard == [s |-> "wildcard"]

Error == <<[s |-> "error"]>>

-----------------------------------------------------------------------------
(* str::split: the pieces between occurrences of a separator.              *)
RECURSIVE SplitOn(_, _)
SplitOn(text, sep) ==
    IF \E i \in DOMAIN text : text[i] = sep
    THEN LET i == SelectInSeq(text, LAMBDA c : c = sep) IN
         <<SubSeq(text, 1, i - 1)>> \o SplitOn(SubSeq(text, i + 1, Len(text)), sep)
    ELSE <<text>>

(* The subscripts of a part, or an error: text that is not a subscript, an *)
(* unclosed bracket, or a subscript that is neither a number nor `*`.  A   *)
(* number stands for itself.                                               *)
(* Mutant: an unclosed bracket ends the part.                              *)
RECURSIVE LenientSubscripts(_)
LenientSubscripts(rest) ==
    IF rest = <<>> \/ SelectInSeq(rest, LAMBDA c : c = "]") = 0 THEN <<>>
    ELSE LET close == SelectInSeq(rest, LAMBDA c : c = "]")
             inner == SubSeq(rest, 2, close - 1)
             later == LenientSubscripts(SubSeq(rest, close + 1, Len(rest))) IN
         IF rest[1] # "[" \/ inner \notin {<<"*">>, <<"n">>} \/ later = Error
         THEN Error
         ELSE <<IF inner = <<"*">> THEN Wildcard ELSE Index("n")>> \o later

RECURSIVE Subscripts(_)
Subscripts(rest) ==
    IF rest = <<>> THEN <<>>
    ELSE LET close == SelectInSeq(rest, LAMBDA c : c = "]")
             inner == SubSeq(rest, 2, close - 1) IN
         IF rest[1] # "[" \/ close = 0 THEN Error
         ELSE IF inner \notin {<<"*">>, <<"n">>} THEN Error
         ELSE LET later == Subscripts(SubSeq(rest, close + 1, Len(rest))) IN
              IF later = Error THEN Error
              ELSE <<IF inner = <<"*">> THEN Wildcard ELSE Index("n")>> \o later

Part(part) ==
    LET open == SelectInSeq(part, LAMBDA c : c = "[")
        name == IF open = 0 THEN part ELSE SubSeq(part, 1, open - 1)
        rest == IF open = 0 THEN <<>> ELSE SubSeq(part, open, Len(part))
        subs == Subscripts(rest) IN
    IF name = <<>> \/ subs = Error THEN Error ELSE <<Key(name)>> \o subs

ParsePath(text) ==
    LET parts == [i \in DOMAIN SplitOn(text, ".") |-> Part(SplitOn(text, ".")[i])] IN
    IF text = <<>> \/ \E i \in DOMAIN parts : parts[i] = Error THEN Error
    ELSE FlattenSeq(parts)

(* literal_path: a v1 field has no subscripts, and is never refused.       *)
LiteralPath(text) ==
    LET parts == SplitOn(text, ".") IN [i \in DOMAIN parts |-> Key(parts[i])]

-----------------------------------------------------------------------------
(* walk: the scalars a path resolves to, in document order.  A predicate   *)
(* holds of the path when it holds of one of them.  A null, an object and  *)
(* an array are no scalars.                                                *)
RECURSIVE Walk(_, _)
Walk(value, segments) ==
    IF segments = <<>> THEN IF value.t = "scalar" THEN <<value.text>> ELSE <<>>
    ELSE LET seg == Head(segments)
             rest == Tail(segments) IN
         CASE seg.s = "key" /\ value.t = "object" ->
                IF seg.key \in DOMAIN value.map THEN Walk(value.map[seg.key], rest)
                                                ELSE <<>>
           [] seg.s = "index" /\ value.t = "array" ->
                IF seg.at \in 0..(Len(value.items) - 1)
                THEN Walk(value.items[seg.at + 1], rest) ELSE <<>>
           [] seg.s = "wildcard" /\ value.t = "array" ->
                FlattenSeq([i \in DOMAIN value.items |-> Walk(value.items[i], rest)])
           [] OTHER -> <<>>

VisitValues(value, path) == Walk(value, path)

(* resolve: the same, of a path that is keys only, one at most.            *)
RECURSIVE Resolve(_, _)
Resolve(value, keys) ==
    IF keys = <<>> THEN IF value.t = "scalar" THEN <<value.text>> ELSE <<>>
    ELSE IF value.t = "object" /\ Head(keys) \in DOMAIN value.map
         THEN Resolve(value.map[Head(keys)], Tail(keys)) ELSE <<>>
=============================================================================
