----------------------------- MODULE Projection -----------------------------
(***************************************************************************)
(* Projected parsing (filter/project.rs): one pass over a record's JSON    *)
(* that reads only the fields the ruleset names, against a full parse of   *)
(* the same text followed by path::visit_values.                           *)
(*                                                                         *)
(* A document is the JSON text as its tokens nest: objects are sequences   *)
(* of members, so that a key may occur twice; "bad" is a string whose      *)
(* escapes do not decode (a lone surrogate), "float" a number lexed as a   *)
(* float.  A trie node is the sequence of segments that leads to it.       *)
(***************************************************************************)
EXTENDS FieldPath, Functions

CONSTANTS Documents,  \* the records considered
          PathSets    \* the fields of the rulesets considered, in path id order

VARIABLES doc, paths, pc, slots, decided
vars == <<doc, paths, pc, slots, decided>>

Nothing == <<>>

-----------------------------------------------------------------------------
(***************************************************************************)
(* serde_json::from_str::<Value>: the last of two members of one key wins. *)
(***************************************************************************)
RECURSIVE Decodes(_)
Decodes(d) ==
    CASE d.t = "bad" -> FALSE
      [] d.t = "object" -> \A i \in DOMAIN d.members : Decodes(d.members[i].value)
      [] d.t = "array" -> \A i \in DOMAIN d.items : Decodes(d.items[i])
      [] OTHER -> TRUE

RECURSIVE Parsed(_)
Parsed(d) ==
    CASE d.t \in {"string", "float"} -> [t |-> "scalar", text |-> d.text]
      [] d.t = "null" -> [t |-> "null"]
      [] d.t = "array" -> [t |-> "array",
                           items |-> [i \in DOMAIN d.items |-> Parsed(d.items[i])]]
      [] d.t = "object" ->
           LET last(k) == CHOOSE i \in DOMAIN d.members :
                             /\ d.members[i].key = k
                             /\ \A j \in DOMAIN d.members :
                                   d.members[j].key = k => j <= i IN
           [t |-> "object",
            map |-> [k \in {d.members[i].key : i \in DOMAIN d.members} |->
                        Parsed(d.members[last(k)].value)]]

-----------------------------------------------------------------------------
(***************************************************************************)
(* Projection::build.  terminals and subtree_terminals of a node; a child  *)
(* exists when some path goes through it.                                  *)
(***************************************************************************)
Terminals(node) == {id \in DOMAIN paths : paths[id] = node}
SubtreeTerminals(node) == {id \in DOMAIN paths : IsPrefix(node, paths[id])}
HasNode(node) == SubtreeTerminals(node) # {}

HasWildcard == \E id \in DOMAIN paths : Contains(paths[id], Wildcard)

(* A result of the walk: the slots, or an error.                           *)
Failed == [ok |-> FALSE, out |-> Nothing]
Ok(out) == [ok |-> TRUE, out |-> out]

(* Skip walks a subtree no path names, and decodes it all the same.        *)
Skip(d, out) == IF Decodes(d) THEN Ok(out) ELSE Failed

(* capture_terminals.  A float is rendered by serde_json's Number.         *)
Captured(d) == d.text

Capture(node, d, out) ==
    [id \in DOMAIN out |-> IF id \in Terminals(node) THEN <<Captured(d)>> ELSE out[id]]

(* A repeated key nulls everything its first value may have filled.        *)
(* Mutant: only the node's own slots.                                      *)
NullTerminals(node, out) ==
    [id \in DOMAIN out |-> IF id \in Terminals(node) THEN Nothing ELSE out[id]]

NullSubtree(node, out) ==
    [id \in DOMAIN out |-> IF id \in SubtreeTerminals(node) THEN Nothing ELSE out[id]]

(* LevelSeed: visit_map and visit_seq dispatch each member or element to   *)
(* the child the trie has for it, and to Skip when it has none.  A fixed   *)
(* subscript takes its element before the wildcard does, and the wildcard  *)
(* takes elements only until its slots are filled.                         *)
RECURSIVE LevelSeed(_, _, _)
LevelSeed(node, d, out) ==
    CASE d.t = "bad" -> Failed
      [] d.t = "null" -> Ok(out)
      [] d.t \in {"string", "float"} -> Ok(Capture(node, d, out))
      [] d.t = "object" ->
           FoldLeft(LAMBDA acc, member :
               LET child == Append(node, Key(member.key)) IN
               IF ~ acc.ok THEN acc
               ELSE IF HasNode(child)
                    THEN LevelSeed(child, member.value, NullSubtree(child, acc.out))
               ELSE Skip(member.value, acc.out),
               Ok(out), d.members)
      [] d.t = "array" ->
           FoldLeft(LAMBDA acc, i :
               LET indexed == Append(node, Index(i - 1))
                   wild == Append(node, Wildcard) IN
               IF ~ acc.ok THEN acc
               ELSE IF HasNode(indexed) THEN LevelSeed(indexed, d.items[i], acc.out)
               ELSE IF \E id \in SubtreeTerminals(wild) : acc.out[id] = Nothing
                    THEN LevelSeed(wild, d.items[i], acc.out)
               ELSE Skip(d.items[i], acc.out),
               Ok(out), [i \in DOMAIN d.items |-> i])

Project == LevelSeed(<<>>, doc, [id \in DOMAIN paths |-> Nothing])

-----------------------------------------------------------------------------
(* evaluate_raw looks at the slots, unless some path has a wildcard: then  *)
(* at the values a full parse yields.  Either may fail.                    *)
FullParse == IF Decodes(doc)
             THEN Ok([id \in DOMAIN paths |-> VisitValues(Parsed(doc), paths[id])])
             ELSE Failed

EvaluateRaw == IF HasWildcard THEN FullParse ELSE Project

Init == /\ doc \in Documents
        /\ paths \in PathSets
        /\ pc = "record"
        /\ slots = Failed /\ decided = Failed

Evaluate == /\ pc = "record"
            /\ pc' = "decided"
            /\ slots' = Project
            /\ decided' = EvaluateRaw
            /\ UNCHANGED <<doc, paths>>

Next == Evaluate

Spec == Init /\ [][Next]_vars

-----------------------------------------------------------------------------
(* project agrees with visit_values on a fully parsed value, slot by slot, *)
(* for every path without a wildcard: repeated keys, nulls and values of   *)
(* another shape than the path's included.                                 *)
ProjectionAgrees ==
    pc = "decided" /\ slots.ok /\ (\A id \in DOMAIN paths : ~ Contains(paths[id], Wildcard)) =>
        slots.out = [id \in DOMAIN paths |-> VisitValues(Parsed(doc), paths[id])]

(* project fails exactly when a full parse does, also on a string in a     *)
(* subtree no path names.                                                  *)
ErrorsAlike == pc = "decided" => (slots.ok <=> Decodes(doc))

(* Every condition is decided on the values the paths have in the record:  *)
(* a ruleset with a wildcard anywhere never sees the projection, which     *)
(* keeps one element only.                                                 *)
DecidedOnAllValues ==
    pc = "decided" /\ decided.ok =>
        \A id \in DOMAIN paths :
            ToSet(decided.out[id]) = ToSet(VisitValues(Parsed(doc), paths[id]))

(* resolve, which evaluate reads the indexed fields with, sees what a path *)
(* of keys sees: at most one value, and the same one.                      *)
ResolveAgrees ==
    pc = "decided" /\ slots.ok =>
        \A id \in DOMAIN paths :
            (\A i \in DOMAIN paths[id] : paths[id][i].s = "key") =>
                Resolve(Parsed(doc), [i \in DOMAIN paths[id] |-> paths[id][i].key])
                    = VisitValues(Parsed(doc), paths[id])
=============================================================================
