--------------------------- MODULE RulesDocument ----------------------------
(***************************************************************************)
(* From a rules document to an engine: RuleSet::parse and validate         *)
(* (config/rules.rs), Engine::new up to its index (filter/engine.rs), and  *)
(* `cloudtrail-rs validate` with its --max-unindexed gate (cli main.rs).   *)
(*                                                                         *)
(* A regex is one of Regexes, told apart by whether it compiles and within *)
(* which size, its selectivity_rank, and whether extract_literals reduces  *)
(* it.  A field's text is a sequence of FieldPath's characters.            *)
(***************************************************************************)
EXTENDS FieldPath

CONSTANT Calls  \* [doc, ceiling]: the documents and --max-unindexed considered;
                \* the ceiling 256 stands for the option's absence

Regexes == [literal |-> [builds |-> TRUE, size |-> 1, rank |-> 0, reducible |-> TRUE],
            class   |-> [builds |-> TRUE, size |-> 1, rank |-> 0, reducible |-> FALSE],
            leading |-> [builds |-> TRUE, size |-> 1, rank |-> 1, reducible |-> FALSE],
            large   |-> [builds |-> TRUE, size |-> 2, rank |-> 0, reducible |-> FALSE],
            huge    |-> [builds |-> TRUE, size |-> 3, rank |-> 0, reducible |-> FALSE],
            broken  |-> [builds |-> FALSE, size |-> 0, rank |-> 0, reducible |-> FALSE]]

REGEX_SIZE_LIMIT == 2

VARIABLES
    doc,      \* [yaml, version, rules]: the document as written
    ceiling,  \* --max-unindexed
    pc,       \* "parse", "compile", "gate", then how it ended
    ruleSet,  \* the parsed rules: [name, matches]
    rules,    \* Engine::rules
    paths,    \* the interned paths
    slots     \* event_source_slot and event_name_slot

vars == <<doc, ceiling, pc, ruleSet, rules, paths, slots>>

Init == /\ \E call \in Calls : doc = call.doc /\ ceiling = call.ceiling
        /\ pc = "parse"
        /\ ruleSet = <<>> /\ rules = <<>> /\ paths = <<>>
        /\ slots = [source |-> 0, name |-> 0]

-----------------------------------------------------------------------------
(***************************************************************************)
(* RuleSet::parse.  A match as written has a shape (the keys of v1 or v2), *)
(* a field, the operators given, and a negate.                             *)
(***************************************************************************)
Major == doc.version

(* serde with deny_unknown_fields: a rule must have its version's keys.    *)
Deserializes(rule) ==
    \A i \in DOMAIN rule.matches :
        LET m == rule.matches[i] IN
        /\ m.shape = Major
        /\ Major = 1 => m.ops = {"regex"} /\ ~ m.negate

(* WireMatchV2::into_match: exactly one operator, and no empty any_of.     *)
OneOperator(m) == Cardinality(m.ops) = 1 /\ ~ ("any_of" \in m.ops /\ m.any = {})

IntoMatch(m) == [field |-> m.field, negate |-> m.negate, regex |-> m.regex,
                 op |-> CHOOSE op \in {"regex", "equals", "any_of", "absent"} : op \in m.ops,
                 absent |-> m.absent]

Builds(regex, limit) == Regexes[regex].builds /\ Regexes[regex].size <= limit

ValidMatch(m) ==
    /\ Major # 1 => ParsePath(m.field) # Error
    /\ m.op = "regex" => Builds(m.regex, REGEX_SIZE_LIMIT)

Validate(rs) ==
    /\ \A i \in DOMAIN rs : rs[i].name # "" /\ rs[i].matches # <<>>
    /\ \A i, j \in DOMAIN rs : rs[i].name = rs[j].name => i = j
    /\ \A i \in DOMAIN rs : \A k \in DOMAIN rs[i].matches : ValidMatch(rs[i].matches[k])

Wire == [i \in DOMAIN doc.rules |->
            [name |-> doc.rules[i].name,
             matches |-> [k \in DOMAIN doc.rules[i].matches |->
                             IntoMatch(doc.rules[i].matches[k])]]]

Accepted ==
    /\ doc.yaml
    /\ Major \in {1, 2}
    /\ \A i \in DOMAIN doc.rules :
          /\ Deserializes(doc.rules[i])
          /\ \A k \in DOMAIN doc.rules[i].matches : OneOperator(doc.rules[i].matches[k])
    /\ Validate(Wire)

Parse ==
    /\ pc = "parse"
    /\ IF Accepted THEN pc' = "compile" /\ ruleSet' = Wire
                   ELSE pc' = "parse failed" /\ UNCHANGED ruleSet
    /\ UNCHANGED <<doc, ceiling, rules, paths, slots>>

-----------------------------------------------------------------------------
(***************************************************************************)
(* Engine::new.                                                            *)
(***************************************************************************)
(* v1 fields are literal keys, v2 fields are parsed.                       *)
(* Mutant: both are parsed.                                                *)
ParsedPath(m) == ParsePath(m.field)

CompiledPath(m) == IF Major = 1 THEN LiteralPath(m.field) ELSE ParsePath(m.field)

Compiles(rs) ==
    \A i \in DOMAIN rs : \A k \in DOMAIN rs[i].matches :
        LET m == rs[i].matches[k] IN
        /\ CompiledPath(m) # Error
        /\ m.op = "regex" => Builds(m.regex, REGEX_SIZE_LIMIT)

SelectivityRank(m) == IF m.op = "regex" THEN Regexes[m.regex].rank ELSE 0

(* sort_by_key is stable.                                                  *)
Sorted(matches) == SelectSeq(matches, LAMBDA m : SelectivityRank(m) = 0)
                   \o SelectSeq(matches, LAMBDA m : SelectivityRank(m) = 1)

(* intern: the paths in the order their first match names them, then the   *)
(* two index keys; a match's path_id is its path's position.               *)
SamePath(p, q) == p = q

Interned(seen, path) ==
    IF \E i \in DOMAIN seen : SamePath(seen[i], path) THEN seen ELSE Append(seen, path)

PathId(seen, path) == SelectInSeq(seen, LAMBDA p : SamePath(p, path))

EventSource == <<Key(<<"eventSource">>)>>
EventName == <<Key(<<"eventName">>)>>

PathsOf(rs) == FlattenSeq([i \in DOMAIN rs |-> LET s == Sorted(rs[i].matches) IN
                             [k \in DOMAIN s |-> CompiledPath(s[k])]])

Compile ==
    /\ pc = "compile"
    /\ IF Compiles(ruleSet)
       THEN LET all == FoldLeft(Interned, <<>>,
                                PathsOf(ruleSet) \o <<EventSource, EventName>>) IN
            /\ pc' = "gate"
            /\ paths' = all
            /\ slots' = [source |-> PathId(all, EventSource),
                         name |-> PathId(all, EventName)]
            /\ rules' = [i \in DOMAIN ruleSet |->
                 [name |-> ruleSet[i].name,
                  matches |-> LET s == Sorted(ruleSet[i].matches) IN
                    [k \in DOMAIN s |->
                       [path |-> CompiledPath(s[k]), op |-> s[k].op,
                        regex |-> s[k].regex, negate |-> s[k].negate,
                        absent |-> s[k].absent,
                        path_id |-> PathId(all, CompiledPath(s[k]))]]]]
       ELSE pc' = "compile failed" /\ UNCHANGED <<paths, slots, rules>>
    /\ UNCHANGED <<doc, ceiling, ruleSet>>

(* index_literals: the first condition on the field that is not negated    *)
(* decides, and it must be one that names values.                          *)
NamesValues(m) == \/ m.op \in {"equals", "any_of"}
                  \/ m.op = "regex" /\ Regexes[m.regex].reducible

Keyed(matches, path) ==
    LET on == SelectSeq(matches, LAMBDA m : ~ m.negate /\ m.path = path) IN
    on # <<>> /\ NamesValues(Head(on))

(* RuleIndex::always: the rules constrained on neither field.              *)
AlwaysRules ==
    {i \in DOMAIN rules : /\ ~ Keyed(rules[i].matches, EventSource)
                          /\ ~ Keyed(rules[i].matches, EventName)}

-----------------------------------------------------------------------------
(***************************************************************************)
(* cmd_validate.  The percentage of unindexed rules is rounded up.         *)
(***************************************************************************)
(* Mutant: it is rounded down.                                             *)
PercentDown(unindexed, count) == IF count = 0 THEN 0 ELSE (unindexed * 100) \div count

Percent(unindexed, count) ==
    IF count = 0 THEN 0 ELSE (unindexed * 100 + count - 1) \div count

Gate ==
    /\ pc = "gate"
    /\ pc' = IF /\ ceiling # 256
                /\ Percent(Cardinality(AlwaysRules), Len(ruleSet)) > ceiling
             THEN "refused" ELSE "valid"
    /\ UNCHANGED <<doc, ceiling, ruleSet, rules, paths, slots>>

Next == Parse \/ Compile \/ Gate

Spec == Init /\ [][Next]_vars

(* index_key_description: the condition a warning names for a field: the   *)
(* first one that is not negated, else the first one.                      *)
Described(i, field) ==
    LET on == SelectSeq(ruleSet[i].matches, LAMBDA m : m.field = field)
        positive == SelectSeq(on, LAMBDA m : ~ m.negate) IN
    IF positive # <<>> THEN <<Head(positive)>>
    ELSE IF on # <<>> THEN <<Head(on)>> ELSE <<>>

-----------------------------------------------------------------------------
(* A ruleset that passes RuleSet::parse cannot then fail to build: no      *)
(* deployment falls back to on_config_error for a document that validated. *)
AcceptedBuilds == pc # "compile failed"

(* No accepted rule drops every record: on a record without any of its     *)
(* fields a rule fires only through conditions that ask for absence or are *)
(* negated.                                                                *)
HoldsOnNothing(m) == (m.op = "absent" /\ m.absent) # m.negate

NoVacuousRule ==
    \A i \in DOMAIN rules :
        (\A k \in DOMAIN rules[i].matches : HoldsOnNothing(rules[i].matches[k])) =>
            \E k \in DOMAIN rules[i].matches :
                rules[i].matches[k].op = "absent" \/ rules[i].matches[k].negate

(* The text of a path.                                                     *)
Render(seg) == CASE seg.s = "key" -> seg.key
                 [] seg.s = "index" -> <<"[", "n", "]">>
                 [] seg.s = "wildcard" -> <<"[", "*", "]">>

RenderPath(p) ==
    FlattenSeq([i \in DOMAIN p |->
        (IF i > 1 /\ p[i].s = "key" THEN <<".">> ELSE <<>>) \o Render(p[i])])

(* The grammar: parts between dots, each a name without a bracket and then *)
(* subscripts of three characters each.                                    *)
WellFormed(t) ==
    LET starts == {1} \cup {i + 1 : i \in {j \in DOMAIN t : t[j] = "."}}
        end(b) == CHOOSE e \in b..(Len(t) + 1) :
                     /\ e = Len(t) + 1 \/ t[e] = "."
                     /\ \A i \in b..(e - 1) : t[i] # "." IN
    \A b \in starts : \E k \in 0..Len(t) :
        LET o == end(b) - 3 * k IN     \* where the part's subscripts begin
        /\ o > b
        /\ \A i \in b..(o - 1) : t[i] # "["
        /\ \A j \in 0..(k - 1) : /\ t[o + 3 * j] = "["
                                 /\ t[o + 3 * j + 1] \in {"*", "n"}
                                 /\ t[o + 3 * j + 2] = "]"

(* A field is never silently taken for a key that no record has: a v2      *)
(* field is accepted exactly when it is of the grammar, and what was       *)
(* compiled says all that the field said, in v1 as keys alone.             *)
NothingSilentlyLiteral ==
    /\ pc = "compile" /\ Major = 2 =>
          \A i \in DOMAIN ruleSet : \A k \in DOMAIN ruleSet[i].matches :
              WellFormed(ruleSet[i].matches[k].field)
    /\ pc = "parse failed" =>
          \A i \in DOMAIN doc.rules : \A k \in DOMAIN doc.rules[i].matches :
              LET field == doc.rules[i].matches[k].field IN
              WellFormed(field) => ParsePath(field) # Error
    /\ \A i \in DOMAIN rules : \A k \in DOMAIN rules[i].matches :
          LET path == rules[i].matches[k].path IN
          /\ \E j \in DOMAIN ruleSet[i].matches :
                 ruleSet[i].matches[j].field = RenderPath(path)
          /\ Major = 1 => \A n \in DOMAIN path : path[n].s = "key"

(* Every condition reads the slot of its own path, and the candidates are  *)
(* selected on the slots of eventSource and eventName; no path has two.    *)
SlotsAgree ==
    pc \in {"gate", "refused", "valid"} =>
        /\ paths[slots.source] = EventSource
        /\ paths[slots.name] = EventName
        /\ \A i, j \in DOMAIN paths : paths[i] = paths[j] => i = j
        /\ \A i \in DOMAIN rules : \A k \in DOMAIN rules[i].matches :
              paths[rules[i].matches[k].path_id] = rules[i].matches[k].path

(* The gate refuses a ruleset exactly when more than the given percentage  *)
(* of its rules is unindexed, in exact arithmetic.                         *)
GateExact ==
    pc \in {"refused", "valid"} =>
        (pc = "refused" <=>
            /\ ceiling # 256
            /\ 100 * Cardinality(AlwaysRules) > ceiling * Len(ruleSet))

(* A warning is true: a condition it says could not be reduced to literals *)
(* is not one that names them.  The engine looks for it after sorting the  *)
(* conditions, the warning in the order they are written.                  *)
WarningsTrue ==
    pc \in {"refused", "valid"} =>
        \A i \in AlwaysRules : \A field \in {<<"eventSource">>, <<"eventName">>} :
            LET d == Described(i, field) IN
            d # <<>> => d[1].negate \/ ~ NamesValues(d[1])
=============================================================================
