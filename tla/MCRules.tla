------------------------------ MODULE MCRules -------------------------------
(***************************************************************************)
(* What a ruleset means, part by part, each part over its own inputs: the  *)
(* index against the linear evaluation (RuleIndex), the streaming reader   *)
(* of a record against a full parse (Projection), the literals of a regex  *)
(* against what it matches (ExtractLiterals), and a document from its text *)
(* to an engine (RulesDocument).  A behaviour exercises one part; the      *)
(* variables of the others are idle.                                       *)
(***************************************************************************)
EXTENDS RuleIndex, SequencesExt

CONSTANTS Parts,       \* the parts exercised
          Patterns,    \* the patterns considered
          MaxWidth,    \* members of an object, elements of an array
          MaxAtoms,    \* atoms of a pattern
          MaxValue,    \* characters of a value a pattern is matched against
          MaxLength    \* characters of a field's text

VARIABLES part, stage,                                \* which, and its pc
          doc, paths, slots, decided,                 \* Projection
          pattern, literals,                          \* ExtractLiterals
          ceiling, ruleSet, compiled                  \* RulesDocument

-----------------------------------------------------------------------------
(***************************************************************************)
(* RuleIndex.  Rulesets of up to two rules.  Single conditions in every    *)
(* pairing; and a rule of two conditions -- on the same field, on both, or *)
(* on a wildcard path -- before and after a catch-all.                     *)
(***************************************************************************)
Match(path, op, negate, set) ==
    [path |-> path, op |-> op, negate |-> negate, set |-> set, want |-> FALSE,
     reducible |-> FALSE, literals |-> {}, rank |-> 0]

Ops(path, negate) ==
    {Match(path, "Equals", negate, {"a"}),
     Match(path, "AnyOf", negate, {"a", "b"}),
     [Match(path, "Regex", negate, {"a"}) EXCEPT !.rank = 1],
     [Match(path, "Regex", negate, {"b"}) EXCEPT !.reducible = TRUE,
                                                 !.literals = {"b"}],
     [Match(path, "Absent", negate, {}) EXCEPT !.want = TRUE]}

OnIndexed == UNION {Ops(p, n) : p \in IndexedFields, n \in BOOLEAN}
OnWild == UNION {Ops("resources[*].ARN", n) : n \in BOOLEAN}

Single == {<<c>> : c \in OnIndexed \cup OnWild}
Double == {<<c, d>> : c \in Ops("eventSource", FALSE), d \in OnIndexed \cup OnWild}

CatchAll == <<Match("eventName", "AnyOf", FALSE, {"a", "b"})>>

MCRuleSets ==
    {<<>>} \cup {<<r>> : r \in Single \cup Double}
    \cup {<<r, s>> : r \in Single, s \in Single}
    \cup {<<r, CatchAll>> : r \in Double} \cup {<<CatchAll, r>> : r \in Double}

MCRecords ==
    {[p \in {"eventSource", "eventName", "resources[*].ARN"} |->
        IF p = "resources[*].ARN" THEN w ELSE r[p]] :
        r \in [IndexedFields -> {<<>>, <<"a">>, <<"b">>, <<"c">>}],
        w \in {<<>>, <<"b">>, <<"b", "a">>}}

-----------------------------------------------------------------------------
(***************************************************************************)
(* Projection.  Documents two levels deep, keys repeated and values of     *)
(* every shape, for path sets that share nodes, end inside one another or  *)
(* mix subscripts.                                                         *)
(***************************************************************************)
Leaves == {[t |-> "string", text |-> "x"], [t |-> "float", text |-> "1.0"],
           [t |-> "null"], [t |-> "bad"]}

ObjectsOf(values) ==
    {[t |-> "object", members |-> ms] :
        ms \in SeqOf([key : {"a", "b"}, value : values], MaxWidth)}

ArraysOf(values) ==
    {[t |-> "array", items |-> is] : is \in SeqOf(values, MaxWidth)}

RawRecords == ObjectsOf(Leaves \cup ObjectsOf(Leaves) \cup ArraysOf(Leaves))

A == [s |-> "key", key |-> "a"]
B == [s |-> "key", key |-> "b"]
At(i) == [s |-> "index", at |-> i]
Each == [s |-> "wildcard"]

FieldSets ==
    {<<<<A, B>>, <<A>>>>,
     <<<<A, At(1)>>, <<A, At(0)>>, <<B>>, <<B>>>>,
     <<<<A, Each>>, <<B, A>>>>,
     <<<<A, At(0)>>, <<A, Each>>>>}

-----------------------------------------------------------------------------
(***************************************************************************)
(* ExtractLiterals.  Anchored and unanchored patterns of a few atoms, with *)
(* and without a group, and values over the characters that occur in them. *)
(***************************************************************************)
Lit(c) == [a |-> "lit", c |-> c]
Esc(c) == [a |-> "esc", c |-> c]
Atom(kind) == [a |-> kind]
Group(alts) == [a |-> "group", alts |-> alts]

Simple == {Lit("a"), Lit("b"), Esc("."), Esc("|"), Esc("("), Atom("any"),
           Atom("digit"), [a |-> "star", c |-> "a"], Atom("end")}

Groups == {Group(alts) : alts \in SeqOf(
              {<<>>, <<Lit("a")>>, <<Lit("b"), Esc(".")>>, <<Esc("|")>>, <<Atom("any")>>},
              2) \ {<<>>}}

Anchored(body) == <<<<Atom("begin")>> \o body \o <<Atom("end")>>>>

(* `^...$`, without its anchors, with an alternation outside any group     *)
(* (whose anchors then bind one side each), with a flag.                   *)
PlainPatterns ==
    {Anchored(b) : b \in SeqOf(Simple \cup Groups, MaxAtoms)}
    \cup {<<b>> : b \in SeqOf(Simple, 2)}
    \cup {<<<<Atom("begin")>> \o b, c \o <<Atom("end")>>>> :
             b \in SeqOf(Simple \cup Groups, 1), c \in SeqOf(Simple \cup Groups, 1)}
    \cup {Anchored(<<Atom("flag")>> \o b) : b \in SeqOf(Simple, 1)}

WordPatterns == {Anchored(<<Atom("wordStart"), Lit(c)>>) : c \in {"a", "b"}}

FieldValues == SeqOf({"a", "b", "A", "0", ".", "|"}, MaxValue)

-----------------------------------------------------------------------------
(***************************************************************************)
(* RulesDocument.  One rule with every kind of match; one match with every *)
(* text of a field up to a length; and up to three rules that differ in    *)
(* what the index can do with them, under ceilings around a third of them. *)
(***************************************************************************)
Written(shape, field, ops, regex, negate) ==
    [shape |-> shape, field |-> field, ops |-> ops, regex |-> regex,
     negate |-> negate, absent |-> TRUE, any |-> {"x"}]

Fields == {<<"eventSource">>, <<"a", "[", "n", "]">>, <<"a">>, <<"a", "[">>}

RegexNames == {"literal", "class", "leading", "large", "huge", "broken"}

V1Matches == {Written(1, f, {"regex"}, r, FALSE) : f \in Fields, r \in RegexNames}

V2Matches ==
    {Written(2, f, {"regex"}, r, n) : f \in Fields, r \in RegexNames, n \in BOOLEAN}
    \cup {Written(2, f, ops, "literal", n) : f \in Fields, n \in BOOLEAN,
             ops \in {{"equals"}, {"any_of"}, {"absent"}, {}, {"equals", "regex"}}}
    \cup {[Written(2, <<"a">>, {"any_of"}, "literal", FALSE) EXCEPT !.any = {}],
          [Written(2, <<"a">>, {"absent"}, "literal", FALSE) EXCEPT !.absent = FALSE]}

Doc(version, written) == [yaml |-> TRUE, version |-> version, rules |-> written]

OneRule(version, name, matches) == Doc(version, <<[name |-> name, matches |-> matches]>>)

(* A letter and every text, or a shorter one alone.  Two adjacent numbers  *)
(* are one number.                                                         *)
Characters == {"a", ".", "[", "]", "*", "n"}

Texts == {t \in SeqOf(Characters, MaxLength - 2)
                 \cup {<<"a">> \o rest : rest \in SeqOf(Characters, MaxLength - 1)} :
             \A i \in 1..(Len(t) - 1) : ~ (t[i] = "n" /\ t[i + 1] = "n")}

OneRuleDocs ==
    {OneRule(1, n, ms) : n \in {"r", ""}, ms \in SeqOf(V1Matches, 2)}
    \cup {OneRule(2, n, ms) : n \in {"r", ""}, ms \in SeqOf(V2Matches, 2)}
    \cup {OneRule(v, "r", <<Written(v, t, {"regex"}, "literal", FALSE)>>) :
             v \in {1, 2}, t \in Texts}
    \cup {OneRule(v, "r", <<Written(2, <<"a">>, {"regex"}, "literal", FALSE)>>) :
             v \in {1, 3}}
    \cup {[yaml |-> FALSE, version |-> 1, rules |-> <<>>]}

Indexed == <<Written(2, <<"eventName">>, {"equals"}, "literal", FALSE)>>
Unindexed == <<Written(2, <<"eventName">>, {"regex"}, "class", FALSE)>>

ThreeRuleDocs ==
    {Doc(2, [i \in 1..n |-> [name |-> names[i], matches |-> ms[i]]]) :
        n \in 0..3, names \in {<<"r", "s", "t">>, <<"r", "s", "r">>},
        ms \in [1..3 -> {Indexed, Unindexed}]}

MCCalls ==
    {[doc |-> d, ceiling |-> 256] : d \in OneRuleDocs}
    \cup {[doc |-> d, ceiling |-> c] : d \in ThreeRuleDocs,
                                      c \in {0, 33, 34, 66, 67, 100, 256}}

-----------------------------------------------------------------------------
Raw == INSTANCE Projection WITH Documents <- RawRecords, PathSets <- FieldSets,
                                pc <- stage
Literals == INSTANCE ExtractLiterals WITH Values <- FieldValues, pc <- stage
Document == INSTANCE RulesDocument WITH Calls <- MCCalls, rules <- compiled,
                                        pc <- stage

Idle == "idle"

others == <<stage, doc, paths, slots, decided, pattern, literals, ceiling, ruleSet,
            compiled>>

IndexIdle == /\ rules = <<>> /\ pc = Idle /\ idx = 1 /\ decision = 0
             /\ bySource = [v \in Values |-> {}] /\ anySource = {}
             /\ byName = [v \in Values |-> {}] /\ anyName = {} /\ always = {}
             /\ record = NoRecord /\ seen = NoRecord

PartInit ==
    /\ part \in Parts
    /\ IF part = "index" THEN Init /\ stage = Idle ELSE IndexIdle
    /\ IF part = "record" THEN Raw!Init ELSE decided = Idle
    /\ IF part = "pattern" THEN Literals!Init ELSE pattern = Idle /\ literals = Idle
    /\ IF part = "document" THEN Document!Init
                            ELSE ceiling = Idle /\ ruleSet = Idle /\ compiled = Idle
    /\ part \notin {"record", "document"} => doc = Idle /\ paths = Idle /\ slots = Idle

PartNext ==
    /\ UNCHANGED part
    /\ \/ part = "index" /\ Next /\ UNCHANGED others
       \/ /\ part = "record" /\ Raw!Next
          /\ UNCHANGED <<vars, pattern, literals, ceiling, ruleSet, compiled>>
       \/ /\ part = "pattern" /\ Literals!Next
          /\ UNCHANGED <<vars, doc, paths, slots, decided, ceiling, ruleSet, compiled>>
       \/ /\ part = "document" /\ Document!Next
          /\ UNCHANGED <<vars, decided, pattern, literals>>

PartSpec == PartInit /\ [][PartNext]_<<vars, others, part>>

-----------------------------------------------------------------------------
(* evaluate_raw decides a record on the values a full parse would give,    *)
(* and fails on the records a full parse fails on; resolve sees what a     *)
(* path of keys sees.                                                      *)
RecordsReadAlike ==
    part = "record" => /\ Raw!ProjectionAgrees /\ Raw!ErrorsAlike
                       /\ Raw!DecidedOnAllValues /\ Raw!ResolveAgrees

(* extract_literals leaves out no value the regex matches, and reduces the *)
(* two shapes that production rules have.                                  *)
LiteralsComplete ==
    part = "pattern" => Literals!NoLiteralMissing /\ Literals!ShapesReduced

(* A document that parses builds an engine, whose conditions read the      *)
(* slots of their own paths, and none of whose rules drops every record.   *)
DocumentsBuild ==
    part = "document" => /\ Document!AcceptedBuilds /\ Document!NoVacuousRule
                         /\ Document!SlotsAgree

(* A malformed field is refused, and an accepted one compiles to all it    *)
(* says.                                                                   *)
FieldsNeverSilent == part = "document" => Document!NothingSilentlyLiteral

(* `cloudtrail-rs validate` applies --max-unindexed exactly, and what it   *)
(* warns of is so.                                                         *)
GateTruthful ==
    part = "document" => Document!GateExact /\ Document!WarningsTrue
=============================================================================
