----------------------------- MODULE RuleIndex -----------------------------
(***************************************************************************)
(* The rule engine (filter/engine.rs) and its index (filter/index.rs).     *)
(* Engine::new builds the index from the compiled rules once; then each    *)
(* record is evaluated against the candidates it selects, in rule order,   *)
(* the first rule that fires winning.                                      *)
(*                                                                         *)
(* A record is the sequence of scalars each path resolves to, in document  *)
(* order: only a path with a `[*]` resolves to more than one.  A regex is  *)
(* the set of values it matches, with the literals extract_literals gives  *)
(* for it.  Patterns and JSON text are outside this module.                *)
(***************************************************************************)
EXTENDS Naturals, Sequences

CONSTANTS Values,      \* scalars, as strings
          OtherPaths,  \* the paths of rules besides the two indexed ones
          WildPaths,   \* those of them with a `[*]` segment
          RuleSets,    \* the rulesets considered
          Records      \* the records considered

IndexedFields == {"eventSource", "eventName"}
Paths == OtherPaths \cup IndexedFields

(* CompiledMatch: Regex, Equals and AnyOf hold on the values in `set`;     *)
(* Absent(want).  reducible, literals: extract_literals of a regex; rank:  *)
(* selectivity_rank.                                                       *)
Matches == [path : Paths, op : {"Regex", "Equals", "AnyOf", "Absent"},
            negate : BOOLEAN, set : SUBSET Values, want : BOOLEAN,
            reducible : BOOLEAN, literals : SUBSET Values, rank : {0, 1}]

(* extract_literals: "the finite set of literal strings a regex can match".*)
SoundMatch(c) ==
    c.op = "Regex" /\ c.reducible => c.set \subseteq c.literals

ASSUME PathsAssumption ==
    WildPaths \subseteq OtherPaths /\ OtherPaths \cap IndexedFields = {}
ASSUME RuleSetsAssumption ==
    /\ RuleSets \subseteq Seq(Seq(Matches))
    /\ \A rs \in RuleSets : \A i \in DOMAIN rs : \A k \in DOMAIN rs[i] :
          SoundMatch(rs[i][k])
ASSUME RecordsAssumption ==
    /\ Records \subseteq [Paths -> Seq(Values)]
    /\ \A r \in Records : \A p \in Paths \ WildPaths : Len(r[p]) <= 1

VARIABLES
    rules,     \* Engine::rules
    bySource,  \* by_event_source; a bucket that is empty does not exist
    anySource, \* any_event_source
    byName,    \* by_event_name
    anyName,   \* any_event_name
    always,    \* rules constrained on neither field
    pc,        \* "build", "built", then per record "walk", "decided"
    idx,       \* rule_idx of the loop in progress
    seen,      \* what the evaluator sees of the record: all of it, or slots
    record,    \* the record
    decision   \* Drop(rule_idx), or 0: Keep

index == <<bySource, anySource, byName, anyName, always>>
vars == <<rules, index, pc, idx, seen, record, decision>>

(* The index names only rules that exist, and the evaluator's loop stays   *)
(* within them.                                                            *)
IndexTypeOK ==
    /\ rules \in Seq(Seq(Matches))
    /\ bySource \in [Values -> SUBSET (1..Len(rules))]
    /\ byName \in [Values -> SUBSET (1..Len(rules))]
    /\ anySource \subseteq 1..Len(rules)
    /\ anyName \subseteq 1..Len(rules)
    /\ always \subseteq 1..Len(rules)
    /\ pc \in {"build", "built", "walk", "decided"}
    /\ idx \in 1..(Len(rules) + 1)
    /\ record \in [Paths -> Seq(Values)]
    /\ seen \in [Paths -> Seq(Values)]
    /\ decision \in 0..Len(rules)

NoRecord == [p \in Paths |-> <<>>]

Init ==
    /\ rules \in RuleSets
    /\ bySource = [v \in Values |-> {}] /\ anySource = {}
    /\ byName = [v \in Values |-> {}] /\ anyName = {}
    /\ always = {}
    /\ pc = "build" /\ idx = 1
    /\ record = NoRecord /\ seen = NoRecord
    /\ decision = 0

-----------------------------------------------------------------------------
(* index_literals looks at the first condition on the field that is not    *)
(* negated, in the order of a stable sort by rank, and only at that one.   *)
(* Mutant: a negated condition yields keys too.                            *)
EligibleNegated(rule, field) == {k \in DOMAIN rule : rule[k].path = field}

Eligible(rule, field) ==
    {k \in DOMAIN rule : ~ rule[k].negate /\ rule[k].path = field}

Before(rule, k, j) ==
    \/ rule[k].rank < rule[j].rank
    \/ rule[k].rank = rule[j].rank /\ k <= j

Found(rule, field) ==
    {k \in Eligible(rule, field) :
        \A j \in Eligible(rule, field) : Before(rule, k, j)}

Reducible(c) == c.op \in {"Equals", "AnyOf"} \/ (c.op = "Regex" /\ c.reducible)

LiteralsOf(c) == IF c.op = "Regex" THEN c.literals ELSE c.set

(* Whether the rule is keyed on the field, and by which literals.          *)
Keyed(rule, field) == \E k \in Found(rule, field) : Reducible(rule[k])

IndexLiterals(rule, field) ==
    UNION {LiteralsOf(rule[k]) : k \in Found(rule, field)}

(* RuleIndex::build, first pass: one rule into the buckets of one field.   *)
InBuckets(by, rule, field) ==
    [v \in Values |->
        IF Keyed(rule, field) /\ v \in IndexLiterals(rule, field)
        THEN by[v] \cup {idx} ELSE by[v]]

InAny(any, rule, field) == IF Keyed(rule, field) THEN any ELSE any \cup {idx}

BuildRule ==
    /\ pc = "build"
    /\ idx <= Len(rules)
    /\ LET rule == rules[idx] IN
       /\ bySource' = InBuckets(bySource, rule, "eventSource")
       /\ anySource' = InAny(anySource, rule, "eventSource")
       /\ byName' = InBuckets(byName, rule, "eventName")
       /\ anyName' = InAny(anyName, rule, "eventName")
       /\ always' = IF Keyed(rule, "eventSource") \/ Keyed(rule, "eventName")
                    THEN always ELSE always \cup {idx}
    /\ idx' = idx + 1
    /\ UNCHANGED <<rules, pc, seen, record, decision>>

(* Second pass: the unconstrained rules into every bucket there is.        *)
WithAny(by, any) == [v \in Values |-> IF by[v] = {} THEN {} ELSE by[v] \cup any]

EndBuild ==
    /\ pc = "build"
    /\ idx > Len(rules)
    /\ bySource' = WithAny(bySource, anySource)
    /\ byName' = WithAny(byName, anyName)
    /\ pc' = "built" /\ idx' = 1
    /\ UNCHANGED <<rules, anySource, anyName, always, seen, record, decision>>

-----------------------------------------------------------------------------
(* match_fires and match_fires_projected, on the values of the path.       *)
MatchHolds(c, values) ==
    IF c.op = "Absent" THEN (values # <<>>) # c.want
    ELSE \E i \in DOMAIN values : values[i] \in c.set

MatchFires(c, rec) == MatchHolds(c, rec[c.path]) # c.negate

RuleFires(rule, rec) == \A k \in DOMAIN rule : MatchFires(rule[k], rec)

(* source_bits, name_bits: a value no rule names leaves the unconstrained  *)
(* rules, a missing value leaves every rule.                               *)
Bits(by, any, values) ==
    IF values = <<>> THEN 1..Len(rules)
    ELSE IF by[values[1]] = {} THEN any ELSE by[values[1]]

Permits(i, rec) ==
    /\ i \in Bits(bySource, anySource, rec["eventSource"])
    /\ i \in Bits(byName, anyName, rec["eventName"])

(* evaluate_raw projects the record to the first scalar of each path,      *)
(* unless some rule uses a wildcard; evaluate sees the whole record.       *)
HasWildcard(rs) ==
    \E i \in DOMAIN rs : \E k \in DOMAIN rs[i] : rs[i][k].path \in WildPaths

Project(rec) == [p \in Paths |-> IF rec[p] = <<>> THEN <<>> ELSE <<rec[p][1]>>]

Evaluate(rec, raw) ==
    /\ pc = "built"
    /\ record' = rec
    /\ seen' = IF raw /\ ~ HasWildcard(rules) THEN Project(rec) ELSE rec
    /\ pc' = "walk"
    /\ UNCHANGED <<rules, index, idx, decision>>

Decide(d) == decision' = d /\ pc' = "decided" /\ UNCHANGED idx

WalkRule ==
    /\ pc = "walk"
    /\ idx <= Len(rules)
    /\ \/ /\ Permits(idx, seen)
          /\ RuleFires(rules[idx], seen)
          /\ Decide(idx)
       \/ /\ ~ (Permits(idx, seen) /\ RuleFires(rules[idx], seen))
          /\ idx' = idx + 1
          /\ UNCHANGED <<pc, decision>>
    /\ UNCHANGED <<rules, index, seen, record>>

WalkEnd ==
    /\ pc = "walk"
    /\ idx > Len(rules)
    /\ Decide(0)
    /\ UNCHANGED <<rules, index, seen, record>>

(* The caller has its decision; the locals of the call are gone.           *)
Return ==
    /\ pc = "decided"
    /\ pc' = "built" /\ idx' = 1
    /\ record' = NoRecord /\ seen' = NoRecord /\ decision' = 0
    /\ UNCHANGED <<rules, index>>

Next ==
    \/ BuildRule \/ EndBuild
    \/ \E rec \in Records, raw \in BOOLEAN : Evaluate(rec, raw)
    \/ WalkRule \/ WalkEnd \/ Return

Spec == Init /\ [][Next]_vars

-----------------------------------------------------------------------------
(* evaluate_linear, "the correctness oracle": the first rule that fires,   *)
(* no index, the whole record.                                             *)
EvaluateLinear(d) ==
    IF d = 0 THEN \A i \in DOMAIN rules : ~ RuleFires(rules[i], record)
    ELSE /\ RuleFires(rules[d], record)
         /\ \A i \in 1..(d - 1) : ~ RuleFires(rules[i], record)

(* The index and the projection never change a decision: a record is       *)
(* dropped exactly when the oracle drops it, and by the same rule.  A rule *)
(* the index wrongly leaves out would silently forward what it drops.      *)
DecisionIsLinear == pc = "decided" => EvaluateLinear(decision)
=============================================================================
