-------------------------- MODULE RuleIndexProofs --------------------------
(***************************************************************************)
(* The index and the projection are transparent, for every ruleset and     *)
(* every record.  The argument: when the index is built, each rule is in   *)
(* the bucket of every literal of its key, or in the set of unconstrained  *)
(* rules, which every bucket includes; so a rule that fires is always a    *)
(* candidate, and the walk skips only rules that do not fire.              *)
(***************************************************************************)
EXTENDS RuleIndex, SequenceTheorems, TLAPS

(* Rule i has been entered for one field.                                  *)
Entered(by, any, i, field) ==
    IF Keyed(rules[i], field)
    THEN \A v \in Values : v \in IndexLiterals(rules[i], field) => i \in by[v]
    ELSE i \in any

EnteredSoFar ==
    \A i \in 1..Len(rules) : pc # "build" \/ i < idx =>
        /\ Entered(bySource, anySource, i, "eventSource")
        /\ Entered(byName, anyName, i, "eventName")

Completed(by, any) == \A v \in Values : by[v] # {} => any \subseteq by[v]

BucketsComplete ==
    pc # "build" => Completed(bySource, anySource) /\ Completed(byName, anyName)

(* What the evaluator sees fires the rules the record fires.               *)
SeesRecord ==
    pc \in {"walk", "decided"} =>
        /\ record \in Records
        /\ seen = record \/ (~ HasWildcard(rules) /\ seen = Project(record))

WalkedPast ==
    pc = "walk" => \A i \in 1..(idx - 1) : ~ RuleFires(rules[i], record)

BuiltAtOne == pc = "built" => idx = 1

IndexInv ==
    /\ rules \in RuleSets
    /\ IndexTypeOK
    /\ BuiltAtOne
    /\ EnteredSoFar
    /\ BucketsComplete
    /\ SeesRecord
    /\ WalkedPast
    /\ DecisionIsLinear

-----------------------------------------------------------------------------
(* A path without a wildcard has at most one value, so its first one is    *)
(* all of them: project loses nothing of it.                               *)
LEMMA ProjectKeepsPlainPaths ==
    ASSUME NEW rec \in Records, NEW p \in Paths \ WildPaths
    PROVE  Project(rec)[p] = rec[p]
<1>1. rec \in [Paths -> Seq(Values)] /\ Len(rec[p]) <= 1 /\ p \in Paths
  BY RecordsAssumption
<1>2. CASE rec[p] = <<>>
  BY <1>1, <1>2 DEF Project
<1>3. CASE rec[p] # <<>>
  <2>1. rec[p] \in Seq(Values) /\ Len(rec[p]) = 1
    <3>1. rec[p] \in Seq(Values)
      BY <1>1
    <3>2. Len(rec[p]) \in Nat /\ Len(rec[p]) # 0
      BY <3>1, <1>3, EmptySeq, LenProperties
    <3>3. Len(rec[p]) <= 1
      BY <1>1
    <3>4. \A n \in Nat : n # 0 /\ n <= 1 => n = 1
      OBVIOUS
    <3> QED
      BY <3>1, <3>2, <3>3, <3>4, Zenon
  <2>2. rec[p] = <<rec[p][1]>>
    BY <2>1
  <2> QED
    BY <1>1, <1>3, <2>2 DEF Project
<1> QED
  BY <1>2, <1>3

(* evaluate_raw's projection fires exactly the rules the record fires.     *)
LEMMA ProjectionFiresAlike ==
    ASSUME NEW rs \in RuleSets, ~ HasWildcard(rs), NEW rec \in Records,
           NEW i \in DOMAIN rs
    PROVE  RuleFires(rs[i], Project(rec)) <=> RuleFires(rs[i], rec)
<1>1. rs \in Seq(Seq(Matches)) /\ rs[i] \in Seq(Matches)
  BY RuleSetsAssumption
<1>2. ASSUME NEW k \in DOMAIN rs[i]
      PROVE  Project(rec)[rs[i][k].path] = rec[rs[i][k].path]
  <2>1. rs[i][k] \in Matches
    BY <1>1
  <2>2. rs[i][k].path \in Paths \ WildPaths
    BY <2>1 DEF HasWildcard, Matches
  <2> QED
    BY <2>2, ProjectKeepsPlainPaths
<1> QED
  BY <1>2 DEF RuleFires, MatchFires

(* A rule that fires has, for each field it is keyed on, a record value    *)
(* among its literals.  This rests on the key coming from a condition that *)
(* is not negated, and on extract_literals being conservative.             *)
LEMMA FiringRuleHasItsKey ==
    ASSUME NEW rs \in RuleSets, NEW i \in DOMAIN rs, NEW rec \in Records,
           NEW field \in IndexedFields,
           RuleFires(rs[i], rec), Keyed(rs[i], field)
    PROVE  /\ rec[field] # <<>>
           /\ rec[field][1] \in Values
           /\ rec[field][1] \in IndexLiterals(rs[i], field)
<1>1. rs[i] \in Seq(Matches)
  BY RuleSetsAssumption
<1>2. PICK k \in Found(rs[i], field) : Reducible(rs[i][k])
  BY DEF Keyed
<1>3. /\ k \in DOMAIN rs[i]
      /\ ~ rs[i][k].negate
      /\ rs[i][k].path = field
  BY <1>2 DEF Found, Eligible
<1>4. rs[i][k] \in Matches /\ SoundMatch(rs[i][k])
  BY <1>1, <1>3, RuleSetsAssumption
<1>5. field \in Paths \ WildPaths
  BY PathsAssumption DEF Paths
<1>6. rec[field] \in Seq(Values) /\ Len(rec[field]) <= 1
  BY <1>5, RecordsAssumption
<1>7. MatchHolds(rs[i][k], rec[field])
  <2>1. MatchFires(rs[i][k], rec)
    BY <1>3 DEF RuleFires
  <2>2. rs[i][k].negate = FALSE
    BY <1>3, <1>4 DEF Matches
  <2>3. MatchHolds(rs[i][k], rec[field]) \in BOOLEAN
    BY DEF MatchHolds
  <2> QED
    BY <2>1, <2>2, <2>3, <1>3 DEF MatchFires
<1>8. rs[i][k].op # "Absent"
  BY <1>2 DEF Reducible
<1>9. PICK j \in DOMAIN rec[field] : rec[field][j] \in rs[i][k].set
  BY <1>7, <1>8 DEF MatchHolds
<1>10. j = 1
  BY <1>6, <1>9
<1>11. rec[field][1] \in LiteralsOf(rs[i][k])
  BY <1>2, <1>4, <1>9, <1>10 DEF LiteralsOf, SoundMatch, Reducible
<1> QED
  BY <1>2, <1>6, <1>9, <1>10, <1>11 DEF IndexLiterals

(* A rule that fires passes the bits of one field.                         *)
LEMMA FiringRuleInBits ==
    ASSUME rules \in RuleSets, NEW by \in [Values -> SUBSET (1..Len(rules))],
           NEW any, Completed(by, any),
           NEW i \in 1..Len(rules), NEW rec \in Records,
           NEW field \in IndexedFields, Entered(by, any, i, field),
           RuleFires(rules[i], rec)
    PROVE  i \in Bits(by, any, rec[field])
<1>1. i \in DOMAIN rules
  BY RuleSetsAssumption
<1>2. field \in Paths
  BY DEF Paths
<1>3. rec[field] \in Seq(Values)
  BY <1>2, RecordsAssumption
<1>4. CASE rec[field] = <<>>
  BY <1>4 DEF Bits
<1>5. CASE rec[field] # <<>> /\ Keyed(rules[i], field)
  <2>1. rec[field][1] \in Values /\ i \in by[rec[field][1]]
    BY <1>1, <1>5, FiringRuleHasItsKey DEF Entered
  <2> QED
    BY <1>5, <2>1 DEF Bits
<1>6. CASE rec[field] # <<>> /\ ~ Keyed(rules[i], field)
  <2>1. rec[field][1] \in Values
    BY <1>3, <1>6
  <2>2. i \in any
    BY <1>6 DEF Entered
  <2> QED
    BY <1>6, <2>1, <2>2 DEF Bits, Completed
<1> QED
  BY <1>4, <1>5, <1>6

(* Only candidates are walked, and a rule that fires is always one.        *)
LEMMA FiringRuleIsPermitted ==
    ASSUME IndexInv, pc = "walk", NEW i \in 1..Len(rules),
           RuleFires(rules[i], record)
    PROVE  Permits(i, seen) /\ RuleFires(rules[i], seen)
<1>1. record \in Records /\ rules \in RuleSets /\ i \in DOMAIN rules
  BY RuleSetsAssumption DEF IndexInv, SeesRecord
<1>2. \A field \in IndexedFields : seen[field] = record[field]
  <2>1. \A field \in IndexedFields : field \in Paths \ WildPaths
    BY PathsAssumption DEF Paths
  <2> QED
    BY <1>1, <2>1, ProjectKeepsPlainPaths DEF IndexInv, SeesRecord
<1>3. RuleFires(rules[i], seen)
  BY <1>1, ProjectionFiresAlike DEF IndexInv, SeesRecord
<1>4. i \in Bits(bySource, anySource, record["eventSource"])
  <2>1. /\ Completed(bySource, anySource)
        /\ Entered(bySource, anySource, i, "eventSource")
        /\ bySource \in [Values -> SUBSET (1..Len(rules))]
        /\ "eventSource" \in IndexedFields
    BY DEF IndexInv, BucketsComplete, EnteredSoFar, IndexTypeOK, IndexedFields
  <2> QED
    BY <1>1, <2>1, FiringRuleInBits
<1>5. i \in Bits(byName, anyName, record["eventName"])
  <2>1. /\ Completed(byName, anyName)
        /\ Entered(byName, anyName, i, "eventName")
        /\ byName \in [Values -> SUBSET (1..Len(rules))]
        /\ "eventName" \in IndexedFields
    BY DEF IndexInv, BucketsComplete, EnteredSoFar, IndexTypeOK, IndexedFields
  <2> QED
    BY <1>1, <2>1, FiringRuleInBits
<1> QED
  BY <1>2, <1>3, <1>4, <1>5 DEF Permits, IndexedFields

(* The other direction: what fires on the projection fires on the record.  *)
LEMMA SeenFiresOnRecord ==
    ASSUME IndexInv, pc = "walk", NEW i \in 1..Len(rules),
           RuleFires(rules[i], seen)
    PROVE  RuleFires(rules[i], record)
<1>1. record \in Records /\ rules \in RuleSets /\ i \in DOMAIN rules
  BY RuleSetsAssumption DEF IndexInv, SeesRecord
<1> QED
  BY <1>1, ProjectionFiresAlike DEF IndexInv, SeesRecord

-----------------------------------------------------------------------------
(* The invariant holds before the first rule is entered.                   *)
LEMMA IndexInit == Init => IndexInv
<1> SUFFICES ASSUME Init PROVE IndexInv
  OBVIOUS
<1> USE DEF Init
<1>1. rules \in Seq(Seq(Matches)) /\ Len(rules) \in Nat
  BY RuleSetsAssumption, LenProperties
<1>2. NoRecord \in [Paths -> Seq(Values)]
  BY DEF NoRecord
<1>3. IndexTypeOK
  BY <1>1, <1>2 DEF IndexTypeOK
<1> QED
  BY <1>1, <1>3 DEF IndexInv, EnteredSoFar, BucketsComplete, SeesRecord,
     WalkedPast, BuiltAtOne, DecisionIsLinear

(* Entering a rule keeps the earlier ones entered.                         *)
LEMMA BuildRuleKeeps == IndexInv /\ BuildRule => IndexInv'
<1> SUFFICES ASSUME IndexInv, BuildRule PROVE IndexInv'
  OBVIOUS
<1> USE DEF BuildRule
<1>0. /\ rules' = rules /\ pc = "build" /\ pc' = "build"
      /\ rules \in Seq(Seq(Matches)) /\ Len(rules) \in Nat
      /\ idx \in 1..Len(rules) /\ idx' = idx + 1
  BY LenProperties DEF IndexInv, IndexTypeOK
<1>1. IndexTypeOK'
  BY <1>0 DEF IndexInv, IndexTypeOK, InBuckets, InAny
<1>2. EnteredSoFar'
  <2> SUFFICES ASSUME NEW i \in 1..Len(rules), i < idx + 1
               PROVE  /\ Entered(bySource, anySource, i, "eventSource")'
                      /\ Entered(byName, anyName, i, "eventName")'
    BY <1>0 DEF EnteredSoFar
  <2>1. CASE i < idx
    <3>1. /\ Entered(bySource, anySource, i, "eventSource")
          /\ Entered(byName, anyName, i, "eventName")
      BY <1>0, <2>1 DEF IndexInv, EnteredSoFar
    <3>2. Entered(bySource, anySource, i, "eventSource")'
      BY <1>0, <3>1 DEF Entered, InBuckets, InAny
    <3>3. Entered(byName, anyName, i, "eventName")'
      BY <1>0, <3>1 DEF Entered, InBuckets, InAny
    <3> QED
      BY <3>2, <3>3
  <2>2. CASE i = idx
    <3>2. Entered(bySource, anySource, i, "eventSource")'
      BY <1>0, <2>2 DEF Entered, InBuckets, InAny
    <3>3. Entered(byName, anyName, i, "eventName")'
      BY <1>0, <2>2 DEF Entered, InBuckets, InAny
    <3> QED
      BY <3>2, <3>3
  <2> QED
    BY <1>0, <2>1, <2>2
<1> QED
  BY <1>0, <1>1, <1>2 DEF IndexInv, BucketsComplete, SeesRecord, WalkedPast,
     BuiltAtOne, DecisionIsLinear

(* The second pass only adds the unconstrained rules to buckets.           *)
LEMMA EndBuildKeeps == IndexInv /\ EndBuild => IndexInv'
<1> SUFFICES ASSUME IndexInv, EndBuild PROVE IndexInv'
  OBVIOUS
<1> USE DEF EndBuild
<1>0. /\ rules' = rules /\ pc = "build" /\ pc' = "built"
      /\ rules \in Seq(Seq(Matches)) /\ Len(rules) \in Nat
      /\ idx = Len(rules) + 1 /\ idx' = 1
  BY LenProperties DEF IndexInv, IndexTypeOK
<1>1. IndexTypeOK'
  <2>1. ASSUME NEW by \in [Values -> SUBSET (1..Len(rules))],
               NEW any \in SUBSET (1..Len(rules))
        PROVE  WithAny(by, any) \in [Values -> SUBSET (1..Len(rules))]
    BY DEF WithAny
  <2>2. /\ bySource' \in [Values -> SUBSET (1..Len(rules))]
        /\ byName' \in [Values -> SUBSET (1..Len(rules))]
    BY <2>1 DEF IndexInv, IndexTypeOK
  <2> QED
    BY <1>0, <2>2 DEF IndexInv, IndexTypeOK
<1>2. EnteredSoFar'
  <2> SUFFICES ASSUME NEW i \in 1..Len(rules)
               PROVE  /\ Entered(bySource, anySource, i, "eventSource")'
                      /\ Entered(byName, anyName, i, "eventName")'
    BY <1>0 DEF EnteredSoFar
  <2>1. /\ Entered(bySource, anySource, i, "eventSource")
        /\ Entered(byName, anyName, i, "eventName")
    BY <1>0 DEF IndexInv, EnteredSoFar
  <2>2. Entered(bySource, anySource, i, "eventSource")'
    BY <1>0, <2>1 DEF Entered, WithAny
  <2>3. Entered(byName, anyName, i, "eventName")'
    BY <1>0, <2>1 DEF Entered, WithAny
  <2> QED
    BY <2>2, <2>3
<1>3. BucketsComplete'
  BY DEF BucketsComplete, Completed, WithAny
<1> QED
  BY <1>0, <1>1, <1>2, <1>3 DEF IndexInv, SeesRecord, WalkedPast, BuiltAtOne,
     DecisionIsLinear

(* The index does not change while records are evaluated.                  *)
LEMMA IndexStays ==
    ASSUME IndexInv, pc # "build", pc' # "build", UNCHANGED <<rules, index>>
    PROVE  EnteredSoFar' /\ BucketsComplete' /\ (rules \in RuleSets)'
BY DEF IndexInv, EnteredSoFar, BucketsComplete, Completed, Entered, index

(* A record enters the evaluator whole, or projected when no rule has a    *)
(* wildcard.                                                               *)
LEMMA EvaluateKeeps ==
    ASSUME IndexInv, NEW rec \in Records, NEW raw \in BOOLEAN,
           Evaluate(rec, raw)
    PROVE  IndexInv'
<1> USE DEF Evaluate
<1>0. /\ UNCHANGED <<rules, index>> /\ pc = "built" /\ pc' = "walk"
      /\ idx' = idx /\ decision' = decision
  OBVIOUS
<1>1. rec \in [Paths -> Seq(Values)] /\ Project(rec) \in [Paths -> Seq(Values)]
  <2>1. rec \in [Paths -> Seq(Values)]
    BY RecordsAssumption
  <2>2. ASSUME NEW p \in Paths, rec[p] # <<>> PROVE rec[p][1] \in Values
    <3>1. rec[p] \in Seq(Values) /\ Len(rec[p]) \in Nat /\ Len(rec[p]) # 0
      BY <2>1, <2>2, EmptySeq, LenProperties
    <3> QED
      BY <3>1
  <2> QED
    BY <2>1, <2>2 DEF Project
<1>2. IndexTypeOK'
  BY <1>0, <1>1 DEF IndexInv, IndexTypeOK, index
<1>3. SeesRecord'
  BY <1>0 DEF SeesRecord
<1>4. WalkedPast'
  <2>1. idx' = 1
    BY <1>0 DEF IndexInv, BuiltAtOne
  <2> QED
    BY <2>1 DEF WalkedPast
<1> QED
  BY <1>0, <1>2, <1>3, <1>4, IndexStays DEF IndexInv, BuiltAtOne,
     DecisionIsLinear

(* A rule the walk passes does not fire; the one it stops at does, and no  *)
(* earlier one.                                                            *)
LEMMA WalkRuleKeeps == IndexInv /\ WalkRule => IndexInv'
<1> SUFFICES ASSUME IndexInv, WalkRule PROVE IndexInv'
  OBVIOUS
<1> USE DEF WalkRule
<1>0. /\ UNCHANGED <<rules, index, seen, record>> /\ pc = "walk"
      /\ Len(rules) \in Nat /\ idx \in 1..Len(rules)
      /\ pc' \in {"walk", "decided"}
  BY LenProperties DEF IndexInv, IndexTypeOK, Decide
<1>1. SeesRecord'
  BY <1>0 DEF IndexInv, SeesRecord
<1>2. CASE Permits(idx, seen) /\ RuleFires(rules[idx], seen) /\ Decide(idx)
  <2>1. RuleFires(rules[idx], record)
    BY <1>0, <1>2, SeenFiresOnRecord
  <2>2. pc' = "decided" /\ decision' = idx /\ idx' = idx
    BY <1>2 DEF Decide
  <2>3. DecisionIsLinear'
    BY <1>0, <2>1, <2>2 DEF DecisionIsLinear, EvaluateLinear, IndexInv,
       WalkedPast
  <2>4. IndexTypeOK'
    BY <1>0, <2>2 DEF IndexInv, IndexTypeOK, index
  <2> QED
    BY <1>0, <1>1, <2>2, <2>3, <2>4, IndexStays DEF IndexInv, WalkedPast,
       BuiltAtOne
<1>3. CASE /\ ~ (Permits(idx, seen) /\ RuleFires(rules[idx], seen))
           /\ idx' = idx + 1 /\ UNCHANGED <<pc, decision>>
  <2>1. ~ RuleFires(rules[idx], record)
    BY <1>0, <1>3, FiringRuleIsPermitted
  <2>2. WalkedPast'
    <3>1. ASSUME NEW i \in 1..(idx' - 1) PROVE ~ RuleFires(rules[i], record)
      BY <1>0, <1>3, <2>1 DEF IndexInv, WalkedPast
    <3> QED
      BY <1>0, <3>1 DEF WalkedPast
  <2>3. IndexTypeOK'
    BY <1>0, <1>3 DEF IndexInv, IndexTypeOK, index
  <2> QED
    BY <1>0, <1>1, <1>3, <2>2, <2>3, IndexStays DEF IndexInv,
       DecisionIsLinear, BuiltAtOne
<1> QED
  BY <1>2, <1>3

(* No rule fired: the walk ends in Keep, which is the oracle's answer too. *)
LEMMA WalkEndKeeps == IndexInv /\ WalkEnd => IndexInv'
<1> SUFFICES ASSUME IndexInv, WalkEnd PROVE IndexInv'
  OBVIOUS
<1> USE DEF WalkEnd, Decide
<1>0. /\ UNCHANGED <<rules, index, seen, record, idx>> /\ pc = "walk"
      /\ rules \in Seq(Seq(Matches)) /\ Len(rules) \in Nat
      /\ idx = Len(rules) + 1 /\ pc' = "decided" /\ decision' = 0
  BY LenProperties DEF IndexInv, IndexTypeOK
<1>1. DecisionIsLinear'
  <2>1. DOMAIN rules = 1..(idx - 1)
    BY <1>0
  <2>2. \A i \in DOMAIN rules : ~ RuleFires(rules[i], record)
    BY <1>0, <2>1 DEF IndexInv, WalkedPast
  <2> QED
    BY <1>0, <2>2 DEF DecisionIsLinear, EvaluateLinear
<1>2. IndexTypeOK'
  BY <1>0 DEF IndexInv, IndexTypeOK, index
<1>3. SeesRecord'
  BY <1>0 DEF IndexInv, SeesRecord
<1> QED
  BY <1>0, <1>1, <1>2, <1>3, IndexStays DEF IndexInv, WalkedPast, BuiltAtOne

(* Forgetting a decided record leaves the index as it was.                 *)
LEMMA ReturnKeeps == IndexInv /\ Return => IndexInv'
<1> SUFFICES ASSUME IndexInv, Return PROVE IndexInv'
  OBVIOUS
<1> USE DEF Return
<1>0. /\ UNCHANGED <<rules, index>> /\ pc = "decided" /\ pc' = "built"
      /\ Len(rules) \in Nat /\ idx' = 1 /\ decision' = 0
  BY LenProperties DEF IndexInv, IndexTypeOK
<1>1. IndexTypeOK'
  BY <1>0 DEF IndexInv, IndexTypeOK, index, NoRecord
<1> QED
  BY <1>0, <1>1, IndexStays DEF IndexInv, WalkedPast, SeesRecord,
     DecisionIsLinear, BuiltAtOne

(* IndexInv is an inductive invariant of the engine.                       *)
THEOREM IndexInvariant == Spec => []IndexInv
<1>1. IndexInv /\ [Next]_vars => IndexInv'
  <2> SUFFICES ASSUME IndexInv, [Next]_vars PROVE IndexInv'
    OBVIOUS
  <2>1. CASE BuildRule
    BY <2>1, BuildRuleKeeps
  <2>2. CASE EndBuild
    BY <2>2, EndBuildKeeps
  <2>3. CASE \E rec \in Records, raw \in BOOLEAN : Evaluate(rec, raw)
    BY <2>3, EvaluateKeeps
  <2>4. CASE WalkRule
    BY <2>4, WalkRuleKeeps
  <2>5. CASE WalkEnd
    BY <2>5, WalkEndKeeps
  <2>6. CASE Return
    BY <2>6, ReturnKeeps
  <2>7. CASE UNCHANGED vars
    BY <2>7 DEF vars, index, IndexInv, IndexTypeOK, EnteredSoFar, Entered,
       BucketsComplete, Completed, SeesRecord, WalkedPast, BuiltAtOne,
       DecisionIsLinear, EvaluateLinear
  <2> QED
    BY <2>1, <2>2, <2>3, <2>4, <2>5, <2>6, <2>7 DEF Next
<1> QED
  BY IndexInit, <1>1, PTL DEF Spec

(* For every ruleset whose extracted literals are conservative and every   *)
(* record, evaluate and evaluate_raw decide as evaluate_linear does, and   *)
(* name the same rule.                                                     *)
THEOREM IndexedDecisionIsLinear == Spec => []DecisionIsLinear
<1>1. IndexInv => DecisionIsLinear
  BY DEF IndexInv
<1> QED
  BY <1>1, IndexInvariant, PTL
=============================================================================
