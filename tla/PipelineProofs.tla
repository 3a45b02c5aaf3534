--------------------------- MODULE PipelineProofs ---------------------------
(***************************************************************************)
(* Pipeline::handle for every batch, every setting and every order in      *)
(* which the objects' futures run and fail.                                *)
(*                                                                         *)
(* The argument has three parts.  A future is described by what its place  *)
(* in process_object says it may write and has billed (FutureOK); one      *)
(* lemma, FutureAdvances, reduces every step of every future to that.      *)
(* Destination and counters follow by looking at one future at a time.     *)
(* Adjudication is described by the items that have failed so far, a       *)
(* function of the results taken and of the items classified.              *)
(***************************************************************************)
EXTENDS Pipeline, FiniteSetTheorems, SequenceTheorems, TLAPS

Pcs == {"waiting", "buffer", "stream", "copy", "put", "done"}
Contents == {"absent", "filtered", "source"}

Futures == [item : Nat, object : Objects, pc : Pcs, res : Results, put : Contents]

Errors == Results \cup {"Decode", "Config", "SelfTrigger"}

(* The shape of handle's state.                                            *)
PipelineTypeOK ==
    /\ \E c \in Cases : cfg = c.cfg /\ batch = c.batch
    /\ phase \in {"decode", "config", "classify", "run", "returned"}
    /\ engine \in BOOLEAN
    /\ item \in 1..(Len(batch) + 1)
    /\ obj \in Nat
    /\ work \in Seq(Futures)
    /\ taken \in 0..Len(work)
    /\ failed \subseteq DOMAIN batch
    /\ hard \in [item : Nat, err : Errors]
    /\ m \in [Counters -> Nat]
    /\ dest \in [Keys -> Contents]
    /\ outcome \in [err : Errors, item : Nat, failed : SUBSET Nat]
    /\ emitted \in [Counters -> Nat]

(* What the passes have left alone so far.                                 *)
PhaseInv ==
    /\ phase \in {"decode", "config"} => work = <<>> /\ item = 1 /\ obj = 0
    /\ phase \in {"decode", "config", "classify"} \/ outcome.err = "SelfTrigger" =>
          /\ taken = 0
          /\ \A w \in DOMAIN work : work[w].pc = "waiting"
          /\ \A k \in Keys : dest[k] = "absent"
    /\ phase \in {"classify", "run"} => engine \/ cfg.config = "open"
    /\ phase = "run" => item > Len(batch)
    /\ obj > 0 => /\ item <= Len(batch) /\ ~ batch[item].bad
                  /\ obj <= Len(batch[item].objects) + 1
    /\ phase # "returned" => outcome.err = "none"

-----------------------------------------------------------------------------
(* What the settings let object o have at the destination.                 *)
Puttable(o, what) ==
    \/ what = "filtered" /\ engine /\ ~ cfg.dryRun /\ o.verdict = "Written"
    \/ what = "source" /\ ~ engine /\ cfg.config = "open"
    \/ /\ what = "source" /\ engine /\ ~ cfg.dryRun
       /\ \/ o.verdict = "Unrecognized" /\ cfg.unrecognized = "copy"
          \/ o.verdict = "Unparsable" /\ cfg.parse = "copy"

(* A future is about an object of the batch that passed pass 1, and before *)
(* a write it has established that the settings allow it.                  *)
FutureOK(f) ==
    /\ f.item \in DOMAIN batch /\ ~ batch[f.item].bad
    /\ \E j \in DOMAIN batch[f.item].objects : f.object = batch[f.item].objects[j]
    /\ f.object.allowed /\ ~ f.object.loops
    /\ f.pc = "done" <=> f.res # "none"
    /\ f.pc \in {"buffer", "stream", "put"} => engine
    /\ f.pc = "put" => Puttable(f.object, f.put)
    /\ f.pc = "copy" => Puttable(f.object, "source")
    /\ f.res = "skipped" => cfg.missing = "skip"

FutureInv == \A w \in DOMAIN work : FutureOK(work[w])

TakenInv == \A w \in 1..taken : work[w].pc = "done"

(* What is at a key was put there for an object that may have it there.    *)
DestInv ==
    \A k \in Keys : dest[k] # "absent" =>
        \E w \in DOMAIN work : work[w].object.key = k /\ Puttable(work[w].object, dest[k])

OkInv == \A w \in DOMAIN work : work[w].res = "ok" => Settled(work[w].object)

-----------------------------------------------------------------------------
(* The items that have a failure among the results taken and the items     *)
(* classified.                                                             *)
FailedSoFar(i) ==
    \/ i < item /\ batch[i].bad
    \/ \E w \in 1..taken : work[w].item = i /\ ~ Succeeded(w)

HardSoFar == {i \in DOMAIN batch : FailedSoFar(i) /\ ~ Isolated(i)}

AttributionInv ==
    /\ failed = {i \in DOMAIN batch : FailedSoFar(i) /\ Isolated(i)}
    /\ hard = NoHard <=> HardSoFar = {}
    /\ hard # NoHard =>
          /\ hard.item \in HardSoFar /\ \A i \in HardSoFar : hard.item <= i
          /\ hard.err \notin {"none", "SelfTrigger"}

-----------------------------------------------------------------------------
(* Where a future may have billed its object's bytes, and where it must.   *)
MayBill(f) == f.pc \in {"put", "done"} \/ (f.pc = "copy" /\ engine)
MustBill(f) == f.pc = "put" \/ (f.pc = "copy" /\ engine) \/ f.res = "ok"

Tallied(f) == engine /\ f.res = "ok" /\ f.object.verdict \in {"Written", "NothingKept"}

References ==
    {r \in (DOMAIN batch) \X (1..MaxRefs) :
        ~ batch[r[1]].bad /\ r[2] <= Len(batch[r[1]].objects)}

(* The references pass 1 has got past.                                     *)
RefsBelow == {r \in References : r[1] < item \/ (r[1] = item /\ r[2] < obj)}

(* The counters in c count what has happened to the objects.               *)
Counts(c) ==
    /\ c["ObjectsProcessed"] = Cardinality({w \in DOMAIN work : work[w].res = "ok"})
    /\ c["ObjectsSkipped"] = Cardinality({w \in DOMAIN work : work[w].res = "skipped"})
    /\ c["ObjectsFailed"] = Cardinality({w \in 1..taken : ~ Succeeded(w)})
    /\ c["Tallies"] = Cardinality({w \in DOMAIN work : Tallied(work[w])})
    /\ c["BytesIn"] <= Cardinality({w \in DOMAIN work : MayBill(work[w])})
    /\ Cardinality({w \in DOMAIN work : MustBill(work[w])}) <= c["BytesIn"]
    /\ c["ObjectsExcludedByKey"] + Len(work) = Cardinality(RefsBelow)

CountInv == phase # "returned" => Counts(m)

(* What handle has returned, and that it waited for every object.          *)
ReturnInv ==
    /\ Completed =>
          /\ taken = Len(work) /\ item > Len(batch)
          /\ Counts(emitted)
          /\ \/ hard = NoHard /\ outcome.err = "none" /\ outcome.failed = {i \in failed : batch[i].ack}
             \/ hard # NoHard /\ outcome.err = hard.err /\ outcome.item = hard.item
    /\ outcome.err = "SelfTrigger" => emitted["BytesIn"] = 0

PipelineInv ==
    /\ PipelineTypeOK /\ PhaseInv
    /\ FutureInv /\ TakenInv /\ DestInv /\ OkInv
    /\ AttributionInv
    /\ CountInv /\ ReturnInv

-----------------------------------------------------------------------------
(* The batch and the settings are those of a case.                         *)
LEMMA BatchFacts ==
    ASSUME PipelineTypeOK
    PROVE  /\ batch \in Seq(Items) /\ Len(batch) \in Nat /\ DOMAIN batch = 1..Len(batch)
           /\ cfg \in Settings /\ MaxRefs \in Nat
           /\ \A i \in DOMAIN batch :
                /\ batch[i].bad \in BOOLEAN /\ batch[i].ack \in BOOLEAN
                /\ batch[i].objects \in Seq(Objects) /\ Len(batch[i].objects) \in Nat
                /\ DOMAIN batch[i].objects = 1..Len(batch[i].objects)
                /\ Len(batch[i].objects) <= MaxRefs
                /\ \A j \in DOMAIN batch[i].objects :
                      batch[i].objects[j] \in Objects /\ batch[i].objects[j].key \in Keys
<1>1. PICK c \in Cases : cfg = c.cfg /\ batch = c.batch
  BY DEF PipelineTypeOK
<1>2. /\ batch \in Seq(Items) /\ cfg \in Settings /\ MaxRefs \in Nat
      /\ \A i \in DOMAIN batch : Len(batch[i].objects) <= MaxRefs
  BY <1>1, CasesAssumption
<1>3. Len(batch) \in Nat /\ DOMAIN batch = 1..Len(batch)
  BY <1>2, LenProperties
<1>4. ASSUME NEW i \in DOMAIN batch
      PROVE  /\ batch[i].bad \in BOOLEAN /\ batch[i].ack \in BOOLEAN
             /\ batch[i].objects \in Seq(Objects) /\ Len(batch[i].objects) \in Nat
             /\ DOMAIN batch[i].objects = 1..Len(batch[i].objects)
             /\ \A j \in DOMAIN batch[i].objects :
                      batch[i].objects[j] \in Objects /\ batch[i].objects[j].key \in Keys
  <2>1. batch[i] \in Items
    BY <1>2, <1>3, ElementOfSeq
  <2>2. /\ batch[i].bad \in BOOLEAN /\ batch[i].ack \in BOOLEAN /\ batch[i].objects \in Seq(Objects)
    BY <2>1 DEF Items
  <2>3. Len(batch[i].objects) \in Nat /\ DOMAIN batch[i].objects = 1..Len(batch[i].objects)
    BY <2>2, LenProperties
  <2>4. ASSUME NEW j \in DOMAIN batch[i].objects
        PROVE  batch[i].objects[j] \in Objects /\ batch[i].objects[j].key \in Keys
    <3>1. batch[i].objects[j] \in Objects
      BY <2>2, <2>3, ElementOfSeq
    <3> DEFINE KeysOf(x) == {x.objects[l].key : l \in DOMAIN x.objects}
               KeysIn(b) == UNION {KeysOf(b[k]) : k \in DOMAIN b}
    <3>2. batch[i].objects[j].key \in KeysOf(batch[i])
      OBVIOUS
    <3> HIDE DEF KeysOf
    <3>3. batch[i].objects[j].key \in KeysIn(c.batch)
      BY <1>1, <3>2
    <3> HIDE DEF KeysIn
    <3>4. batch[i].objects[j].key \in UNION {KeysIn(d.batch) : d \in Cases}
      BY <3>3
    <3>5. Keys = UNION {KeysIn(d.batch) : d \in Cases}
      BY DEF Keys, KeysOf, KeysIn
    <3> QED
      BY <3>1, <3>4, <3>5
  <2> QED
    BY <2>2, <2>3, <2>4
<1> QED
  BY <1>2, <1>3, <1>4

(* Two references with one key.                                            *)
LEMMA SameKey ==
    ASSUME PipelineTypeOK, NEW i \in DOMAIN batch, NEW k \in DOMAIN batch,
           NEW j \in DOMAIN batch[i].objects, NEW l \in DOMAIN batch[k].objects,
           batch[i].objects[j].key = batch[k].objects[l].key
    PROVE  /\ batch[i].objects[j].verdict = batch[k].objects[l].verdict
           /\ batch[i].objects[j].allowed = batch[k].objects[l].allowed
           /\ batch[i].objects[j].loops = batch[k].objects[l].loops
<1>1. PICK c \in Cases : batch = c.batch
  BY DEF PipelineTypeOK
<1> QED
  BY <1>1, KeysAssumption

(* The futures, and sets of them.                                          *)
LEMMA WorkFacts ==
    ASSUME PipelineTypeOK
    PROVE  /\ Len(work) \in Nat /\ DOMAIN work = 1..Len(work) /\ taken \in Nat
           /\ 1..taken \subseteq DOMAIN work
           /\ \A w \in DOMAIN work : work[w] \in Futures
           /\ \A S \in SUBSET DOMAIN work : IsFiniteSet(S) /\ Cardinality(S) \in Nat
<1>1. Len(work) \in Nat /\ DOMAIN work = 1..Len(work) /\ work \in Seq(Futures)
  BY LenProperties DEF PipelineTypeOK
<1>2. taken \in Nat /\ 1..taken \subseteq DOMAIN work
  BY <1>1 DEF PipelineTypeOK
<1>3. \A w \in DOMAIN work : work[w] \in Futures
  BY <1>1, ElementOfSeq
<1>4. IsFiniteSet(DOMAIN work)
  BY <1>1, FS_Interval
<1>5. \A S \in SUBSET DOMAIN work : IsFiniteSet(S)
  BY <1>4, FS_Subset
<1> QED
  BY <1>1, <1>2, <1>3, <1>5, FS_CardinalityType

(* The references of the batch.                                            *)
LEMMA ReferencesFinite ==
    ASSUME PipelineTypeOK
    PROVE  \A S \in SUBSET References : IsFiniteSet(S) /\ Cardinality(S) \in Nat
<1>1. Len(batch) \in Nat /\ DOMAIN batch = 1..Len(batch) /\ MaxRefs \in Nat
  BY BatchFacts
<1>2. IsFiniteSet(DOMAIN batch) /\ IsFiniteSet(1..MaxRefs)
  BY <1>1, FS_Interval
<1>3. IsFiniteSet((DOMAIN batch) \X (1..MaxRefs))
  BY <1>2, FS_Product
<1>4. References \in SUBSET ((DOMAIN batch) \X (1..MaxRefs))
  BY DEF References
<1>5. IsFiniteSet(References)
  BY <1>3, <1>4, FS_Subset
<1>6. \A S \in SUBSET References : IsFiniteSet(S)
  BY <1>5, FS_Subset
<1> QED
  BY <1>6, FS_CardinalityType

(* Of a set and one more element, those a property holds of.               *)
LEMMA OneMore ==
    ASSUME NEW T, IsFiniteSet(T), NEW U, NEW k, k \notin T, NEW B \in BOOLEAN,
           U = IF B THEN T \cup {k} ELSE T
    PROVE  Cardinality(U) = Cardinality(T) + (IF B THEN 1 ELSE 0)
<1>1. Cardinality(T) \in Nat
  BY FS_CardinalityType
<1>2. CASE B
  BY <1>1, <1>2, FS_AddElement
<1>3. CASE ~ B
  BY <1>1, <1>3
<1> QED
  BY <1>2, <1>3

(* The metrics after a step.                                               *)
LEMMA PlusFacts ==
    ASSUME PipelineTypeOK, NEW C \in SUBSET Counters
    PROVE  /\ Plus(C) \in [Counters -> Nat]
           /\ \A c \in Counters : Plus(C)[c] = m[c] + (IF c \in C THEN 1 ELSE 0) /\ m[c] \in Nat
<1>1. \A c \in Counters : m[c] \in Nat
  BY DEF PipelineTypeOK
<1> QED
  BY <1>1 DEF Plus

(* The state handle starts in.                                             *)
LEMMA PipelineInit == Init => PipelineInv
<1> SUFFICES ASSUME Init PROVE PipelineInv
  OBVIOUS
<1>0. <<>> \in Seq(Futures) /\ Len(<<>>) = 0 /\ DOMAIN <<>> = {}
  BY EmptySeq
<1>1. work = <<>> /\ taken = 0 /\ item = 1 /\ obj = 0 /\ phase = "decode" /\ 1..taken = {}
        /\ DOMAIN work = {} /\ Len(work) = 0
  BY <1>0 DEF Init
<1>2. Len(batch) \in Nat /\ DOMAIN batch = 1..Len(batch)
  BY CasesAssumption, LenProperties DEF Init
<1>3. PipelineTypeOK
  <2>1. Zero \in [Counters -> Nat] /\ Zero["BytesIn"] = 0
    BY DEF Zero, Counters
  <2>2. dest \in [Keys -> Contents]
    BY DEF Init, Contents
  <2>3. item \in 1..(Len(batch) + 1) /\ taken \in 0..Len(work)
    BY <1>1, <1>2
  <2>4. hard \in [item : Nat, err : Errors] /\ outcome \in [err : Errors, item : Nat, failed : SUBSET Nat]
    BY DEF Init, NoHard, Errors, Results
  <2> QED
    BY <1>0, <1>1, <2>1, <2>2, <2>3, <2>4 DEF Init, PipelineTypeOK
<1>4. PhaseInv /\ FutureInv /\ TakenInv /\ DestInv /\ OkInv
  BY <1>1 DEF Init, PhaseInv, FutureInv, TakenInv, DestInv, OkInv
<1>5. AttributionInv
  <2>1. \A i \in DOMAIN batch : ~ FailedSoFar(i)
    BY <1>1, <1>2 DEF FailedSoFar
  <2> QED
    BY <2>1 DEF Init, AttributionInv, HardSoFar
<1>6. CountInv
  <2>1. Cardinality({}) = 0
    BY FS_EmptySet
  <2>2. RefsBelow = {}
    BY <1>1, <1>2 DEF RefsBelow, References
  <2>3. \A c \in Counters : m[c] = 0
    BY DEF Init, Zero
  <2>4. /\ {w \in DOMAIN work : work[w].res = "ok"} = {}
        /\ {w \in DOMAIN work : work[w].res = "skipped"} = {}
        /\ {w \in 1..taken : ~ Succeeded(w)} = {}
        /\ {w \in DOMAIN work : Tallied(work[w])} = {}
        /\ {w \in DOMAIN work : MayBill(work[w])} = {}
        /\ {w \in DOMAIN work : MustBill(work[w])} = {}
    BY <1>1
  <2>5. /\ m["ObjectsProcessed"] = 0 /\ m["ObjectsSkipped"] = 0 /\ m["ObjectsFailed"] = 0
        /\ m["Tallies"] = 0 /\ m["BytesIn"] = 0 /\ m["ObjectsExcludedByKey"] = 0
    BY <2>3 DEF Counters
  <2> QED
    BY <1>1, <2>1, <2>2, <2>4, <2>5 DEF CountInv, Counts
<1>7. ReturnInv
  BY <1>1 DEF Init, ReturnInv, Completed
<1> QED
  BY <1>3, <1>4, <1>5, <1>6, <1>7 DEF PipelineInv

-----------------------------------------------------------------------------
(* One step of the future of work[w]: it, and nothing else of pass 2,      *)
(* moves on to a place it may be in; the destination changes only to what  *)
(* its object may have there; and the counters C fit where it has got to.  *)
Advances(w, C) ==
    /\ phase = "run" /\ w \in DOMAIN work /\ work[w].pc # "done"
    /\ work' \in Seq(Futures) /\ Len(work') = Len(work)
    /\ \A v \in DOMAIN work : v # w => work'[v] = work[v]
    /\ work'[w].item = work[w].item /\ work'[w].object = work[w].object
    /\ C \in SUBSET Counters /\ m' = Plus(C) /\ UNCHANGED runUnchanged
    /\ FutureOK(work'[w])
    /\ \/ dest' = dest
       \/ \E what \in {"filtered", "source"} :
             Puttable(work[w].object, what) /\ dest' = [dest EXCEPT ![work[w].object.key] = what]
    /\ work'[w].res = "ok" => Settled(work[w].object)'
    /\ "ObjectsFailed" \notin C /\ "ObjectsExcludedByKey" \notin C
    /\ "ObjectsProcessed" \in C <=> work'[w].res = "ok"
    /\ "ObjectsSkipped" \in C <=> work'[w].res = "skipped"
    /\ "Tallies" \in C <=> Tallied(work'[w])
    /\ MayBill(work[w]) => MayBill(work'[w])
    /\ "BytesIn" \in C => ~ MayBill(work[w]) /\ MayBill(work'[w])
    /\ MustBill(work'[w]) => MustBill(work[w]) \/ "BytesIn" \in C

(* Replacing one future.                                                   *)
LEMMA FutureReplaced ==
    ASSUME PipelineTypeOK, NEW w \in DOMAIN work, NEW f \in Futures, work' = [work EXCEPT ![w] = f]
    PROVE  /\ work' \in Seq(Futures) /\ Len(work') = Len(work) /\ work'[w] = f
           /\ \A v \in DOMAIN work : v # w => work'[v] = work[v]
<1>1. work \in Seq(Futures) /\ DOMAIN work = 1..Len(work)
  BY WorkFacts DEF PipelineTypeOK
<1> QED
  BY <1>1, ExceptSeq

(* A future goes on.                                                       *)
LEMMA GotoAdvances ==
    ASSUME PipelineInv, NEW w \in DOMAIN work, phase = "run",
           work[w].pc \in {"waiting", "buffer", "stream"},
           NEW pc \in {"buffer", "stream", "copy", "put"}, NEW put \in Contents, Goto(w, pc, put),
           NEW C \in SUBSET {"BytesIn", "UnrecognizedObjects", "ObjectsCopiedUnparsed"}, Count(C),
           UNCHANGED <<runUnchanged, dest>>,
           pc \in {"buffer", "stream", "put"} => engine,
           pc = "put" => Puttable(work[w].object, put),
           pc = "copy" => Puttable(work[w].object, "source"),
           "BytesIn" \in C <=> pc = "put" \/ (pc = "copy" /\ engine)
    PROVE  Advances(w, C)
<1> USE DEF PipelineInv
<1>1. work[w] \in Futures /\ FutureOK(work[w]) /\ work[w].res = "none"
  <2>1. work[w] \in Futures /\ FutureOK(work[w])
    BY WorkFacts DEF FutureInv
  <2> QED
    BY <2>1 DEF FutureOK, Futures
<1> DEFINE f == [work[w] EXCEPT !.pc = pc, !.put = put]
<1>2. /\ f \in Futures /\ f.pc = pc /\ f.put = put /\ f.res = "none"
      /\ f.item = work[w].item /\ f.object = work[w].object
  BY <1>1 DEF Futures, Pcs
<1>3. work' = [work EXCEPT ![w] = f]
  BY <1>1 DEF Goto, Futures
<1> HIDE DEF f
<1>4. /\ work' \in Seq(Futures) /\ Len(work') = Len(work) /\ work'[w] = f
      /\ \A v \in DOMAIN work : v # w => work'[v] = work[v]
  BY <1>2, <1>3, FutureReplaced
<1>5. FutureOK(f)
  BY <1>1, <1>2 DEF FutureOK
<1>6. m' = Plus(C) /\ C \in SUBSET Counters
  BY DEF Count, Counters
<1>7. /\ "ObjectsFailed" \notin C /\ "ObjectsExcludedByKey" \notin C
      /\ "ObjectsProcessed" \notin C /\ "ObjectsSkipped" \notin C /\ "Tallies" \notin C
      /\ f.res # "ok" /\ f.res # "skipped" /\ ~ Tallied(f)
  BY <1>2 DEF Tallied
<1>8. /\ ~ MayBill(work[w])
      /\ "BytesIn" \in C => MayBill(f)
      /\ MustBill(f) => "BytesIn" \in C
  BY <1>2 DEF MayBill, MustBill
<1> QED
  BY <1>4, <1>5, <1>6, <1>7, <1>8, <1>2 DEF Advances

(* A future ends.                                                          *)
LEMMA FinishAdvances ==
    ASSUME PipelineInv, NEW w \in DOMAIN work, phase = "run", work[w].pc # "done",
           NEW res \in Results, res # "none", NEW C \in SUBSET Counters, Finish(w, res, C),
           UNCHANGED runUnchanged,
           \/ dest' = dest
           \/ \E what \in {"filtered", "source"} :
                 Puttable(work[w].object, what) /\ dest' = [dest EXCEPT ![work[w].object.key] = what],
           NEW o, o = work[w].object, res = "ok" => Settled(o)',
           res = "skipped" => cfg.missing = "skip",
           "ObjectsFailed" \notin C, "ObjectsExcludedByKey" \notin C,
           "ObjectsProcessed" \in C <=> res = "ok",
           "ObjectsSkipped" \in C <=> res = "skipped",
           "Tallies" \in C <=> engine /\ res = "ok" /\ o.verdict \in {"Written", "NothingKept"},
           "BytesIn" \in C => ~ MayBill(work[w]),
           res = "ok" => MustBill(work[w]) \/ "BytesIn" \in C
    PROVE  Advances(w, C)
<1> USE DEF PipelineInv
<1>1. work[w] \in Futures /\ FutureOK(work[w])
  BY WorkFacts DEF FutureInv
<1> DEFINE f == [work[w] EXCEPT !.pc = "done", !.res = res]
<1>2. /\ f \in Futures /\ f.pc = "done" /\ f.res = res
      /\ f.item = work[w].item /\ f.object = work[w].object
  BY <1>1 DEF Futures, Pcs
<1>3. work' = [work EXCEPT ![w] = f]
  BY <1>1 DEF Finish, Futures
<1> HIDE DEF f
<1>4. /\ work' \in Seq(Futures) /\ Len(work') = Len(work) /\ work'[w] = f
      /\ \A v \in DOMAIN work : v # w => work'[v] = work[v]
  BY <1>2, <1>3, FutureReplaced
<1>5. FutureOK(f)
  BY <1>1, <1>2 DEF FutureOK
<1>6. m' = Plus(C)
  BY DEF Finish, Count
<1>7. "Tallies" \in C <=> Tallied(f)
  BY <1>2 DEF Tallied
<1>8. MayBill(f) /\ (MustBill(f) => f.res = "ok")
  BY <1>2 DEF MayBill, MustBill
<1>9. work'[w].res = "ok" => Settled(work[w].object)'
  BY <1>2, <1>4
<1> QED
  BY <1>2, <1>4, <1>5, <1>6, <1>7, <1>8, <1>9 DEF Advances

(* The object of a future is one of the batch's.                           *)
LEMMA FutureObject ==
    ASSUME PipelineInv, NEW w \in DOMAIN work
    PROVE  /\ work[w].object \in Objects /\ work[w].object.key \in Keys
           /\ work[w].object.verdict \in Verdicts
           /\ FutureOK(work[w]) /\ work[w] \in Futures
<1>1. FutureOK(work[w]) /\ work[w] \in Futures
  BY WorkFacts DEF PipelineInv, FutureInv
<1>2. work[w].object.key \in Keys
  BY <1>1, BatchFacts DEF FutureOK, PipelineInv
<1> QED
  BY <1>1, <1>2 DEF Futures, Objects

(* A write leaves at the object's key what was written.                    *)
LEMMA WriteSettles ==
    ASSUME PipelineInv, NEW w \in DOMAIN work, NEW what, Puttable(work[w].object, what),
           Write(w, what), UNCHANGED runUnchanged, NEW o, o = work[w].object
    PROVE  /\ Settled(o)' /\ what \in {"filtered", "source"}
           /\ dest' = [dest EXCEPT ![work[w].object.key] = what]
<1>1. o.key \in Keys /\ dest \in [Keys -> Contents]
  BY FutureObject DEF PipelineInv, PipelineTypeOK
<1>2. dest'[o.key] = what
  BY <1>1 DEF Write
<1>3. UNCHANGED <<cfg, engine>>
  BY DEF runUnchanged
<1> QED
  BY <1>2, <1>3 DEF Settled, Puttable, Write

(* Nothing to write.                                                       *)
LEMMA NothingKeptAdvances ==
    ASSUME PipelineInv, NEW w \in DOMAIN work, phase = "run", work[w].pc \in {"buffer", "stream"},
           SettleNothingKept(w), UNCHANGED <<runUnchanged, dest>>
    PROVE  \E C \in SUBSET Counters : Advances(w, C)
<1> DEFINE C == {"BytesIn", "Tallies", "ObjectsProcessed"}
<1>1. PICK o : o = work[w].object
  OBVIOUS
<1>2. engine /\ o.verdict = "NothingKept" /\ ~ MayBill(work[w]) /\ Finish(w, "ok", C)
  BY <1>1, FutureObject DEF FutureOK, SettleNothingKept, MayBill
<1>3. Settled(o)'
  BY <1>2 DEF runUnchanged, Settled
<1>4. Advances(w, C)
  BY <1>1, <1>2, <1>3, FinishAdvances DEF Counters, Results
<1> QED
  BY <1>4 DEF Counters

(* A source that is no CloudTrail envelope, or cannot be parsed.           *)
LEMMA UnfilteredAdvances ==
    ASSUME PipelineInv, NEW w \in DOMAIN work, phase = "run", work[w].pc \in {"buffer", "stream"},
           NEW copier \in {"put", "copy"},
           SettleUnrecognized(w, copier) \/ SettleUnparsable(w, copier), UNCHANGED <<runUnchanged, dest>>
    PROVE  \E C \in SUBSET Counters : Advances(w, C)
<1>1. PICK o : o = work[w].object
  OBVIOUS
<1>2. /\ engine /\ ~ MayBill(work[w]) /\ o.verdict \in {"Unrecognized", "Unparsable"}
      /\ work[w].pc # "done" /\ UNCHANGED <<cfg, engine, dest>> /\ cfg \in Settings
  BY <1>1, FutureObject, BatchFacts DEF FutureOK, SettleUnrecognized, SettleUnparsable, MayBill,
     runUnchanged, PipelineInv
<1>3. ASSUME NEW C, C \in {{"BytesIn", "UnrecognizedObjects"}, {"BytesIn", "ObjectsCopiedUnparsed"}},
             Goto(w, copier, "source"), Count(C), Puttable(o, "source")
      PROVE  \E D \in SUBSET Counters : Advances(w, D)
  <2>1. Advances(w, C)
    BY <1>1, <1>2, <1>3, GotoAdvances DEF Contents
  <2> QED
    BY <1>3, <2>1 DEF Counters
<1>4. ASSUME NEW C, C \in {{"BytesIn", "UnrecognizedObjects", "ObjectsProcessed"},
                           {"BytesIn", "ObjectsCopiedUnparsed", "ObjectsProcessed"}},
             Finish(w, "ok", C), Settled(o)'
      PROVE  \E D \in SUBSET Counters : Advances(w, D)
  <2>1. Advances(w, C)
    BY <1>1, <1>2, <1>4, FinishAdvances DEF Counters, Results
  <2> QED
    BY <1>4, <2>1 DEF Counters
<1>5. ASSUME NEW C, C \in {{"BytesIn", "UnrecognizedObjects"}, {"BytesIn"}},
             NEW res, res \in {"UnrecognizedObject", "Unparsable"}, Finish(w, res, C)
      PROVE  \E D \in SUBSET Counters : Advances(w, D)
  <2>1. Advances(w, C)
    BY <1>1, <1>2, <1>5, FinishAdvances DEF Counters, Results
  <2> QED
    BY <1>5, <2>1 DEF Counters
<1>6. CASE SettleUnrecognized(w, copier)
  <2>0. o.verdict = "Unrecognized"
    BY <1>1, <1>6 DEF SettleUnrecognized
  <2>1. CASE /\ cfg.dryRun \/ cfg.unrecognized = "skip"
             /\ Finish(w, "ok", {"BytesIn", "UnrecognizedObjects", "ObjectsProcessed"})
    <3>1. Settled(o)'
      BY <1>2, <2>0, <2>1 DEF Settled
    <3> QED
      BY <1>4, <2>1, <3>1
  <2>2. CASE /\ ~ cfg.dryRun /\ cfg.unrecognized = "copy"
             /\ Goto(w, copier, "source") /\ Count({"BytesIn", "UnrecognizedObjects"})
    <3>1. Puttable(o, "source")
      BY <1>2, <2>0, <2>2 DEF Puttable
    <3> QED
      BY <1>3, <2>2, <3>1
  <2>3. CASE Finish(w, "UnrecognizedObject", {"BytesIn", "UnrecognizedObjects"})
    BY <1>5, <2>3
  <2> QED
    BY <1>6, <2>1, <2>2, <2>3 DEF SettleUnrecognized
<1>7. CASE SettleUnparsable(w, copier)
  <2>0. o.verdict = "Unparsable"
    BY <1>1, <1>7 DEF SettleUnparsable
  <2>1. CASE Finish(w, "Unparsable", {"BytesIn"})
    BY <1>5, <2>1
  <2>2. CASE cfg.dryRun /\ Finish(w, "ok", {"BytesIn", "ObjectsCopiedUnparsed", "ObjectsProcessed"})
    <3>1. Settled(o)'
      BY <1>2, <2>2 DEF Settled
    <3> QED
      BY <1>4, <2>2, <3>1
  <2>3. CASE /\ cfg.parse = "copy" /\ ~ cfg.dryRun
             /\ Goto(w, copier, "source") /\ Count({"BytesIn", "ObjectsCopiedUnparsed"})
    <3>1. Puttable(o, "source")
      BY <1>2, <2>0, <2>3 DEF Puttable
    <3> QED
      BY <1>3, <2>3, <3>1
  <2> QED
    BY <1>7, <2>1, <2>2, <2>3 DEF SettleUnparsable
<1> QED
  BY <1>6, <1>7

(* Opening the source: it starts, is missing, cannot be read, or is too    *)
(* large.                                                                  *)
LEMMA OpenAdvances ==
    ASSUME PipelineInv, NEW w \in DOMAIN work,
           Start(w) \/ OpenMissing(w) \/ OpenFailed(w) \/ BufferTooLarge(w)
    PROVE  \E C \in SUBSET Counters : Advances(w, C)
<1>1. PICK o : o = work[w].object
  OBVIOUS
<1>2. /\ phase = "run" /\ work[w].pc \in {"waiting", "buffer", "stream", "copy"}
      /\ UNCHANGED <<runUnchanged, dest>> /\ UNCHANGED <<cfg, engine>>
      /\ engine \/ cfg.config = "open"
  BY DEF Start, OpenMissing, OpenFailed, BufferTooLarge, At, runUnchanged, PipelineInv, PhaseInv
<1>3. CASE Start(w)
  <2>1. work[w].pc = "waiting" /\ m' = m
    BY <1>3 DEF Start, At
  <2>2. Count({})
    <3>1. Plus({}) = m
      BY DEF Plus, PipelineInv, PipelineTypeOK
    <3> QED
      BY <2>1, <3>1 DEF Count
  <2>3. CASE engine
    <3>1. PICK pc \in {"buffer", "stream"} : Goto(w, pc, "absent")
      BY <1>3, <2>3, BatchFacts DEF Start, SelectMode, Settings, PipelineInv
    <3>2. Advances(w, {})
      BY <1>2, <2>1, <2>2, <2>3, <3>1, GotoAdvances DEF Contents
    <3> QED
      BY <3>2
  <2>4. CASE ~ engine
    <3>1. Goto(w, "copy", "absent") /\ Puttable(work[w].object, "source")
      BY <1>2, <1>3, <2>4 DEF Start, Puttable
    <3>2. Advances(w, {})
      BY <1>2, <2>1, <2>2, <2>4, <3>1, GotoAdvances DEF Contents
    <3> QED
      BY <3>2
  <2> QED
    BY <2>3, <2>4
<1>4. CASE OpenMissing(w)
  <2>1. CASE cfg.missing = "skip" /\ Finish(w, "skipped", {"ObjectsSkipped"})
    <3>1. Advances(w, {"ObjectsSkipped"})
      BY <1>1, <1>2, <2>1, FinishAdvances DEF Counters, Results
    <3> QED
      BY <3>1 DEF Counters
  <2>2. CASE Finish(w, "NotFound", {})
    <3>1. Advances(w, {})
      BY <1>1, <1>2, <2>2, FinishAdvances DEF Counters, Results
    <3> QED
      BY <3>1
  <2> QED
    BY <1>4, <2>1, <2>2 DEF OpenMissing
<1>5. CASE OpenFailed(w)
  <2>1. Advances(w, {})
    BY <1>1, <1>2, <1>5, FinishAdvances DEF Counters, Results, OpenFailed
  <2> QED
    BY <2>1
<1>6. CASE BufferTooLarge(w)
  <2>0. work[w].pc = "buffer" /\ engine /\ ~ MayBill(work[w])
    BY <1>6, FutureObject DEF BufferTooLarge, At, FutureOK, MayBill
  <2>1. CASE Goto(w, "stream", "absent") /\ m' = m
    <3>1. Count({})
      BY <2>1 DEF Count, Plus, PipelineInv, PipelineTypeOK
    <3>2. Advances(w, {})
      BY <1>2, <2>0, <2>1, <3>1, GotoAdvances DEF Contents
    <3> QED
      BY <3>2
  <2>2. ASSUME NEW C \in SUBSET {"BytesIn"}, Finish(w, "ObjectTooLarge", C)
        PROVE  \E D \in SUBSET Counters : Advances(w, D)
    <3>1. Advances(w, C)
      BY <1>1, <1>2, <2>0, <2>2, FinishAdvances DEF Counters, Results
    <3> QED
      BY <3>1 DEF Counters
  <2> QED
    BY <1>6, <2>1, <2>2 DEF BufferTooLarge
<1> QED
  BY <1>3, <1>4, <1>5, <1>6

(* process_buffer, up to its put.                                          *)
LEMMA BufferAdvances ==
    ASSUME PipelineInv, NEW w \in DOMAIN work, BufferRun(w)
    PROVE  \E C \in SUBSET Counters : Advances(w, C)
<1>1. PICK o : o = work[w].object
  OBVIOUS
<1>2. /\ phase = "run" /\ work[w].pc = "buffer" /\ engine /\ ~ MayBill(work[w])
      /\ UNCHANGED <<runUnchanged, dest>> /\ UNCHANGED <<cfg, engine>>
  BY FutureObject DEF BufferRun, At, runUnchanged, FutureOK, MayBill
<1>3. CASE work[w].object.verdict = "Written" /\ ~ cfg.dryRun /\ Goto(w, "put", "filtered") /\ Count({"BytesIn"})
  <2>1. Puttable(work[w].object, "filtered")
    BY <1>2, <1>3 DEF Puttable
  <2>2. Advances(w, {"BytesIn"})
    BY <1>2, <1>3, <2>1, GotoAdvances DEF Contents
  <2> QED
    BY <2>2 DEF Counters
<1>4. CASE /\ work[w].object.verdict = "Written" /\ cfg.dryRun
           /\ Finish(w, "ok", {"BytesIn", "Tallies", "ObjectsProcessed"})
  <2>1. Settled(o)'
    BY <1>2, <1>4 DEF Settled
  <2>2. Advances(w, {"BytesIn", "Tallies", "ObjectsProcessed"})
    BY <1>1, <1>2, <1>4, <2>1, FinishAdvances DEF Counters, Results
  <2> QED
    BY <2>2 DEF Counters
<1>5. CASE Finish(w, "Internal", {"BytesIn"})
  <2>1. Advances(w, {"BytesIn"})
    BY <1>1, <1>2, <1>5, FinishAdvances DEF Counters, Results
  <2> QED
    BY <2>1 DEF Counters
<1>6. CASE SettleNothingKept(w)
  BY <1>2, <1>6, NothingKeptAdvances
<1>7. CASE SettleUnrecognized(w, "put") \/ SettleUnparsable(w, "put")
  BY <1>2, <1>7, UnfilteredAdvances
<1> QED
  BY <1>3, <1>4, <1>5, <1>6, <1>7 DEF BufferRun

(* process_stream.                                                         *)
LEMMA StreamAdvances ==
    ASSUME PipelineInv, NEW w \in DOMAIN work, StreamRun(w)
    PROVE  \E C \in SUBSET Counters : Advances(w, C)
<1>1. PICK o : o = work[w].object
  OBVIOUS
<1>2. /\ phase = "run" /\ work[w].pc = "stream" /\ engine /\ ~ MayBill(work[w])
      /\ UNCHANGED runUnchanged /\ UNCHANGED <<cfg, engine>>
  BY FutureObject DEF StreamRun, At, runUnchanged, FutureOK, MayBill
<1>3. CASE work[w].object.verdict = "Written" /\ ~ cfg.dryRun /\ Write(w, "filtered")
           /\ \/ Finish(w, "ok", {"BytesIn", "BytesOut", "Tallies", "ObjectsProcessed"})
              \/ Finish(w, "StreamError", {"BytesIn"})
  <2>1. Puttable(work[w].object, "filtered")
    BY <1>2, <1>3 DEF Puttable
  <2>2. Settled(o)' /\ dest' = [dest EXCEPT ![work[w].object.key] = "filtered"]
    BY <1>1, <1>2, <1>3, <2>1, WriteSettles
  <2>3. \E what \in {"filtered", "source"} :
            Puttable(work[w].object, what) /\ dest' = [dest EXCEPT ![work[w].object.key] = what]
    BY <2>1, <2>2
  <2>4. ASSUME NEW C \in SUBSET Counters, NEW res \in {"ok", "StreamError"}, Finish(w, res, C),
               C = IF res = "ok" THEN {"BytesIn", "BytesOut", "Tallies", "ObjectsProcessed"}
                                 ELSE {"BytesIn"}
        PROVE  Advances(w, C)
    <3>1. /\ "ObjectsFailed" \notin C /\ "ObjectsExcludedByKey" \notin C
          /\ "ObjectsProcessed" \in C <=> res = "ok"
          /\ "ObjectsSkipped" \notin C /\ "BytesIn" \in C
          /\ "Tallies" \in C <=> res = "ok"
          /\ res \in Results /\ res # "none" /\ res # "skipped"
      BY <2>4 DEF Results
    <3>2. engine /\ o.verdict = "Written" /\ phase = "run" /\ work[w].pc # "done" /\ Settled(o)'
             /\ ~ MayBill(work[w]) /\ UNCHANGED runUnchanged
      BY <1>1, <1>2, <1>3, <2>2
    <3>3. Finish(w, res, C)
      BY <2>4
    <3> QED
      BY <1>1, <2>3, <3>1, <3>2, <3>3, FinishAdvances
  <2> QED
    BY <1>3, <2>4 DEF Counters
<1>4. CASE /\ work[w].object.verdict = "Written" /\ cfg.dryRun /\ dest' = dest
           /\ Finish(w, "ok", {"BytesIn", "Tallies", "ObjectsProcessed"})
  <2>1. Settled(o)'
    BY <1>2, <1>4 DEF Settled
  <2>2. Advances(w, {"BytesIn", "Tallies", "ObjectsProcessed"})
    BY <1>1, <1>2, <1>4, <2>1, FinishAdvances DEF Counters, Results
  <2> QED
    BY <2>2 DEF Counters
<1>5. CASE Finish(w, "StreamError", {"BytesIn"}) /\ dest' = dest
  <2>1. Advances(w, {"BytesIn"})
    BY <1>1, <1>2, <1>5, FinishAdvances DEF Counters, Results
  <2> QED
    BY <2>1 DEF Counters
<1>6. CASE SettleNothingKept(w) /\ dest' = dest
  BY <1>2, <1>6, NothingKeptAdvances
<1>7. CASE (SettleUnrecognized(w, "copy") \/ SettleUnparsable(w, "copy")) /\ dest' = dest
  BY <1>2, <1>7, UnfilteredAdvances
<1> QED
  BY <1>3, <1>4, <1>5, <1>6, <1>7 DEF StreamRun

(* store.put and stream_copy: the write lands or not, and is answered or   *)
(* not.                                                                    *)
LEMMA WriteAdvances ==
    ASSUME PipelineInv, NEW w \in DOMAIN work, Put(w) \/ Copy(w)
    PROVE  \E C \in SUBSET Counters : Advances(w, C)
<1>1. PICK o : o = work[w].object
  OBVIOUS
<1>2. /\ phase = "run" /\ work[w].pc \in {"put", "copy"} /\ UNCHANGED runUnchanged
      /\ UNCHANGED <<cfg, engine>>
  BY DEF Put, Copy, At, runUnchanged
<1> DEFINE what == IF work[w].pc = "put" THEN work[w].put ELSE "source"
           D == IF work[w].pc = "put" THEN {} ELSE CopyIn
           C == {"BytesOut", "ObjectsProcessed"}
                  \cup IF work[w].pc = "put"
                       THEN (IF work[w].put = "filtered" THEN {"Tallies"} ELSE {})
                       ELSE CopyIn
<1>3. Puttable(work[w].object, what)
  BY <1>2, FutureObject DEF FutureOK
<1>4. \/ Write(w, what) /\ Finish(w, "ok", C)
      \/ Write(w, what) /\ Finish(w, "Backend", D)
      \/ dest' = dest /\ Finish(w, "Backend", D)
  <2>1. CASE Put(w)
    <3>1. work[w].pc = "put"
      BY <2>1 DEF Put, At
    <3> QED
      BY <2>1, <3>1 DEF Put
  <2>2. CASE Copy(w)
    <3>1. work[w].pc = "copy"
      BY <2>2 DEF Copy, At
    <3> QED
      BY <2>2, <3>1 DEF Copy
  <2> QED
    BY <2>1, <2>2
<1>5. /\ C \in SUBSET Counters /\ D \in SUBSET Counters
      /\ "BytesIn" \in D <=> work[w].pc = "copy" /\ ~ engine
      /\ "BytesIn" \in C <=> work[w].pc = "copy" /\ ~ engine
      /\ D \in SUBSET {"BytesIn"}
      /\ "ObjectsProcessed" \in C /\ "ObjectsFailed" \notin C /\ "ObjectsExcludedByKey" \notin C
      /\ "ObjectsSkipped" \notin C
      /\ "Tallies" \in C <=> work[w].pc = "put" /\ work[w].put = "filtered"
  BY <1>2 DEF Counters, CopyIn
<1>6. "Tallies" \in C <=> engine /\ o.verdict \in {"Written", "NothingKept"}
  <2>1. CASE work[w].pc = "put"
    <3>1. engine
      BY <2>1, FutureObject DEF FutureOK
    <3> QED
      BY <1>1, <1>3, <1>5, <2>1, <3>1 DEF Puttable
  <2>2. CASE work[w].pc = "copy"
    BY <1>1, <1>3, <1>5, <2>2 DEF Puttable
  <2> QED
    BY <1>2, <2>1, <2>2
<1>7. /\ "BytesIn" \in C => ~ MayBill(work[w])
      /\ "BytesIn" \in D => ~ MayBill(work[w])
      /\ MustBill(work[w]) \/ "BytesIn" \in C
  BY <1>2, <1>5 DEF MayBill, MustBill
<1> HIDE DEF C, D, what
<1>8. Write(w, what) => /\ Settled(o)'
                        /\ \E x \in {"filtered", "source"} :
                              Puttable(work[w].object, x) /\ dest' = [dest EXCEPT ![work[w].object.key] = x]
  BY <1>1, <1>2, <1>3, WriteSettles
<1>9. CASE Write(w, what) /\ Finish(w, "ok", C)
  <2>1. Advances(w, C)
    BY <1>1, <1>2, <1>5, <1>6, <1>7, <1>8, <1>9, FinishAdvances DEF Results
  <2> QED
    BY <1>5, <2>1
<1>10. CASE (Write(w, what) \/ dest' = dest) /\ Finish(w, "Backend", D)
  <2>1. Advances(w, D)
    BY <1>1, <1>2, <1>5, <1>7, <1>8, <1>10, FinishAdvances DEF Results
  <2> QED
    BY <1>5, <2>1
<1> QED
  BY <1>4, <1>9, <1>10

(* Every step of a future is one of those.                                 *)
LEMMA FutureAdvances ==
    ASSUME PipelineInv, NEW w \in DOMAIN work, ProcessObject(w)
    PROVE  \E C \in SUBSET Counters : Advances(w, C)
BY OpenAdvances, BufferAdvances, StreamAdvances, WriteAdvances DEF ProcessObject

-----------------------------------------------------------------------------
(* What an object has at the destination it keeps: whoever else writes its *)
(* key writes the same.                                                    *)
LEMMA SettledStays ==
    ASSUME PipelineInv, NEW v \in DOMAIN work, NEW w \in DOMAIN work, NEW what,
           Puttable(work[w].object, what), dest' = [dest EXCEPT ![work[w].object.key] = what],
           UNCHANGED <<cfg, engine>>, NEW o, o = work[v].object, Settled(o)
    PROVE  Settled(o)'
<1>1. CASE o.key # work[w].object.key
  <2>1. dest'[o.key] = dest[o.key]
    BY <1>1, FutureObject DEF PipelineInv, PipelineTypeOK
  <2> QED
    BY <2>1 DEF Settled
<1>2. CASE o.key = work[w].object.key
  <2>1. dest'[o.key] = what
    BY <1>2, FutureObject DEF PipelineInv, PipelineTypeOK
  <2>2. o.verdict = work[w].object.verdict
    <3>1. PICK j \in DOMAIN batch[work[v].item].objects : o = batch[work[v].item].objects[j]
      BY FutureObject DEF FutureOK
    <3>2. PICK l \in DOMAIN batch[work[w].item].objects :
                  work[w].object = batch[work[w].item].objects[l]
      BY FutureObject DEF FutureOK
    <3>3. work[v].item \in DOMAIN batch /\ work[w].item \in DOMAIN batch
      BY FutureObject DEF FutureOK
    <3> QED
      BY <1>2, <3>1, <3>2, <3>3, SameKey DEF PipelineInv
  <2> QED
    BY <2>1, <2>2 DEF Settled, Puttable
<1> QED
  BY <1>1, <1>2

(* The counters after a step of a future.                                  *)
LEMMA AdvanceCounts ==
    ASSUME PipelineInv, NEW w \in DOMAIN work, NEW C \in SUBSET Counters, Advances(w, C)
    PROVE  Counts(m)'
<1> USE DEF PipelineInv
<1>0. /\ DOMAIN work' = DOMAIN work /\ Len(work') = Len(work) /\ 1..taken \subseteq DOMAIN work
      /\ UNCHANGED <<cfg, batch, engine, item, obj, taken>>
      /\ Counts(m) /\ work[w].res = "none" /\ w \notin 1..taken
      /\ \A v \in DOMAIN work : v # w => work'[v] = work[v]
  <2>1. DOMAIN work' = 1..Len(work') /\ DOMAIN work = 1..Len(work) /\ 1..taken \subseteq DOMAIN work
    BY LenProperties, WorkFacts DEF Advances
  <2>2. work[w].res = "none"
    BY FutureObject DEF Advances, FutureOK, Futures
  <2> QED
    BY <2>1, <2>2 DEF Advances, runUnchanged, CountInv, TakenInv
<1> DEFINE Ok == {v \in DOMAIN work : work[v].res = "ok"}
           Ok2 == {v \in DOMAIN work : work'[v].res = "ok"}
           Sk == {v \in DOMAIN work : work[v].res = "skipped"}
           Sk2 == {v \in DOMAIN work : work'[v].res = "skipped"}
           Ta == {v \in DOMAIN work : Tallied(work[v])}
           Ta2 == {v \in DOMAIN work : Tallied(work'[v])}
           Ma == {v \in DOMAIN work : MayBill(work[v])}
           Ma2 == {v \in DOMAIN work : MayBill(work'[v])}
           Mu == {v \in DOMAIN work : MustBill(work[v])}
           Mu2 == {v \in DOMAIN work : MustBill(work'[v])}
           Fa == {v \in 1..taken : ~ Succeeded(v)}
<1>1. /\ Ok \in SUBSET DOMAIN work /\ Ok2 \in SUBSET DOMAIN work /\ Sk \in SUBSET DOMAIN work
      /\ Ta \in SUBSET DOMAIN work /\ Ma \in SUBSET DOMAIN work /\ Ma2 \in SUBSET DOMAIN work
      /\ Mu \in SUBSET DOMAIN work /\ Mu2 \in SUBSET DOMAIN work
  OBVIOUS
<1>2. /\ w \notin Ok /\ w \notin Sk /\ w \notin Ta
      /\ Ok2 = IF "ObjectsProcessed" \in C THEN Ok \cup {w} ELSE Ok
      /\ Sk2 = IF "ObjectsSkipped" \in C THEN Sk \cup {w} ELSE Sk
      /\ Ta2 = IF "Tallies" \in C THEN Ta \cup {w} ELSE Ta
  <2>1. /\ "ObjectsProcessed" \in C <=> work'[w].res = "ok"
        /\ "ObjectsSkipped" \in C <=> work'[w].res = "skipped"
        /\ "Tallies" \in C <=> Tallied(work'[w])
    BY DEF Advances
  <2>2. w \notin Ok /\ w \notin Sk /\ w \notin Ta
    BY <1>0 DEF Tallied
  <2>3. Ok2 = IF "ObjectsProcessed" \in C THEN Ok \cup {w} ELSE Ok
    BY <1>0, <2>1, <2>2
  <2>4. Sk2 = IF "ObjectsSkipped" \in C THEN Sk \cup {w} ELSE Sk
    BY <1>0, <2>1, <2>2
  <2>5. Ta2 = IF "Tallies" \in C THEN Ta \cup {w} ELSE Ta
    BY <1>0, <2>1, <2>2
  <2> QED
    BY <2>2, <2>3, <2>4, <2>5
<1>3. /\ Ma \in SUBSET Ma2
      /\ "BytesIn" \in C => w \notin Ma /\ Ma \cup {w} \in SUBSET Ma2
      /\ Mu2 \in SUBSET (Mu \cup {w})
      /\ "BytesIn" \notin C => Mu2 \in SUBSET Mu
  BY <1>0 DEF Advances
<1>4. {v \in 1..taken : ~ (work'[v].res \in {"ok", "skipped"})} = Fa
  BY <1>0 DEF Succeeded
<1>5. /\ Ok2 = {v \in DOMAIN work : work[v].res = "ok"}'
      /\ Sk2 = {v \in DOMAIN work : work[v].res = "skipped"}'
      /\ Ta2 = {v \in DOMAIN work : Tallied(work[v])}'
      /\ Ma2 = {v \in DOMAIN work : MayBill(work[v])}'
      /\ Mu2 = {v \in DOMAIN work : MustBill(work[v])}'
      /\ Fa = {v \in 1..taken : ~ Succeeded(v)}'
      /\ RefsBelow' = RefsBelow
  <2>1. Fa = {v \in 1..taken : ~ Succeeded(v)}'
    BY <1>0, <1>4 DEF Succeeded
  <2>2. RefsBelow' = RefsBelow
    BY <1>0 DEF RefsBelow, References
  <2>3. Ta2 = {v \in DOMAIN work : Tallied(work[v])}'
    BY <1>0 DEF Tallied
  <2>4. Ma2 = {v \in DOMAIN work : MayBill(work[v])}' /\ Mu2 = {v \in DOMAIN work : MustBill(work[v])}'
    BY <1>0 DEF MayBill, MustBill
  <2> QED
    BY <1>0, <2>1, <2>2, <2>3, <2>4
<1>6. \A S \in SUBSET DOMAIN work : IsFiniteSet(S) /\ Cardinality(S) \in Nat
  BY WorkFacts
<1>7. /\ m["ObjectsProcessed"] = Cardinality(Ok) /\ m["ObjectsSkipped"] = Cardinality(Sk)
      /\ m["ObjectsFailed"] = Cardinality(Fa) /\ m["Tallies"] = Cardinality(Ta)
      /\ m["BytesIn"] <= Cardinality(Ma) /\ Cardinality(Mu) <= m["BytesIn"]
      /\ m["ObjectsExcludedByKey"] + Len(work) = Cardinality(RefsBelow)
  BY <1>0 DEF Counts
<1> HIDE DEF Ok, Ok2, Sk, Sk2, Ta, Ta2, Ma, Ma2, Mu, Mu2, Fa
<1>8. /\ Cardinality(Ok2) = Cardinality(Ok) + (IF "ObjectsProcessed" \in C THEN 1 ELSE 0)
      /\ Cardinality(Sk2) = Cardinality(Sk) + (IF "ObjectsSkipped" \in C THEN 1 ELSE 0)
      /\ Cardinality(Ta2) = Cardinality(Ta) + (IF "Tallies" \in C THEN 1 ELSE 0)
  <2>1. IsFiniteSet(Ok) /\ IsFiniteSet(Sk) /\ IsFiniteSet(Ta)
    BY <1>1, <1>6
  <2>2. /\ ("ObjectsProcessed" \in C) \in BOOLEAN /\ ("ObjectsSkipped" \in C) \in BOOLEAN
        /\ ("Tallies" \in C) \in BOOLEAN
    OBVIOUS
  <2>3. Cardinality(Ok2) = Cardinality(Ok) + (IF "ObjectsProcessed" \in C THEN 1 ELSE 0)
    BY <1>2, <2>1, <2>2, OneMore
  <2>4. Cardinality(Sk2) = Cardinality(Sk) + (IF "ObjectsSkipped" \in C THEN 1 ELSE 0)
    BY <1>2, <2>1, <2>2, OneMore
  <2>5. Cardinality(Ta2) = Cardinality(Ta) + (IF "Tallies" \in C THEN 1 ELSE 0)
    BY <1>2, <2>1, <2>2, OneMore
  <2> QED
    BY <2>3, <2>4, <2>5
<1>9. Cardinality(Ma) + (IF "BytesIn" \in C THEN 1 ELSE 0) <= Cardinality(Ma2)
  <2>1. IsFiniteSet(Ma) /\ IsFiniteSet(Ma2) /\ Cardinality(Ma) \in Nat /\ Cardinality(Ma2) \in Nat
    BY <1>1, <1>6
  <2>2. CASE "BytesIn" \notin C
    <3>1. Cardinality(Ma) <= Cardinality(Ma2)
      BY <1>3, <2>1, FS_Subset
    <3> QED
      BY <2>1, <2>2, <3>1
  <2>3. CASE "BytesIn" \in C
    <3>1. Cardinality(Ma \cup {w}) = Cardinality(Ma) + 1
      BY <1>3, <2>1, <2>3, FS_AddElement
    <3>2. Cardinality(Ma \cup {w}) <= Cardinality(Ma2)
      BY <1>3, <2>1, <2>3, FS_Subset
    <3> QED
      BY <2>3, <3>1, <3>2
  <2> QED
    BY <2>2, <2>3
<1>10. Cardinality(Mu2) <= Cardinality(Mu) + (IF "BytesIn" \in C THEN 1 ELSE 0)
  <2>1. IsFiniteSet(Mu) /\ IsFiniteSet(Mu2) /\ Cardinality(Mu) \in Nat /\ Cardinality(Mu2) \in Nat
    BY <1>1, <1>6
  <2>2. CASE "BytesIn" \notin C
    <3>1. Cardinality(Mu2) <= Cardinality(Mu)
      BY <1>3, <2>1, <2>2, FS_Subset
    <3> QED
      BY <2>1, <2>2, <3>1
  <2>3. CASE "BytesIn" \in C
    <3>1. IsFiniteSet(Mu \cup {w}) /\ Cardinality(Mu \cup {w}) <= Cardinality(Mu) + 1
      BY <2>1, FS_AddElement
    <3>2. Cardinality(Mu2) <= Cardinality(Mu \cup {w}) /\ Cardinality(Mu \cup {w}) \in Nat
      BY <1>3, <3>1, FS_Subset, FS_CardinalityType
    <3> QED
      BY <2>1, <2>3, <3>1, <3>2
  <2> QED
    BY <2>2, <2>3
<1>11. /\ m' = Plus(C) /\ "ObjectsFailed" \notin C /\ "ObjectsExcludedByKey" \notin C
  BY DEF Advances
<1>12. \A c \in Counters : m'[c] = m[c] + (IF c \in C THEN 1 ELSE 0) /\ m[c] \in Nat
  BY <1>11, PlusFacts
<1>13. {"ObjectsProcessed", "ObjectsSkipped", "ObjectsFailed", "Tallies", "BytesIn",
        "ObjectsExcludedByKey"} \subseteq Counters
  BY DEF Counters
<1>14. /\ m'["ObjectsProcessed"] = Cardinality(Ok2) /\ m'["ObjectsSkipped"] = Cardinality(Sk2)
       /\ m'["Tallies"] = Cardinality(Ta2)
  BY <1>7, <1>8, <1>12, <1>13
<1>15. /\ m'["ObjectsFailed"] = Cardinality(Fa)
       /\ m'["ObjectsExcludedByKey"] + Len(work') = Cardinality(RefsBelow)
  BY <1>0, <1>7, <1>11, <1>12, <1>13
<1>16. m'["BytesIn"] <= Cardinality(Ma2) /\ Cardinality(Mu2) <= m'["BytesIn"]
  <2>1. /\ Cardinality(Ma) \in Nat /\ Cardinality(Ma2) \in Nat
        /\ Cardinality(Mu) \in Nat /\ Cardinality(Mu2) \in Nat
    BY <1>1, <1>6
  <2>2. m'["BytesIn"] = m["BytesIn"] + (IF "BytesIn" \in C THEN 1 ELSE 0) /\ m["BytesIn"] \in Nat
    BY <1>12, <1>13
  <2> QED
    BY <1>7, <1>9, <1>10, <2>1, <2>2
<1> QED
  BY <1>5, <1>14, <1>15, <1>16 DEF Counts

(* A step of a future.                                                     *)
LEMMA AdvanceKeepsInv ==
    ASSUME PipelineInv, NEW w \in DOMAIN work, NEW C \in SUBSET Counters, Advances(w, C)
    PROVE  PipelineInv'
<1> USE DEF PipelineInv
<1>0. /\ UNCHANGED <<cfg, batch, phase, engine, item, obj, taken, failed, hard, outcome, emitted>>
      /\ phase = "run" /\ work' \in Seq(Futures) /\ Len(work') = Len(work) /\ DOMAIN work' = DOMAIN work
      /\ \A v \in DOMAIN work : v # w => work'[v] = work[v]
      /\ \A v \in DOMAIN work : work'[v].object = work[v].object /\ work'[v].item = work[v].item
      /\ w \notin 1..taken /\ 1..taken \subseteq DOMAIN work
  <2>1. /\ DOMAIN work' = 1..Len(work') /\ DOMAIN work = 1..Len(work) /\ 1..taken \subseteq DOMAIN work
    BY LenProperties, WorkFacts DEF Advances
  <2> QED
    BY <2>1 DEF Advances, runUnchanged, TakenInv
<1>1. PipelineTypeOK'
  <2>1. m' \in [Counters -> Nat]
    BY PlusFacts DEF Advances
  <2>2. dest' \in [Keys -> Contents]
    BY DEF Advances, PipelineTypeOK, Contents
  <2> QED
    BY <1>0, <2>1, <2>2 DEF PipelineTypeOK
<1>2. PhaseInv' /\ ReturnInv'
  BY <1>0 DEF PhaseInv, ReturnInv, Completed
<1>3. FutureInv'
  <2>1. FutureOK(work'[w]) /\ \A v \in DOMAIN work : v # w => FutureOK(work'[v])
    BY <1>0 DEF Advances, FutureInv
  <2> QED
    BY <1>0, <2>1 DEF FutureInv, FutureOK, Puttable
<1>4. TakenInv'
  BY <1>0 DEF TakenInv
<1>5. \A o, x : Puttable(o, x)' <=> Puttable(o, x)
  BY <1>0 DEF Puttable
<1>6. DestInv'
  <2>1. ASSUME NEW k \in Keys, dest'[k] # "absent"
        PROVE  \E v \in DOMAIN work : work[v].object.key = k /\ Puttable(work[v].object, dest'[k])
    <3>1. CASE dest'[k] = dest[k]
      BY <2>1, <3>1 DEF DestInv
    <3>2. CASE dest'[k] # dest[k]
      <4>1. PICK what : /\ Puttable(work[w].object, what)
                        /\ dest' = [dest EXCEPT ![work[w].object.key] = what]
        BY <3>2 DEF Advances
      <4>2. k = work[w].object.key /\ dest'[k] = what
        BY <3>2, <4>1 DEF PipelineTypeOK
      <4> QED
        BY <4>1, <4>2
    <3> QED
      BY <3>1, <3>2
  <2> QED
    BY <1>0, <1>5, <2>1 DEF DestInv
<1>7. OkInv'
  <2>1. ASSUME NEW v \in DOMAIN work, work'[v].res = "ok", NEW o, o = work[v].object
        PROVE  Settled(o)'
    <3>1. CASE v = w
      BY <1>0, <2>1, <3>1 DEF Advances
    <3>2. CASE v # w
      <4>1. Settled(o)
        BY <1>0, <2>1, <3>2 DEF OkInv
      <4>2. CASE dest' = dest
        BY <1>0, <4>1, <4>2 DEF Settled
      <4>3. CASE dest' # dest
        <5>1. PICK what : /\ Puttable(work[w].object, what)
                          /\ dest' = [dest EXCEPT ![work[w].object.key] = what]
          BY <4>3 DEF Advances
        <5> QED
          BY <1>0, <2>1, <4>1, <5>1, SettledStays
      <4> QED
        BY <4>2, <4>3
    <3> QED
      BY <3>1, <3>2
  <2> QED
    BY <1>0, <2>1 DEF OkInv
<1>8. AttributionInv'
  <2>1. \A v \in 1..taken : work'[v] = work[v]
    BY <1>0
  <2>2. \A i : FailedSoFar(i)' <=> FailedSoFar(i)
    BY <1>0, <2>1 DEF FailedSoFar, Succeeded
  <2>3. \A i : Isolated(i)' <=> Isolated(i)
    BY <1>0 DEF Isolated
  <2>4. HardSoFar' = HardSoFar
    BY <1>0, <2>2, <2>3 DEF HardSoFar
  <2> QED
    BY <1>0, <2>2, <2>3, <2>4 DEF AttributionInv
<1>9. CountInv'
  BY AdvanceCounts DEF CountInv
<1> QED
  BY <1>1, <1>2, <1>3, <1>4, <1>6, <1>7, <1>8, <1>9

-----------------------------------------------------------------------------
(* Before pass 2 nothing of an object has been counted but its exclusion.  *)
BeforeRun == phase \in {"decode", "config", "classify"}

LEMMA NothingCounted ==
    ASSUME PipelineInv, BeforeRun
    PROVE  /\ taken = 0 /\ 1..taken = {} /\ \A k \in Keys : dest[k] = "absent"
           /\ \A w \in DOMAIN work : work[w].pc = "waiting" /\ work[w].res = "none"
           /\ m["ObjectsProcessed"] = 0 /\ m["ObjectsSkipped"] = 0 /\ m["ObjectsFailed"] = 0
           /\ m["Tallies"] = 0 /\ m["BytesIn"] = 0
           /\ m["ObjectsExcludedByKey"] + Len(work) = Cardinality(RefsBelow)
<1>1. taken = 0 /\ 1..taken = {} /\ \A k \in Keys : dest[k] = "absent"
  BY DEF PipelineInv, PhaseInv, BeforeRun
<1>2. \A w \in DOMAIN work : work[w].pc = "waiting" /\ work[w].res = "none"
  BY DEF PipelineInv, PhaseInv, BeforeRun, FutureInv, FutureOK
<1>3. /\ {w \in DOMAIN work : work[w].res = "ok"} = {}
      /\ {w \in DOMAIN work : work[w].res = "skipped"} = {}
      /\ {w \in 1..taken : ~ Succeeded(w)} = {}
      /\ {w \in DOMAIN work : Tallied(work[w])} = {}
      /\ {w \in DOMAIN work : MayBill(work[w])} = {}
  BY <1>1, <1>2 DEF Tallied, MayBill
<1>4. Counts(m) /\ Cardinality({}) = 0
  BY FS_EmptySet DEF PipelineInv, CountInv, BeforeRun
<1>5. /\ m["ObjectsProcessed"] = 0 /\ m["ObjectsSkipped"] = 0 /\ m["ObjectsFailed"] = 0
      /\ m["Tallies"] = 0 /\ m["BytesIn"] <= 0
      /\ m["ObjectsExcludedByKey"] + Len(work) = Cardinality(RefsBelow)
  BY <1>3, <1>4 DEF Counts
<1>6. m["BytesIn"] \in Nat
  BY DEF PipelineInv, PipelineTypeOK, Counters
<1> QED
  BY <1>1, <1>2, <1>5, <1>6

LEMMA NothingCountedYet ==
    ASSUME PipelineInv, BeforeRun, NEW C \in SUBSET Counters, m' = Plus(C), taken' = 0,
           \A w \in DOMAIN work' : work'[w].pc = "waiting" /\ work'[w].res = "none",
           {"ObjectsProcessed", "ObjectsSkipped", "ObjectsFailed", "Tallies", "BytesIn"} \cap C = {},
           m'["ObjectsExcludedByKey"] + Len(work') = Cardinality(RefsBelow)'
    PROVE  Counts(m)'
<1>1. /\ {w \in DOMAIN work : work[w].res = "ok"}' = {}
      /\ {w \in DOMAIN work : work[w].res = "skipped"}' = {}
      /\ {w \in DOMAIN work : Tallied(work[w])}' = {}
      /\ {w \in DOMAIN work : MayBill(work[w])}' = {}
      /\ {w \in DOMAIN work : MustBill(work[w])}' = {}
  BY DEF Tallied, MayBill, MustBill
<1>2. {w \in 1..taken : ~ Succeeded(w)}' = {}
  OBVIOUS
<1>3. Cardinality({}) = 0
  BY FS_EmptySet
<1>4. \A c \in Counters : m'[c] = m[c] + (IF c \in C THEN 1 ELSE 0) /\ m[c] \in Nat
  BY PlusFacts DEF PipelineInv
<1>5. \A c \in {"ObjectsProcessed", "ObjectsSkipped", "ObjectsFailed", "Tallies", "BytesIn"} :
         c \in Counters /\ c \notin C
  BY DEF Counters
<1>6. \A c \in {"ObjectsProcessed", "ObjectsSkipped", "ObjectsFailed", "Tallies", "BytesIn"} :
         m'[c] = m[c]
  BY <1>4, <1>5
<1>7. /\ m'["ObjectsProcessed"] = 0 /\ m'["ObjectsSkipped"] = 0 /\ m'["ObjectsFailed"] = 0
      /\ m'["Tallies"] = 0 /\ m'["BytesIn"] = 0
  BY <1>6, NothingCounted
<1>8. /\ Cardinality({w \in DOMAIN work : work[w].res = "ok"})' = 0
      /\ Cardinality({w \in DOMAIN work : work[w].res = "skipped"})' = 0
      /\ Cardinality({w \in DOMAIN work : Tallied(work[w])})' = 0
      /\ Cardinality({w \in DOMAIN work : MayBill(work[w])})' = 0
      /\ Cardinality({w \in DOMAIN work : MustBill(work[w])})' = 0
  BY <1>1, <1>3
<1>9. Cardinality({w \in 1..taken : ~ Succeeded(w)})' = 0
  BY <1>2, <1>3
<1> QED
  BY <1>7, <1>8, <1>9 DEF Counts

(* What is said of futures and destination holds while nothing is written. *)
LEMMA NothingRuns ==
    ASSUME PipelineInv, BeforeRun, UNCHANGED <<cfg, batch, work, taken, dest>>, engine' \in BOOLEAN
    PROVE  FutureInv' /\ TakenInv' /\ DestInv' /\ OkInv'
<1>1. FutureInv'
  <2>1. ASSUME NEW w \in DOMAIN work, NEW f, f = work[w] PROVE FutureOK(f)'
    <3>1. FutureOK(f) /\ f.pc = "waiting" /\ f.res = "none"
      BY <2>1, NothingCounted DEF PipelineInv, FutureInv
    <3> QED
      BY <3>1 DEF FutureOK
  <2> QED
    BY <2>1 DEF FutureInv
<1> QED
  BY <1>1, NothingCounted DEF TakenInv, DestInv, OkInv

(* Before pass 2 the failed items are the undecodable ones classified.     *)
LEMMA NothingNoted ==
    ASSUME PipelineInv, BeforeRun, UNCHANGED <<cfg, batch, failed, hard, taken>>,
           \A i \in DOMAIN batch : batch[i].bad => (i < item' <=> i < item)
    PROVE  AttributionInv'
<1>1. 1..taken = {} /\ 1..taken' = {}
  BY NothingCounted
<1>2. \A i \in DOMAIN batch : FailedSoFar(i)' <=> FailedSoFar(i)
  BY <1>1 DEF FailedSoFar
<1>3. \A i : Isolated(i)' <=> Isolated(i)
  BY DEF Isolated
<1>4. HardSoFar' = HardSoFar
  BY <1>2, <1>3 DEF HardSoFar
<1> QED
  BY <1>2, <1>3, <1>4 DEF PipelineInv, AttributionInv

(* One item more has failed.                                               *)
LEMMA FailureNoted ==
    ASSUME PipelineInv, UNCHANGED <<cfg, batch>>, NEW i \in DOMAIN batch,
           NEW err \in Errors \ {"none", "SelfTrigger"},
           \A k \in DOMAIN batch : FailedSoFar(k)' <=> (FailedSoFar(k) \/ k = i),
           \/ Isolated(i) /\ failed' = failed \cup {i} /\ hard' = hard
           \/ ~ Isolated(i) /\ NoteHardError(i, err) /\ failed' = failed
    PROVE  AttributionInv' /\ failed' \subseteq DOMAIN batch /\ hard' \in [item : Nat, err : Errors]
<1>0. AttributionInv /\ failed \subseteq DOMAIN batch /\ hard \in [item : Nat, err : Errors]
  BY DEF PipelineInv, PipelineTypeOK
<1>1. i \in Nat /\ DOMAIN batch \subseteq Nat
  BY BatchFacts DEF PipelineInv
<1>2. \A k : Isolated(k)' <=> Isolated(k)
  BY DEF Isolated
<1>3. HardSoFar' = IF Isolated(i) THEN HardSoFar ELSE HardSoFar \cup {i}
  BY <1>2 DEF HardSoFar
<1>4. HardSoFar \subseteq Nat
  BY <1>1 DEF HardSoFar
<1>5. CASE Isolated(i)
  <2>1. failed' = {k \in DOMAIN batch : FailedSoFar(k) /\ Isolated(k)}'
    BY <1>0, <1>2, <1>5 DEF AttributionInv
  <2> QED
    BY <1>0, <1>3, <1>5, <2>1 DEF AttributionInv
<1>6. CASE ~ Isolated(i)
  <2>1. failed' = {k \in DOMAIN batch : FailedSoFar(k) /\ Isolated(k)}'
    BY <1>0, <1>2, <1>6 DEF AttributionInv
  <2>2. hard' = IF hard = NoHard \/ i < hard.item THEN [item |-> i, err |-> err] ELSE hard
    BY <1>6 DEF NoteHardError
  <2>3. HardSoFar' = HardSoFar \cup {i}
    BY <1>3, <1>6
  <2>4. /\ hard = NoHard <=> HardSoFar = {}
        /\ hard # NoHard => /\ hard.item \in HardSoFar /\ \A k \in HardSoFar : hard.item <= k
                            /\ hard.err \notin {"none", "SelfTrigger"}
    BY <1>0 DEF AttributionInv
  <2>5. CASE hard = NoHard \/ i < hard.item
    <3>1. hard' = [item |-> i, err |-> err] /\ hard'.item = i /\ hard'.err = err /\ hard' # NoHard
      BY <2>2, <2>5 DEF NoHard
    <3>2. \A k \in HardSoFar' : i <= k
      BY <1>0, <1>1, <1>4, <2>3, <2>4, <2>5
    <3> QED
      BY <1>0, <1>1, <1>6, <2>1, <2>3, <3>1, <3>2 DEF AttributionInv
  <2>6. CASE hard # NoHard /\ ~ (i < hard.item)
    <3>1. hard' = hard
      BY <2>2, <2>6
    <3>2. hard.item <= i
      BY <1>0, <1>1, <2>6
    <3> QED
      BY <1>0, <1>6, <2>1, <2>3, <2>4, <2>6, <3>1, <3>2 DEF AttributionInv
  <2> QED
    BY <2>5, <2>6
<1> QED
  BY <1>5, <1>6

-----------------------------------------------------------------------------
(* The payload, the ruleset or a self-trigger ends handle before pass 2.   *)
LEMMA EarlyReturn ==
    ASSUME PipelineInv, BeforeRun, NEW err \in Errors \ {"none"}, NEW at \in Nat,
           NEW C \in SUBSET Counters, Return(err, at, {}, C), "BytesIn" \notin C,
           err = "SelfTrigger" \/ at = 0, engine' \in BOOLEAN,
           UNCHANGED <<cfg, batch, item, obj, work, taken, failed, hard, dest>>
    PROVE  PipelineInv'
<1>1. /\ phase' = "returned" /\ outcome' = [err |-> err, item |-> at, failed |-> {}]
      /\ emitted' = Plus(C) /\ m' = Zero
  BY DEF Return
<1>2. PipelineTypeOK'
  <2>1. Plus(C) \in [Counters -> Nat] /\ Zero \in [Counters -> Nat]
    BY PlusFacts DEF PipelineInv, Zero
  <2> QED
    BY <1>1, <2>1 DEF PipelineInv, PipelineTypeOK
<1>3. PhaseInv'
  BY <1>1, NothingCounted DEF PipelineInv, PhaseInv
<1>4. FutureInv' /\ TakenInv' /\ DestInv' /\ OkInv'
  BY NothingRuns
<1>5. AttributionInv'
  BY NothingNoted
<1>6. CountInv'
  BY <1>1 DEF CountInv
<1>7. ReturnInv'
  <2>1. "BytesIn" \in Counters
    BY DEF Counters
  <2>2. Plus(C)["BytesIn"] = 0
    BY <2>1, PlusFacts, NothingCounted DEF PipelineInv
  <2>3. ~ Completed'
    BY <1>1 DEF Completed
  <2> QED
    BY <1>1, <2>2, <2>3 DEF ReturnInv
<1> QED
  BY <1>2, <1>3, <1>4, <1>5, <1>6, <1>7 DEF PipelineInv

LEMMA DecodeInv == PipelineInv /\ Decode => PipelineInv'
<1> SUFFICES ASSUME PipelineInv, Decode PROVE PipelineInv'
  OBVIOUS
<1>0. BeforeRun /\ phase = "decode" /\ engine' \in BOOLEAN
      /\ UNCHANGED <<cfg, batch, engine, item, obj, work, taken, failed, hard, dest>>
  BY DEF Decode, BeforeRun, PipelineInv, PipelineTypeOK
<1>1. CASE phase' = "config" /\ UNCHANGED <<outcome, emitted, m>>
  <2>1. PipelineTypeOK' /\ PhaseInv' /\ ReturnInv'
    BY <1>0, <1>1 DEF PipelineInv, PipelineTypeOK, PhaseInv, ReturnInv, Completed
  <2>2. FutureInv' /\ TakenInv' /\ DestInv' /\ OkInv'
    BY <1>0, NothingRuns
  <2>3. AttributionInv'
    BY <1>0, NothingNoted
  <2>4. CountInv'
    BY <1>0, <1>1 DEF PipelineInv, CountInv, Counts, Succeeded, Tallied, MayBill, MustBill,
                      RefsBelow, References
  <2> QED
    BY <2>1, <2>2, <2>3, <2>4 DEF PipelineInv
<1>2. CASE Return("Decode", 0, {}, {"DecodeErrors"})
  <2>1. {"DecodeErrors"} \in SUBSET Counters /\ "Decode" \in Errors \ {"none"}
    BY DEF Counters, Errors
  <2> QED
    BY <1>0, <1>2, <2>1, EarlyReturn
<1> QED
  BY <1>1, <1>2 DEF Decode

LEMMA GetConfigInv == PipelineInv /\ GetConfig => PipelineInv'
<1> SUFFICES ASSUME PipelineInv, GetConfig PROVE PipelineInv'
  OBVIOUS
<1>0. BeforeRun /\ phase = "config" /\ engine' \in BOOLEAN
      /\ UNCHANGED <<cfg, batch, item, obj, work, taken, failed, hard, dest>>
  BY DEF GetConfig, BeforeRun
<1>1. CASE (engine' \/ cfg.config = "open") /\ phase' = "classify" /\ UNCHANGED <<outcome, emitted, m>>
  <2>1. PipelineTypeOK' /\ PhaseInv' /\ ReturnInv'
    BY <1>0, <1>1 DEF PipelineInv, PipelineTypeOK, PhaseInv, ReturnInv, Completed
  <2>2. FutureInv' /\ TakenInv' /\ DestInv' /\ OkInv'
    BY <1>0, NothingRuns
  <2>3. AttributionInv'
    BY <1>0, NothingNoted
  <2>4. CountInv'
    <3>1. {} \in SUBSET Counters /\ m' = Plus({})
      BY <1>1 DEF PipelineInv, PipelineTypeOK, Plus
    <3>2. RefsBelow' = RefsBelow
      BY <1>0 DEF RefsBelow, References
    <3> QED
      BY <1>0, <1>1, <3>1, <3>2, NothingCounted, NothingCountedYet DEF CountInv
  <2> QED
    BY <2>1, <2>2, <2>3, <2>4 DEF PipelineInv
<1>2. CASE Return("Config", 0, {}, {})
  <2>1. {} \in SUBSET Counters /\ "Config" \in Errors \ {"none"}
    BY DEF Errors
  <2> QED
    BY <1>0, <1>2, <2>1, EarlyReturn
<1> QED
  BY <1>1, <1>2 DEF GetConfig

-----------------------------------------------------------------------------
(* Pass 1.  Its steps but the last keep phase, futures and destination, or *)
(* append a future that waits.                                             *)
classifyUnchanged == <<cfg, batch, engine, taken, dest, outcome, emitted>>

LEMMA ClassifyInv ==
    ASSUME PipelineInv, phase = "classify", phase' \in {"classify", "run"},
           phase' = "run" => item' > Len(batch), UNCHANGED classifyUnchanged,
           item' \in 1..(Len(batch) + 1), obj' \in Nat,
           obj' > 0 => /\ item' <= Len(batch) /\ ~ batch[item'].bad
                       /\ obj' <= Len(batch[item'].objects) + 1,
           work' \in Seq(Futures), FutureInv',
           \A w \in DOMAIN work' : work'[w].pc = "waiting",
           failed' \subseteq DOMAIN batch, hard' \in [item : Nat, err : Errors], AttributionInv',
           NEW C \in SUBSET Counters, m' = Plus(C),
           {"ObjectsProcessed", "ObjectsSkipped", "ObjectsFailed", "Tallies", "BytesIn"} \cap C = {},
           m'["ObjectsExcludedByKey"] + Len(work') = Cardinality(RefsBelow)'
    PROVE  PipelineInv'
<1>0. BeforeRun /\ taken' = 0 /\ taken = 0 /\ 1..taken' = {} /\ \A k \in Keys : dest[k] = "absent"
  <2>1. BeforeRun
    BY DEF BeforeRun
  <2> QED
    BY <2>1, NothingCounted DEF classifyUnchanged
<1>1. \A w \in DOMAIN work' : work'[w].res = "none"
  BY DEF FutureInv, FutureOK
<1>2. PipelineTypeOK'
  <2>1. m' \in [Counters -> Nat]
    BY PlusFacts DEF PipelineInv
  <2>2. Len(work') \in Nat
    BY LenProperties
  <2>3. taken' \in 0..Len(work')
    BY <1>0, <2>2
  <2> QED
    BY <2>1, <2>3 DEF PipelineInv, PipelineTypeOK, classifyUnchanged
<1>3. PhaseInv'
  BY <1>0 DEF PipelineInv, PhaseInv, classifyUnchanged
<1>4. TakenInv' /\ DestInv' /\ OkInv'
  BY <1>0, <1>1 DEF TakenInv, DestInv, OkInv, classifyUnchanged
<1>5. CountInv'
  BY <1>0, <1>1, NothingCountedYet DEF CountInv
<1>6. ReturnInv'
  BY DEF PipelineInv, ReturnInv, Completed, classifyUnchanged
<1> QED
  BY <1>2, <1>3, <1>4, <1>5, <1>6 DEF PipelineInv

(* Where pass 1 is in the batch.                                           *)
LEMMA ClassifyingFacts ==
    ASSUME PipelineInv, phase = "classify"
    PROVE  /\ BeforeRun /\ item \in Nat /\ obj \in Nat /\ Len(batch) \in Nat /\ DOMAIN batch = 1..Len(batch)
           /\ item <= Len(batch) => /\ item \in DOMAIN batch
                                    /\ item + 1 \in 1..(Len(batch) + 1)
                                    /\ Len(batch[item].objects) \in Nat
                                    /\ Len(batch[item].objects) <= MaxRefs
                                    /\ DOMAIN batch[item].objects = 1..Len(batch[item].objects)
           /\ obj > 0 => item <= Len(batch) /\ ~ batch[item].bad
<1>1. /\ item \in 1..(Len(batch) + 1) /\ obj \in Nat /\ BeforeRun
      /\ obj > 0 => item <= Len(batch) /\ ~ batch[item].bad
  BY DEF PipelineInv, PipelineTypeOK, PhaseInv, BeforeRun
<1>2. Len(batch) \in Nat /\ DOMAIN batch = 1..Len(batch)
  BY BatchFacts DEF PipelineInv
<1>3. item <= Len(batch) => item \in DOMAIN batch /\ item + 1 \in 1..(Len(batch) + 1)
  BY <1>1, <1>2
<1>4. item \in DOMAIN batch => /\ Len(batch[item].objects) \in Nat
                               /\ Len(batch[item].objects) <= MaxRefs
                               /\ DOMAIN batch[item].objects = 1..Len(batch[item].objects)
  BY BatchFacts DEF PipelineInv
<1> QED
  BY <1>1, <1>2, <1>3, <1>4

(* A step of pass 1 that moves neither the futures nor the references.     *)
LEMMA SameReferences ==
    ASSUME PipelineInv, phase = "classify", work' = work, RefsBelow' = RefsBelow,
           NEW C \in SUBSET Counters, m' = Plus(C), "ObjectsExcludedByKey" \notin C
    PROVE  m'["ObjectsExcludedByKey"] + Len(work') = Cardinality(RefsBelow)'
<1>1. "ObjectsExcludedByKey" \in Counters
  BY DEF Counters
<1>2. m'["ObjectsExcludedByKey"] = m["ObjectsExcludedByKey"]
  BY <1>1, PlusFacts DEF PipelineInv
<1> QED
  BY <1>2, NothingCounted DEF BeforeRun

LEMMA PoisonItemInv == PipelineInv /\ PoisonItem => PipelineInv'
<1> SUFFICES ASSUME PipelineInv, PoisonItem PROVE PipelineInv'
  OBVIOUS
<1>0. /\ phase = "classify" /\ phase' = "classify" /\ UNCHANGED classifyUnchanged
      /\ work' = work /\ item <= Len(batch) /\ obj = 0 /\ obj' = 0 /\ item' = item + 1 /\ batch[item].bad
      /\ m' = Plus({"DecodeErrors"})
  BY DEF PoisonItem, Classifying, classifyUnchanged, Count
<1>1. BeforeRun /\ item \in DOMAIN batch /\ item \in Nat /\ Len(batch) \in Nat
      /\ item' \in 1..(Len(batch) + 1) /\ DOMAIN batch = 1..Len(batch)
  BY <1>0, ClassifyingFacts
<1>2. RefsBelow' = RefsBelow
  <2>1. References' = References
    BY <1>0 DEF References, classifyUnchanged
  <2>2. \A r \in References : r[1] \in Nat /\ r[2] \in Nat /\ r[1] # item
    BY <1>0, <1>1 DEF References
  <2>3. \A r \in References : (r[1] < item' \/ (r[1] = item' /\ r[2] < obj'))
                          <=> (r[1] < item \/ (r[1] = item /\ r[2] < obj))
    BY <1>0, <1>1, <2>2
  <2> QED
    BY <2>1, <2>3 DEF RefsBelow
<1>3. /\ AttributionInv' /\ failed' \subseteq DOMAIN batch /\ hard' \in [item : Nat, err : Errors]
  <2>1. 1..taken = {} /\ 1..taken' = {}
    BY <1>0, <1>1, NothingCounted DEF classifyUnchanged
  <2>2. \A k \in DOMAIN batch : k < item' <=> (k < item \/ k = item)
    BY <1>0, <1>1
  <2>3. \A k \in DOMAIN batch : FailedSoFar(k)' <=> (FailedSoFar(k) \/ k = item)
    BY <1>0, <2>1, <2>2 DEF FailedSoFar, classifyUnchanged
  <2>4. "Decode" \in Errors \ {"none", "SelfTrigger"}
    BY DEF Errors
  <2>5. \/ Isolated(item) /\ failed' = failed \cup {item} /\ hard' = hard
        \/ ~ Isolated(item) /\ NoteHardError(item, "Decode") /\ failed' = failed
    BY DEF PoisonItem
  <2>6. UNCHANGED <<cfg, batch>>
    BY <1>0 DEF classifyUnchanged
  <2> QED
    BY <1>1, <2>3, <2>4, <2>5, <2>6, FailureNoted
<1>4. FutureInv'
  BY <1>0, <1>1, NothingRuns DEF classifyUnchanged, PipelineInv, PipelineTypeOK
<1>5. /\ {"DecodeErrors"} \in SUBSET Counters /\ "ObjectsExcludedByKey" \notin {"DecodeErrors"}
      /\ {"ObjectsProcessed", "ObjectsSkipped", "ObjectsFailed", "Tallies", "BytesIn"}
            \cap {"DecodeErrors"} = {}
  BY DEF Counters
<1>6. m'["ObjectsExcludedByKey"] + Len(work') = Cardinality(RefsBelow)'
  BY <1>0, <1>2, <1>5, SameReferences
<1>7. work' \in Seq(Futures) /\ \A w \in DOMAIN work' : work'[w].pc = "waiting"
  BY <1>0, <1>1, NothingCounted DEF PipelineInv, PipelineTypeOK
<1> QED
  BY <1>0, <1>1, <1>3, <1>4, <1>5, <1>6, <1>7, ClassifyInv

(* The steps of pass 1 that only count.                                    *)
LEMMA QuietClassify ==
    ASSUME PipelineInv, phase = "classify", phase' \in {"classify", "run"},
           phase' = "run" => item' > Len(batch), UNCHANGED classifyUnchanged,
           UNCHANGED <<work, failed, hard>>,
           item' \in 1..(Len(batch) + 1), obj' \in Nat,
           obj' > 0 => /\ item' <= Len(batch) /\ ~ batch[item'].bad
                       /\ obj' <= Len(batch[item'].objects) + 1,
           \A i \in DOMAIN batch : batch[i].bad => (i < item' <=> i < item),
           NEW C \in SUBSET Counters, m' = Plus(C),
           {"ObjectsProcessed", "ObjectsSkipped", "ObjectsFailed", "Tallies", "BytesIn"} \cap C = {},
           m'["ObjectsExcludedByKey"] + Len(work') = Cardinality(RefsBelow)'
    PROVE  PipelineInv'
<1>1. BeforeRun /\ engine' \in BOOLEAN /\ UNCHANGED <<cfg, batch, taken, dest>>
  BY DEF BeforeRun, PipelineInv, PipelineTypeOK, classifyUnchanged
<1>2. FutureInv'
  BY <1>1, NothingRuns
<1>3. AttributionInv'
  BY <1>1, NothingNoted
<1>4. /\ failed' \subseteq DOMAIN batch /\ hard' \in [item : Nat, err : Errors]
      /\ work' \in Seq(Futures) /\ \A w \in DOMAIN work' : work'[w].pc = "waiting"
  BY <1>1, NothingCounted DEF PipelineInv, PipelineTypeOK
<1> QED
  BY <1>2, <1>3, <1>4, ClassifyInv

LEMMA OpenItemInv == PipelineInv /\ OpenItem => PipelineInv'
<1> SUFFICES ASSUME PipelineInv, OpenItem PROVE PipelineInv'
  OBVIOUS
<1>0. /\ phase = "classify" /\ phase' = "classify" /\ UNCHANGED classifyUnchanged
      /\ UNCHANGED <<work, failed, hard>> /\ item <= Len(batch) /\ item' = item
      /\ obj = 0 /\ obj' = 1 /\ ~ batch[item].bad
  BY DEF OpenItem, Classifying, classifyUnchanged
<1>1. PICK C \in SUBSET {"ItemsWithoutObjects"} : m' = Plus(C)
  BY DEF OpenItem, Count
<1>2. /\ C \in SUBSET Counters /\ "ObjectsExcludedByKey" \notin C
      /\ {"ObjectsProcessed", "ObjectsSkipped", "ObjectsFailed", "Tallies", "BytesIn"} \cap C = {}
  BY DEF Counters
<1>3. item \in Nat /\ Len(batch[item].objects) \in Nat
  BY <1>0, ClassifyingFacts
<1>4. RefsBelow' = RefsBelow
  <2>1. References' = References
    BY <1>0 DEF References, classifyUnchanged
  <2>2. \A r \in References : ~ (r[2] < 1) /\ ~ (r[2] < 0)
    BY DEF References
  <2> QED
    BY <1>0, <2>1, <2>2 DEF RefsBelow
<1>5. m'["ObjectsExcludedByKey"] + Len(work') = Cardinality(RefsBelow)'
  BY <1>0, <1>1, <1>2, <1>4, SameReferences
<1>6. /\ item' \in 1..(Len(batch) + 1) /\ obj' \in Nat
      /\ obj' <= Len(batch[item'].objects) + 1
  BY <1>0, <1>3 DEF PipelineInv, PipelineTypeOK
<1> QED
  BY <1>0, <1>1, <1>2, <1>5, <1>6, QuietClassify

LEMMA CloseItemInv == PipelineInv /\ CloseItem => PipelineInv'
<1> SUFFICES ASSUME PipelineInv, CloseItem PROVE PipelineInv'
  OBVIOUS
<1>0. /\ phase = "classify" /\ phase' = "classify" /\ UNCHANGED classifyUnchanged
      /\ UNCHANGED <<work, failed, hard, m>> /\ item <= Len(batch) /\ item' = item + 1
      /\ obj > Len(batch[item].objects) /\ obj' = 0
  BY DEF CloseItem, Classifying, classifyUnchanged
<1>1. /\ item \in Nat /\ item' \in 1..(Len(batch) + 1) /\ obj \in Nat
      /\ Len(batch[item].objects) \in Nat /\ Len(batch) \in Nat /\ DOMAIN batch = 1..Len(batch)
  BY <1>0, ClassifyingFacts
<1>2. ~ batch[item].bad
  <2>1. obj > 0
    BY <1>0, <1>1
  <2> QED
    BY <1>0, <2>1, ClassifyingFacts
<1>3. {} \in SUBSET Counters /\ m' = Plus({})
  BY <1>0 DEF PipelineInv, PipelineTypeOK, Plus
<1>4. RefsBelow' = RefsBelow
  <2>1. References' = References
    BY <1>0 DEF References, classifyUnchanged
  <2>2. \A r \in References : /\ r[1] \in Nat /\ r[2] \in Nat
                              /\ r[1] = item => r[2] <= Len(batch[item].objects)
    BY <1>1 DEF References
  <2>3. \A r \in References : (r[1] < item' \/ (r[1] = item' /\ r[2] < obj'))
                          <=> (r[1] < item \/ (r[1] = item /\ r[2] < obj))
    BY <1>0, <1>1, <2>2
  <2> QED
    BY <2>1, <2>3 DEF RefsBelow
<1>5. m'["ObjectsExcludedByKey"] + Len(work') = Cardinality(RefsBelow)'
  BY <1>0, <1>3, <1>4, SameReferences
<1>6. \A i \in DOMAIN batch : batch[i].bad => (i < item' <=> i < item)
  BY <1>0, <1>1, <1>2
<1> QED
  BY <1>0, <1>1, <1>3, <1>5, <1>6, QuietClassify

LEMMA EndClassifyInv == PipelineInv /\ EndClassify => PipelineInv'
<1> SUFFICES ASSUME PipelineInv, EndClassify PROVE PipelineInv'
  OBVIOUS
<1>0. /\ phase = "classify" /\ phase' = "run" /\ UNCHANGED classifyUnchanged
      /\ UNCHANGED <<work, failed, hard, m, item, obj>> /\ item > Len(batch)
  BY DEF EndClassify, classifyUnchanged
<1>1. {} \in SUBSET Counters /\ m' = Plus({})
  BY <1>0 DEF PipelineInv, PipelineTypeOK, Plus
<1>2. RefsBelow' = RefsBelow
  BY <1>0 DEF RefsBelow, References, classifyUnchanged
<1>3. m'["ObjectsExcludedByKey"] + Len(work') = Cardinality(RefsBelow)'
  BY <1>0, <1>1, <1>2, SameReferences
<1>4. /\ item' \in 1..(Len(batch) + 1) /\ obj' \in Nat
      /\ obj' > 0 => /\ item' <= Len(batch) /\ ~ batch[item'].bad
                     /\ obj' <= Len(batch[item'].objects) + 1
  BY <1>0 DEF PipelineInv, PipelineTypeOK, PhaseInv
<1> QED
  BY <1>0, <1>1, <1>3, <1>4, QuietClassify

(* Getting past a reference.                                               *)
LEMMA OneMoreReference ==
    ASSUME PipelineInv, AtObject, UNCHANGED <<batch, item>>, obj' = obj + 1
    PROVE  /\ Cardinality(RefsBelow)' = Cardinality(RefsBelow) + 1 /\ Cardinality(RefsBelow) \in Nat
           /\ item' \in 1..(Len(batch) + 1) /\ obj' \in Nat
           /\ item <= Len(batch) /\ item \in DOMAIN batch /\ ~ batch[item].bad
           /\ obj \in DOMAIN batch[item].objects /\ obj' <= Len(batch[item'].objects) + 1
<1>0. phase = "classify" /\ item <= Len(batch) /\ obj \in 1..Len(batch[item].objects)
  BY DEF AtObject, Classifying
<1>1. /\ item \in DOMAIN batch /\ item \in Nat /\ Len(batch[item].objects) \in Nat
      /\ Len(batch[item].objects) <= MaxRefs /\ ~ batch[item].bad
      /\ DOMAIN batch[item].objects = 1..Len(batch[item].objects)
  BY <1>0, ClassifyingFacts
<1>2. <<item, obj>> \in References
  <2>1. MaxRefs \in Nat
    BY CasesAssumption
  <2>2. obj \in 1..MaxRefs /\ obj <= Len(batch[item].objects)
    BY <1>0, <1>1, <2>1
  <2> QED
    BY <1>1, <2>2 DEF References
<1>3. RefsBelow' = RefsBelow \cup {<<item, obj>>}
  <2>1. References' = References
    BY DEF References
  <2>2. \A r \in References : r = <<r[1], r[2]>> /\ r[1] \in DOMAIN batch /\ r[2] \in Nat
    BY DEF References
  <2>3. \A r \in References : (r[2] < obj' <=> (r[2] < obj \/ r[2] = obj))
    BY <1>0, <2>2
  <2>4. \A r \in References : (r[1] = item /\ r[2] = obj) <=> r = <<item, obj>>
    BY <2>2
  <2> QED
    BY <1>2, <2>1, <2>3, <2>4 DEF RefsBelow
<1>4. <<item, obj>> \notin RefsBelow
  BY <1>0, <1>1 DEF RefsBelow
<1>5. IsFiniteSet(RefsBelow) /\ Cardinality(RefsBelow) \in Nat
  <2>1. RefsBelow \in SUBSET References
    BY DEF RefsBelow
  <2> QED
    BY <2>1, ReferencesFinite DEF PipelineInv
<1>6. Cardinality(RefsBelow') = Cardinality(RefsBelow) + 1
  BY <1>3, <1>4, <1>5, FS_AddElement
<1>7. item' \in 1..(Len(batch) + 1) /\ obj' \in Nat /\ obj' <= Len(batch[item'].objects) + 1
  BY <1>0, <1>1 DEF PipelineInv, PipelineTypeOK
<1> QED
  BY <1>0, <1>1, <1>5, <1>6, <1>7

LEMMA ExcludeObjectInv == PipelineInv /\ ExcludeObject => PipelineInv'
<1> SUFFICES ASSUME PipelineInv, ExcludeObject PROVE PipelineInv'
  OBVIOUS
<1>0. /\ phase = "classify" /\ phase' = "classify" /\ UNCHANGED classifyUnchanged
      /\ UNCHANGED <<work, failed, hard, item, batch>> /\ AtObject /\ obj' = obj + 1
      /\ m' = Plus({"ObjectsExcludedByKey"})
  BY DEF ExcludeObject, AtObject, Classifying, classifyUnchanged, Count
<1> DEFINE C == {"ObjectsExcludedByKey"}
<1>1. /\ C \in SUBSET Counters /\ "ObjectsExcludedByKey" \in C /\ "ObjectsExcludedByKey" \in Counters
      /\ {"ObjectsProcessed", "ObjectsSkipped", "ObjectsFailed", "Tallies", "BytesIn"} \cap C = {}
  BY DEF Counters
<1>2. m' = Plus(C)
  BY <1>0
<1> HIDE DEF C
<1>3. /\ m'["ObjectsExcludedByKey"] = m["ObjectsExcludedByKey"] + 1
      /\ m["ObjectsExcludedByKey"] \in Nat
  BY <1>1, <1>2, PlusFacts DEF PipelineInv
<1>4. /\ Len(work) \in Nat /\ m["ObjectsExcludedByKey"] + Len(work) = Cardinality(RefsBelow)
  BY <1>0, NothingCounted, WorkFacts DEF BeforeRun, PipelineInv
<1>5. m'["ObjectsExcludedByKey"] + Len(work') = Cardinality(RefsBelow)'
  <2>1. Cardinality(RefsBelow)' = Cardinality(RefsBelow) + 1 /\ work' = work
    BY <1>0, OneMoreReference
  <2> QED
    BY <1>3, <1>4, <2>1
<1> QED
  BY <1>0, <1>1, <1>2, <1>5, OneMoreReference, QuietClassify

LEMMA RefuseSelfTriggerInv == PipelineInv /\ RefuseSelfTrigger => PipelineInv'
<1> SUFFICES ASSUME PipelineInv, RefuseSelfTrigger PROVE PipelineInv'
  OBVIOUS
<1>1. /\ Return("SelfTrigger", item, {}, {"ObjectsFailed"}) /\ BeforeRun
      /\ UNCHANGED <<cfg, batch, item, obj, work, taken, failed, hard, dest>>
      /\ engine' \in BOOLEAN /\ item \in Nat
  BY DEF RefuseSelfTrigger, AtObject, Classifying, BeforeRun, PipelineInv, PipelineTypeOK
<1>2. {"ObjectsFailed"} \in SUBSET Counters /\ "SelfTrigger" \in Errors \ {"none"}
  BY DEF Counters, Errors
<1> QED
  BY <1>1, <1>2, EarlyReturn

LEMMA AdmitObjectInv == PipelineInv /\ AdmitObject => PipelineInv'
<1> SUFFICES ASSUME PipelineInv, AdmitObject PROVE PipelineInv'
  OBVIOUS
<1>f. PICK f : f = [item |-> item, object |-> Current, pc |-> "waiting", res |-> "none", put |-> "absent"]
  OBVIOUS
<1>0. /\ phase = "classify" /\ phase' = "classify" /\ UNCHANGED classifyUnchanged
      /\ UNCHANGED <<failed, hard, item, batch, m>> /\ AtObject /\ obj' = obj + 1
      /\ Current.allowed /\ ~ Current.loops /\ work' = Append(work, f)
  BY <1>f DEF AdmitObject, AtObject, Classifying, classifyUnchanged
<1>1. /\ item \in DOMAIN batch /\ ~ batch[item].bad /\ obj \in DOMAIN batch[item].objects
      /\ item \in Nat /\ Current = batch[item].objects[obj] /\ Current \in Objects
  <2>1. item \in DOMAIN batch /\ ~ batch[item].bad /\ obj \in DOMAIN batch[item].objects
    BY <1>0, OneMoreReference
  <2> QED
    BY <2>1, BatchFacts DEF Current, PipelineInv
<1>2. /\ f \in Futures /\ f.item = item /\ f.object = Current /\ f.pc = "waiting" /\ f.res = "none"
  BY <1>1, <1>f DEF Futures, Pcs, Results, Contents
<1>3. FutureOK(f)'
  BY <1>0, <1>1, <1>2 DEF FutureOK
<1>4. work \in Seq(Futures) /\ DOMAIN work = 1..Len(work) /\ Len(work) \in Nat
  BY WorkFacts DEF PipelineInv, PipelineTypeOK
<1>5. /\ work' \in Seq(Futures) /\ Len(work') = Len(work) + 1
      /\ \A w \in 1..Len(work) : work'[w] = work[w]
      /\ work'[Len(work) + 1] = f
  BY <1>0, <1>2, <1>4, AppendProperties
<1>6. DOMAIN work' = 1..(Len(work) + 1)
  BY <1>5, LenProperties
<1>7. \A w \in DOMAIN work' : work'[w] = f \/ (w \in DOMAIN work /\ work'[w] = work[w])
  BY <1>4, <1>5, <1>6
<1>8. BeforeRun /\ UNCHANGED <<cfg, batch, taken, dest, engine>>
  BY <1>0 DEF BeforeRun, classifyUnchanged
<1>9. FutureInv'
  <2>1. ASSUME NEW w \in DOMAIN work, NEW g, g = work[w] PROVE FutureOK(g)'
    <3>1. FutureOK(g) /\ g.pc = "waiting" /\ g.res = "none"
      BY <1>8, <2>1, NothingCounted DEF PipelineInv, FutureInv
    <3> QED
      BY <1>8, <3>1 DEF FutureOK
  <2> QED
    BY <1>3, <1>7, <2>1 DEF FutureInv
<1>10. \A w \in DOMAIN work' : work'[w].pc = "waiting"
  BY <1>2, <1>7, <1>8, NothingCounted
<1>11. AttributionInv'
  BY <1>0, <1>8, NothingNoted
<1>12. /\ {} \in SUBSET Counters /\ m' = Plus({})
       /\ failed' \subseteq DOMAIN batch /\ hard' \in [item : Nat, err : Errors]
  BY <1>0 DEF PipelineInv, PipelineTypeOK, Plus
<1>13. m'["ObjectsExcludedByKey"] + Len(work') = Cardinality(RefsBelow)'
  <2>1. m["ObjectsExcludedByKey"] + Len(work) = Cardinality(RefsBelow)
    BY <1>8, NothingCounted
  <2>2. m["ObjectsExcludedByKey"] \in Nat
    BY DEF PipelineInv, PipelineTypeOK, Counters
  <2>3. Cardinality(RefsBelow)' = Cardinality(RefsBelow) + 1
    BY <1>0, OneMoreReference
  <2> QED
    BY <1>0, <1>4, <1>5, <2>1, <2>2, <2>3
<1> QED
  BY <1>0, <1>5, <1>9, <1>10, <1>11, <1>12, <1>13, OneMoreReference, ClassifyInv

-----------------------------------------------------------------------------
(* Pass 3.  The result taken is that of the next object in line.           *)
LEMMA AdjudicateInv == PipelineInv /\ Adjudicate => PipelineInv'
<1> SUFFICES ASSUME PipelineInv, Adjudicate PROVE PipelineInv'
  OBVIOUS
<1>w. PICK w : w = taken + 1
  OBVIOUS
<1>i. PICK i : i = work[w].item
  OBVIOUS
<1>0. /\ UNCHANGED <<cfg, batch, phase, engine, item, obj, work, dest, outcome, emitted>>
      /\ phase = "run" /\ w \in DOMAIN work /\ work[w].pc = "done" /\ taken' = w
  BY <1>w DEF Adjudicate, At
<1>1. /\ taken \in Nat /\ w \in Nat /\ 1..taken' = (1..taken) \cup {w} /\ w \notin 1..taken
      /\ taken' \in 0..Len(work) /\ 1..taken' \subseteq DOMAIN work
  <2>1. taken \in Nat /\ DOMAIN work = 1..Len(work) /\ Len(work) \in Nat
    BY WorkFacts DEF PipelineInv
  <2> QED
    BY <1>0, <1>w, <2>1
<1>2. PICK C \in {{}, {"ObjectsFailed"}} :
        /\ m' = Plus(C) /\ ("ObjectsFailed" \in C <=> ~ Succeeded(w))
        /\ \/ Succeeded(w) /\ UNCHANGED <<failed, hard>>
           \/ /\ ~ Succeeded(w) /\ Isolated(i)
              /\ failed' = failed \cup {i} /\ hard' = hard
           \/ /\ ~ Succeeded(w) /\ ~ Isolated(i)
              /\ NoteHardError(i, work[w].res) /\ failed' = failed
  <2>1. CASE Succeeded(w) /\ UNCHANGED <<m, failed, hard>>
    <3>1. m' = Plus({})
      BY <2>1 DEF PipelineInv, PipelineTypeOK, Plus
    <3> QED
      BY <2>1, <3>1
  <2>2. CASE ~ Succeeded(w) /\ Isolated(i) /\ Count({"ObjectsFailed"}) /\ failed' = failed \cup {i} /\ UNCHANGED hard
    BY <2>2 DEF Count
  <2>3. CASE /\ ~ Succeeded(w) /\ ~ Isolated(i) /\ Count({"ObjectsFailed"})
             /\ NoteHardError(i, work[w].res) /\ UNCHANGED failed
    BY <2>3 DEF Count
  <2> QED
    BY <1>w, <1>i, <2>1, <2>2, <2>3 DEF Adjudicate
<1>3. C \in SUBSET Counters /\ \A c \in Counters : c # "ObjectsFailed" => c \notin C
  BY DEF Counters
<1>4. i \in DOMAIN batch /\ work[w].res # "none" /\ work[w].res \in Results
  BY <1>0, <1>i, FutureObject DEF FutureOK, Futures
<1>5. AttributionInv' /\ failed' \subseteq DOMAIN batch /\ hard' \in [item : Nat, err : Errors]
  <2>1. \A v : Succeeded(v)' <=> Succeeded(v)
    BY <1>0 DEF Succeeded
  <2>2. \A k : FailedSoFar(k)' <=> (FailedSoFar(k) \/ (k = i /\ ~ Succeeded(w)))
    BY <1>0, <1>1, <1>i, <2>1 DEF FailedSoFar
  <2>3. CASE Succeeded(w)
    <3>1. \A k : FailedSoFar(k)' <=> FailedSoFar(k)
      BY <2>2, <2>3
    <3>2. \A k : Isolated(k)' <=> Isolated(k)
      BY <1>0 DEF Isolated
    <3>3. HardSoFar' = HardSoFar
      BY <1>0, <3>1, <3>2 DEF HardSoFar
    <3>4. UNCHANGED <<failed, hard>>
      BY <1>2, <2>3
    <3> QED
      BY <1>0, <3>1, <3>2, <3>3, <3>4 DEF AttributionInv, PipelineInv, PipelineTypeOK
  <2>4. CASE ~ Succeeded(w)
    <3>1. work[w].res \in Errors \ {"none", "SelfTrigger"}
      BY <1>4 DEF Errors, Results
    <3> QED
      BY <1>0, <1>2, <1>4, <2>2, <2>4, <3>1, FailureNoted
  <2> QED
    BY <2>3, <2>4
<1>6. PipelineTypeOK'
  <2>1. m' \in [Counters -> Nat]
    BY <1>2, <1>3, PlusFacts DEF PipelineInv
  <2> QED
    BY <1>0, <1>1, <1>5, <2>1 DEF PipelineInv, PipelineTypeOK
<1>7. PhaseInv' /\ FutureInv' /\ DestInv' /\ OkInv' /\ ReturnInv'
  <2>1. PhaseInv' /\ ReturnInv'
    BY <1>0 DEF PipelineInv, PhaseInv, ReturnInv, Completed
  <2>2. FutureInv'
    BY <1>0 DEF PipelineInv, FutureInv, FutureOK, Puttable
  <2>3. DestInv'
    BY <1>0 DEF PipelineInv, DestInv, Puttable
  <2>4. OkInv'
    BY <1>0 DEF PipelineInv, OkInv, Settled
  <2> QED
    BY <2>1, <2>2, <2>3, <2>4
<1>8. TakenInv'
  BY <1>0, <1>1 DEF PipelineInv, TakenInv
<1>9. CountInv'
  <2> DEFINE Fa == {v \in 1..taken : ~ Succeeded(v)}
             Fa2 == {v \in 1..taken' : ~ Succeeded(v)}
             B == "ObjectsFailed" \in C
  <2>1. Fa2 = (IF B THEN Fa \cup {w} ELSE Fa) /\ w \notin Fa /\ Fa \in SUBSET DOMAIN work
    BY <1>1, <1>2
  <2>2. Fa2 = {v \in 1..taken : ~ Succeeded(v)}'
    BY <1>0 DEF Succeeded
  <2>3. Counts(m) /\ m["ObjectsFailed"] = Cardinality(Fa)
    BY <1>0 DEF PipelineInv, CountInv, Counts
  <2>4. B \in BOOLEAN
    OBVIOUS
  <2>5. "ObjectsFailed" \in Counters
    BY DEF Counters
  <2>6. m'["ObjectsFailed"] = m["ObjectsFailed"] + (IF B THEN 1 ELSE 0)
    BY <1>2, <1>3, <2>5, PlusFacts DEF PipelineInv
  <2> HIDE DEF Fa, Fa2, B
  <2>7. Cardinality(Fa2) = Cardinality(Fa) + (IF B THEN 1 ELSE 0)
    <3>1. IsFiniteSet(Fa)
      BY <2>1, WorkFacts DEF PipelineInv
    <3> QED
      BY <2>1, <2>4, <3>1, OneMore
  <2>8. m'["ObjectsFailed"] = Cardinality({v \in 1..taken : ~ Succeeded(v)})'
    BY <2>2, <2>3, <2>6, <2>7
  <2>9. \A c \in Counters : c # "ObjectsFailed" => m'[c] = m[c]
    BY <1>2, <1>3, PlusFacts DEF PipelineInv
  <2>10. /\ m'["ObjectsProcessed"] = m["ObjectsProcessed"] /\ m'["ObjectsSkipped"] = m["ObjectsSkipped"]
         /\ m'["Tallies"] = m["Tallies"] /\ m'["BytesIn"] = m["BytesIn"]
         /\ m'["ObjectsExcludedByKey"] = m["ObjectsExcludedByKey"]
    BY <2>9 DEF Counters
  <2>11. /\ RefsBelow' = RefsBelow
         /\ {v \in DOMAIN work : Tallied(work[v])}' = {v \in DOMAIN work : Tallied(work[v])}
         /\ {v \in DOMAIN work : MayBill(work[v])}' = {v \in DOMAIN work : MayBill(work[v])}
         /\ {v \in DOMAIN work : MustBill(work[v])}' = {v \in DOMAIN work : MustBill(work[v])}
    BY <1>0 DEF RefsBelow, References, Tallied, MayBill, MustBill
  <2> QED
    BY <1>0, <2>3, <2>8, <2>10, <2>11 DEF CountInv, Counts
<1> QED
  BY <1>5, <1>6, <1>7, <1>8, <1>9 DEF PipelineInv

(* handle returns once every result is taken.                              *)
LEMMA EndBatchInv == PipelineInv /\ EndBatch => PipelineInv'
<1> SUFFICES ASSUME PipelineInv, EndBatch PROVE PipelineInv'
  OBVIOUS
<1>0. /\ UNCHANGED <<cfg, batch, engine, item, obj, work, taken, failed, hard, dest>>
      /\ phase = "run" /\ taken = Len(work) /\ phase' = "returned" /\ m' = Zero /\ emitted' = Plus({})
      /\ \/ hard # NoHard /\ outcome' = [err |-> hard.err, item |-> hard.item, failed |-> {}]
         \/ hard = NoHard /\ outcome' = [err |-> "none", item |-> 0, failed |-> {i \in failed : batch[i].ack}]
  BY DEF EndBatch, Return
<1>1. emitted' = m /\ m' \in [Counters -> Nat] /\ m \in [Counters -> Nat]
  BY <1>0 DEF Plus, Zero, PipelineInv, PipelineTypeOK
<1>2. /\ hard # NoHard => hard.err \notin {"none", "SelfTrigger"}
      /\ hard \in [item : Nat, err : Errors] /\ failed \subseteq DOMAIN batch /\ DOMAIN batch \subseteq Nat
  BY BatchFacts DEF PipelineInv, PipelineTypeOK, AttributionInv
<1>3. outcome'.err # "SelfTrigger" /\ outcome' \in [err : Errors, item : Nat, failed : SUBSET Nat]
  BY <1>0, <1>2 DEF Errors, Results
<1>4. PipelineTypeOK'
  BY <1>0, <1>1, <1>3 DEF PipelineInv, PipelineTypeOK
<1>5. PhaseInv'
  BY <1>0, <1>3 DEF PipelineInv, PhaseInv
<1>6. FutureInv' /\ TakenInv'
  BY <1>0 DEF PipelineInv, FutureInv, FutureOK, Puttable, TakenInv
<1>7. DestInv' /\ OkInv'
  BY <1>0 DEF PipelineInv, DestInv, Puttable, OkInv, Settled
<1>8. AttributionInv'
  BY <1>0 DEF PipelineInv, AttributionInv, HardSoFar, FailedSoFar, Isolated, Succeeded
<1>9. CountInv'
  BY <1>0 DEF CountInv
<1>10. ReturnInv'
  <2>1. Counts(m) /\ item > Len(batch)
    BY <1>0 DEF PipelineInv, CountInv, PhaseInv
  <2>2. Counts(emitted)'
    BY <1>0, <1>1, <2>1 DEF Counts, RefsBelow, References, Succeeded, Tallied, MayBill, MustBill
  <2> QED
    BY <1>0, <1>3, <2>1, <2>2 DEF ReturnInv
<1> QED
  BY <1>4, <1>5, <1>6, <1>7, <1>8, <1>9, <1>10 DEF PipelineInv

LEMMA StutterInv == PipelineInv /\ UNCHANGED vars => PipelineInv'
<1> SUFFICES ASSUME PipelineInv, UNCHANGED vars PROVE PipelineInv'
  OBVIOUS
<1> USE DEF vars
<1>1. PipelineTypeOK' /\ PhaseInv'
  BY DEF PipelineInv, PipelineTypeOK, PhaseInv
<1>2. FutureInv' /\ TakenInv'
  BY DEF PipelineInv, FutureInv, FutureOK, Puttable, TakenInv
<1>3. DestInv' /\ OkInv'
  BY DEF PipelineInv, DestInv, Puttable, OkInv, Settled
<1>4. AttributionInv'
  BY DEF PipelineInv, AttributionInv, HardSoFar, FailedSoFar, Isolated, Succeeded
<1>5. (Counts(m)' <=> Counts(m)) /\ (Counts(emitted)' <=> Counts(emitted))
  BY DEF Counts, RefsBelow, References, Succeeded, Tallied, MayBill, MustBill
<1>6. CountInv' /\ ReturnInv'
  BY <1>5 DEF PipelineInv, CountInv, ReturnInv, Completed
<1> QED
  BY <1>1, <1>2, <1>3, <1>4, <1>6 DEF PipelineInv

LEMMA PipelineStep == PipelineInv /\ [Next]_vars => PipelineInv'
<1> SUFFICES ASSUME PipelineInv, [Next]_vars PROVE PipelineInv'
  OBVIOUS
<1>1. CASE Classify
  BY <1>1, PoisonItemInv, OpenItemInv, CloseItemInv, ExcludeObjectInv, RefuseSelfTriggerInv,
     AdmitObjectInv, EndClassifyInv DEF Classify
<1>2. CASE \E w \in DOMAIN work : ProcessObject(w)
  BY <1>2, FutureAdvances, AdvanceKeepsInv
<1> QED
  BY <1>1, <1>2, DecodeInv, GetConfigInv, AdjudicateInv, EndBatchInv, StutterInv DEF Next, Returned

-----------------------------------------------------------------------------
(* Whatever the batch, the settings and the order of the futures: every    *)
(* part of the invariant holds in every state of Pipeline::handle.         *)
THEOREM PipelineInvariant == Spec => []PipelineInv
BY PipelineInit, PipelineStep, PTL DEF Spec

(* What is at a key of the batch is there for an object of that key, and   *)
(* references of one key agree on what matters.                            *)
LEMMA InvImpliesAllowed == PipelineInv => DestinationAllowed
<1> SUFFICES ASSUME PipelineInv PROVE DestinationAllowed
  OBVIOUS
<1>1. outcome.err = "SelfTrigger" =>
          /\ \A w \in DOMAIN work : work[w].pc = "waiting"
          /\ emitted["BytesIn"] = 0 /\ \A k \in Keys : dest[k] = "absent"
  BY DEF PipelineInv, PhaseInv, ReturnInv
<1>2. ASSUME NEW i \in DOMAIN batch, NEW j \in DOMAIN batch[i].objects,
             NEW o, o = batch[i].objects[j], dest[o.key] # "absent"
      PROVE  /\ o.allowed /\ ~ o.loops /\ ~ (cfg.dryRun /\ engine)
             /\ dest[o.key] = "filtered" => engine /\ o.verdict = "Written"
             /\ dest[o.key] = "source" =>
                  \/ ~ engine /\ cfg.config = "open"
                  \/ o.verdict = "Unrecognized" /\ cfg.unrecognized = "copy"
                  \/ o.verdict = "Unparsable" /\ cfg.parse = "copy"
  <2>1. o.key \in Keys
    BY <1>2, BatchFacts DEF PipelineInv
  <2>2. PICK w \in DOMAIN work : work[w].object.key = o.key /\ Puttable(work[w].object, dest[o.key])
    BY <1>2, <2>1 DEF PipelineInv, DestInv
  <2>3. PICK p : p = work[w].object
    OBVIOUS
  <2>4. p.allowed /\ ~ p.loops
    BY <2>3, FutureObject DEF FutureOK
  <2>5. o.verdict = p.verdict /\ o.allowed = p.allowed /\ o.loops = p.loops
    <3>1. work[w].item \in DOMAIN batch
      BY FutureObject DEF FutureOK
    <3>2. PICK l \in DOMAIN batch[work[w].item].objects : p = batch[work[w].item].objects[l]
      BY <2>3, FutureObject DEF FutureOK
    <3> QED
      BY <1>2, <2>2, <2>3, <3>1, <3>2, SameKey DEF PipelineInv
  <2> QED
    BY <2>2, <2>3, <2>4, <2>5 DEF Puttable
<1> QED
  BY <1>1, <1>2 DEF DestinationAllowed

(* No destination key ever holds what the policies forbid, and a           *)
(* self-trigger leaves the destination and the billing untouched, for      *)
(* every batch and every interleaving of the futures.                      *)
THEOREM DestinationIsAllowed == Spec => []DestinationAllowed
BY PipelineInvariant, InvImpliesAllowed, PTL

(* When handle has returned, every result was taken.                       *)
LEMMA AllTaken ==
    ASSUME PipelineInv, Completed
    PROVE  /\ 1..taken = DOMAIN work /\ taken = Len(work) /\ Len(work) \in Nat
           /\ \A w \in DOMAIN work : work[w].pc = "done" /\ work[w].res # "none"
           /\ \A i \in DOMAIN batch :
                FailedSoFar(i) <=> \/ batch[i].bad
                                   \/ \E w \in DOMAIN work : work[w].item = i /\ ~ Succeeded(w)
<1>1. taken = Len(work) /\ item > Len(batch) /\ item \in Nat
  BY DEF PipelineInv, ReturnInv, PipelineTypeOK
<1>2. DOMAIN work = 1..Len(work) /\ Len(work) \in Nat /\ DOMAIN batch = 1..Len(batch) /\ Len(batch) \in Nat
  BY WorkFacts, BatchFacts DEF PipelineInv
<1>3. 1..taken = DOMAIN work
  BY <1>1, <1>2
<1>4. \A w \in DOMAIN work : work[w].pc = "done" /\ work[w].res # "none"
  BY <1>3 DEF PipelineInv, TakenInv, FutureInv, FutureOK
<1>5. \A i \in DOMAIN batch : i < item
  BY <1>1, <1>2
<1> QED
  BY <1>1, <1>2, <1>3, <1>4, <1>5 DEF FailedSoFar

LEMMA InvImpliesAttributed == PipelineInv => FailuresAttributed
<1> DEFINE Failing(i) == batch[i].bad \/ \E w \in DOMAIN work : work[w].item = i /\ ~ Succeeded(w)
           hardItems == {i \in DOMAIN batch : Failing(i) /\ ~ Isolated(i)}
<1> SUFFICES ASSUME PipelineInv, Completed
             PROVE  \/ /\ hardItems = {}
                       /\ outcome.err = "none"
                       /\ outcome.failed = {i \in DOMAIN batch : Failing(i)}
                    \/ /\ outcome.item \in hardItems
                       /\ \A i \in hardItems : outcome.item <= i
                       /\ outcome.err # "none"
  BY DEF FailuresAttributed
<1>1. \A i \in DOMAIN batch : FailedSoFar(i) <=> Failing(i)
  BY AllTaken
<1>2. hardItems = HardSoFar
  BY <1>1 DEF HardSoFar
<1> HIDE DEF hardItems
<1>3. /\ failed = {i \in DOMAIN batch : FailedSoFar(i) /\ Isolated(i)}
      /\ hard = NoHard <=> HardSoFar = {}
      /\ hard # NoHard => /\ hard.item \in HardSoFar /\ \A i \in HardSoFar : hard.item <= i
                          /\ hard.err \notin {"none", "SelfTrigger"}
  BY DEF PipelineInv, AttributionInv
<1>4. CASE hard = NoHard
  <2>1. outcome.err = "none" /\ outcome.failed = {i \in failed : batch[i].ack} /\ HardSoFar = {}
    BY <1>3, <1>4 DEF PipelineInv, ReturnInv
  <2>2. \A i \in DOMAIN batch : Failing(i) => Isolated(i)
    BY <1>1, <2>1 DEF HardSoFar
  <2>3. \A i : Isolated(i) => batch[i].ack
    BY DEF Isolated
  <2>4. outcome.failed = {i \in DOMAIN batch : Failing(i)}
    BY <1>1, <1>3, <2>1, <2>2, <2>3
  <2> QED
    BY <1>2, <2>1, <2>4
<1>5. CASE hard # NoHard
  <2>1. outcome.err = hard.err /\ outcome.item = hard.item
    BY <1>5 DEF PipelineInv, ReturnInv
  <2> QED
    BY <1>2, <1>3, <1>5, <2>1
<1> QED
  BY <1>4, <1>5

(* The verdict on the batch is a function of the objects' results, for     *)
(* every batch, concurrency and completion order.                          *)
THEOREM FailuresAreAttributed == Spec => []FailuresAttributed
BY PipelineInvariant, InvImpliesAttributed, PTL

LEMMA InvImpliesSettled == PipelineInv => AckedMeansSettled
<1> SUFFICES ASSUME PipelineInv, Completed, outcome.err = "none" PROVE AckedMeansSettled
  BY DEF AckedMeansSettled
<1>1. FailuresAttributed
  BY InvImpliesAttributed
<1>2. outcome.failed = {i \in DOMAIN batch :
                          batch[i].bad \/ \E w \in DOMAIN work : work[w].item = i /\ ~ Succeeded(w)}
  BY <1>1 DEF FailuresAttributed
<1>3. ASSUME NEW w \in DOMAIN work, work[w].item \notin outcome.failed
      PROVE  (work[w].res = "skipped" /\ cfg.missing = "skip") \/ Settled(work[w].object)
  <2>1. work[w].item \in DOMAIN batch /\ (work[w].res = "skipped" => cfg.missing = "skip")
    BY FutureObject DEF FutureOK
  <2>2. Succeeded(w)
    BY <1>2, <1>3, <2>1
  <2> QED
    BY <2>1, <2>2 DEF Succeeded, PipelineInv, OkInv
<1>4. \A i \in DOMAIN batch : batch[i].bad => i \in outcome.failed
  BY <1>2
<1> QED
  BY <1>3, <1>4 DEF AckedMeansSettled

(* No batch, no setting and no interleaving lets handle acknowledge a      *)
(* message whose object is neither at the destination nor rightly left out *)
(* of it.                                                                  *)
THEOREM AckedIsSettled == Spec => []AckedMeansSettled
BY PipelineInvariant, InvImpliesSettled, PTL

LEMMA InvImpliesAccounted == PipelineInv => EveryObjectAccounted
<1> SUFFICES ASSUME PipelineInv, Completed PROVE EveryObjectAccounted
  BY DEF EveryObjectAccounted
<1> DEFINE Ok == {w \in DOMAIN work : work[w].res = "ok"}
           Sk == {w \in DOMAIN work : work[w].res = "skipped"}
           Fa == {w \in DOMAIN work : ~ Succeeded(w)}
<1>1. Counts(emitted) /\ 1..taken = DOMAIN work /\ Len(work) \in Nat
      /\ \A w \in DOMAIN work : work[w].pc = "done"
  BY AllTaken DEF PipelineInv, ReturnInv
<1>2. /\ emitted["ObjectsProcessed"] = Cardinality(Ok) /\ emitted["ObjectsSkipped"] = Cardinality(Sk)
      /\ emitted["ObjectsFailed"] = Cardinality(Fa)
      /\ emitted["ObjectsExcludedByKey"] + Len(work) = Cardinality(RefsBelow)
  BY <1>1 DEF Counts
<1>3. /\ Ok \cup Sk \in SUBSET DOMAIN work /\ Ok \in SUBSET DOMAIN work /\ Sk \in SUBSET DOMAIN work
      /\ Fa \in SUBSET DOMAIN work /\ (Ok \cup Sk) \cup Fa = DOMAIN work
      /\ Ok \cap Sk = {} /\ (Ok \cup Sk) \cap Fa = {}
  BY DEF Succeeded
<1>4. RefsBelow = {r \in (DOMAIN batch) \X (1..MaxRefs) :
                      ~ batch[r[1]].bad /\ r[2] <= Len(batch[r[1]].objects)}
  <2>1. item > Len(batch) /\ item \in Nat
    BY DEF PipelineInv, ReturnInv, PipelineTypeOK
  <2>2. DOMAIN batch = 1..Len(batch) /\ Len(batch) \in Nat
    BY BatchFacts DEF PipelineInv
  <2>3. \A r \in References : r[1] < item
    BY <2>1, <2>2 DEF References
  <2>4. RefsBelow = References
    BY <2>3 DEF RefsBelow
  <2> QED
    BY <2>4 DEF References
<1> HIDE DEF Ok, Sk, Fa
<1>5. /\ IsFiniteSet(Ok) /\ IsFiniteSet(Sk) /\ IsFiniteSet(Fa) /\ IsFiniteSet(Ok \cup Sk)
      /\ Cardinality(Ok) \in Nat /\ Cardinality(Sk) \in Nat /\ Cardinality(Fa) \in Nat
      /\ Cardinality(Ok \cup Sk) \in Nat
  BY <1>3, WorkFacts DEF PipelineInv
<1>6. Cardinality(Ok \cup Sk) = Cardinality(Ok) + Cardinality(Sk)
  <2>1. Cardinality(Ok \cup Sk) = Cardinality(Ok) + Cardinality(Sk) - Cardinality(Ok \cap Sk)
    BY <1>5, FS_Union
  <2>2. Cardinality(Ok \cap Sk) = 0
    BY <1>3, FS_EmptySet
  <2>3. \A a, b, c, d \in Nat : a = b + c - d /\ d = 0 => a = b + c
    OBVIOUS
  <2> QED
    BY <1>5, <2>1, <2>2, <2>3
<1>7. Cardinality(DOMAIN work) = Cardinality(Ok \cup Sk) + Cardinality(Fa)
  <2>1. Cardinality((Ok \cup Sk) \cup Fa) =
          Cardinality(Ok \cup Sk) + Cardinality(Fa) - Cardinality((Ok \cup Sk) \cap Fa)
    BY <1>5, FS_Union
  <2>2. Cardinality((Ok \cup Sk) \cap Fa) = 0
    BY <1>3, FS_EmptySet
  <2>3. \A a, b, c, d \in Nat : a = b + c - d /\ d = 0 => a = b + c
    OBVIOUS
  <2>4. Cardinality(DOMAIN work) \in Nat /\ (Ok \cup Sk) \cup Fa = DOMAIN work
    BY <1>3, WorkFacts DEF PipelineInv
  <2> QED
    BY <1>5, <2>1, <2>2, <2>3, <2>4
<1>8. Cardinality(DOMAIN work) = Len(work)
  <2>1. DOMAIN work = 1..Len(work)
    BY WorkFacts DEF PipelineInv
  <2>2. Cardinality(1..Len(work)) = IF 1 > Len(work) THEN 0 ELSE Len(work) - 1 + 1
    BY <1>1, FS_Interval
  <2> QED
    BY <1>1, <2>1, <2>2
<1>9. emitted["ObjectsProcessed"] + emitted["ObjectsSkipped"] + emitted["ObjectsFailed"] = Len(work)
  BY <1>2, <1>5, <1>6, <1>7, <1>8
<1> QED
  BY <1>1, <1>2, <1>4, <1>9 DEF EveryObjectAccounted

(* Every reference of every batch is counted exactly once, and handle      *)
(* leaves no future unfinished.                                            *)
THEOREM EveryObjectIsAccounted == Spec => []EveryObjectAccounted
BY PipelineInvariant, InvImpliesAccounted, PTL

LEMMA InvImpliesReconciled == PipelineInv => CountersReconcile
<1> SUFFICES ASSUME PipelineInv, Completed PROVE CountersReconcile
  BY DEF CountersReconcile
<1> DEFINE Ok == {w \in DOMAIN work : work[w].res = "ok"}
           Ma == {w \in DOMAIN work : MayBill(work[w])}
           Mu == {w \in DOMAIN work : MustBill(work[w])}
<1>1. Counts(emitted) /\ emitted["BytesIn"] \in Nat
  BY DEF PipelineInv, ReturnInv, PipelineTypeOK, Counters
<1>2. /\ emitted["ObjectsProcessed"] = Cardinality(Ok)
      /\ emitted["BytesIn"] <= Cardinality(Ma) /\ Cardinality(Mu) <= emitted["BytesIn"]
      /\ emitted["Tallies"] = Cardinality({w \in DOMAIN work : Tallied(work[w])})
  BY <1>1 DEF Counts
<1>3. Ok \in SUBSET Mu /\ Ok \in SUBSET DOMAIN work /\ Ma \in SUBSET DOMAIN work /\ Mu \in SUBSET DOMAIN work
  BY DEF MustBill
<1>4. {w \in DOMAIN work : Tallied(work[w])} =
        {w \in DOMAIN work : /\ engine /\ work[w].res = "ok"
                             /\ work[w].object.verdict \in {"Written", "NothingKept"}}
  BY DEF Tallied
<1> HIDE DEF Ok, Ma, Mu
<1>5. /\ IsFiniteSet(Mu) /\ Cardinality(Ok) \in Nat /\ Cardinality(Ma) \in Nat
      /\ Cardinality(Mu) \in Nat
  BY <1>3, WorkFacts DEF PipelineInv
<1>6. Cardinality(Ok) <= Cardinality(Mu)
  BY <1>3, <1>5, FS_Subset
<1>7. Cardinality(Ma) <= Len(work) /\ Len(work) \in Nat
  <2>1. DOMAIN work = 1..Len(work) /\ Len(work) \in Nat
    BY WorkFacts DEF PipelineInv
  <2>2. IsFiniteSet(1..Len(work)) /\ Cardinality(1..Len(work)) = IF 1 > Len(work) THEN 0 ELSE Len(work) - 1 + 1
    BY <2>1, FS_Interval
  <2>3. Cardinality(Ma) <= Cardinality(1..Len(work))
    BY <1>3, <2>1, <2>2, FS_Subset
  <2> QED
    BY <2>1, <2>2, <2>3
<1>8. emitted["BytesIn"] <= Len(work) /\ emitted["ObjectsProcessed"] <= emitted["BytesIn"]
  BY <1>1, <1>2, <1>5, <1>6, <1>7
<1> QED
  BY <1>2, <1>4, <1>8 DEF CountersReconcile

(* Tallies and bytes are billed at most once per object whatever was       *)
(* retried or copied, and bytes for every processed one.                   *)
THEOREM CountersDoReconcile == Spec => []CountersReconcile
BY PipelineInvariant, InvImpliesReconciled, PTL
=============================================================================
