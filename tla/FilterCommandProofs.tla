------------------------ MODULE FilterCommandProofs ------------------------
(***************************************************************************)
(* `cloudtrail-rs filter` for every command line, every tree of objects    *)
(* and every settings document: what its summary, its exit code and the    *)
(* files it leaves can be relied on for.                                   *)
(*                                                                         *)
(* The argument: the run keeps one position, cur.  What lies before it has *)
(* been reported, what lies at or after it has left no trace, and while    *)
(* the object at cur is processed its destination is its mirror and what   *)
(* is held of it is what its verdict calls for.                            *)
(***************************************************************************)
EXTENDS FilterCommand, FiniteSetTheorems, SequenceTheorems, TLAPS

(* No object is written where another one is read: the destination does    *)
(* not lie inside the source so that one object's mirror is another object.*)
Disjoint ==
    \A s \in InScope, t \in job.tree :
        MirrorOf(s) = Place(job.src, t.key) => s = t

(* No two objects that can be written belong at the same place.            *)
MirrorsApart ==
    \A s, t \in InScope :
        /\ ~ Unsafe(AsObject(s)) /\ ~ Unsafe(AsObject(t))
        /\ MirrorOf(s) = MirrorOf(t)
        => s = t

-----------------------------------------------------------------------------
(***************************************************************************)
(* The inductive invariant.                                                *)
(***************************************************************************)
Processing == {"buffer", "stream", "unparsed", "unrecognized", "copy", "put"}

Source(i) == SourceAt(Place(job.src, objects[i].key))
SourcePlaces == {Place(job.src, s.key) : s \in job.tree}
Original(p) == [of |-> p, form |-> "source"]
Contents == [of : SourcePlaces, form : {"source", "filtered", "torn"}]
Metrics == [tallied : SUBSET Nat, unrecognized : Nat, unparsed : Nat]

(* Types.                                                                  *)
TypeInv ==
    /\ job \in Jobs
    /\ pc \in {"start", "pick", "done"} \cup Processing
    /\ cur \in Nat
    /\ m \in Metrics
    /\ exit \in {"none", "ok", "error"}
    /\ files \in [DOMAIN files -> Contents]
    /\ held \in Contents \cup {Nothing}

(* The objects are those in scope, each once, unless none was listed.      *)
Listed == objects \in Listings({AsObject(s) : s \in InScope})

ListedInv ==
    /\ Listed \/ (objects = <<>> /\ (pc = "start" \/ (pc = "done" /\ exit = "error")))
    /\ report \in [DOMAIN objects -> Reports]

(* What lies before cur has been reported and nothing else has.            *)
ProgressInv ==
    /\ pc = "pick" => cur \in 1..(Len(objects) + 1)
    /\ pc \in Processing => cur \in 1..Len(objects)
    /\ pc = "put" => held # Nothing
    /\ SourcePlaces \subseteq DOMAIN files
    /\ \A i \in DOMAIN report : report[i] = "none" <=> i >= cur
    /\ \A i \in m.tallied : i < cur

(* Before the listing nothing has happened.                                *)
StartInv ==
    pc = "start" => /\ objects = <<>> /\ cur = 0 /\ exit = "none"
                    /\ m.tallied = {} /\ m.unrecognized = 0
                    /\ files = [p \in SourcePlaces |-> Original(p)]

(* What the exit code stands for.                                          *)
ExitInv ==
    /\ exit # "none" => pc = "done"
    /\ exit = "ok" => /\ Listed
                      /\ \A i \in DOMAIN objects : i < cur /\ report[i] # "Failed"
    /\ pc = "done" => \/ objects = <<>> /\ faulty
                      \/ Listed /\ NoDestKey
                      \/ Listed /\ cur = Len(objects) + 1
    /\ EveryObjectAttempted

(* The object at cur, while it is processed.                               *)
CurrentInv ==
    pc \in Processing =>
        /\ Listed
        /\ ~ Unsafe(objects[cur])
        /\ DstPlace = MirrorOf(Source(cur))
        /\ ~ cfg.dryRun => DstPlace # SrcPlace
        /\ pc \in {"put", "copy", "unrecognized"} => ~ cfg.dryRun
        /\ pc = "buffer" => ~ Streams(Source(cur))
        /\ pc = "stream" => Streams(Source(cur)) \/ cfg.tooLarge = "stream"

HeldInv ==
    /\ pc \in {"start", "pick", "buffer", "stream", "copy"} => held = Nothing
    /\ pc \in Processing /\ held # Nothing => ~ Streams(Source(cur))
    /\ pc \in {"unparsed", "unrecognized", "copy"} => files[SrcPlace].form # "filtered"

(* What is stored: the sources, and mirrors of objects before cur.         *)
PlacesInv ==
    /\ cfg.dryRun => DOMAIN files = SourcePlaces
    /\ \A p \in DOMAIN files \ SourcePlaces :
          \E i \in DOMAIN objects :
              i < cur /\ p = MirrorOf(Source(i)) /\ ~ Unsafe(objects[i])

Clean == Disjoint \/ cfg.dryRun

(* What is held of the object at cur, when the sources are what they were. *)
ContentInv ==
    Clean =>
        /\ SourcesIntact
        /\ pc = "unparsed" => /\ Source(cur).verdict = "Unparsable"
                              /\ held \in {Nothing, Original(SrcPlace)}
        /\ pc = "unrecognized" => /\ Source(cur).verdict = "Unrecognized"
                                  /\ held \in {Nothing, Original(SrcPlace)}
        /\ pc = "copy" => Due(Source(cur)) = Original(SrcPlace)
        /\ pc = "put" => held = Due(Source(cur)) /\ held # Nothing

(* Damage, and everything else that lies at a destination.                 *)
DamageInv ==
    Disjoint =>
        \A p \in DOMAIN files \ SourcePlaces :
            /\ files[p].form = "torn" =>
                  \E i \in DOMAIN objects :
                      /\ i < cur /\ p = MirrorOf(Source(i))
                      /\ report[i] = "Failed" /\ ~ Streams(Source(i))
            /\ \E i \in DOMAIN objects :
                  /\ i < cur /\ p = MirrorOf(Source(i)) /\ ~ Unsafe(objects[i])
                  /\ report[i] = "Failed" \/ Due(Source(i)) # Nothing

(* An object that did not fail has what it is due.                         *)
DeliveredInv ==
    Disjoint /\ MirrorsApart /\ ~ cfg.dryRun =>
        \A i \in DOMAIN objects :
            i < cur /\ report[i] # "Failed" =>
                /\ ~ Unsafe(objects[i])
                /\ MirrorOf(Source(i)) \notin SourcePlaces
                /\ Due(Source(i)) # Nothing =>
                      /\ MirrorOf(Source(i)) \in DOMAIN files
                      /\ files[MirrorOf(Source(i))] = Due(Source(i))

(* The unrecognized count of a preview.                                    *)
Counted(s) ==
    /\ s.verdict = "Unrecognized"
    /\ ~ Unsafe(AsObject(s))
    /\ ~ MustFail([s EXCEPT !.verdict = "Written"])

CountedInv ==
    cfg.dryRun /\ ~ faulty =>
        m.unrecognized = Cardinality({i \in 1..(cur - 1) : Counted(Source(i))})

BaseInv == StartInv /\ TypeInv /\ ListedInv /\ ProgressInv /\ ExitInv

-----------------------------------------------------------------------------
(***************************************************************************)
(* The listing: the objects and the sources in scope, one to one.          *)
(***************************************************************************)
LEMMA JobFacts ==
    ASSUME job \in Jobs
    PROVE  /\ job.src \in Locations /\ job.dst \in Locations
           /\ job.single \in BOOLEAN
           /\ job.tree \subseteq SourceObjects
           /\ cfg \in Settings
           /\ job.src.path # <<>> /\ job.dst.path # <<>>
           /\ IsFiniteSet(job.tree)
           /\ \A s, t \in job.tree : s.key = t.key => s = t
BY JobsAssumption DEF cfg

LEMMA ScopeFinite ==
    ASSUME job \in Jobs
    PROVE  /\ InScope \subseteq job.tree /\ IsFiniteSet(InScope)
           /\ IsFiniteSet({AsObject(s) : s \in InScope})
           /\ \A s, t \in InScope : AsObject(s) = AsObject(t) => s = t
<1>1. InScope \in SUBSET job.tree
  BY DEF InScope
<1>2. IsFiniteSet(InScope)
  BY <1>1, JobFacts, FS_Subset
<1>3. \A s, t \in InScope : AsObject(s) = AsObject(t) => s = t
  BY <1>1, JobFacts DEF AsObject
<1>4. DEFINE f == [s \in InScope |-> AsObject(s)]
             T == {AsObject(s) : s \in InScope}
<1>5. f \in Surjection(InScope, T)
  BY DEF Surjection
<1>6. IsFiniteSet(T)
  BY <1>2, <1>5, FS_Surjection
<1> QED BY <1>1, <1>2, <1>3, <1>6

(* The source of a listed object is in scope, and the object is listed for *)
(* it.                                                                     *)
LEMMA ObjectSource ==
    ASSUME job \in Jobs, Listed, NEW i \in DOMAIN objects
    PROVE  /\ Source(i) \in InScope /\ Source(i) \in job.tree
           /\ objects[i] = AsObject(Source(i))
           /\ Source(i).key = objects[i].key
<1>1. objects[i] \in {AsObject(s) : s \in InScope}
  BY DEF Listed, Listings
<1>2. PICK s \in InScope : objects[i] = AsObject(s)
  BY <1>1
<1>3. s \in job.tree
  BY ScopeFinite
<1>4. s.key = objects[i].key
  <2>1. AsObject(s).key = s.key
    BY Zenon DEF AsObject
  <2> QED BY <1>2, <2>1
<1>5. \A t \in job.tree : Place(job.src, t.key) = Place(job.src, objects[i].key) <=> t = s
  BY <1>3, <1>4, JobFacts DEF Place
<1>6. Source(i) = s
  BY <1>3, <1>5 DEF Source, SourceAt
<1> QED BY <1>2, <1>3, <1>4, <1>6

(* A listing of a finite set has every member once.                        *)
LEMMA ListingOnce ==
    ASSUME NEW T, IsFiniteSet(T), NEW f \in Listings(T)
    PROVE  /\ Len(f) = Cardinality(T) /\ Len(f) \in Nat /\ DOMAIN f = 1..Len(f)
           /\ \A i, k \in DOMAIN f : f[i] = f[k] => i = k
<1>1. PICK n \in Nat : n = Cardinality(T)
  BY FS_CardinalityType
<1>2. f \in [1..n -> T] /\ \A o \in T : \E i \in 1..n : f[i] = o
  BY <1>1 DEF Listings
<1>3. f \in Surjection(1..n, T)
  BY <1>2, Zenon DEF Surjection
<1>4. IsFiniteSet(1..n) /\ Cardinality(1..n) = n
  BY FS_Interval
<1>5. f \in Injection(1..n, T)
  BY <1>1, <1>3, <1>4, FS_SurjSameCardinalityImpliesInj
<1>6. \A i, k \in 1..n : f[i] = f[k] => i = k
  BY <1>5, Zenon DEF Injection, IsInjective
<1>7. Len(f) = n /\ DOMAIN f = 1..n
  BY <1>2, LenProperties
<1> QED BY <1>1, <1>6, <1>7

LEMMA ListingShape ==
    ASSUME job \in Jobs, Listed
    PROVE  /\ DOMAIN objects = 1..Len(objects) /\ Len(objects) \in Nat
           /\ \A i, k \in DOMAIN objects : objects[i] = objects[k] => i = k
BY ScopeFinite, ListingOnce DEF Listed

LEMMA SourcesDistinct ==
    ASSUME job \in Jobs, Listed, NEW i \in DOMAIN objects, NEW k \in DOMAIN objects,
           Source(i) = Source(k)
    PROVE  i = k
BY ObjectSource, ListingShape

LEMMA SourcesCover ==
    ASSUME job \in Jobs, Listed, NEW s \in InScope
    PROVE  \E i \in DOMAIN objects : Source(i) = s
<1>1. PICK i \in DOMAIN objects : objects[i] = AsObject(s)
  BY DEF Listed, Listings
<1>2. AsObject(Source(i)) = AsObject(s) /\ Source(i) \in InScope
  BY <1>1, ObjectSource
<1>3. Source(i) = s
  BY <1>2, ScopeFinite
<1> QED BY <1>3

(* What depends on the job alone stays, and what depends on the listing    *)
(* stays with it.                                                          *)
LEMMA JobFrame ==
    ASSUME job' = job
    PROVE  /\ InScope' = InScope /\ cfg' = cfg
           /\ SourcePlaces' = SourcePlaces /\ NoDestKey' = NoDestKey
           /\ Contents' = Contents
           /\ Disjoint' = Disjoint /\ MirrorsApart' = MirrorsApart /\ Clean' = Clean
           /\ \A s : /\ AsObject(s)' = AsObject(s) /\ MirrorOf(s)' = MirrorOf(s)
                     /\ Due(s)' = Due(s) /\ Streams(s)' = Streams(s)
                     /\ MustFail(s)' = MustFail(s) /\ Counted(s)' = Counted(s)
           /\ \A o : Unsafe(o)' = Unsafe(o)
           /\ \A p : SourceAt(p)' = SourceAt(p)
<1>1. /\ cfg' = cfg /\ NoDestKey' = NoDestKey
      /\ \A s : AsObject(s)' = AsObject(s)
      /\ \A o : Unsafe(o)' = Unsafe(o)
      /\ \A p : SourceAt(p)' = SourceAt(p)
  BY DEF cfg, NoDestKey, AsObject, Unsafe, SourceAt
<1>2. InScope' = InScope /\ SourcePlaces' = SourcePlaces /\ Contents' = Contents
  BY DEF InScope, SourcePlaces, Contents
<1>3. \A s : /\ MirrorOf(s)' = MirrorOf(s) /\ Streams(s)' = Streams(s)
  BY <1>1 DEF MirrorOf, Streams
<1>4. \A s : Due(s)' = Due(s) /\ MustFail(s)' = MustFail(s)
  BY <1>1, <1>3 DEF Due, MustFail
<1>5. \A s : Counted(s)' = Counted(s)
  BY <1>1, <1>4 DEF Counted
<1>6. Disjoint' = Disjoint /\ MirrorsApart' = MirrorsApart /\ Clean' = Clean
  BY <1>1, <1>2, <1>3 DEF Disjoint, MirrorsApart, Clean
<1> QED BY <1>1, <1>2, <1>3, <1>4, <1>5, <1>6

LEMMA Frame ==
    ASSUME job' = job, objects' = objects
    PROVE  /\ Listed' = Listed /\ InScope' = InScope /\ cfg' = cfg
           /\ SourcePlaces' = SourcePlaces /\ NoDestKey' = NoDestKey
           /\ Contents' = Contents
           /\ Disjoint' = Disjoint /\ MirrorsApart' = MirrorsApart /\ Clean' = Clean
           /\ \A i : Source(i)' = Source(i)
           /\ \A s : /\ AsObject(s)' = AsObject(s) /\ MirrorOf(s)' = MirrorOf(s)
                     /\ Due(s)' = Due(s) /\ Streams(s)' = Streams(s)
                     /\ MustFail(s)' = MustFail(s) /\ Counted(s)' = Counted(s)
           /\ \A o : Unsafe(o)' = Unsafe(o)
           /\ \A p : SourceAt(p)' = SourceAt(p)
<1>1. {AsObject(s) : s \in InScope}' = {AsObject(s) : s \in InScope}
  BY JobFrame
<1>2. Listed' = Listed
  BY <1>1 DEF Listed
<1>3. \A i : Source(i)' = Source(i)
  BY JobFrame DEF Source
<1> QED BY <1>2, <1>3, JobFrame

-----------------------------------------------------------------------------
(***************************************************************************)
(* The steps that process an object have one shape: they go on with the    *)
(* same object, or report it and go on to the next.                        *)
(***************************************************************************)
ObjectAction ==
    \/ Pick /\ cur <= Len(objects)
    \/ BufferEval \/ CopyUnparsable \/ Unrecognized
    \/ Put \/ StreamCopy \/ StreamRun \/ ReadFails

ObjectStep ==
    /\ pc \in Processing \cup {"pick"}
    /\ cur \in 1..Len(objects)
    /\ UNCHANGED <<job, objects, exit>>
    /\ m' \in Metrics
    /\ \/ /\ pc' \in Processing
          /\ UNCHANGED <<report, cur>>
          /\ m'.tallied = m.tallied
       \/ \E what \in Reports \ {"none"} :
             Report(what) /\ m'.tallied \in {m.tallied, m.tallied \cup {cur}}
    /\ held' \in Contents \cup {Nothing}
    /\ pc' = "put" => held' # Nothing
    /\ \/ files' = files
       \/ \E c \in Contents : files' = Stored(c)

LEMMA MetricsTyped ==
    ASSUME NEW mm \in Metrics, cur \in Nat
    PROVE  /\ Tallied(mm) \in Metrics /\ Tallied(mm).tallied = mm.tallied \cup {cur}
           /\ Tallied(mm).unrecognized = mm.unrecognized
           /\ OneUnrecognized(mm) \in Metrics
           /\ OneUnrecognized(mm).tallied = mm.tallied
           /\ OneUnrecognized(mm).unrecognized = mm.unrecognized + 1
           /\ [mm EXCEPT !.unparsed = @ + 1] \in Metrics
           /\ [mm EXCEPT !.unparsed = @ + 1].tallied = mm.tallied
           /\ [mm EXCEPT !.unparsed = @ + 1].unrecognized = mm.unrecognized
BY DEF Metrics, Tallied, OneUnrecognized

LEMMA ContentsTyped ==
    ASSUME job \in Jobs, NEW c \in Contents
    PROVE  /\ Verdict(c) \in {"Written", "NothingKept", "Unparsable", "Unrecognized"}
           /\ c.form = "filtered" => Verdict(c) = "Written"
           /\ c.form = "source" => Verdict(c) = SourceAt(c.of).verdict
           /\ Filtered(c) \in Contents /\ Filtered(c).of = c.of
           /\ Filtered(c).form = "filtered"
           /\ Torn(c) \in Contents /\ Torn(c).form = "torn"
           /\ c # Nothing
<1>1. PICK s \in job.tree : Place(job.src, s.key) = c.of
  BY DEF Contents, SourcePlaces
<1>2. SourceAt(c.of) \in job.tree
  BY <1>1 DEF SourceAt
<1>3. SourceAt(c.of).verdict \in {"Written", "NothingKept", "Unparsable", "Unrecognized"}
  BY <1>2, JobFacts DEF SourceObjects
<1>4. c.form \in {"source", "filtered", "torn"} /\ c.of \in SourcePlaces
  BY DEF Contents
<1>5. /\ c.form = "source" => Verdict(c) = SourceAt(c.of).verdict
      /\ c.form = "filtered" => Verdict(c) = "Written"
      /\ c.form = "torn" => Verdict(c) = "Unparsable"
  BY DEF Verdict
<1>6. /\ Filtered(c) \in Contents /\ Filtered(c).of = c.of
      /\ Filtered(c).form = "filtered"
      /\ Torn(c) \in Contents /\ Torn(c).form = "torn"
  BY <1>4 DEF Filtered, Torn, Contents
<1>7. c # Nothing
  <2>1. Nothing.form = "nothing"
    BY DEF Nothing
  <2> QED BY <1>4, <2>1
<1> QED BY <1>3, <1>4, <1>5, <1>6, <1>7

LEMMA CurrentSource ==
    ASSUME BaseInv, pc \in Processing
    PROVE  /\ Listed /\ cur \in DOMAIN objects /\ cur \in Nat
           /\ SrcPlace \in SourcePlaces /\ files[SrcPlace] \in Contents
<1>1. Listed
  BY DEF BaseInv, ListedInv, Processing
<1>2. cur \in DOMAIN objects
  BY <1>1, ListingShape DEF BaseInv, TypeInv, ProgressInv
<1>3. SrcPlace \in SourcePlaces
  BY <1>1, <1>2, ObjectSource DEF SrcPlace, SourcePlaces, BaseInv, TypeInv
<1> QED BY <1>1, <1>2, <1>3 DEF BaseInv, TypeInv, ProgressInv

LEMMA PutTyped ==
    ASSUME NEW c \in Contents, job \in Jobs, NEW f \in PutLeaves(c) \cup PutStreamLeaves(c)
    PROVE  f = files \/ \E d \in Contents : f = Stored(d)
BY ContentsTyped DEF PutLeaves, PutStreamLeaves

LEMMA PickStep ==
    ASSUME BaseInv, Pick
    PROVE  ObjectStep
<1>1. Listed /\ cur \in 1..Len(objects) /\ cur \in DOMAIN objects
  <2>1. Listed
    BY DEF BaseInv, ListedInv, Pick
  <2> QED BY <2>1, ListingShape DEF Pick, BaseInv, TypeInv, ProgressInv
<1>2. SelectMode(objects[cur]) \in {"buffer", "stream"}
  BY JobFacts DEF SelectMode, BaseInv, TypeInv, Settings
<1>3. UNCHANGED <<job, objects, exit, files, m>>
  BY DEF Pick
<1>4. \/ Report("Failed")
      \/ Goto(SelectMode(objects[cur])) /\ UNCHANGED held
  BY DEF Pick
<1>5. pc = "pick"
  BY DEF Pick
<1>6. CASE Report("Failed")
  BY <1>1, <1>3, <1>5, <1>6 DEF ObjectStep, Report, Reports, BaseInv, TypeInv
<1>7. CASE Goto(SelectMode(objects[cur])) /\ UNCHANGED held
  BY <1>1, <1>2, <1>3, <1>5, <1>7 DEF ObjectStep, Goto, Processing, BaseInv, TypeInv
<1> QED BY <1>4, <1>6, <1>7

(* A step that reports, and one that goes on, once its effects are typed.  *)
LEMMA ReportStep ==
    ASSUME BaseInv, pc \in Processing, UNCHANGED <<job, objects, exit>>,
           NEW what \in Reports \ {"none"}, Report(what), m' \in Metrics,
           m'.tallied \in {m.tallied, m.tallied \cup {cur}},
           files' = files \/ \E c \in Contents : files' = Stored(c)
    PROVE  ObjectStep
<1>1. held' = Nothing /\ pc' = "pick"
  BY DEF Report
<1>2. cur \in 1..Len(objects)
  BY DEF BaseInv, ProgressInv
<1> QED BY <1>1, <1>2 DEF ObjectStep

LEMMA GotoStep ==
    ASSUME BaseInv, pc \in Processing, UNCHANGED <<job, objects, exit>>,
           NEW where \in Processing, Goto(where), m' \in Metrics,
           m'.tallied = m.tallied, files' = files,
           held' \in Contents \cup {Nothing}, where = "put" => held' # Nothing
    PROVE  ObjectStep
<1>1. cur \in 1..Len(objects)
  BY DEF BaseInv, ProgressInv
<1> QED BY <1>1 DEF ObjectStep, Goto

LEMMA BufferEvalStep ==
    ASSUME BaseInv, BufferEval
    PROVE  ObjectStep
<1> DEFINE c == files[SrcPlace]
<1>1. pc \in Processing /\ UNCHANGED <<job, objects, exit>> /\ files' = files
  BY DEF BufferEval, Processing
<1>2. /\ c \in Contents /\ m \in Metrics /\ cur \in Nat /\ job \in Jobs
      /\ held \in Contents \cup {Nothing}
  BY <1>1, CurrentSource DEF BaseInv, TypeInv
<1>3. /\ Verdict(c) \in {"Written", "NothingKept", "Unparsable", "Unrecognized"}
      /\ Filtered(c) \in Contents /\ Filtered(c) # Nothing
  <2>1. Filtered(c) \in Contents
    BY <1>2, ContentsTyped
  <2> QED BY <1>2, <2>1, ContentsTyped
<1>4. \/ Goto("stream") /\ UNCHANGED <<held, m>>
      \/ Report("Failed") /\ UNCHANGED m
      \/ Goto("unparsed") /\ held' = c /\ UNCHANGED m
      \/ /\ m' = Tallied(IF Verdict(c) = "Unrecognized" THEN OneUnrecognized(m) ELSE m)
         /\ Report("DryRun")
      \/ Goto("put") /\ held' = Filtered(c) /\ UNCHANGED m
      \/ m' = Tallied(m) /\ Report("NothingKept")
      \/ Goto("unrecognized") /\ held' = c /\ UNCHANGED m
  <2> HIDE DEF c
  <2>1. cfg.dryRun \in BOOLEAN
    BY <1>2, JobFacts DEF Settings
  <2> USE DEF c
  <2> QED BY <1>3, <2>1 DEF BufferEval, RetryMode
<1> HIDE DEF c
<1>5. CASE Goto("stream") /\ UNCHANGED <<held, m>>
  BY <1>1, <1>2, <1>5, GotoStep DEF Processing
<1>6. CASE Report("Failed") /\ UNCHANGED m
  BY <1>1, <1>2, <1>6, ReportStep DEF Reports
<1>7. CASE Goto("unparsed") /\ held' = c /\ UNCHANGED m
  BY <1>1, <1>2, <1>7, GotoStep DEF Processing
<1>8. CASE /\ m' = Tallied(IF Verdict(c) = "Unrecognized" THEN OneUnrecognized(m) ELSE m)
           /\ Report("DryRun")
  <2>1. m' \in Metrics /\ m'.tallied = m.tallied \cup {cur}
    BY <1>2, <1>8, MetricsTyped
  <2> QED BY <1>1, <1>2, <1>8, <2>1, ReportStep DEF Reports
<1>9. CASE Goto("put") /\ held' = Filtered(c) /\ UNCHANGED m
  BY <1>1, <1>2, <1>3, <1>9, GotoStep DEF Processing
<1>10. CASE m' = Tallied(m) /\ Report("NothingKept")
  <2>1. m' \in Metrics /\ m'.tallied = m.tallied \cup {cur}
    BY <1>2, <1>10, MetricsTyped
  <2> QED BY <1>1, <1>2, <1>10, <2>1, ReportStep DEF Reports
<1>11. CASE Goto("unrecognized") /\ held' = c /\ UNCHANGED m
  BY <1>1, <1>2, <1>11, GotoStep DEF Processing
<1> QED BY <1>4, <1>5, <1>6, <1>7, <1>8, <1>9, <1>10, <1>11

LEMMA CopyUnparsableStep ==
    ASSUME BaseInv, CopyUnparsable
    PROVE  ObjectStep
<1>1. pc \in Processing /\ UNCHANGED <<job, objects, exit>> /\ files' = files
  BY DEF CopyUnparsable, Processing
<1>2. m \in Metrics /\ cur \in Nat /\ held \in Contents \cup {Nothing}
  BY DEF BaseInv, TypeInv
<1>3. m' \in Metrics /\ m'.tallied = m.tallied
  BY <1>2, MetricsTyped DEF CopyUnparsable
<1>4. \/ Report("DryRun")
      \/ Goto("copy") /\ UNCHANGED held
      \/ Goto("put") /\ UNCHANGED held /\ held # Nothing
  BY DEF CopyUnparsable
<1>5. CASE Report("DryRun")
  BY <1>1, <1>3, <1>5, ReportStep DEF Reports
<1>6. CASE Goto("copy") /\ UNCHANGED held
  BY <1>1, <1>2, <1>3, <1>6, GotoStep DEF Processing
<1>7. CASE Goto("put") /\ UNCHANGED held /\ held # Nothing
  BY <1>1, <1>2, <1>3, <1>7, GotoStep DEF Processing
<1> QED BY <1>4, <1>5, <1>6, <1>7

LEMMA UnrecognizedStep ==
    ASSUME BaseInv, Unrecognized
    PROVE  ObjectStep
<1>1. pc \in Processing /\ UNCHANGED <<job, objects, exit>> /\ files' = files
  BY DEF Unrecognized, Processing
<1>2. /\ m \in Metrics /\ cur \in Nat /\ held \in Contents \cup {Nothing}
      /\ cfg.unrecognized \in {"copy", "skip", "error"}
  BY JobFacts DEF BaseInv, TypeInv, Settings
<1>3. \/ m' = OneUnrecognized(m) /\ Goto("copy") /\ UNCHANGED held
      \/ m' = OneUnrecognized(m) /\ Goto("put") /\ UNCHANGED held /\ held # Nothing
      \/ /\ m' = OneUnrecognized(IF held = Nothing THEN m ELSE Tallied(m))
         /\ Report("Skipped")
      \/ UNCHANGED m /\ Report("Failed")
  BY <1>2 DEF Unrecognized
<1>4. CASE m' = OneUnrecognized(m) /\ Goto("copy") /\ UNCHANGED held
  BY <1>1, <1>2, <1>4, MetricsTyped, GotoStep DEF Processing
<1>5. CASE m' = OneUnrecognized(m) /\ Goto("put") /\ UNCHANGED held /\ held # Nothing
  BY <1>1, <1>2, <1>5, MetricsTyped, GotoStep DEF Processing
<1>6. CASE /\ m' = OneUnrecognized(IF held = Nothing THEN m ELSE Tallied(m))
           /\ Report("Skipped")
  <2>1. m' \in Metrics /\ m'.tallied \in {m.tallied, m.tallied \cup {cur}}
    BY <1>2, <1>6, MetricsTyped
  <2> QED BY <1>1, <1>6, <2>1, ReportStep DEF Reports
<1>7. CASE UNCHANGED m /\ Report("Failed")
  BY <1>1, <1>2, <1>7, ReportStep DEF Reports
<1> QED BY <1>3, <1>4, <1>5, <1>6, <1>7

LEMMA ReadFailsStep ==
    ASSUME BaseInv, ReadFails
    PROVE  ObjectStep
<1>1. pc \in Processing /\ UNCHANGED <<job, objects, exit, m>> /\ files' = files
  BY DEF ReadFails, Processing
<1>2. m \in Metrics /\ Report("Failed")
  BY DEF BaseInv, TypeInv, ReadFails
<1> QED BY <1>1, <1>2, ReportStep DEF Reports

LEMMA PutStep ==
    ASSUME BaseInv, Put
    PROVE  ObjectStep
<1>1. pc \in Processing /\ UNCHANGED <<job, objects, exit>>
  BY DEF Put, Processing
<1>2. /\ m \in Metrics /\ cur \in Nat /\ held \in Contents /\ job \in Jobs
  BY DEF Put, BaseInv, TypeInv, ProgressInv
<1>3. Commit(TRUE) \in Metrics /\ Commit(TRUE).tallied \in {m.tallied, m.tallied \cup {cur}}
  BY <1>2, MetricsTyped DEF Commit
<1>4. Commit(FALSE) = m
  BY DEF Commit
<1>5. Arrived(held) \in Reports \ {"none"}
  BY DEF Arrived, Reports
<1>6. CASE files' = Stored(held) /\ m' = Commit(TRUE) /\ Report(Arrived(held))
  BY <1>1, <1>2, <1>3, <1>5, <1>6, ReportStep
<1>7. CASE files' \in PutLeaves(held) /\ m' = Commit(FALSE) /\ Report("Failed")
  <2>1. files' = files \/ \E d \in Contents : files' = Stored(d)
    BY <1>2, <1>7, PutTyped
  <2> QED BY <1>1, <1>2, <1>4, <1>7, <2>1, ReportStep DEF Reports
<1> QED BY <1>6, <1>7 DEF Put

LEMMA StreamCopyStep ==
    ASSUME BaseInv, StreamCopy
    PROVE  ObjectStep
<1> DEFINE c == files[SrcPlace]
<1>1. pc \in Processing /\ UNCHANGED <<job, objects, exit, m>>
  BY DEF StreamCopy, Processing
<1>2. m \in Metrics /\ job \in Jobs /\ c \in Contents
  BY <1>1, CurrentSource DEF BaseInv, TypeInv
<1>3. Arrived(c) \in Reports \ {"none"}
  BY DEF Arrived, Reports
<1>4. \/ files' = Stored(c) /\ Report(Arrived(c))
      \/ files' \in PutStreamLeaves(c) /\ Report("Failed")
  BY DEF StreamCopy
<1> HIDE DEF c
<1>5. CASE files' = Stored(c) /\ Report(Arrived(c))
  BY <1>1, <1>2, <1>3, <1>5, ReportStep
<1>6. CASE files' \in PutStreamLeaves(c) /\ Report("Failed")
  <2>1. files' = files \/ \E d \in Contents : files' = Stored(d)
    BY <1>2, <1>6, PutTyped
  <2> QED BY <1>1, <1>2, <1>6, <2>1, ReportStep DEF Reports
<1> QED BY <1>4, <1>5, <1>6

LEMMA StreamRunStep ==
    ASSUME BaseInv, StreamRun
    PROVE  ObjectStep
<1> DEFINE c == files[SrcPlace]
<1>1. pc \in Processing /\ UNCHANGED <<job, objects, exit>>
  BY DEF StreamRun, Processing
<1>2. /\ m \in Metrics /\ job \in Jobs /\ cur \in Nat /\ c \in Contents
      /\ held \in Contents \cup {Nothing} /\ cfg.dryRun \in BOOLEAN
  BY <1>1, CurrentSource, JobFacts DEF BaseInv, TypeInv, Settings
<1>3. /\ Verdict(c) \in {"Written", "NothingKept", "Unparsable", "Unrecognized"}
      /\ Filtered(c) \in Contents
  BY <1>2, ContentsTyped
<1>4. \/ /\ files' = files \/ files' = Stored(Filtered(c))
         /\ m' = Tallied(m)
         /\ Report("DryRun") \/ Report("Written")
      \/ /\ files' \in PutStreamLeaves(Filtered(c))
         /\ Report("Failed") /\ UNCHANGED m
      \/ /\ m' = Tallied(m) /\ files' = files
         /\ Report("DryRun") \/ Report("NothingKept")
      \/ Goto("unparsed") /\ UNCHANGED <<held, m, files>>
      \/ Report("Failed") /\ UNCHANGED <<m, files>>
      \/ m' = OneUnrecognized(m) /\ Report("DryRun") /\ UNCHANGED files
      \/ Goto("unrecognized") /\ UNCHANGED <<held, m, files>>
  BY <1>3 DEF StreamRun
<1> HIDE DEF c
<1>5. CASE /\ files' = files \/ files' = Stored(Filtered(c))
           /\ m' = Tallied(m)
           /\ Report("DryRun") \/ Report("Written")
  BY <1>1, <1>2, <1>3, <1>5, MetricsTyped, ReportStep DEF Reports
<1>6. CASE /\ files' \in PutStreamLeaves(Filtered(c))
           /\ Report("Failed") /\ UNCHANGED m
  <2>1. files' = files \/ \E d \in Contents : files' = Stored(d)
    BY <1>2, <1>3, <1>6, PutTyped
  <2> QED BY <1>1, <1>2, <1>6, <2>1, ReportStep DEF Reports
<1>7. CASE /\ m' = Tallied(m) /\ files' = files
           /\ Report("DryRun") \/ Report("NothingKept")
  BY <1>1, <1>2, <1>7, MetricsTyped, ReportStep DEF Reports
<1>8. CASE Goto("unparsed") /\ UNCHANGED <<held, m, files>>
  BY <1>1, <1>2, <1>8, GotoStep DEF Processing
<1>9. CASE Report("Failed") /\ UNCHANGED <<m, files>>
  BY <1>1, <1>2, <1>9, ReportStep DEF Reports
<1>10. CASE m' = OneUnrecognized(m) /\ Report("DryRun") /\ UNCHANGED files
  BY <1>1, <1>2, <1>10, MetricsTyped, ReportStep DEF Reports
<1>11. CASE Goto("unrecognized") /\ UNCHANGED <<held, m, files>>
  BY <1>1, <1>2, <1>11, GotoStep DEF Processing
<1> QED BY <1>4, <1>5, <1>6, <1>7, <1>8, <1>9, <1>10, <1>11

LEMMA EveryObjectStep ==
    ASSUME BaseInv, ObjectAction
    PROVE  ObjectStep
BY PickStep, BufferEvalStep, CopyUnparsableStep, UnrecognizedStep, PutStep,
   StreamCopyStep, StreamRunStep, ReadFailsStep DEF ObjectAction

LEMMA NextCases ==
    ASSUME BaseInv, [Next]_vars
    PROVE  Refuse \/ Enumerate \/ Summarise \/ ObjectAction \/ UNCHANGED vars
BY DEF Next, Work, ObjectAction, Pick

-----------------------------------------------------------------------------
(***************************************************************************)
(* The position: BaseInv is inductive by itself.                           *)
(***************************************************************************)
LEMMA BaseInit ==
    ASSUME Init
    PROVE  BaseInv
<1>1. job \in Jobs /\ cur = 0 /\ pc = "start" /\ objects = <<>> /\ report = <<>>
  BY DEF Init
<1>2. m \in Metrics /\ m.tallied = {} /\ m.unrecognized = 0
  BY DEF Init, Metrics
<1>3. files = [p \in SourcePlaces |-> Original(p)]
  BY DEF Init, SourcePlaces, Original
<1>4. TypeInv
  <2>1. \A p \in DOMAIN files : files[p] = Original(p) /\ Original(p) \in Contents
    BY <1>3 DEF Original, Contents
  <2>2. held = Nothing /\ exit = "none"
    BY DEF Init
  <2>3. files \in [DOMAIN files -> Contents]
    BY <1>3, <2>1
  <2> QED BY <1>1, <1>2, <2>2, <2>3 DEF TypeInv
<1>5. DOMAIN objects = {} /\ report \in [DOMAIN objects -> Reports]
  BY <1>1
<1>6. ListedInv
  BY <1>1, <1>5 DEF ListedInv
<1>7. ProgressInv
  BY <1>1, <1>2, <1>3, <1>5 DEF ProgressInv, Processing
<1>8. ExitInv
  BY <1>1, <1>2 DEF Init, ExitInv, EveryObjectAttempted
<1>9. StartInv
  BY <1>1, <1>2, <1>3 DEF Init, StartInv
<1> QED BY <1>4, <1>6, <1>7, <1>8, <1>9 DEF BaseInv

LEMMA BaseRefuse ==
    ASSUME BaseInv, Refuse
    PROVE  BaseInv'
<1>1. /\ pc = "start" /\ pc' = "done" /\ exit' = "error" /\ faulty' = TRUE
      /\ UNCHANGED <<job, files, partials, objects, cur, dstKey, held, report, m>>
  BY DEF Refuse, Exit
<1>2. /\ Listed' = Listed /\ Contents' = Contents /\ NoDestKey' = NoDestKey
      /\ SourcePlaces' = SourcePlaces
  BY <1>1, Frame
<1>3. TypeInv'
  BY <1>1, <1>2 DEF BaseInv, TypeInv
<1>4. ListedInv'
  BY <1>1, <1>2 DEF BaseInv, ListedInv
<1>5. ProgressInv'
  BY <1>1, <1>2 DEF BaseInv, ProgressInv, Processing
<1>6. objects = <<>>
  BY <1>1 DEF BaseInv, StartInv
<1>7. ExitInv'
  BY <1>1, <1>2, <1>6 DEF ExitInv, EveryObjectAttempted
<1> QED BY <1>1, <1>3, <1>4, <1>5, <1>7 DEF BaseInv, StartInv

LEMMA BaseEnumerate ==
    ASSUME BaseInv, Enumerate
    PROVE  BaseInv'
<1>1. /\ pc = "start" /\ cur' = 1
      /\ UNCHANGED <<job, files, partials, dstKey, held, m, faulty>>
      /\ report' = [i \in DOMAIN objects' |-> "none"]
      /\ objects' \in Listings({AsObject(s) : s \in InScope})
  BY DEF Enumerate
<1>2. /\ InScope' = InScope /\ SourcePlaces' = SourcePlaces /\ Contents' = Contents
      /\ NoDestKey' = NoDestKey /\ {AsObject(s) : s \in InScope}' = {AsObject(s) : s \in InScope}
  BY <1>1 DEF InScope, SourcePlaces, Contents, NoDestKey, AsObject
<1>3. Listed'
  BY <1>1, <1>2 DEF Listed
<1>4. \/ objects' = <<>> /\ pc' = "done" /\ exit' = "ok"
      \/ objects' # <<>> /\ NoDestKey /\ pc' = "done" /\ exit' = "error"
      \/ objects' # <<>> /\ ~ NoDestKey /\ pc' = "pick" /\ exit' = exit
  BY DEF Enumerate, Exit
<1>5. /\ cur = 0 /\ exit = "none" /\ objects = <<>> /\ \A i \in m.tallied : i < 1
      /\ m.unrecognized = 0
  BY <1>1 DEF BaseInv, ExitInv, ProgressInv, StartInv, TypeInv, Metrics
<1>6. TypeInv'
  BY <1>1, <1>2, <1>4, <1>5 DEF BaseInv, TypeInv, Processing
<1>7. ListedInv'
  BY <1>1, <1>3 DEF ListedInv, Reports
<1>8. DOMAIN objects' = 1..Len(objects') /\ Len(objects') \in Nat
  <2>1. IsFiniteSet({AsObject(s) : s \in InScope})
    BY ScopeFinite DEF BaseInv, TypeInv
  <2> QED BY <1>1, <2>1, ListingOnce
<1>9. ProgressInv'
  BY <1>1, <1>2, <1>4, <1>5, <1>8 DEF BaseInv, ProgressInv, Processing
<1>10. objects' = <<>> => Len(objects') = 0 /\ DOMAIN objects' = {}
  OBVIOUS
<1>11. ExitInv'
  BY <1>1, <1>2, <1>3, <1>4, <1>5, <1>10 DEF ExitInv, EveryObjectAttempted
<1>12. pc' # "start"
  BY <1>4
<1> QED BY <1>6, <1>7, <1>9, <1>11, <1>12 DEF BaseInv, StartInv

LEMMA BaseSummarise ==
    ASSUME BaseInv, Summarise
    PROVE  BaseInv'
<1>1. /\ pc = "pick" /\ cur > Len(objects) /\ pc' = "done"
      /\ exit' = IF \E i \in DOMAIN report : report[i] = "Failed" THEN "error" ELSE "ok"
      /\ UNCHANGED <<job, files, partials, objects, cur, dstKey, held, report, m, faulty>>
  BY DEF Summarise, Exit
<1>2. /\ Listed' = Listed /\ Contents' = Contents /\ NoDestKey' = NoDestKey
      /\ SourcePlaces' = SourcePlaces
  BY <1>1, Frame
<1>3. Listed /\ DOMAIN report = DOMAIN objects
  BY <1>1 DEF BaseInv, ListedInv
<1>4. DOMAIN objects = 1..Len(objects) /\ Len(objects) \in Nat /\ cur = Len(objects) + 1
  <2>1. DOMAIN objects = 1..Len(objects) /\ Len(objects) \in Nat
    BY <1>3, ListingShape DEF BaseInv, TypeInv
  <2> QED BY <1>1, <2>1 DEF BaseInv, ProgressInv
<1>5. TypeInv'
  BY <1>1, <1>2 DEF BaseInv, TypeInv
<1>6. ListedInv'
  BY <1>1, <1>2, <1>3 DEF BaseInv, ListedInv
<1>7. ProgressInv'
  BY <1>1, <1>2 DEF BaseInv, ProgressInv, Processing
<1>8. \A i \in DOMAIN report : report[i] # "none" /\ i < cur
  BY <1>3, <1>4 DEF BaseInv, ProgressInv
<1>9. ExitInv'
  BY <1>1, <1>2, <1>3, <1>4, <1>8 DEF ExitInv, EveryObjectAttempted
<1> QED BY <1>1, <1>5, <1>6, <1>7, <1>9 DEF BaseInv, StartInv

LEMMA BaseObject ==
    ASSUME BaseInv, ObjectStep
    PROVE  BaseInv'
<1>1. /\ pc \in Processing \cup {"pick"} /\ cur \in 1..Len(objects)
      /\ UNCHANGED <<job, objects, exit>> /\ m' \in Metrics
      /\ held' \in Contents \cup {Nothing} /\ (pc' = "put" => held' # Nothing)
  BY DEF ObjectStep
<1>2. /\ Listed' = Listed /\ Contents' = Contents /\ NoDestKey' = NoDestKey
      /\ SourcePlaces' = SourcePlaces
  BY <1>1, Frame
<1>3. Listed /\ DOMAIN report = DOMAIN objects
  BY <1>1 DEF BaseInv, ListedInv, Processing
<1>4. DOMAIN objects = 1..Len(objects) /\ Len(objects) \in Nat /\ cur \in Nat
  BY <1>3, ListingShape DEF BaseInv, TypeInv
<1>5. exit = "none"
  BY <1>1 DEF BaseInv, ExitInv, Processing
<1>6. /\ files' \in [DOMAIN files' -> Contents]
      /\ SourcePlaces \subseteq DOMAIN files'
  BY DEF ObjectStep, Stored, BaseInv, TypeInv, ProgressInv
<1>7. \/ pc' \in Processing /\ UNCHANGED <<report, cur>> /\ m'.tallied = m.tallied
      \/ \E what \in Reports \ {"none"} :
            Report(what) /\ m'.tallied \in {m.tallied, m.tallied \cup {cur}}
  BY DEF ObjectStep
<1>8. CASE pc' \in Processing /\ UNCHANGED <<report, cur>> /\ m'.tallied = m.tallied
  <2>1. TypeInv'
    BY <1>1, <1>2, <1>6, <1>8 DEF BaseInv, TypeInv
  <2>2. ListedInv'
    BY <1>1, <1>2, <1>3, <1>8 DEF BaseInv, ListedInv
  <2>3. ProgressInv'
    BY <1>1, <1>2, <1>6, <1>8 DEF BaseInv, ProgressInv, Processing
  <2>4. ExitInv'
    BY <1>1, <1>5, <1>8 DEF ExitInv, Processing, EveryObjectAttempted
  <2> QED BY <1>8, <2>1, <2>2, <2>3, <2>4 DEF BaseInv, StartInv, Processing
<1>9. ASSUME NEW what \in Reports \ {"none"}, Report(what),
             m'.tallied \in {m.tallied, m.tallied \cup {cur}}
      PROVE  BaseInv'
  <2>1. /\ report' = [report EXCEPT ![cur] = what] /\ cur' = cur + 1 /\ pc' = "pick"
    BY <1>9 DEF Report
  <2>2. TypeInv'
    BY <1>1, <1>2, <1>4, <1>6, <2>1 DEF BaseInv, TypeInv
  <2>3. ListedInv'
    BY <1>1, <1>2, <1>3, <2>1 DEF BaseInv, ListedInv
  <2>4. \A i \in DOMAIN report' : report'[i] = "none" <=> i >= cur'
    BY <1>3, <1>4, <2>1 DEF BaseInv, ProgressInv
  <2>5. \A i \in m'.tallied : i < cur'
    BY <1>4, <1>9, <2>1 DEF BaseInv, ProgressInv, TypeInv, Metrics
  <2>6. ProgressInv'
    BY <1>1, <1>2, <1>4, <1>6, <2>1, <2>4, <2>5 DEF ProgressInv, Processing
  <2>7. ExitInv'
    BY <1>1, <1>5, <2>1 DEF ExitInv, EveryObjectAttempted
  <2> QED BY <2>1, <2>2, <2>3, <2>6, <2>7 DEF BaseInv, StartInv
<1> QED BY <1>7, <1>8, <1>9

LEMMA BaseStutter ==
    ASSUME BaseInv, UNCHANGED vars
    PROVE  BaseInv'
<1>1. /\ UNCHANGED <<job, pc, files, objects, cur, held, report, m, faulty, exit>>
  BY DEF vars
<1>2. /\ Listed' = Listed /\ Contents' = Contents /\ NoDestKey' = NoDestKey
      /\ SourcePlaces' = SourcePlaces
  BY <1>1, Frame
<1> QED
  BY <1>1, <1>2 DEF BaseInv, StartInv, TypeInv, ListedInv, ProgressInv, ExitInv,
                    EveryObjectAttempted

LEMMA BaseInductive ==
    ASSUME BaseInv, [Next]_vars
    PROVE  BaseInv'
BY NextCases, BaseRefuse, BaseEnumerate, BaseSummarise, EveryObjectStep, BaseObject,
   BaseStutter

(* A failing object never abandons the objects after it, and an error exit *)
(* past the listing names at least one: the loop of cmd_filter.            *)
THEOREM EveryObjectIsAttempted == Spec => []EveryObjectAttempted
<1>1. Init => BaseInv
  BY BaseInit
<1>2. BaseInv /\ [Next]_vars => BaseInv'
  BY BaseInductive
<1>3. BaseInv => EveryObjectAttempted
  BY DEF BaseInv, ExitInv
<1> QED BY <1>1, <1>2, <1>3, PTL DEF Spec

-----------------------------------------------------------------------------
(***************************************************************************)
(* The same steps by their effect.  Three of them go on with the object:   *)
(* it is picked, it is judged, it is copied after all.                     *)
(***************************************************************************)
Body == files[SrcPlace]

OnwardPick ==
    /\ pc = "pick" /\ cur <= Len(objects)
    /\ ~ Unsafe(objects[cur])
    /\ dstKey' = IF job.single THEN job.dst.path ELSE BatchDestKey(objects[cur].rel)
    /\ cfg.dryRun \/ SrcPlace # Place(job.dst, dstKey')
    /\ pc' = SelectMode(objects[cur])
    /\ UNCHANGED <<job, objects, cur, report, files, held, m, faulty>>

OnwardEval ==
    /\ pc \in {"buffer", "stream"}
    /\ \/ /\ pc = "buffer" /\ pc' = "stream" /\ held' = held
          /\ cfg.tooLarge = "stream"
       \/ /\ pc' = "unparsed" /\ Verdict(Body) = "Unparsable"
          /\ held' = IF pc = "buffer" THEN Body ELSE held
       \/ /\ pc' = "unrecognized" /\ Verdict(Body) = "Unrecognized" /\ ~ cfg.dryRun
          /\ held' = IF pc = "buffer" THEN Body ELSE held
       \/ /\ pc = "buffer" /\ pc' = "put" /\ Verdict(Body) = "Written" /\ ~ cfg.dryRun
          /\ held' = Filtered(Body)
    /\ UNCHANGED <<job, objects, cur, report, files, dstKey, m, faulty>>

OnwardCopy ==
    /\ pc \in {"unparsed", "unrecognized"}
    /\ pc = "unparsed" => ~ cfg.dryRun
    /\ pc = "unrecognized" => cfg.unrecognized = "copy"
    /\ pc' = IF held = Nothing THEN "copy" ELSE "put"
    /\ m'.tallied = m.tallied
    /\ UNCHANGED <<job, objects, cur, report, files, dstKey, held, faulty>>

Onward == OnwardPick \/ OnwardEval \/ OnwardCopy

(* The others report it: it failed with nothing written, its write failed, *)
(* it was previewed, dropped whole or skipped, or it arrived.              *)
ReportsFailure ==
    /\ Report("Failed")
    /\ pc \in {"pick", "buffer", "stream", "copy", "unrecognized"}
    /\ pc = "pick" => cur <= Len(objects)
    /\ \/ faulty'
       \/ /\ faulty' = faulty
          /\ \/ pc = "pick" /\ (Unsafe(objects[cur]) \/ ~ cfg.dryRun)
             \/ pc = "buffer" /\ TooLarge(Body) /\ cfg.tooLarge # "stream"
             \/ pc \in {"buffer", "stream"} /\ Verdict(Body) = "Unparsable"
             \/ pc = "unrecognized"
    /\ UNCHANGED <<job, objects, files, m>>

ReportsFailedWrite ==
    /\ Report("Failed") /\ faulty'
    /\ \/ pc = "put" /\ files' \in PutLeaves(held)
       \/ pc = "copy" /\ files' \in PutStreamLeaves(Body)
       \/ pc = "stream" /\ ~ cfg.dryRun /\ Verdict(Body) = "Written"
             /\ files' \in PutStreamLeaves(Filtered(Body))
    /\ UNCHANGED <<job, objects, dstKey, m>>

ReportsPreview ==
    /\ Report("DryRun") /\ cfg.dryRun
    /\ \/ /\ pc = "buffer" /\ ~ TooLarge(Body) /\ Verdict(Body) # "Unparsable"
          /\ m' = Tallied(IF Verdict(Body) = "Unrecognized" THEN OneUnrecognized(m) ELSE m)
       \/ /\ pc = "stream" /\ Verdict(Body) \in {"Written", "NothingKept"}
          /\ m' = Tallied(m)
       \/ /\ pc = "stream" /\ Verdict(Body) = "Unrecognized"
          /\ m' = OneUnrecognized(m)
       \/ /\ pc = "unparsed"
          /\ m' = [m EXCEPT !.unparsed = @ + 1]
    /\ UNCHANGED <<job, objects, files, dstKey, faulty>>

ReportsNothing ==
    /\ ~ cfg.dryRun
    /\ \/ /\ pc \in {"buffer", "stream"} /\ Verdict(Body) = "NothingKept"
          /\ Report("NothingKept") /\ m' = Tallied(m)
       \/ /\ pc = "unrecognized" /\ cfg.unrecognized = "skip"
          /\ Report("Skipped")
          /\ m'.tallied \in {m.tallied, m.tallied \cup {cur}}
    /\ UNCHANGED <<job, objects, files, dstKey, faulty>>

ReportsArrival ==
    /\ \/ /\ pc = "put" /\ files' = Stored(held)
          /\ m' = Commit(TRUE) /\ Report(Arrived(held))
       \/ /\ pc = "copy" /\ files' = Stored(Body)
          /\ m' = m /\ Report(Arrived(Body))
       \/ /\ pc = "stream" /\ ~ cfg.dryRun /\ Verdict(Body) = "Written"
          /\ files' = Stored(Filtered(Body))
          /\ m' = Tallied(m) /\ Report("Written")
    /\ UNCHANGED <<job, objects, dstKey, faulty>>

Reported == \/ ReportsFailure \/ ReportsFailedWrite \/ ReportsPreview
            \/ ReportsNothing \/ ReportsArrival

LEMMA PickEffect ==
    ASSUME BaseInv, CurrentInv, Pick
    PROVE  Onward \/ Reported
<1>1. CASE Report("Failed")
  <2>1. Unsafe(objects[cur]) \/ ~ cfg.dryRun
    <3>1. pc' = "pick"
      BY <1>1 DEF Report
    <3>2. SelectMode(objects[cur]) # "pick"
      BY JobFacts DEF SelectMode, BaseInv, TypeInv, Settings
    <3> QED BY <3>1, <3>2 DEF Pick, Goto
  <2> QED BY <1>1, <2>1 DEF Pick, Reported, ReportsFailure
<1>2. CASE ~ Report("Failed")
  BY <1>2 DEF Pick, Onward, OnwardPick, Goto, OverwritesSource
<1> QED BY <1>1, <1>2

LEMMA BufferEvalEffect ==
    ASSUME BaseInv, CurrentInv, BufferEval
    PROVE  Onward \/ Reported
<1>1. pc = "buffer" /\ pc \in Processing /\ UNCHANGED <<job, objects, files, dstKey, faulty>>
  BY DEF BufferEval, Processing
<1>2. /\ Body \in Contents /\ job \in Jobs
  BY <1>1, CurrentSource DEF BaseInv, TypeInv, Body
<1>3. /\ Verdict(Body) \in {"Written", "NothingKept", "Unparsable", "Unrecognized"}
      /\ cfg.dryRun \in BOOLEAN
  BY <1>2, ContentsTyped, JobFacts DEF Settings
<1>4. \/ /\ TooLarge(Body) /\ UNCHANGED m
         /\ \/ cfg.tooLarge = "stream" /\ Goto("stream") /\ UNCHANGED held
            \/ cfg.tooLarge # "stream" /\ Report("Failed")
      \/ /\ Verdict(Body) = "Unparsable" /\ UNCHANGED m
         /\ (Goto("unparsed") /\ held' = Body) \/ Report("Failed")
      \/ /\ ~ TooLarge(Body) /\ Verdict(Body) # "Unparsable" /\ cfg.dryRun
         /\ m' = Tallied(IF Verdict(Body) = "Unrecognized" THEN OneUnrecognized(m) ELSE m)
         /\ Report("DryRun")
      \/ /\ Verdict(Body) = "Written" /\ ~ cfg.dryRun
         /\ Goto("put") /\ held' = Filtered(Body) /\ UNCHANGED m
      \/ /\ Verdict(Body) = "NothingKept" /\ ~ cfg.dryRun
         /\ m' = Tallied(m) /\ Report("NothingKept")
      \/ /\ Verdict(Body) = "Unrecognized" /\ ~ cfg.dryRun
         /\ Goto("unrecognized") /\ held' = Body /\ UNCHANGED m
  BY <1>3 DEF BufferEval, Body, RetryMode
<1>5. CASE Goto("stream") \/ Goto("unparsed") \/ Goto("put") \/ Goto("unrecognized")
  <2>1. UNCHANGED <<cur, report>> /\ pc' \in {"stream", "unparsed", "put", "unrecognized"}
    BY <1>5 DEF Goto
  <2>2. OnwardEval
    BY <1>1, <1>4, <2>1 DEF OnwardEval, Goto, Report
  <2> QED BY <2>2 DEF Onward
<1>6. CASE /\ TooLarge(Body) /\ UNCHANGED m
           /\ cfg.tooLarge # "stream" /\ Report("Failed")
  BY <1>1, <1>6 DEF Reported, ReportsFailure
<1>7. CASE Verdict(Body) = "Unparsable" /\ UNCHANGED m /\ Report("Failed")
  BY <1>1, <1>7 DEF Reported, ReportsFailure
<1>8. CASE /\ ~ TooLarge(Body) /\ Verdict(Body) # "Unparsable" /\ cfg.dryRun
           /\ m' = Tallied(IF Verdict(Body) = "Unrecognized" THEN OneUnrecognized(m) ELSE m)
           /\ Report("DryRun")
  BY <1>1, <1>8 DEF Reported, ReportsPreview
<1>9. CASE /\ Verdict(Body) = "NothingKept" /\ ~ cfg.dryRun
           /\ m' = Tallied(m) /\ Report("NothingKept")
  BY <1>1, <1>9 DEF Reported, ReportsNothing
<1> QED BY <1>4, <1>5, <1>6, <1>7, <1>8, <1>9

LEMMA CopyUnparsableEffect ==
    ASSUME BaseInv, CurrentInv, CopyUnparsable
    PROVE  Onward \/ Reported
<1>1. m'.tallied = m.tallied
  BY MetricsTyped DEF CopyUnparsable, BaseInv, TypeInv
<1> QED BY <1>1 DEF CopyUnparsable, Goto, Onward, OnwardCopy, Reported, ReportsPreview

LEMMA UnrecognizedEffect ==
    ASSUME BaseInv, CurrentInv, Unrecognized
    PROVE  Onward \/ Reported
<1>1. /\ pc = "unrecognized" /\ pc \in Processing
      /\ UNCHANGED <<job, files, partials, objects, dstKey, faulty, exit>>
  BY DEF Unrecognized, Processing
<1>2. /\ cfg.unrecognized \in {"copy", "skip", "error"} /\ ~ cfg.dryRun
      /\ m \in Metrics /\ cur \in Nat
  BY <1>1, JobFacts DEF BaseInv, TypeInv, Settings, CurrentInv
<1>3. CASE cfg.unrecognized = "copy"
  <2>1. /\ m' = OneUnrecognized(m) /\ UNCHANGED held
        /\ Goto(IF held = Nothing THEN "copy" ELSE "put")
    BY <1>3 DEF Unrecognized
  <2>2. m'.tallied = m.tallied
    BY <1>2, <2>1, MetricsTyped
  <2> QED BY <1>1, <1>3, <2>1, <2>2 DEF Goto, Onward, OnwardCopy
<1>4. CASE cfg.unrecognized = "skip"
  <2>1. /\ m' = OneUnrecognized(IF held = Nothing THEN m ELSE Tallied(m))
        /\ Report("Skipped")
    BY <1>4 DEF Unrecognized
  <2>2. m'.tallied \in {m.tallied, m.tallied \cup {cur}}
    BY <1>2, <2>1, MetricsTyped
  <2> QED BY <1>1, <1>2, <1>4, <2>1, <2>2 DEF Reported, ReportsNothing
<1>5. CASE cfg.unrecognized = "error"
  BY <1>1, <1>5 DEF Unrecognized, Reported, ReportsFailure
<1> QED BY <1>2, <1>3, <1>4, <1>5

LEMMA StoreEffect ==
    ASSUME BaseInv, CurrentInv, Put \/ StreamCopy \/ ReadFails
    PROVE  Reported
<1>1. CASE Put
  <2>1. Commit(FALSE) = m
    BY DEF Commit
  <2> QED BY <1>1, <2>1 DEF Put, Reported, ReportsArrival, ReportsFailedWrite
<1>2. CASE StreamCopy
  BY <1>2 DEF StreamCopy, Reported, ReportsArrival, ReportsFailedWrite, Body
<1>3. CASE ReadFails
  BY <1>3 DEF ReadFails, Reported, ReportsFailure
<1> QED BY <1>1, <1>2, <1>3

LEMMA StreamRunEffect ==
    ASSUME BaseInv, CurrentInv, StreamRun
    PROVE  Onward \/ Reported
<1>1. pc = "stream" /\ pc \in Processing /\ UNCHANGED <<job, objects, dstKey>>
  BY DEF StreamRun, Processing
<1>2. /\ Body \in Contents /\ job \in Jobs
  BY <1>1, CurrentSource DEF BaseInv, TypeInv, Body
<1>3. /\ Verdict(Body) \in {"Written", "NothingKept", "Unparsable", "Unrecognized"}
      /\ cfg.dryRun \in BOOLEAN
  BY <1>2, ContentsTyped, JobFacts DEF Settings
<1>4. \/ /\ Verdict(Body) = "Written" /\ m' = Tallied(m) /\ UNCHANGED faulty
         /\ \/ cfg.dryRun /\ files' = files /\ Report("DryRun")
            \/ ~ cfg.dryRun /\ files' = Stored(Filtered(Body)) /\ Report("Written")
      \/ /\ Verdict(Body) = "Written" /\ ~ cfg.dryRun /\ faulty' = TRUE
         /\ files' \in PutStreamLeaves(Filtered(Body))
         /\ Report("Failed") /\ UNCHANGED m
      \/ /\ Verdict(Body) = "NothingKept" /\ UNCHANGED <<files, faulty>>
         /\ m' = Tallied(m) /\ Report(IF cfg.dryRun THEN "DryRun" ELSE "NothingKept")
      \/ /\ Verdict(Body) = "Unparsable" /\ UNCHANGED <<files, faulty, m>>
         /\ (Goto("unparsed") /\ UNCHANGED held) \/ Report("Failed")
      \/ /\ Verdict(Body) = "Unrecognized" /\ UNCHANGED <<files, faulty>>
         /\ \/ cfg.dryRun /\ m' = OneUnrecognized(m) /\ Report("DryRun")
            \/ ~ cfg.dryRun /\ Goto("unrecognized") /\ UNCHANGED <<held, m>>
  BY <1>3 DEF StreamRun, Body
<1>5. CASE Goto("unparsed") \/ Goto("unrecognized")
  <2>1. UNCHANGED <<cur, report>> /\ pc' \in {"unparsed", "unrecognized"}
    BY <1>5 DEF Goto
  <2>2. OnwardEval
    BY <1>1, <1>4, <2>1 DEF OnwardEval, Goto, Report
  <2> QED BY <2>2 DEF Onward
<1>6. CASE ~ (Goto("unparsed") \/ Goto("unrecognized"))
  BY <1>1, <1>3, <1>4, <1>6 DEF Reported, ReportsFailure, ReportsFailedWrite,
     ReportsPreview, ReportsNothing, ReportsArrival
<1> QED BY <1>5, <1>6

LEMMA ObjectEffect ==
    ASSUME BaseInv, CurrentInv, ObjectAction
    PROVE  Onward \/ Reported
BY PickEffect, BufferEvalEffect, CopyUnparsableEffect, UnrecognizedEffect,
   StoreEffect, StreamRunEffect DEF ObjectAction

-----------------------------------------------------------------------------
(***************************************************************************)
(* The object at cur.                                                      *)
(***************************************************************************)

(* The key cmd_filter computes is the mirror, when no path is refused.     *)
LEMMA PickMirror ==
    ASSUME BaseInv, OnwardPick
    PROVE  Place(job.dst, dstKey') = MirrorOf(Source(cur))
<1>1. Listed /\ cur \in DOMAIN objects /\ job \in Jobs
  <2>1. Listed /\ job \in Jobs
    BY DEF BaseInv, ListedInv, TypeInv, OnwardPick
  <2> QED BY <2>1, ListingShape DEF OnwardPick, BaseInv, TypeInv, ProgressInv
<1>2. objects[cur].rel = AsObject(Source(cur)).rel
  BY <1>1, ObjectSource
<1> DEFINE rel == objects[cur].rel
<1>3. ~ job.single /\ ~ IsS3(job.dst) => PathJoin(job.dst.path, rel) = job.dst.path \o SafeRel(rel)
  <2> SUFFICES ASSUME ~ job.single, ~ IsS3(job.dst)
               PROVE  PathJoin(job.dst.path, rel) = job.dst.path \o SafeRel(rel)
    OBVIOUS
  <2>1. ContainRel(rel)
    BY DEF OnwardPick, Unsafe
  <2> HIDE DEF rel
  <2>2. rel[1] = "" => Len(rel) = 1
    BY <2>1 DEF ContainRel
  <2>3. ~ (Len(rel) > 1 /\ rel[1] = "")
    <3>1. ~ (1 > 1)
      OBVIOUS
    <3> QED BY <2>2, <3>1, Zenon
  <2> QED BY <2>3, Zenon DEF PathJoin
<1>4. dstKey' = IF job.single THEN job.dst.path
                ELSE IF ~ IsS3(job.dst) THEN job.dst.path \o SafeRel(rel)
                ELSE IF job.dst.path = <<"">> THEN rel
                ELSE TrimEnd(job.dst.path) \o rel
  BY <1>3 DEF OnwardPick, BatchDestKey, JoinKey
<1> QED BY <1>2, <1>4 DEF MirrorOf

(* `auto` streams the objects that are large on disk.                      *)
LEMMA ModeSelected ==
    ASSUME BaseInv, Listed, cur \in DOMAIN objects
    PROVE  /\ SelectMode(objects[cur]) = "buffer" => ~ Streams(Source(cur))
           /\ SelectMode(objects[cur]) = "stream" => Streams(Source(cur))
           /\ SelectMode(objects[cur]) \in {"buffer", "stream"}
<1>1. objects[cur] = AsObject(Source(cur))
  BY ObjectSource DEF BaseInv, TypeInv
<1>2. AsObject(Source(cur)).large = (Source(cur).large /\ ~ IsS3(job.src))
  BY Zenon DEF AsObject
<1>3. cfg.mode \in {"buffer", "stream", "auto"}
  BY JobFacts DEF BaseInv, TypeInv, Settings
<1> QED BY <1>1, <1>2, <1>3 DEF SelectMode, Streams

LEMMA CurrentOnward ==
    ASSUME BaseInv, CurrentInv, HeldInv, Onward
    PROVE  CurrentInv' /\ HeldInv'
<1>1. UNCHANGED <<job, objects, cur, report, files>>
  BY DEF Onward, OnwardPick, OnwardEval, OnwardCopy
<1>2. /\ Listed' = Listed /\ Source(cur)' = Source(cur) /\ cfg' = cfg
      /\ MirrorOf(Source(cur))' = MirrorOf(Source(cur))
      /\ Streams(Source(cur))' = Streams(Source(cur))
      /\ Unsafe(objects[cur])' = Unsafe(objects[cur])
  BY <1>1, Frame
<1>3. SrcPlace' = SrcPlace /\ DstPlace' = Place(job.dst, dstKey')
  BY <1>1 DEF SrcPlace, DstPlace, Place
<1>4. CASE OnwardPick
  <2>1. Listed /\ cur \in DOMAIN objects /\ job \in Jobs
    <3>1. Listed /\ job \in Jobs
      BY <1>4 DEF BaseInv, ListedInv, TypeInv, OnwardPick
    <3> QED BY <1>4, <3>1, ListingShape DEF OnwardPick, BaseInv, TypeInv, ProgressInv
  <2>2. pc' = SelectMode(objects[cur]) /\ held' = Nothing
    BY <1>4 DEF OnwardPick, HeldInv
  <2>3. CurrentInv'
    BY <1>2, <1>3, <1>4, <2>1, <2>2, PickMirror, ModeSelected DEF CurrentInv, OnwardPick
  <2>4. HeldInv'
    BY <2>1, <2>2, ModeSelected DEF HeldInv
  <2> QED BY <2>3, <2>4
<1>5. CASE OnwardEval
  <2>1. pc \in Processing /\ DstPlace' = DstPlace
    BY <1>1, <1>5 DEF OnwardEval, Processing, DstPlace
  <2>2. CurrentInv'
    BY <1>2, <1>3, <1>5, <2>1 DEF CurrentInv, OnwardEval
  <2>3. Body \in Contents
    BY <2>1, CurrentSource DEF Body
  <2>4. Body.form = "filtered" => Verdict(Body) = "Written"
    BY <2>3, ContentsTyped DEF BaseInv, TypeInv
  <2>5. Verdict(Body) # "Written" => files'[SrcPlace'].form # "filtered"
    BY <1>1, <1>3, <2>4 DEF Body
  <2>6. held = Nothing
    BY <1>5 DEF OnwardEval, HeldInv
  <2>7. pc = "buffer" => ~ Streams(Source(cur))
    BY <2>1 DEF CurrentInv
  <2>8. HeldInv'
    BY <1>2, <1>5, <2>5, <2>6, <2>7 DEF HeldInv, OnwardEval
  <2> QED BY <2>2, <2>8
<1>6. CASE OnwardCopy
  <2>1. pc \in Processing /\ DstPlace' = DstPlace /\ held' = held
    BY <1>1, <1>6 DEF OnwardCopy, Processing, DstPlace
  <2>2. ~ cfg.dryRun
    BY <1>6, <2>1 DEF OnwardCopy, CurrentInv
  <2>3. CurrentInv'
    BY <1>2, <1>3, <1>6, <2>1, <2>2 DEF CurrentInv, OnwardCopy
  <2>4. HeldInv'
    BY <1>1, <1>2, <1>3, <1>6, <2>1 DEF HeldInv, OnwardCopy
  <2> QED BY <2>3, <2>4
<1> QED BY <1>4, <1>5, <1>6 DEF Onward

LEMMA ReportedAny ==
    ASSUME Reported
    PROVE  /\ pc' = "pick" /\ held' = Nothing /\ cur' = cur + 1
           /\ UNCHANGED <<job, objects>>
           /\ \E what : report' = [report EXCEPT ![cur] = what]
BY DEF Reported, ReportsFailure, ReportsFailedWrite, ReportsPreview, ReportsNothing,
       ReportsArrival, Report

LEMMA CurrentReported ==
    ASSUME Reported
    PROVE  CurrentInv' /\ HeldInv'
BY ReportedAny DEF CurrentInv, HeldInv, Processing

LEMMA CurrentInit ==
    ASSUME Init
    PROVE  CurrentInv /\ HeldInv
BY DEF Init, CurrentInv, HeldInv, Processing

(* What a step outside the objects leaves alone.                           *)
LEMMA Outside ==
    ASSUME BaseInv, Refuse \/ Enumerate \/ Summarise
    PROVE  /\ pc' \in {"pick", "done"} /\ UNCHANGED <<job, files, held, m>>
           /\ pc' = "pick" => pc = "start"
           /\ pc = "start" \/ UNCHANGED <<objects, cur, report>>
BY DEF Refuse, Enumerate, Summarise, Exit

LEMMA CurrentOutside ==
    ASSUME BaseInv, HeldInv, Refuse \/ Enumerate \/ Summarise
    PROVE  CurrentInv' /\ HeldInv'
<1>1. pc' \in {"pick", "done"} /\ held' = held /\ (pc' = "pick" => pc = "start")
  BY Outside
<1>2. pc = "start" => held = Nothing
  BY DEF HeldInv
<1> QED BY <1>1, <1>2 DEF CurrentInv, HeldInv, Processing

LEMMA CurrentStutter ==
    ASSUME CurrentInv, HeldInv, UNCHANGED vars
    PROVE  CurrentInv' /\ HeldInv'
<1>1. UNCHANGED <<job, pc, files, objects, cur, dstKey, held>>
  BY DEF vars
<1>2. /\ Listed' = Listed /\ Source(cur)' = Source(cur) /\ cfg' = cfg
      /\ MirrorOf(Source(cur))' = MirrorOf(Source(cur))
      /\ Streams(Source(cur))' = Streams(Source(cur))
      /\ Unsafe(objects[cur])' = Unsafe(objects[cur])
  BY <1>1, Frame
<1>3. SrcPlace' = SrcPlace /\ DstPlace' = DstPlace
  BY <1>1 DEF SrcPlace, DstPlace, Place
<1> QED BY <1>1, <1>2, <1>3 DEF CurrentInv, HeldInv

LEMMA CurrentInductive ==
    ASSUME BaseInv, CurrentInv, HeldInv, [Next]_vars
    PROVE  CurrentInv' /\ HeldInv'
BY NextCases, ObjectEffect, CurrentOnward, CurrentReported, CurrentOutside, CurrentStutter

-----------------------------------------------------------------------------
(***************************************************************************)
(* What is stored, and where.                                              *)
(***************************************************************************)

(* Only a put, a copy and a stream that is not a preview write, and only   *)
(* at the mirror of the object at cur.                                     *)
LEMMA FilesEffect ==
    ASSUME BaseInv, CurrentInv, Reported
    PROVE  \/ files' = files
           \/ /\ pc \in Processing /\ ~ cfg.dryRun
              /\ \E c \in Contents : files' = Stored(c)
<1>1. pc \in {"put", "copy", "stream"} => pc \in Processing
  BY DEF Processing
<1>2. pc \in {"put", "copy"} => ~ cfg.dryRun
  BY <1>1 DEF CurrentInv
<1>3. /\ pc = "put" => held \in Contents
      /\ pc \in {"copy", "stream"} => Body \in Contents /\ Filtered(Body) \in Contents
  BY <1>1, CurrentSource, ContentsTyped DEF Body, BaseInv, TypeInv, ProgressInv
<1>4. job \in Jobs
  BY DEF BaseInv, TypeInv
<1>5. CASE ReportsFailure \/ ReportsPreview \/ ReportsNothing
  BY <1>5 DEF ReportsFailure, ReportsPreview, ReportsNothing
<1>6. CASE ReportsFailedWrite
  BY <1>1, <1>2, <1>3, <1>4, <1>6, PutTyped DEF ReportsFailedWrite
<1>7. CASE ReportsArrival
  BY <1>1, <1>2, <1>3, <1>7 DEF ReportsArrival
<1> QED BY <1>5, <1>6, <1>7 DEF Reported

LEMMA PlacesReported ==
    ASSUME BaseInv, CurrentInv, PlacesInv, Reported
    PROVE  PlacesInv'
<1>1. UNCHANGED <<job, objects>> /\ cur' = cur + 1 /\ pc' # "start"
  BY ReportedAny
<1>2. /\ SourcePlaces' = SourcePlaces /\ cfg' = cfg
      /\ \A i : Source(i)' = Source(i) /\ \A s : MirrorOf(s)' = MirrorOf(s)
      /\ \A o : Unsafe(o)' = Unsafe(o)
  BY <1>1, Frame
<1>3. \A i : MirrorOf(Source(i))' = MirrorOf(Source(i))
  BY <1>2
<1>4. cur \in Nat /\ \A i \in DOMAIN objects : i < cur => i < cur'
  <2>1. cur \in Nat
    BY DEF BaseInv, TypeInv
  <2>2. pc \in Processing \cup {"pick"}
    BY DEF Reported, ReportsFailure, ReportsFailedWrite, ReportsPreview,
           ReportsNothing, ReportsArrival, Processing
  <2>3. Listed
    BY <2>2 DEF BaseInv, ListedInv, Processing
  <2>4. DOMAIN objects = 1..Len(objects)
    BY <2>3, ListingShape DEF BaseInv, TypeInv
  <2> QED BY <1>1, <2>1, <2>4
<1>5. CASE files' = files
  BY <1>1, <1>2, <1>3, <1>4, <1>5 DEF PlacesInv
<1>6. ASSUME pc \in Processing, ~ cfg.dryRun, NEW c \in Contents, files' = Stored(c)
      PROVE  PlacesInv'
  <2>1. DOMAIN files' = DOMAIN files \cup {DstPlace}
    BY <1>6 DEF Stored
  <2>2. /\ DstPlace = MirrorOf(Source(cur)) /\ ~ Unsafe(objects[cur])
        /\ cur \in DOMAIN objects /\ cur < cur'
    BY <1>1, <1>4, <1>6, CurrentSource DEF CurrentInv
  <2>3. \A p \in DOMAIN files' \ SourcePlaces :
           \E i \in DOMAIN objects :
               i < cur' /\ p = MirrorOf(Source(i)) /\ ~ Unsafe(objects[i])
    BY <1>4, <2>1, <2>2 DEF PlacesInv
  <2> QED BY <1>1, <1>2, <1>3, <1>6, <2>3 DEF PlacesInv
<1> QED BY <1>5, <1>6, FilesEffect

LEMMA PlacesInit ==
    ASSUME Init
    PROVE  PlacesInv
<1>1. files = [p \in SourcePlaces |-> Original(p)]
  BY DEF Init, SourcePlaces, Original
<1> QED BY <1>1 DEF PlacesInv

LEMMA PlacesKept ==
    ASSUME BaseInv, PlacesInv,
           Onward \/ Refuse \/ Enumerate \/ Summarise \/ UNCHANGED vars
    PROVE  PlacesInv'
<1>1. job' = job /\ files' = files
  BY Outside DEF Onward, OnwardPick, OnwardEval, OnwardCopy, vars
<1>2. SourcePlaces' = SourcePlaces /\ cfg' = cfg
  BY <1>1, JobFrame
<1>3. CASE pc = "start"
  <2>1. DOMAIN files = SourcePlaces
    BY <1>3 DEF BaseInv, StartInv
  <2> QED BY <1>1, <1>2, <2>1 DEF PlacesInv
<1>4. CASE pc # "start"
  <2>1. objects' = objects /\ cur' = cur
    BY <1>4, Outside DEF Onward, OnwardPick, OnwardEval, OnwardCopy, vars
  <2>2. /\ \A i : Source(i)' = Source(i) /\ \A s : MirrorOf(s)' = MirrorOf(s)
        /\ \A o : Unsafe(o)' = Unsafe(o)
    BY <1>1, <2>1, Frame
  <2>3. \A i : MirrorOf(Source(i))' = MirrorOf(Source(i))
    BY <2>2
  <2> QED BY <1>1, <1>2, <2>1, <2>2, <2>3 DEF PlacesInv
<1> QED BY <1>3, <1>4

LEMMA PlacesInductive ==
    ASSUME BaseInv, CurrentInv, PlacesInv, [Next]_vars
    PROVE  PlacesInv'
BY NextCases, ObjectEffect, PlacesReported, PlacesKept

-----------------------------------------------------------------------------
(***************************************************************************)
(* What is read and held of the object at cur, when no source was          *)
(* overwritten by an earlier object.                                       *)
(***************************************************************************)
LEMMA DueFacts ==
    ASSUME NEW s
    PROVE  /\ s.verdict = "Written" =>
                 Due(s) = [of |-> Place(job.src, s.key), form |-> "filtered"]
           /\ s.verdict = "NothingKept" => Due(s) = Nothing
           /\ s.verdict = "Unparsable" => Due(s) = Original(Place(job.src, s.key))
           /\ s.verdict = "Unrecognized" /\ cfg.unrecognized = "copy" =>
                 Due(s) = Original(Place(job.src, s.key))
           /\ s.verdict = "Unrecognized" /\ cfg.unrecognized # "copy" => Due(s) = Nothing
BY DEF Due, Original

LEMMA NothingIsNoContent ==
    /\ \A p : Original(p) # Nothing
    /\ \A p : [of |-> p, form |-> "filtered"] # Nothing
<1>1. Nothing.form = "nothing"
  BY DEF Nothing
<1>2. \A p : Original(p).form = "source" /\ [of |-> p, form |-> "filtered"].form = "filtered"
  BY DEF Original
<1> QED BY <1>1, <1>2

LEMMA BodyIntact ==
    ASSUME BaseInv, SourcesIntact, pc \in Processing
    PROVE  /\ Body = Original(SrcPlace)
           /\ Verdict(Body) = Source(cur).verdict
           /\ TooLarge(Body) = Source(cur).over
           /\ SrcPlace = Place(job.src, Source(cur).key)
           /\ Source(cur) \in job.tree
<1>1. /\ Source(cur) \in job.tree /\ SrcPlace = Place(job.src, Source(cur).key)
  BY CurrentSource, ObjectSource DEF SrcPlace, BaseInv, TypeInv
<1>2. Body = Original(SrcPlace)
  BY <1>1 DEF SourcesIntact, Body, Original
<1>3. Body.form = "source" /\ Body.of = SrcPlace
  BY <1>2 DEF Original
<1>4. SourceAt(SrcPlace) = Source(cur)
  BY DEF Source, SrcPlace
<1>5. Verdict(Body) = Source(cur).verdict
  BY <1>3, <1>4, CurrentSource, ContentsTyped DEF Body, BaseInv, TypeInv
<1>6. Source(cur).over \in BOOLEAN
  BY <1>1, JobFacts DEF BaseInv, TypeInv, SourceObjects
<1>7. TooLarge(Body) = Source(cur).over
  BY <1>3, <1>4, <1>6 DEF TooLarge
<1> QED BY <1>1, <1>2, <1>5, <1>7

(* The mirror that is written is not a source.                             *)
LEMMA MirrorIsNoSource ==
    ASSUME BaseInv, CurrentInv, Disjoint, pc \in Processing, ~ cfg.dryRun
    PROVE  DstPlace \notin SourcePlaces
<1>1. /\ Source(cur) \in InScope /\ Source(cur).key = objects[cur].key
  BY CurrentSource, ObjectSource DEF BaseInv, TypeInv
<1>2. DstPlace = MirrorOf(Source(cur)) /\ DstPlace # SrcPlace
  BY DEF CurrentInv
<1>3. ASSUME NEW t \in job.tree, DstPlace = Place(job.src, t.key)
      PROVE  FALSE
  <2>1. Source(cur) = t
    BY <1>1, <1>2, <1>3 DEF Disjoint
  <2> QED BY <1>1, <1>2, <1>3, <2>1 DEF SrcPlace
<1> QED BY <1>3 DEF SourcePlaces

LEMMA ContentOnward ==
    ASSUME BaseInv, CurrentInv, HeldInv, ContentInv, Onward
    PROVE  ContentInv'
<1>1. UNCHANGED <<job, objects, cur, files>>
  BY DEF Onward, OnwardPick, OnwardEval, OnwardCopy
<1>2. /\ Clean' = Clean /\ Source(cur)' = Source(cur) /\ cfg' = cfg
      /\ Due(Source(cur))' = Due(Source(cur))
  BY <1>1, Frame
<1>3. SrcPlace' = SrcPlace /\ SourcesIntact' = SourcesIntact
  BY <1>1 DEF SrcPlace, Place, SourcesIntact
<1>4. SUFFICES ASSUME Clean, SourcesIntact
               PROVE  ContentInv'
  BY <1>2, <1>3 DEF ContentInv
<1>5. CASE OnwardPick
  <2>1. Listed /\ cur \in DOMAIN objects
    <3>1. Listed
      BY <1>5 DEF BaseInv, ListedInv, OnwardPick
    <3> QED BY <1>5, <3>1, ListingShape DEF OnwardPick, BaseInv, TypeInv, ProgressInv
  <2>2. pc' \in {"buffer", "stream"}
    BY <1>5, <2>1, ModeSelected DEF OnwardPick
  <2> QED BY <1>3, <1>4, <2>2 DEF ContentInv
<1>6. CASE OnwardEval
  <2>1. pc \in Processing /\ held = Nothing
    BY <1>6 DEF OnwardEval, Processing, HeldInv
  <2>2. /\ Body = Original(SrcPlace) /\ Verdict(Body) = Source(cur).verdict
        /\ SrcPlace = Place(job.src, Source(cur).key)
    BY <1>4, <2>1, BodyIntact
  <2>3. Filtered(Body) = [of |-> SrcPlace, form |-> "filtered"]
    BY <2>2 DEF Filtered, Original
  <2>4. Verdict(Body) = "Written" => Filtered(Body) = Due(Source(cur)) /\ Filtered(Body) # Nothing
    BY <2>2, <2>3, DueFacts, NothingIsNoContent
  <2>5. CASE pc' = "put"
    <3>1. held' = Filtered(Body) /\ Verdict(Body) = "Written"
      BY <1>6, <2>5 DEF OnwardEval
    <3> QED BY <1>2, <1>3, <1>4, <2>4, <2>5, <3>1 DEF ContentInv
  <2>6. CASE pc' # "put"
    BY <1>2, <1>3, <1>4, <1>6, <2>1, <2>2, <2>6 DEF ContentInv, OnwardEval
  <2> QED BY <2>5, <2>6
<1>7. CASE OnwardCopy
  <2>1. pc \in Processing /\ held' = held
    BY <1>7 DEF OnwardCopy, Processing
  <2>2. SrcPlace = Place(job.src, Source(cur).key)
    BY <1>4, <2>1, BodyIntact
  <2>3. Due(Source(cur)) = Original(SrcPlace) /\ held \in {Nothing, Original(SrcPlace)}
    BY <1>4, <1>7, <2>2, DueFacts DEF OnwardCopy, ContentInv
  <2>4. pc' = IF held = Nothing THEN "copy" ELSE "put"
    BY <1>7 DEF OnwardCopy
  <2> QED BY <1>2, <1>3, <1>4, <2>1, <2>3, <2>4 DEF ContentInv
<1> QED BY <1>5, <1>6, <1>7 DEF Onward

LEMMA ContentReported ==
    ASSUME BaseInv, CurrentInv, ContentInv, Reported
    PROVE  ContentInv'
<1>1. UNCHANGED <<job, objects>> /\ pc' = "pick"
  BY ReportedAny
<1>2. Clean' = Clean /\ SourcePlaces' = SourcePlaces
  BY <1>1, Frame
<1>3. SUFFICES ASSUME Clean, SourcesIntact
               PROVE  SourcesIntact'
  BY <1>1, <1>2 DEF ContentInv
<1>4. CASE files' = files
  BY <1>1, <1>3, <1>4 DEF SourcesIntact, Place
<1>5. ASSUME pc \in Processing, ~ cfg.dryRun, NEW c \in Contents, files' = Stored(c)
      PROVE  SourcesIntact'
  <2>1. DstPlace \notin SourcePlaces
    BY <1>3, <1>5, MirrorIsNoSource DEF Clean
  <2>2. \A p \in SourcePlaces : files'[p] = files[p]
    BY <1>5, <2>1 DEF Stored, BaseInv, ProgressInv
  <2>3. \A s \in job.tree : Place(job.src, s.key) \in SourcePlaces
    BY DEF SourcePlaces
  <2>4. \A s \in job.tree : files'[Place(job.src, s.key)] = files[Place(job.src, s.key)]
    BY <2>2, <2>3
  <2> QED BY <1>1, <1>3, <2>4 DEF SourcesIntact, Place
<1> QED BY <1>4, <1>5, FilesEffect

LEMMA ContentInit ==
    ASSUME Init
    PROVE  ContentInv
<1>1. files = [p \in SourcePlaces |-> Original(p)] /\ pc = "start"
  BY DEF Init, SourcePlaces, Original
<1>2. \A s \in job.tree : Place(job.src, s.key) \in SourcePlaces
  BY DEF SourcePlaces
<1>3. SourcesIntact
  BY <1>1, <1>2 DEF SourcesIntact, Original
<1> QED BY <1>1, <1>3 DEF ContentInv

LEMMA ContentOutside ==
    ASSUME BaseInv, ContentInv, Refuse \/ Enumerate \/ Summarise
    PROVE  ContentInv'
<1>1. pc' \in {"pick", "done"} /\ UNCHANGED <<job, files>>
  BY Outside
<1>2. Clean' = Clean /\ SourcesIntact' = SourcesIntact
  BY <1>1, JobFrame DEF SourcesIntact, Place
<1> QED BY <1>1, <1>2 DEF ContentInv

LEMMA ContentStutter ==
    ASSUME ContentInv, UNCHANGED vars
    PROVE  ContentInv'
<1>1. UNCHANGED <<job, pc, files, objects, cur, held>>
  BY DEF vars
<1>2. /\ Clean' = Clean /\ Source(cur)' = Source(cur)
      /\ Due(Source(cur))' = Due(Source(cur))
  BY <1>1, Frame
<1>3. SrcPlace' = SrcPlace /\ SourcesIntact' = SourcesIntact
  BY <1>1 DEF SrcPlace, Place, SourcesIntact
<1> QED BY <1>1, <1>2, <1>3 DEF ContentInv

LEMMA ContentInductive ==
    ASSUME BaseInv, CurrentInv, HeldInv, ContentInv, [Next]_vars
    PROVE  ContentInv'
BY NextCases, ObjectEffect, ContentOnward, ContentReported, ContentOutside, ContentStutter

-----------------------------------------------------------------------------
(***************************************************************************)
(* The summary.                                                            *)
(***************************************************************************)

(* The place of a report among those before it.                            *)
LEMMA ReportedAt ==
    ASSUME BaseInv, CurrentInv, Reported
    PROVE  /\ Listed /\ cur \in DOMAIN objects /\ cur \in Nat /\ job \in Jobs
           /\ DOMAIN report = DOMAIN objects /\ DOMAIN report' = DOMAIN report
           /\ DOMAIN objects \subseteq Nat
           /\ \A i \in DOMAIN report : i # cur => report'[i] = report[i]
           /\ cur \notin m.tallied
           /\ \A i \in DOMAIN objects : i < cur' <=> i < cur \/ i = cur
<1>1. pc \in Processing \cup {"pick"}
  BY DEF Reported, ReportsFailure, ReportsFailedWrite, ReportsPreview,
         ReportsNothing, ReportsArrival, Processing
<1>2. Listed /\ job \in Jobs /\ cur \in Nat
  BY <1>1 DEF BaseInv, ListedInv, TypeInv, Processing
<1>3. DOMAIN objects = 1..Len(objects) /\ Len(objects) \in Nat
  BY <1>2, ListingShape
<1>4. DOMAIN report = DOMAIN objects
  BY DEF BaseInv, ListedInv
<1>5. PICK what : report' = [report EXCEPT ![cur] = what] /\ cur' = cur + 1
  BY ReportedAny
<1>6. cur \notin m.tallied
  BY <1>2 DEF BaseInv, ProgressInv
<1>7. cur \in DOMAIN objects
  <2>1. CASE pc \in Processing
    BY <2>1, CurrentSource
  <2>2. CASE pc = "pick"
    <3>1. cur <= Len(objects)
      BY <2>2 DEF Reported, ReportsFailure, ReportsFailedWrite, ReportsPreview,
             ReportsNothing, ReportsArrival
    <3> QED BY <1>2, <1>3, <2>2, <3>1 DEF BaseInv, ProgressInv
  <2> QED BY <1>1, <2>1, <2>2
<1> QED BY <1>2, <1>3, <1>4, <1>5, <1>6, <1>7


(* A preview leaves the sources as they were.                              *)
LEMMA PreviewIntact ==
    ASSUME ContentInv, cfg.dryRun
    PROVE  SourcesIntact
BY DEF ContentInv, Clean

(* The object at cur is counted as its report says.                        *)
LEMMA CountsOfReport ==
    ASSUME BaseInv, CurrentInv, HeldInv, ContentInv, Reported
    PROVE  /\ m'.tallied \in {m.tallied, m.tallied \cup {cur}}
           /\ report'[cur] = "Failed" => m'.tallied = m.tallied
           /\ report'[cur] \in {"Written", "NothingKept"} => cur \in m'.tallied
           /\ report'[cur] = "DryRun" =>
                 \/ cur \in m'.tallied
                 \/ Source(cur).verdict \in {"Unparsable", "Unrecognized"}
<1>1. /\ cur \in DOMAIN report /\ cur \in Nat /\ m \in Metrics /\ job \in Jobs
  BY ReportedAt DEF BaseInv, TypeInv
<1>2. \A what : Report(what) => report'[cur] = what
  BY <1>1 DEF Report
<1>3. CASE ReportsFailure \/ ReportsFailedWrite
  BY <1>2, <1>3 DEF ReportsFailure, ReportsFailedWrite
<1>4. CASE ReportsPreview
  <2>1. SourcesIntact /\ pc \in Processing
    BY <1>4, PreviewIntact DEF ReportsPreview, Processing
  <2>2. Verdict(Body) = Source(cur).verdict
    BY <2>1, BodyIntact
  <2>3. report'[cur] = "DryRun"
    BY <1>2, <1>4 DEF ReportsPreview
  <2>4. pc = "unparsed" => Source(cur).verdict = "Unparsable"
    BY <1>4 DEF ReportsPreview, ContentInv, Clean
  <2>5. CASE pc = "buffer"
    <3> DEFINE mm == IF Verdict(Body) = "Unrecognized" THEN OneUnrecognized(m) ELSE m
    <3>1. m'.tallied = m.tallied \cup {cur}
      <4>1. m' = Tallied(mm)
        BY <1>4, <2>5 DEF ReportsPreview
      <4>2. mm \in Metrics /\ mm.tallied = m.tallied
        BY <1>1, MetricsTyped
      <4> HIDE DEF mm
      <4> QED BY <1>1, <4>1, <4>2, MetricsTyped
    <3> QED BY <2>3, <3>1
  <2>6. CASE pc = "stream"
    <3>1. \/ m'.tallied = m.tallied \cup {cur}
          \/ m'.tallied = m.tallied /\ Verdict(Body) = "Unrecognized"
      BY <1>1, <1>4, <2>6, MetricsTyped DEF ReportsPreview
    <3> QED BY <2>2, <2>3, <3>1
  <2>7. CASE pc = "unparsed"
    <3>1. m'.tallied = m.tallied
      BY <1>1, <1>4, <2>7, MetricsTyped DEF ReportsPreview
    <3> QED BY <2>3, <2>4, <2>7, <3>1
  <2> QED BY <1>4, <2>5, <2>6, <2>7 DEF ReportsPreview
<1>5. CASE ReportsNothing
  BY <1>1, <1>2, <1>5, MetricsTyped DEF ReportsNothing
<1>6. CASE ReportsArrival
  <2>1. CASE pc = "put"
    <3>1. /\ held \in Contents /\ m' = Commit(TRUE) /\ report'[cur] = Arrived(held)
      BY <1>2, <1>6, <2>1 DEF ReportsArrival, BaseInv, TypeInv, ProgressInv
    <3>2. m'.tallied \in {m.tallied, m.tallied \cup {cur}}
      BY <1>1, <3>1, MetricsTyped DEF Commit
    <3>3. Arrived(held) \in {"Written", "CopiedUnrecognized", "CopiedUnparsed"}
      BY DEF Arrived
    <3>4. Arrived(held) = "Written" => held.form = "filtered"
      BY DEF Arrived
    <3>5. held.form = "filtered" => Verdict(held) = "Written"
      BY <1>1, <3>1, ContentsTyped
    <3>6. Arrived(held) = "Written" => m' = Tallied(m)
      BY <3>1, <3>4, <3>5 DEF Commit
    <3>7. Arrived(held) = "Written" => cur \in m'.tallied
      BY <1>1, <3>6, MetricsTyped
    <3> QED BY <3>1, <3>2, <3>3, <3>7
  <2>2. CASE pc = "copy"
    <3>1. m' = m /\ report'[cur] = Arrived(Body) /\ Body.form # "filtered"
      BY <1>2, <1>6, <2>2 DEF ReportsArrival, HeldInv, Body
    <3>2. Arrived(Body) \in {"CopiedUnrecognized", "CopiedUnparsed"}
      BY <3>1 DEF Arrived
    <3> QED BY <3>1, <3>2
  <2>3. CASE pc = "stream"
    <3>1. m' = Tallied(m) /\ report'[cur] = "Written"
      BY <1>2, <1>6, <2>3 DEF ReportsArrival
    <3> QED BY <1>1, <3>1, MetricsTyped
  <2> QED BY <1>6, <2>1, <2>2, <2>3 DEF ReportsArrival
<1> QED BY <1>3, <1>4, <1>5, <1>6 DEF Reported

LEMMA CountsReported ==
    ASSUME BaseInv, CurrentInv, HeldInv, ContentInv, CountsSettled, Reported
    PROVE  CountsSettled'
<1>1. /\ DOMAIN report' = DOMAIN report /\ cur \notin m.tallied
      /\ \A i \in DOMAIN report : i # cur => report'[i] = report[i]
      /\ UNCHANGED <<job, objects>>
  BY ReportedAt, ReportedAny
<1>2. \A i : SourceAt(Place(job.src, objects[i].key))' = Source(i)
  BY <1>1, Frame DEF Source
<1>3. SUFFICES ASSUME NEW i \in DOMAIN report
               PROVE  /\ report'[i] = "Failed" => i \notin m'.tallied
                      /\ report'[i] \in {"Written", "NothingKept"} => i \in m'.tallied
                      /\ report'[i] = "DryRun" =>
                            \/ i \in m'.tallied
                            \/ Source(i).verdict \in {"Unparsable", "Unrecognized"}
  BY <1>1, <1>2 DEF CountsSettled
<1>4. CASE i = cur
  BY <1>1, <1>4, CountsOfReport
<1>5. CASE i # cur
  <2>1. i \in m'.tallied <=> i \in m.tallied
    BY <1>5, CountsOfReport
  <2> QED BY <1>1, <1>5, <2>1 DEF CountsSettled, Source
<1> QED BY <1>4, <1>5

LEMMA CountsKept ==
    ASSUME BaseInv, CountsSettled,
           Onward \/ Refuse \/ Enumerate \/ Summarise \/ UNCHANGED vars
    PROVE  CountsSettled'
<1>1. CASE pc = "start" /\ Enumerate
  <2>1. report' = [i \in DOMAIN objects' |-> "none"]
    BY <1>1 DEF Enumerate
  <2> QED BY <2>1 DEF CountsSettled
<1>2. CASE ~ (pc = "start" /\ Enumerate)
  <2>1. UNCHANGED <<job, objects, report>> /\ m'.tallied = m.tallied
    BY <1>2 DEF Onward, OnwardPick, OnwardEval, OnwardCopy, Refuse, Enumerate,
                Summarise, vars
  <2>2. \A i : SourceAt(Place(job.src, objects[i].key))'
               = SourceAt(Place(job.src, objects[i].key))
    BY <2>1, Frame DEF Source
  <2> QED BY <2>1, <2>2 DEF CountsSettled
<1> QED BY <1>1, <1>2

LEMMA CountsInductive ==
    ASSUME BaseInv, CurrentInv, HeldInv, ContentInv, CountsSettled, [Next]_vars
    PROVE  CountsSettled'
BY NextCases, ObjectEffect, CountsReported, CountsKept

LEMMA CountsInit ==
    ASSUME Init
    PROVE  CountsSettled
BY DEF Init, CountsSettled

-----------------------------------------------------------------------------
(***************************************************************************)
(* The unrecognized count of a preview.                                    *)
(***************************************************************************)
CountedBefore(n) == {i \in 1..(n - 1) : Counted(Source(i))}

LEMMA CountedNext ==
    ASSUME NEW n \in Nat, n # 0
    PROVE  /\ IsFiniteSet(CountedBefore(n)) /\ Cardinality(CountedBefore(n)) \in Nat
           /\ Cardinality(CountedBefore(n + 1)) =
                 IF Counted(Source(n)) THEN Cardinality(CountedBefore(n)) + 1
                                       ELSE Cardinality(CountedBefore(n))
<1>1. IsFiniteSet(1..(n - 1))
  BY FS_Interval
<1>2. CountedBefore(n) \in SUBSET (1..(n - 1))
  BY DEF CountedBefore
<1>3. IsFiniteSet(CountedBefore(n))
  BY <1>1, <1>2, FS_Subset
<1>4. n \notin CountedBefore(n)
  BY <1>2
<1>5. 1..((n + 1) - 1) = 1..(n - 1) \cup {n}
  OBVIOUS
<1>6. CountedBefore(n + 1) = IF Counted(Source(n)) THEN CountedBefore(n) \cup {n}
                                                   ELSE CountedBefore(n)
  BY <1>5 DEF CountedBefore
<1>7. Cardinality(CountedBefore(n) \cup {n}) = Cardinality(CountedBefore(n)) + 1
  BY <1>3, <1>4, FS_AddElement
<1> QED BY <1>3, <1>6, <1>7, FS_CardinalityType

(* An object over the limit that may not be streamed is not counted.       *)
LEMMA CountedCases ==
    ASSUME job \in Jobs, NEW s \in job.tree
    PROVE  /\ [s EXCEPT !.verdict = "Written"].over = s.over
           /\ MustFail([s EXCEPT !.verdict = "Written"])
                 <=> s.over /\ ~ Streams(s) /\ cfg.tooLarge = "error"
<1>1. s \in SourceObjects
  BY JobFacts
<1>2. PICK t : t = [s EXCEPT !.verdict = "Written"]
  OBVIOUS
<1>3. /\ t.over = s.over /\ t.large = s.large /\ t.verdict = "Written"
  BY <1>1, <1>2 DEF SourceObjects
<1>4. Streams(t) = Streams(s)
  BY <1>3 DEF Streams
<1>5. MustFail(t) <=> s.over /\ ~ Streams(s) /\ cfg.tooLarge = "error"
  BY <1>3, <1>4 DEF MustFail
<1> QED BY <1>2, <1>3, <1>5

(* Each report of a preview moves the count as it should.                  *)
LEMMA CountOfReport ==
    ASSUME BaseInv, CurrentInv, HeldInv, ContentInv, Reported, cfg.dryRun, ~ faulty'
    PROVE  /\ ~ faulty
           /\ m'.unrecognized = IF Counted(Source(cur)) THEN m.unrecognized + 1
                                                        ELSE m.unrecognized
<1>1. /\ cur \in DOMAIN objects /\ cur \in Nat /\ m \in Metrics /\ job \in Jobs
      /\ Listed /\ SourcesIntact
  BY ReportedAt, PreviewIntact DEF BaseInv, TypeInv
<1>2. /\ Source(cur) \in job.tree /\ objects[cur] = AsObject(Source(cur))
  BY <1>1, ObjectSource
<1>3. /\ cfg.tooLarge \in {"stream", "error"} /\ Source(cur).over \in BOOLEAN
  BY <1>1, <1>2, JobFacts DEF Settings, SourceObjects
<1>4. pc \in Processing =>
          /\ Verdict(Body) = Source(cur).verdict
          /\ TooLarge(Body) = Source(cur).over
  BY <1>1, BodyIntact
<1>5. pc \in {"put", "copy", "unrecognized"} => FALSE
  BY DEF CurrentInv, Processing
<1>6. Counted(Source(cur)) <=>
          /\ Source(cur).verdict = "Unrecognized"
          /\ ~ Unsafe(objects[cur])
          /\ ~ (Source(cur).over /\ ~ Streams(Source(cur)) /\ cfg.tooLarge = "error")
  BY <1>1, <1>2, CountedCases DEF Counted
<1>7. CASE ReportsFailure
  <2>1. m' = m /\ ~ faulty
    BY <1>7 DEF ReportsFailure
  <2>2. pc = "buffer" => ~ Streams(Source(cur))
    BY DEF CurrentInv, Processing
  <2>3. \/ Unsafe(objects[cur])
        \/ pc = "buffer" /\ TooLarge(Body) /\ cfg.tooLarge # "stream"
        \/ pc \in {"buffer", "stream"} /\ Verdict(Body) = "Unparsable"
    BY <1>5, <1>7 DEF ReportsFailure
  <2>4. pc \in {"buffer", "stream"} => pc \in Processing
    BY DEF Processing
  <2>5. ~ Counted(Source(cur))
    BY <1>3, <1>4, <1>6, <2>2, <2>3, <2>4
  <2> QED BY <2>1, <2>5
<1>8. CASE ReportsPreview
  <2>1. ~ faulty
    BY <1>8 DEF ReportsPreview
  <2>2. pc \in Processing
    BY <1>8 DEF ReportsPreview, Processing
  <2>3. ~ Unsafe(objects[cur])
    BY <2>2 DEF CurrentInv
  <2>4. CASE pc = "buffer"
    <3>1. PICK mm \in Metrics :
             /\ m' = Tallied(mm)
             /\ mm = IF Verdict(Body) = "Unrecognized" THEN OneUnrecognized(m) ELSE m
      BY <1>1, <1>8, <2>4, MetricsTyped DEF ReportsPreview
    <3>2. m'.unrecognized = mm.unrecognized
      BY <1>1, <3>1, MetricsTyped
    <3>3. mm.unrecognized = IF Verdict(Body) = "Unrecognized" THEN m.unrecognized + 1
                                                              ELSE m.unrecognized
      BY <1>1, <3>1, MetricsTyped
    <3>4. ~ Source(cur).over
      BY <1>3, <1>4, <1>8, <2>2, <2>4 DEF ReportsPreview
    <3>5. Counted(Source(cur)) <=> Verdict(Body) = "Unrecognized"
      BY <1>4, <1>6, <2>2, <2>3, <3>4
    <3> QED BY <2>1, <3>2, <3>3, <3>5
  <2>5. CASE pc = "stream"
    <3>1. Streams(Source(cur)) \/ cfg.tooLarge = "stream"
      BY <2>2, <2>5 DEF CurrentInv
    <3>2. Counted(Source(cur)) <=> Verdict(Body) = "Unrecognized"
      BY <1>4, <1>6, <2>2, <2>3, <3>1
    <3>3. m' = IF Verdict(Body) = "Unrecognized" THEN OneUnrecognized(m) ELSE Tallied(m)
      BY <1>8, <2>5 DEF ReportsPreview
    <3> QED BY <1>1, <2>1, <3>2, <3>3, MetricsTyped
  <2>6. CASE pc = "unparsed"
    <3>1. Source(cur).verdict = "Unparsable"
      BY <2>6 DEF ContentInv, Clean
    <3>2. ~ Counted(Source(cur))
      BY <1>6, <3>1
    <3>3. m' = [m EXCEPT !.unparsed = @ + 1]
      BY <1>8, <2>6 DEF ReportsPreview
    <3> QED BY <1>1, <2>1, <3>2, <3>3, MetricsTyped
  <2> QED BY <1>8, <2>4, <2>5, <2>6 DEF ReportsPreview
<1>9. CASE ReportsFailedWrite \/ ReportsNothing \/ ReportsArrival
  BY <1>5, <1>9 DEF ReportsFailedWrite, ReportsNothing, ReportsArrival
<1> QED BY <1>7, <1>8, <1>9 DEF Reported

LEMMA CountedReported ==
    ASSUME BaseInv, CurrentInv, HeldInv, ContentInv, CountedInv, Reported
    PROVE  CountedInv'
<1>1. UNCHANGED <<job, objects>> /\ cur' = cur + 1
  BY ReportedAny
<1>2. cfg' = cfg /\ \A i : Source(i)' = Source(i) /\ \A s : Counted(s)' = Counted(s)
  BY <1>1, Frame
<1>3. \A i : Counted(Source(i))' = Counted(Source(i))
  BY <1>2
<1>4. SUFFICES ASSUME cfg.dryRun, ~ faulty'
               PROVE  m'.unrecognized = Cardinality(CountedBefore(cur + 1))
  BY <1>1, <1>2, <1>3 DEF CountedInv, CountedBefore
<1>5. cur \in Nat /\ cur # 0 /\ m.unrecognized = Cardinality(CountedBefore(cur))
  <2>1. cur \in DOMAIN objects /\ Listed /\ job \in Jobs /\ cur \in Nat
    BY ReportedAt
  <2>2. cur # 0
    BY <2>1, ListingShape
  <2> QED BY <1>4, <2>1, <2>2, CountOfReport DEF CountedInv, CountedBefore
<1> QED BY <1>4, <1>5, CountOfReport, CountedNext

LEMMA CountedKept ==
    ASSUME BaseInv, CurrentInv, CountedInv,
           Onward \/ Refuse \/ Enumerate \/ Summarise \/ UNCHANGED vars
    PROVE  CountedInv'
<1>1. job' = job /\ (~ faulty' => ~ faulty)
  BY DEF Onward, OnwardPick, OnwardEval, OnwardCopy, Refuse, Enumerate, Summarise, vars
<1>2. cfg' = cfg /\ \A s : Counted(s)' = Counted(s)
  BY <1>1, JobFrame
<1>3. CASE Enumerate
  <2>1. cur' = 1 /\ m' = m /\ pc = "start"
    BY <1>3 DEF Enumerate
  <2>2. m.unrecognized = 0
    BY <2>1 DEF BaseInv, StartInv
  <2>3. {i \in 1..(cur' - 1) : Counted(Source(i))'} = {}
    BY <2>1
  <2> QED BY <2>1, <2>2, <2>3, FS_EmptySet DEF CountedInv
<1>4. CASE ~ Enumerate
  <2>1. UNCHANGED <<objects, cur>>
    BY <1>4 DEF Onward, OnwardPick, OnwardEval, OnwardCopy, Refuse, Summarise, vars
  <2>2. \A i : Counted(Source(i))' = Counted(Source(i))
    BY <1>1, <2>1, Frame
  <2>3. cfg.dryRun => m'.unrecognized = m.unrecognized
    BY <1>4 DEF Onward, OnwardPick, OnwardEval, OnwardCopy, Refuse, Summarise, vars,
                CurrentInv, Processing
  <2> QED BY <1>1, <1>2, <2>1, <2>2, <2>3 DEF CountedInv
<1> QED BY <1>3, <1>4

LEMMA CountedInit ==
    ASSUME Init
    PROVE  CountedInv
<1>1. cur = 0 /\ m.unrecognized = 0
  BY DEF Init
<1>2. {i \in 1..(cur - 1) : Counted(Source(i))} = {}
  BY <1>1
<1> QED BY <1>1, <1>2, FS_EmptySet DEF CountedInv

LEMMA CountedInductive ==
    ASSUME BaseInv, CurrentInv, HeldInv, ContentInv, CountedInv, [Next]_vars
    PROVE  CountedInv'
BY NextCases, ObjectEffect, CountedReported, CountedKept

(* At the end the count is that of the objects in scope.                   *)
LEMMA CountAtEnd ==
    ASSUME job \in Jobs, Listed
    PROVE  Cardinality(CountedBefore(Len(objects) + 1))
              = Cardinality({s \in InScope : Counted(s)})
<1> DEFINE S == CountedBefore(Len(objects) + 1)
           T == {s \in InScope : Counted(s)}
           f == [i \in S |-> Source(i)]
<1>1. DOMAIN objects = 1..Len(objects) /\ Len(objects) \in Nat
  BY ListingShape
<1>2. S = {i \in DOMAIN objects : Counted(Source(i))}
  <2>1. (Len(objects) + 1) - 1 = Len(objects)
    BY <1>1
  <2> QED BY <1>1, <2>1 DEF CountedBefore
<1>3. IsFiniteSet(S)
  <2>1. IsFiniteSet(DOMAIN objects)
    BY <1>1, FS_Interval
  <2>2. S \in SUBSET DOMAIN objects
    BY <1>2
  <2> HIDE DEF S
  <2> QED BY <2>1, <2>2, FS_Subset
<1>4. \A i \in S : Source(i) \in T
  BY <1>2, ObjectSource
<1>5. \A i, k \in S : Source(i) = Source(k) => i = k
  BY <1>2, SourcesDistinct
<1>6. \A s \in T : \E i \in S : Source(i) = s
  <2> TAKE s \in T
  <2>1. PICK i \in DOMAIN objects : Source(i) = s
    BY SourcesCover
  <2> QED BY <1>2, <2>1
<1> HIDE DEF S, T
<1>7. f \in [S -> T] /\ \A i \in S : f[i] = Source(i)
  BY <1>4
<1>8. f \in Bijection(S, T)
  <2> HIDE DEF f
  <2>1. f \in Injection(S, T)
    BY <1>5, <1>7, Zenon DEF Injection, IsInjective
  <2>2. f \in Surjection(S, T)
    BY <1>6, <1>7, Zenon DEF Surjection
  <2> QED BY <2>1, <2>2, Zenon DEF Bijection
<1>9. ExistsBijection(S, T)
  BY <1>8, Zenon DEF ExistsBijection
<1> QED BY <1>3, <1>9, FS_Bijection DEF S, T

SummaryInv == /\ BaseInv /\ CurrentInv /\ HeldInv /\ PlacesInv /\ ContentInv
              /\ CountsSettled /\ CountedInv

LEMMA SummaryInductive ==
    /\ Init => SummaryInv
    /\ SummaryInv /\ [Next]_vars => SummaryInv'
<1>1. ASSUME Init PROVE SummaryInv
  BY <1>1, BaseInit, CurrentInit, PlacesInit, ContentInit, CountsInit, CountedInit
     DEF SummaryInv
<1>2. ASSUME SummaryInv, [Next]_vars PROVE SummaryInv'
  BY <1>2, BaseInductive, CurrentInductive, PlacesInductive, ContentInductive,
     CountsInductive, CountedInductive DEF SummaryInv
<1> QED BY <1>1, <1>2

LEMMA PreviewFollows ==
    ASSUME SummaryInv
    PROVE  PreviewFaithful
<1> SUFFICES ASSUME cfg.dryRun, pc = "done", ~ faulty, ~ NoDestKey
             PROVE  /\ files = [p \in SourcePlaces |-> Original(p)]
                    /\ m.unrecognized = Cardinality({s \in InScope : Counted(s)})
  BY DEF PreviewFaithful, SourcePlaces, Original, Counted
<1>1. job \in Jobs /\ Listed /\ cur = Len(objects) + 1
  BY DEF SummaryInv, BaseInv, TypeInv, ExitInv
<1>2. m.unrecognized = Cardinality(CountedBefore(cur))
  BY DEF SummaryInv, CountedInv, CountedBefore
<1>3. DOMAIN files = SourcePlaces /\ files \in [DOMAIN files -> Contents]
  BY DEF SummaryInv, PlacesInv, BaseInv, TypeInv
<1>4. SourcesIntact
  BY PreviewIntact DEF SummaryInv
<1>5. \A p \in SourcePlaces : files[p] = Original(p)
  BY <1>4 DEF SourcesIntact, SourcePlaces, Original
<1>6. files = [p \in SourcePlaces |-> Original(p)]
  BY <1>3, <1>5
<1> QED BY <1>1, <1>2, <1>6, CountAtEnd

(* The summary is true of the run: no failed object's records are counted, *)
(* those of every object written, dropped whole or previewed are, and a    *)
(* preview writes nothing and finds the unrecognized objects the run it    *)
(* stands for would find (Filterer::process and the Metrics it fills).     *)
THEOREM SummaryIsHonest == Spec => []SummaryHonest
<1>1. Init => SummaryInv
  BY SummaryInductive
<1>2. SummaryInv /\ [Next]_vars => SummaryInv'
  BY SummaryInductive
<1>3. SummaryInv => SummaryHonest
  BY PreviewFollows DEF SummaryInv, SummaryHonest
<1> QED BY <1>1, <1>2, <1>3, PTL DEF Spec

-----------------------------------------------------------------------------
(***************************************************************************)
(* Mirrors lie under the destination.                                      *)
(***************************************************************************)
LEMMA PrefixOfConcat ==
    ASSUME NEW S, NEW s \in Seq(S), NEW t \in Seq(S), NEW n \in 0..Len(s)
    PROVE  IsPrefix(SubSeq(s, 1, n), s \o t)
<1>1. Len(s) \in Nat /\ Len(t) \in Nat /\ n \in Nat /\ n <= Len(s)
  BY LenProperties
<1>2. PICK a : a = SubSeq(s, 1, n)
  OBVIOUS
<1>3. a \in Seq(S) /\ Len(a) = n
  <2>1. \A i \in 1..n : s[i] \in S
    BY <1>1, ElementOfSeq
  <2> QED BY <1>1, <1>2, <2>1, SubSeqProperties
<1>4. SubSeq(a, 1, Len(a)) = a
  BY <1>3, SubSeqFull
<1>5. Len(s \o t) = Len(s) + Len(t)
  BY ConcatProperties
<1>6. SubSeq(s \o t, 1, n) = a
  <2>1. CASE n = 0
    <3>1. SubSeq(s \o t, 1, n) = <<>> /\ SubSeq(s, 1, n) = <<>>
      BY <2>1, SubSeqEmpty
    <3> QED BY <1>2, <3>1
  <2>2. CASE n # 0
    <3>1. 1 \in 1..Len(s) /\ n \in 1..Len(s)
      BY <1>1, <2>2
    <3> QED BY <1>2, <3>1, SubSeqOfConcat1
  <2> QED BY <2>1, <2>2
<1>7. Len(a) <= Len(s \o t)
  BY <1>1, <1>3, <1>5
<1> QED BY <1>2, <1>3, <1>4, <1>6, <1>7 DEF IsPrefix

LEMMA TrimEndIsPrefix ==
    ASSUME NEW path \in Seq(STRING)
    PROVE  \E n \in 0..Len(path) : TrimEnd(path) = SubSeq(path, 1, n)
<1> DEFINE kept == {n \in 1..Len(path) :
                       n = 1 \/ \E k \in n..Len(path) : path[k] # ""}
<1>1. Len(path) \in Nat
  BY LenProperties
<1>2. IsFiniteSet(1..Len(path)) /\ Cardinality(1..Len(path)) = Len(path)
  BY <1>1, FS_Interval
<1>3. kept \in SUBSET (1..Len(path))
  OBVIOUS
<1>4. TrimEnd(path) = SubSeq(path, 1, Cardinality(kept))
  BY DEF TrimEnd
<1> HIDE DEF kept
<1>5. IsFiniteSet(kept) /\ Cardinality(kept) <= Len(path) /\ Cardinality(kept) \in Nat
  BY <1>2, <1>3, FS_Subset, FS_CardinalityType
<1>6. Cardinality(kept) \in 0..Len(path)
  BY <1>1, <1>5
<1> QED BY <1>4, <1>6

LEMMA SafeRelIsSeq ==
    ASSUME NEW rel \in Seq(STRING)
    PROVE  \E T : SafeRel(rel) \in Seq(T)
<1> DEFINE kept == {i \in DOMAIN rel : Normal(rel[i])}
           nth(n) == rel[CHOOSE i \in kept : Cardinality({k \in kept : k < i}) = n - 1]
<1>1. IsFiniteSet(DOMAIN rel)
  BY LenProperties, FS_Interval
<1>2. kept \in SUBSET DOMAIN rel
  OBVIOUS
<1>3. SafeRel(rel) = [n \in 1..Cardinality(kept) |-> nth(n)]
  BY DEF SafeRel
<1> HIDE DEF kept, nth
<1>4. Cardinality(kept) \in Nat
  BY <1>1, <1>2, FS_Subset, FS_CardinalityType
<1>5. PICK k \in Nat : k = Cardinality(kept)
  BY <1>4
<1> DEFINE T == {nth(n) : n \in 1..k}
<1>6. SafeRel(rel) \in [1..k -> T]
  BY <1>3, <1>5
<1>7. SafeRel(rel) \in Seq(T)
  <2> HIDE DEF T
  <2> QED BY <1>6, SeqDef
<1> QED BY <1>7

LEMMA RelIsSeq ==
    ASSUME job \in Jobs, NEW s \in InScope, ~ job.single
    PROVE  AsObject(s).rel \in Seq(STRING)
<1>1. s.key \in Seq(STRING) /\ job.src.path \in Seq(STRING) /\ job.src.path # <<>>
  BY ScopeFinite, JobFacts DEF SourceObjects, Locations
<1>2. PICK key \in Seq(STRING) : key = s.key
  BY <1>1
<1>3. PICK path \in Seq(STRING) : path = job.src.path /\ path # <<>>
  BY <1>1
<1>4. \A n \in Nat : SubSeq(key, n + 1, Len(key)) \in Seq(STRING)
  <2> TAKE n \in Nat
  <2>1. Len(key) \in Nat /\ n + 1 \in Int /\ Len(key) \in Int
    BY LenProperties
  <2>2. \A i \in (n + 1)..Len(key) : key[i] \in STRING
    BY <2>1, ElementOfSeq
  <2> QED BY <2>1, <2>2, SubSeqProperties
<1>5. Len(path) \in Nat /\ Len(Front(path)) \in Nat
  <2>1. Len(path) \in Nat
    BY LenProperties
  <2>2. \A i \in 1..(Len(path) - 1) : path[i] \in STRING
    BY <2>1, ElementOfSeq
  <2>3. Front(path) \in Seq(STRING)
    BY <2>1, <2>2, SubSeqProperties DEF Front
  <2> QED BY <2>1, <2>3, LenProperties
<1>6. AsObject(s).rel = IF IsS3(job.src) THEN Relative(job.src.path, s.key)
                        ELSE SubSeq(s.key, Len(job.src.path) + 1, Len(s.key))
  BY DEF AsObject
<1> QED BY <1>2, <1>3, <1>4, <1>5, <1>6 DEF Relative, DirPrefix

LEMMA MirrorUnder ==
    ASSUME job \in Jobs, NEW s \in InScope
    PROVE  /\ MirrorOf(s)[1] = job.dst.bucket
           /\ \/ IsPrefix(TrimEnd(job.dst.path), MirrorOf(s)[2])
              \/ job.dst.path = <<"">>
<1>1. PICK path \in Seq(STRING) : path = job.dst.path
  BY JobFacts DEF Locations
<1>2. PICK n \in 0..Len(path) : TrimEnd(path) = SubSeq(path, 1, n)
  BY TrimEndIsPrefix
<1>3. MirrorOf(s)[1] = job.dst.bucket
  BY DEF MirrorOf, Place
<1>4. CASE job.single
  <2>1. MirrorOf(s)[2] = path
    BY <1>1, <1>4 DEF MirrorOf, Place
  <2>2. path \o <<>> = path /\ <<>> \in Seq(STRING)
    BY ConcatEmptySeq, EmptySeq
  <2>3. IsPrefix(SubSeq(path, 1, n), path \o <<>>)
    BY <2>2, PrefixOfConcat
  <2> QED BY <1>1, <1>2, <1>3, <2>1, <2>2, <2>3
<1>5. CASE ~ job.single /\ ~ IsS3(job.dst)
  <2>1. PICK rel \in Seq(STRING) : rel = AsObject(s).rel
    BY <1>5, RelIsSeq
  <2>2. MirrorOf(s)[2] = path \o SafeRel(rel)
    BY <1>1, <1>5, <2>1 DEF MirrorOf, Place
  <2>3. PICK T : SafeRel(rel) \in Seq(T)
    BY SafeRelIsSeq
  <2>4. path \in Seq(STRING \cup T) /\ SafeRel(rel) \in Seq(STRING \cup T)
    BY <2>3, SeqMonotonic
  <2>5. IsPrefix(SubSeq(path, 1, n), path \o SafeRel(rel))
    BY <2>4, PrefixOfConcat
  <2> QED BY <1>1, <1>2, <1>3, <2>2, <2>5
<1>6. CASE ~ job.single /\ IsS3(job.dst) /\ path # <<"">>
  <2>1. PICK rel \in Seq(STRING) : rel = AsObject(s).rel
    BY <1>6, RelIsSeq
  <2>2. MirrorOf(s)[2] = TrimEnd(path) \o rel
    BY <1>1, <1>6, <2>1 DEF MirrorOf, Place
  <2>3. PICK root \in Seq(STRING) : root = TrimEnd(path)
    <3>1. Len(path) \in Nat
      BY LenProperties
    <3>2. \A i \in 1..n : path[i] \in STRING
      BY <3>1, ElementOfSeq
    <3> QED BY <1>2, <3>1, <3>2, SubSeqProperties
  <2>4. Len(root) \in 0..Len(root) /\ SubSeq(root, 1, Len(root)) = root
    BY LenProperties, SubSeqFull
  <2>5. IsPrefix(root, root \o rel)
    BY <2>4, PrefixOfConcat
  <2> QED BY <1>1, <1>3, <2>2, <2>3, <2>5
<1> QED BY <1>1, <1>3, <1>4, <1>5, <1>6

LEMMA WritesFollow ==
    ASSUME BaseInv, PlacesInv
    PROVE  WritesStayUnderDestination
<1> SUFFICES ASSUME NEW p \in DOMAIN files, p \notin SourcePlaces
             PROVE  \/ p[1] = job.dst.bucket /\ IsPrefix(TrimEnd(job.dst.path), p[2])
                    \/ p[1] = job.dst.bucket /\ job.dst.path = <<"">>
  BY DEF WritesStayUnderDestination, SourcePlaces
<1>1. PICK i \in DOMAIN objects : p = MirrorOf(Source(i))
  BY DEF PlacesInv
<1>2. job \in Jobs /\ Listed
  <2>1. DOMAIN objects # {}
    BY <1>1
  <2>2. objects # <<>>
    BY <2>1
  <2> QED BY <2>2 DEF BaseInv, TypeInv, ListedInv
<1>3. Source(i) \in InScope
  BY <1>2, ObjectSource
<1> QED BY <1>1, <1>2, <1>3, MirrorUnder

LEMMA JobStays ==
    ASSUME [Next]_vars
    PROVE  job' = job
BY DEF Next, Work, Refuse, Enumerate, Summarise, Pick, BufferEval, CopyUnparsable,
       Unrecognized, Put, StreamCopy, StreamRun, ReadFails, vars

(* Whatever the source keys contain, the run writes at or under its        *)
(* destination (contain_rel, join_key).                                    *)
THEOREM WritesDoStayUnderDestination == Spec => []WritesStayUnderDestination
<1>1. Init => SummaryInv
  BY SummaryInductive
<1>2. SummaryInv /\ [Next]_vars => SummaryInv'
  BY SummaryInductive
<1>3. SummaryInv => WritesStayUnderDestination
  BY WritesFollow DEF SummaryInv
<1> QED BY <1>1, <1>2, <1>3, PTL DEF Spec

(* No source object is changed, when no object's mirror is another object: *)
(* Filterer::overwrites_source refuses the one whose mirror it is itself.  *)
THEOREM NothingElseIsTouched == Spec /\ Disjoint => []NothingElseTouched
<1>1. Init /\ Disjoint => SummaryInv /\ Disjoint
  BY SummaryInductive
<1>2. SummaryInv /\ Disjoint /\ [Next]_vars => (SummaryInv /\ Disjoint)'
  <2> SUFFICES ASSUME SummaryInv, Disjoint, [Next]_vars
               PROVE  (SummaryInv /\ Disjoint)'
    OBVIOUS
  <2>1. SummaryInv'
    BY SummaryInductive
  <2>2. job' = job
    BY JobStays
  <2> QED BY <2>1, <2>2, JobFrame
<1>3. SummaryInv /\ Disjoint => NothingElseTouched
  BY WritesFollow DEF SummaryInv, NothingElseTouched, ContentInv, Clean
<1> QED BY <1>1, <1>2, <1>3, PTL DEF Spec

-----------------------------------------------------------------------------
(***************************************************************************)
(* What an object leaves at its mirror.                                    *)
(***************************************************************************)

LEMMA DueForms ==
    ASSUME job \in Jobs, NEW s \in job.tree
    PROVE  \/ Due(s) = Nothing
           \/ Due(s).form \in {"filtered", "source"}
<1>1. s.verdict \in {"Written", "NothingKept", "Unparsable", "Unrecognized"}
  BY JobFacts DEF SourceObjects
<1>2. \A p : [of |-> p, form |-> "filtered"].form = "filtered" /\ Original(p).form = "source"
  BY DEF Original
<1> QED BY <1>1, <1>2, DueFacts

(* A write that succeeds leaves what the object is due; one that fails     *)
(* leaves nothing new, or the same, or, in place, a torn file.             *)
LEMMA WriteEffect ==
    ASSUME BaseInv, CurrentInv, HeldInv, ContentInv, Disjoint, Reported
    PROVE  \/ /\ files' = files
              /\ \/ report'[cur] = "Failed"
                 \/ cfg.dryRun
                 \/ Due(Source(cur)) = Nothing /\ pc \in Processing
           \/ /\ pc \in Processing /\ ~ cfg.dryRun
              /\ files' = Stored(Due(Source(cur))) /\ Due(Source(cur)) # Nothing
              /\ Due(Source(cur)).form # "torn"
           \/ /\ pc \in Processing /\ ~ cfg.dryRun /\ report'[cur] = "Failed"
              /\ ~ Streams(Source(cur))
              /\ \E c : files' = Stored(c)
<1>1. /\ cur \in DOMAIN report /\ job \in Jobs
  BY ReportedAt
<1>2. \A what : Report(what) => report'[cur] = what
  BY <1>1 DEF Report
<1>3. SourcesIntact
  BY DEF ContentInv, Clean
<1>4. pc \in Processing =>
          /\ Body = Original(SrcPlace) /\ Verdict(Body) = Source(cur).verdict
          /\ SrcPlace = Place(job.src, Source(cur).key) /\ Source(cur) \in job.tree
  BY <1>3, BodyIntact
<1>5. Filtered(Original(SrcPlace)) = [of |-> SrcPlace, form |-> "filtered"]
  BY DEF Filtered, Original
<1>6. pc \in Processing /\ Verdict(Body) = "Written" =>
          Filtered(Body) = Due(Source(cur))
  BY <1>4, <1>5, DueFacts
<1>7. pc \in {"put", "copy"} => ~ cfg.dryRun /\ pc \in Processing
  BY DEF CurrentInv, Processing
<1>8. /\ pc = "put" => held = Due(Source(cur)) /\ held # Nothing
      /\ pc = "copy" => Body = Due(Source(cur))
  BY <1>4, <1>7 DEF ContentInv, Clean
<1>9. /\ pc = "put" => ~ Streams(Source(cur))
  BY <1>7, <1>8 DEF HeldInv
<1>10. Due(Source(cur)) # Nothing => Due(Source(cur)).form # "torn"
  <2>1. Source(cur) \in job.tree
    BY ReportedAt, ObjectSource
  <2> QED BY <1>1, <2>1, DueForms
<1>11. CASE ReportsFailure
  BY <1>2, <1>11 DEF ReportsFailure
<1>12. CASE ReportsPreview
  BY <1>12 DEF ReportsPreview
<1>13. CASE ReportsNothing
  <2>1. files' = files /\ pc \in Processing
    BY <1>13 DEF ReportsNothing, Processing
  <2>2. Due(Source(cur)) = Nothing
    <3>1. CASE pc \in {"buffer", "stream"} /\ Verdict(Body) = "NothingKept"
      BY <1>4, <2>1, <3>1, DueFacts
    <3>2. CASE pc = "unrecognized" /\ cfg.unrecognized = "skip"
      <4>1. Source(cur).verdict = "Unrecognized"
        BY <3>2 DEF ContentInv, Clean
      <4> QED BY <3>2, <4>1, DueFacts
    <3> QED BY <1>13, <3>1, <3>2 DEF ReportsNothing
  <2> QED BY <2>1, <2>2
<1>14. CASE ReportsArrival
  <2>1. pc \in Processing /\ ~ cfg.dryRun
    BY <1>7, <1>14 DEF ReportsArrival, Processing
  <2>2. files' = Stored(Due(Source(cur)))
    BY <1>6, <1>8, <1>14, <2>1 DEF ReportsArrival
  <2>3. Due(Source(cur)) # Nothing
    <3>1. pc = "copy" => Due(Source(cur)) # Nothing
      BY <1>4, <1>7, <1>8, NothingIsNoContent
    <3>2. pc = "stream" => Due(Source(cur)) # Nothing
      BY <1>4, <1>5, <1>6, <1>14, <2>1, NothingIsNoContent DEF ReportsArrival
    <3> QED BY <1>8, <1>14, <3>1, <3>2 DEF ReportsArrival
  <2> QED BY <1>10, <2>1, <2>2, <2>3
<1>15. CASE ReportsFailedWrite
  <2>1. report'[cur] = "Failed" /\ pc \in Processing /\ ~ cfg.dryRun
    BY <1>2, <1>7, <1>15 DEF ReportsFailedWrite, Processing
  <2>2. CASE pc = "put"
    <3>1. files' = files \/ \E c : files' = Stored(c)
      BY <1>15, <2>2 DEF ReportsFailedWrite, PutLeaves
    <3> QED BY <1>9, <2>1, <2>2, <3>1
  <2>3. CASE pc = "copy"
    <3>1. files' = files \/ files' = Stored(Body)
      BY <1>15, <2>3 DEF ReportsFailedWrite, PutStreamLeaves, PutLeaves
    <3>2. Body # Nothing /\ Body = Due(Source(cur))
      BY <1>4, <1>8, <2>1, <2>3, NothingIsNoContent
    <3> QED BY <1>10, <2>1, <3>1, <3>2
  <2>4. CASE pc = "stream"
    <3>1. files' = files \/ files' = Stored(Filtered(Body))
      BY <1>15, <2>4 DEF ReportsFailedWrite, PutStreamLeaves, PutLeaves
    <3>2. Filtered(Body) = Due(Source(cur)) /\ Filtered(Body) # Nothing
      BY <1>4, <1>5, <1>6, <1>15, <2>1, <2>4, NothingIsNoContent DEF ReportsFailedWrite
    <3> QED BY <1>10, <2>1, <3>1, <3>2
  <2> QED BY <1>15, <2>2, <2>3, <2>4 DEF ReportsFailedWrite
<1> QED BY <1>11, <1>12, <1>13, <1>14, <1>15 DEF Reported

LEMMA DamageReportedStep ==
    ASSUME BaseInv, CurrentInv, HeldInv, ContentInv, DamageInv, Reported
    PROVE  DamageInv'
<1>1. UNCHANGED <<job, objects>>
  BY ReportedAny
<1>2. /\ SourcePlaces' = SourcePlaces /\ Disjoint' = Disjoint
      /\ \A i : Source(i)' = Source(i)
      /\ \A s : /\ MirrorOf(s)' = MirrorOf(s) /\ Due(s)' = Due(s)
                /\ Streams(s)' = Streams(s)
      /\ \A o : Unsafe(o)' = Unsafe(o)
  BY <1>1, Frame
<1>3. /\ cur \in DOMAIN objects /\ DOMAIN report = DOMAIN objects
      /\ \A i \in DOMAIN objects : i # cur => report'[i] = report[i]
      /\ \A i \in DOMAIN objects : i < cur' <=> i < cur \/ i = cur
      /\ cur \in Nat
  BY ReportedAt
<1>4. SUFFICES ASSUME Disjoint, NEW p \in DOMAIN files' \ SourcePlaces
      PROVE  /\ files'[p].form = "torn" =>
                  \E i \in DOMAIN objects :
                      /\ i < cur' /\ p = MirrorOf(Source(i))
                      /\ report'[i] = "Failed" /\ ~ Streams(Source(i))
             /\ \E i \in DOMAIN objects :
                  /\ i < cur' /\ p = MirrorOf(Source(i)) /\ ~ Unsafe(objects[i])
                  /\ report'[i] = "Failed" \/ Due(Source(i)) # Nothing
  <2>1. \A i : /\ MirrorOf(Source(i))' = MirrorOf(Source(i))
               /\ Due(Source(i))' = Due(Source(i))
               /\ Streams(Source(i))' = Streams(Source(i))
    BY <1>2
  <2>2. Nothing' = Nothing
    BY DEF Nothing
  <2> QED BY <1>1, <1>2, <2>1, <2>2 DEF DamageInv
<1>5. \A i \in DOMAIN objects : i < cur => report'[i] = report[i] /\ i < cur'
  BY <1>3
<1>6. CASE p \in DOMAIN files /\ files'[p] = files[p]
  <2>1. \E i \in DOMAIN objects :
                  /\ i < cur' /\ p = MirrorOf(Source(i)) /\ ~ Unsafe(objects[i])
                  /\ report'[i] = "Failed" \/ Due(Source(i)) # Nothing
    BY <1>4, <1>5, <1>6 DEF DamageInv
  <2>2. files'[p].form = "torn" =>
                  \E i \in DOMAIN objects :
                      /\ i < cur' /\ p = MirrorOf(Source(i))
                      /\ report'[i] = "Failed" /\ ~ Streams(Source(i))
    BY <1>4, <1>5, <1>6 DEF DamageInv
  <2> QED BY <2>1, <2>2
<1>7. CASE ~ (p \in DOMAIN files /\ files'[p] = files[p])
  <2>1. files' # files
    BY <1>4, <1>7
  <2>2. PICK c : files' = Stored(c)
    BY <1>4, <2>1, WriteEffect
  <2>3. p = DstPlace /\ files'[p] = c /\ pc \in Processing
    BY <1>4, <1>7, <2>1, <2>2, WriteEffect DEF Stored
  <2>4. p = MirrorOf(Source(cur)) /\ ~ Unsafe(objects[cur]) /\ cur < cur'
    BY <1>3, <2>3 DEF CurrentInv
  <2>5. CASE /\ files' = Stored(Due(Source(cur))) /\ Due(Source(cur)) # Nothing
             /\ Due(Source(cur)).form # "torn"
    <3>1. files'[p] = Due(Source(cur))
      BY <2>3, <2>5 DEF Stored
    <3> QED BY <1>3, <2>4, <2>5, <3>1
  <2>6. CASE report'[cur] = "Failed" /\ ~ Streams(Source(cur))
    BY <1>3, <2>4, <2>6
  <2> QED BY <1>4, <2>1, <2>5, <2>6, WriteEffect
<1> QED BY <1>6, <1>7

LEMMA DamageKept ==
    ASSUME BaseInv, DamageInv,
           Onward \/ Refuse \/ Enumerate \/ Summarise \/ UNCHANGED vars
    PROVE  DamageInv'
<1>1. job' = job /\ files' = files
  BY Outside DEF Onward, OnwardPick, OnwardEval, OnwardCopy, vars
<1>2. SourcePlaces' = SourcePlaces /\ Disjoint' = Disjoint
  BY <1>1, JobFrame
<1>3. CASE pc = "start"
  <2>1. DOMAIN files = SourcePlaces
    BY <1>3 DEF BaseInv, StartInv
  <2> QED BY <1>1, <1>2, <2>1 DEF DamageInv
<1>4. CASE pc # "start"
  <2>1. UNCHANGED <<objects, cur, report>>
    BY <1>4, Outside DEF Onward, OnwardPick, OnwardEval, OnwardCopy, vars
  <2>2. /\ \A i : Source(i)' = Source(i)
        /\ \A s : /\ MirrorOf(s)' = MirrorOf(s) /\ Due(s)' = Due(s)
                  /\ Streams(s)' = Streams(s)
        /\ \A o : Unsafe(o)' = Unsafe(o)
    BY <1>1, <2>1, Frame
  <2>3. \A i : /\ MirrorOf(Source(i))' = MirrorOf(Source(i))
               /\ Due(Source(i))' = Due(Source(i))
               /\ Streams(Source(i))' = Streams(Source(i))
    BY <2>2
  <2>4. Nothing' = Nothing
    BY DEF Nothing
  <2> QED BY <1>1, <1>2, <2>1, <2>2, <2>3, <2>4 DEF DamageInv
<1> QED BY <1>3, <1>4

LEMMA DamageInit ==
    ASSUME Init
    PROVE  DamageInv
<1>1. DOMAIN files = SourcePlaces
  BY DEF Init, SourcePlaces
<1> QED BY <1>1 DEF DamageInv

LEMMA DamageInductive ==
    ASSUME BaseInv, CurrentInv, HeldInv, ContentInv, DamageInv, [Next]_vars
    PROVE  DamageInv'
BY NextCases, ObjectEffect, DamageReportedStep, DamageKept

DamageSafe == SummaryInv /\ DamageInv /\ Disjoint

LEMMA DamageSafeInductive ==
    /\ Init /\ Disjoint => DamageSafe
    /\ DamageSafe /\ [Next]_vars => DamageSafe'
<1>1. ASSUME Init, Disjoint PROVE DamageSafe
  BY <1>1, SummaryInductive, DamageInit DEF DamageSafe
<1>2. ASSUME DamageSafe, [Next]_vars PROVE DamageSafe'
  <2>1. SummaryInv'
    BY <1>2, SummaryInductive DEF DamageSafe
  <2>2. DamageInv'
    BY <1>2, DamageInductive DEF DamageSafe, SummaryInv
  <2>3. Disjoint'
    BY <1>2, JobStays, JobFrame DEF DamageSafe
  <2> QED BY <2>1, <2>2, <2>3 DEF DamageSafe
<1> QED BY <1>1, <1>2

LEMMA DamageFollows ==
    ASSUME DamageSafe
    PROVE  DamageReported
<1> SUFFICES ASSUME NEW p \in DOMAIN files, files[p].form = "torn"
             PROVE  /\ cfg.mode # "stream"
                    /\ \E i \in DOMAIN report : /\ report[i] = "Failed"
                                                /\ MirrorOf(Source(i)) = p
  BY DEF DamageReported, Source
<1>1. p \notin SourcePlaces
  <2>1. SourcesIntact
    BY DEF DamageSafe, SummaryInv, ContentInv, Clean
  <2>2. ASSUME NEW s \in job.tree, p = Place(job.src, s.key)
        PROVE  FALSE
    <3>1. files[p] = [of |-> Place(job.src, s.key), form |-> "source"]
      BY <2>1, <2>2, Zenon DEF SourcesIntact
    <3>2. files[p].form = "source"
      BY <3>1
    <3> QED BY <3>2
  <2> QED BY <2>2, Zenon DEF SourcePlaces
<1>2. PICK i \in DOMAIN objects : /\ p = MirrorOf(Source(i))
                                  /\ report[i] = "Failed" /\ ~ Streams(Source(i))
  BY <1>1 DEF DamageSafe, DamageInv
<1>3. DOMAIN report = DOMAIN objects
  BY DEF DamageSafe, SummaryInv, BaseInv, ListedInv
<1>4. cfg.mode # "stream"
  BY <1>2 DEF Streams
<1> QED BY <1>2, <1>3, <1>4

(* A truncated object is only ever left by an object that was not          *)
(* streamed, and that object was reported as failed (LocalStore::put       *)
(* truncates in place, put_stream renames).                                *)
THEOREM DamageIsReported == Spec /\ Disjoint => []DamageReported
<1>1. Init /\ Disjoint => DamageSafe
  BY DamageSafeInductive
<1>2. DamageSafe /\ [Next]_vars => DamageSafe'
  BY DamageSafeInductive
<1>3. DamageSafe => DamageReported
  BY DamageFollows
<1> QED BY <1>1, <1>2, <1>3, PTL DEF Spec

-----------------------------------------------------------------------------
(***************************************************************************)
(* Exit code 0.                                                            *)
(***************************************************************************)

(* An object that is not processed fails, in a run that is no preview.     *)
LEMMA UnpickedFails ==
    ASSUME BaseInv, CurrentInv, Reported, ~ cfg.dryRun, pc \notin Processing
    PROVE  report'[cur] = "Failed"
<1>1. Report("Failed")
  BY DEF Reported, ReportsFailure, ReportsFailedWrite, ReportsPreview,
         ReportsNothing, ReportsArrival, Processing
<1>2. cur \in DOMAIN report
  BY ReportedAt
<1> QED BY <1>1, <1>2 DEF Report

LEMMA DeliveredReported ==
    ASSUME BaseInv, CurrentInv, HeldInv, ContentInv, DeliveredInv, Reported
    PROVE  DeliveredInv'
<1>1. UNCHANGED <<job, objects>>
  BY ReportedAny
<1>2. /\ SourcePlaces' = SourcePlaces /\ Disjoint' = Disjoint /\ cfg' = cfg
      /\ MirrorsApart' = MirrorsApart
      /\ \A i : Source(i)' = Source(i)
      /\ \A s : MirrorOf(s)' = MirrorOf(s) /\ Due(s)' = Due(s)
      /\ \A o : Unsafe(o)' = Unsafe(o)
  BY <1>1, Frame
<1>3. /\ cur \in DOMAIN objects /\ Listed /\ job \in Jobs
      /\ \A i \in DOMAIN objects : i # cur => report'[i] = report[i]
      /\ \A i \in DOMAIN objects : i < cur' <=> i < cur \/ i = cur
      /\ cur \in Nat /\ DOMAIN objects \subseteq Nat
  BY ReportedAt
<1>4. SUFFICES ASSUME Disjoint, MirrorsApart, ~ cfg.dryRun, NEW i \in DOMAIN objects,
                      i < cur', report'[i] # "Failed"
      PROVE  /\ ~ Unsafe(objects[i])
             /\ MirrorOf(Source(i)) \notin SourcePlaces
             /\ Due(Source(i)) # Nothing =>
                   /\ MirrorOf(Source(i)) \in DOMAIN files'
                   /\ files'[MirrorOf(Source(i))] = Due(Source(i))
  <2>1. \A i : /\ MirrorOf(Source(i))' = MirrorOf(Source(i))
               /\ Due(Source(i))' = Due(Source(i))
    BY <1>2
  <2>2. Nothing' = Nothing
    BY DEF Nothing
  <2> QED BY <1>1, <1>2, <2>1, <2>2 DEF DeliveredInv
<1>5. CASE i = cur
  <2>1. pc \in Processing
    BY <1>4, <1>5, WriteEffect, UnpickedFails
  <2>2. ~ Unsafe(objects[cur]) /\ DstPlace = MirrorOf(Source(cur))
    BY <2>1 DEF CurrentInv
  <2>3. DstPlace \notin SourcePlaces
    BY <1>4, <2>1, MirrorIsNoSource
  <2>4. Due(Source(cur)) = Nothing \/ files' = Stored(Due(Source(cur)))
    BY <1>4, <1>5, WriteEffect
  <2> QED BY <1>5, <2>2, <2>3, <2>4 DEF Stored
<1>6. CASE i # cur
  <2>1. i < cur /\ report[i] # "Failed"
    BY <1>3, <1>4, <1>6
  <2>2. /\ ~ Unsafe(objects[i])
        /\ MirrorOf(Source(i)) \notin SourcePlaces
        /\ Due(Source(i)) # Nothing =>
              /\ MirrorOf(Source(i)) \in DOMAIN files
              /\ files[MirrorOf(Source(i))] = Due(Source(i))
    BY <1>4, <2>1 DEF DeliveredInv
  <2>3. CASE files' = files
    BY <2>2, <2>3
  <2>4. CASE files' # files
    <3>1. PICK c : files' = Stored(c) /\ pc \in Processing
      BY <1>4, <2>4, WriteEffect
    <3>2. ~ Unsafe(objects[cur]) /\ DstPlace = MirrorOf(Source(cur))
      BY <3>1 DEF CurrentInv
    <3>3. /\ Source(i) \in InScope /\ objects[i] = AsObject(Source(i))
          /\ Source(cur) \in InScope /\ objects[cur] = AsObject(Source(cur))
      BY <1>3, <1>4, ObjectSource
    <3>4. Source(i) # Source(cur)
      BY <1>3, <1>4, <1>6, SourcesDistinct
    <3>5. MirrorOf(Source(i)) # DstPlace
      BY <1>4, <2>2, <3>2, <3>3, <3>4 DEF MirrorsApart
    <3> QED BY <2>2, <3>1, <3>5 DEF Stored
  <2> QED BY <2>3, <2>4
<1> QED BY <1>5, <1>6

LEMMA DeliveredKept ==
    ASSUME BaseInv, DeliveredInv,
           Onward \/ Refuse \/ Enumerate \/ Summarise \/ UNCHANGED vars
    PROVE  DeliveredInv'
<1>1. job' = job /\ files' = files
  BY Outside DEF Onward, OnwardPick, OnwardEval, OnwardCopy, vars
<1>2. CASE Enumerate
  <2>1. Listings({AsObject(s) : s \in InScope}) # {} /\ cur' = 1
        /\ objects' \in Listings({AsObject(s) : s \in InScope})
    BY <1>2 DEF Enumerate
  <2>2. DOMAIN objects' = 1..Len(objects') /\ Len(objects') \in Nat
    BY <2>1, ScopeFinite, ListingOnce DEF BaseInv, TypeInv
  <2>3. \A i \in DOMAIN objects' : ~ (i < cur')
    BY <2>1, <2>2
  <2> QED BY <2>3 DEF DeliveredInv
<1>3. CASE ~ Enumerate
  <2>1. UNCHANGED <<objects, cur, report>>
    BY <1>3 DEF Onward, OnwardPick, OnwardEval, OnwardCopy, Refuse, Summarise, vars
  <2>2. /\ SourcePlaces' = SourcePlaces /\ Disjoint' = Disjoint /\ cfg' = cfg
        /\ MirrorsApart' = MirrorsApart
        /\ \A i : Source(i)' = Source(i)
        /\ \A s : MirrorOf(s)' = MirrorOf(s) /\ Due(s)' = Due(s)
        /\ \A o : Unsafe(o)' = Unsafe(o)
    BY <1>1, <2>1, Frame
  <2>3. \A i : /\ MirrorOf(Source(i))' = MirrorOf(Source(i))
               /\ Due(Source(i))' = Due(Source(i))
    BY <2>2
  <2>4. Nothing' = Nothing
    BY DEF Nothing
  <2> QED BY <1>1, <2>1, <2>2, <2>3, <2>4 DEF DeliveredInv
<1> QED BY <1>2, <1>3

LEMMA DeliveredInit ==
    ASSUME Init
    PROVE  DeliveredInv
<1>1. DOMAIN objects = {}
  BY DEF Init
<1> QED BY <1>1 DEF DeliveredInv

ExitSafe == DamageSafe /\ DeliveredInv /\ MirrorsApart

LEMMA ExitSafeInductive ==
    /\ Init /\ Disjoint /\ MirrorsApart => ExitSafe
    /\ ExitSafe /\ [Next]_vars => ExitSafe'
<1>1. ASSUME Init, Disjoint, MirrorsApart PROVE ExitSafe
  BY <1>1, DamageSafeInductive, DeliveredInit DEF ExitSafe
<1>2. ASSUME ExitSafe, [Next]_vars PROVE ExitSafe'
  <2>1. DamageSafe'
    BY <1>2, DamageSafeInductive DEF ExitSafe
  <2>2. DeliveredInv'
    <3>1. BaseInv /\ CurrentInv /\ HeldInv /\ ContentInv /\ DeliveredInv
      BY <1>2 DEF ExitSafe, DamageSafe, SummaryInv
    <3> QED BY <1>2, <3>1, NextCases, ObjectEffect, DeliveredReported, DeliveredKept
  <2>3. MirrorsApart'
    BY <1>2, JobStays, JobFrame DEF ExitSafe
  <2> QED BY <2>1, <2>2, <2>3 DEF ExitSafe
<1> QED BY <1>1, <1>2

LEMMA BackfillFollows ==
    ASSUME ExitSafe
    PROVE  BackfillComplete
<1> SUFFICES ASSUME exit = "ok", ~ cfg.dryRun, NEW s \in InScope
             PROVE  IF Due(s) # Nothing
                    THEN MirrorOf(s) \in DOMAIN files /\ files[MirrorOf(s)] = Due(s)
                    ELSE MirrorOf(s) \notin DOMAIN files
  BY DEF BackfillComplete
<1>1. /\ job \in Jobs /\ Listed /\ Disjoint /\ MirrorsApart
      /\ \A i \in DOMAIN objects : i < cur /\ report[i] # "Failed"
  BY DEF ExitSafe, DamageSafe, SummaryInv, BaseInv, TypeInv, ExitInv
<1>2. PICK i \in DOMAIN objects : Source(i) = s
  BY <1>1, SourcesCover
<1>3. /\ ~ Unsafe(objects[i]) /\ MirrorOf(s) \notin SourcePlaces
      /\ Due(s) # Nothing => MirrorOf(s) \in DOMAIN files /\ files[MirrorOf(s)] = Due(s)
  BY <1>1, <1>2 DEF ExitSafe, DeliveredInv
<1>4. ASSUME Due(s) = Nothing, MirrorOf(s) \in DOMAIN files
      PROVE  FALSE
  <2>1. PICK k \in DOMAIN objects :
           /\ MirrorOf(s) = MirrorOf(Source(k)) /\ ~ Unsafe(objects[k])
           /\ report[k] = "Failed" \/ Due(Source(k)) # Nothing
    BY <1>1, <1>3, <1>4 DEF ExitSafe, DamageSafe, DamageInv
  <2>2. /\ Source(k) \in InScope /\ objects[k] = AsObject(Source(k))
        /\ objects[i] = AsObject(s)
    BY <1>1, <1>2, <2>1, ObjectSource
  <2>3. Source(k) = s
    BY <1>1, <1>3, <2>1, <2>2 DEF MirrorsApart
  <2> QED BY <1>1, <1>4, <2>1, <2>3
<1> QED BY <1>3, <1>4

(* Exit code 0 means that every object in scope is at its mirror, as the   *)
(* settings say, and nothing else is; another code names a failed object;  *)
(* no object is left out (cmd_filter).  Two mirrors that coincide are the  *)
(* case filter_collapsing_keys shows to be lost.                           *)
THEOREM ExitIsHonest == Spec /\ Disjoint /\ MirrorsApart => []ExitHonest
<1>1. Init /\ Disjoint /\ MirrorsApart => ExitSafe
  BY ExitSafeInductive
<1>2. ExitSafe /\ [Next]_vars => ExitSafe'
  BY ExitSafeInductive
<1>3. ExitSafe => ExitHonest
  BY BackfillFollows DEF ExitHonest, ExitSafe, DamageSafe, SummaryInv, BaseInv, ExitInv
<1> QED BY <1>1, <1>2, <1>3, PTL DEF Spec
=============================================================================
