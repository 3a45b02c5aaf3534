--------------------------- MODULE FilterCommand ----------------------------
(***************************************************************************)
(* `cloudtrail-rs filter <source> <dest>` (cli/src/main.rs): every object  *)
(* in scope under the source is filtered into the destination, one after   *)
(* the other, and the exit code says whether all of them were.             *)
(*                                                                         *)
(* A key is the sequence of its components between slashes, "" included:   *)
(* `a//b` is <<"a", "", "b">> and `logs/` is <<"logs", "">>.  A place is a *)
(* bucket and a key; the bucket of a local file is "", as in the code, and *)
(* its key is its canonical path.  A content is [of, form]: the source     *)
(* object it derives from, and whether it is that object's own bytes, the  *)
(* filtered output, or a torn prefix of either.  stream_run and each       *)
(* store's put are one step with the outcomes StreamRun and PutStream show *)
(* them to have.  Any read or write may fail.                              *)
(***************************************************************************)
EXTENDS Naturals, Sequences, FiniteSets, SequencesExt, TLC

CONSTANT Jobs   \* the command lines considered, each with its source tree

(* Location: a local path or s3://bucket/prefix.                           *)
IsS3(loc) == loc.bucket # ""
Place(loc, key) == <<loc.bucket, key>>

Settings == [mode : {"buffer", "stream", "auto"}, tooLarge : {"stream", "error"},
             parse : {"copy", "error"}, unrecognized : {"copy", "skip", "error"},
             dryRun : BOOLEAN]

Locations == [bucket : STRING, path : Seq(STRING)]

(* What the tree says of an object: its key, what the engine makes of it,  *)
(* whether it is over processing.max_object_bytes, whether its size on     *)
(* disk makes `auto` stream it, and whether the key filter lets it pass.   *)
SourceObjects ==
    [key : Seq(STRING), verdict : {"Written", "NothingKept", "Unparsable", "Unrecognized"},
     over : BOOLEAN, large : BOOLEAN, allowed : BOOLEAN]

(* A tree is finite and holds one object at a key; a path has a component, *)
(* if only the empty one.                                                  *)
ASSUME JobsAssumption ==
    \A j \in Jobs :
        /\ j \in [src : Locations, dst : Locations, single : BOOLEAN,
                  tree : SUBSET SourceObjects, cfg : Settings]
        /\ j.src.path # <<>> /\ j.dst.path # <<>>
        /\ IsFiniteSet(j.tree)
        /\ \A s, t \in j.tree : s.key = t.key => s = t

Reports == {"none", "Written", "NothingKept", "CopiedUnparsed",
            "CopiedUnrecognized", "Skipped", "DryRun", "Failed"}

VARIABLES
    job,      \* [src, dst, single, tree, cfg]
    pc,       \* where the run is
    files,    \* what is stored: places to contents
    partials, \* places whose temporary sibling was left behind
    objects,  \* the enumerated objects: [key, rel, large]
    cur,      \* the object being processed
    dstKey,   \* its destination key
    held,     \* its bytes, when buffer mode holds them
    report,   \* what became of each object
    m,        \* Metrics: objects tallied, unrecognized and copied unparsed
    faulty,   \* some read or write has failed
    exit      \* the exit code, once the run is over

vars == <<job, pc, files, partials, objects, cur, dstKey, held, report, m,
          faulty, exit>>

cfg == job.cfg
Nothing == [of |-> <<>>, form |-> "nothing"]

(* What the tree says of the object stored first at a place.               *)
SourceAt(place) == CHOOSE s \in job.tree : Place(job.src, s.key) = place

(* The verdict of buffer_run and stream_run on a content.  A filtered      *)
(* output holds only records that survive; a torn one does not parse.      *)
Verdict(c) == CASE c.form = "source" -> SourceAt(c.of).verdict
                [] c.form = "filtered" -> "Written"
                [] c.form = "torn" -> "Unparsable"

Filtered(c) == [of |-> c.of, form |-> "filtered"]

(* Over processing.max_object_bytes, as fetched or decompressed.           *)
TooLarge(c) == c.form = "source" /\ SourceAt(c.of).over

Init ==
    /\ job \in Jobs
    /\ pc = "start"
    /\ files = [p \in {Place(job.src, s.key) : s \in job.tree} |->
                   [of |-> p, form |-> "source"]]
    /\ partials = {}
    /\ objects = <<>> /\ report = <<>>
    /\ cur = 0 /\ dstKey = <<>> /\ held = Nothing
    /\ m = [tallied |-> {}, unrecognized |-> 0, unparsed |-> 0]
    /\ faulty = FALSE
    /\ exit = "none"

-----------------------------------------------------------------------------
(***************************************************************************)
(* Keys.                                                                   *)
(***************************************************************************)

(* dir_prefix: a prefix up to and including its last slash.  Stripped from *)
(* a key that starts with it, it leaves the relative key.                  *)
DirPrefix(prefix) == Front(prefix)
Relative(prefix, key) == SubSeq(key, Len(DirPrefix(prefix)) + 1, Len(key))

(* list_keys: the keys that start with the prefix, every page of them.     *)
(* No component here but "" is the beginning of another.                   *)
HasPrefix(prefix, key) ==
    /\ Len(key) >= Len(prefix)
    /\ IsPrefix(DirPrefix(prefix), key)
    /\ Last(prefix) \in {"", key[Len(prefix)]}

(* trim_end_matches('/'): what is left of a prefix is not followed by      *)
(* empty components alone.                                                 *)
TrimEnd(prefix) ==
    LET kept == {n \in 1..Len(prefix) :
                    n = 1 \/ \E k \in n..Len(prefix) : prefix[k] # ""} IN
    SubSeq(prefix, 1, Cardinality(kept))

(* Mutant: joins without trimming the slash the prefix ends with.          *)
JoinUntrimmed(prefix, rel) == IF prefix = <<"">> THEN rel ELSE prefix \o rel

JoinKey(prefix, rel) == IF prefix = <<"">> THEN rel ELSE TrimEnd(prefix) \o rel

(* Path::components: a leading slash is a root, a leading dot a CurDir, a  *)
(* later dot or an empty component is nothing at all.                      *)
(* Mutant: looks for `..` only.                                            *)
ContainsParentOnly(rel) == \A i \in DOMAIN rel : rel[i] # ".."

ContainRel(rel) ==
    /\ \A i \in DOMAIN rel : rel[i] # ".."
    /\ rel[1] # "."
    /\ rel[1] = "" => Len(rel) = 1

Normal(component) == component \notin {"", "."}

(* The normal components, in their order: the nth of them has n - 1 of     *)
(* them before it.                                                         *)
SafeRel(rel) ==
    LET kept == {i \in DOMAIN rel : Normal(rel[i])} IN
    [n \in 1..Cardinality(kept) |->
        rel[CHOOSE i \in kept : Cardinality({k \in kept : k < i}) = n - 1]]

(* Path::join: an absolute path replaces the root it is joined to.         *)
PathJoin(root, rel) ==
    IF Len(rel) > 1 /\ rel[1] = "" THEN SafeRel(rel) ELSE root \o SafeRel(rel)

BatchDestKey(rel) == IF IsS3(job.dst) THEN JoinKey(job.dst.path, rel)
                                      ELSE PathJoin(job.dst.path, rel)

(* The order of keys as strings: what a component is followed by is a      *)
(* slash, so the empty one sorts before every name.                        *)
Rank == (".." :> 1) @@ ("." :> 2) @@ ("" :> 3) @@ ("a" :> 4) @@ ("b" :> 5)
        @@ ("logs" :> 6) @@ ("out" :> 7)
KeyLess(s, t) ==
    \E n \in 1..Len(t) :
        /\ \A i \in 1..(n - 1) : i <= Len(s) /\ s[i] = t[i]
        /\ n > Len(s) \/ Rank[s[n]] < Rank[t[n]]

-----------------------------------------------------------------------------
(***************************************************************************)
(* The run before its first object, and after its last.                    *)
(***************************************************************************)
Exit(code) == pc' = "done" /\ exit' = code

(* load_engine, FilterConfig::resolve, Location::parse and the source path *)
(* are checked before anything is listed; listing may fail.                *)
Refuse ==
    /\ pc = "start"
    /\ Exit("error")
    /\ faulty' = TRUE
    /\ UNCHANGED <<job, files, partials, objects, cur, dstKey, held, report, m>>

(* collect_local and list_keys, through the key filter.  A named file is   *)
(* processed whatever the filter says.  An S3 listing carries no size.     *)
InScope ==
    {s \in job.tree :
        \/ job.single
        \/ /\ s.allowed
           /\ IsS3(job.src) => HasPrefix(job.src.path, s.key)}

AsObject(s) ==
    [key |-> s.key,
     rel |-> IF job.single THEN <<"">>
             ELSE IF IsS3(job.src) THEN Relative(job.src.path, s.key)
             ELSE SubSeq(s.key, Len(job.src.path) + 1, Len(s.key)),
     large |-> s.large /\ ~ IsS3(job.src)]

(* single_dest_key: a single file needs a key in the bucket.               *)
NoDestKey == job.single /\ IsS3(job.dst) /\ job.dst.path = <<"">>

(* A set of objects in the order of their relative keys (sort_by).         *)
Listings(found) ==
    {f \in [1..Cardinality(found) -> found] :
        /\ \A o \in found : \E i \in DOMAIN f : f[i] = o
        /\ \A i, k \in DOMAIN f : i < k => ~ KeyLess(f[k].rel, f[i].rel)}

Enumerate ==
    /\ pc = "start"
    /\ objects' \in Listings({AsObject(s) : s \in InScope})
    /\ report' = [i \in DOMAIN objects' |-> "none"]
    /\ IF objects' = <<>> THEN Exit("ok")
       ELSE IF NoDestKey THEN Exit("error")
       ELSE pc' = "pick" /\ UNCHANGED exit
    /\ cur' = 1
    /\ UNCHANGED <<job, files, partials, dstKey, held, m, faulty>>

(* After the last object the failures make the exit code.                  *)
Summarise ==
    /\ pc = "pick"
    /\ cur > Len(objects)
    /\ Exit(IF \E i \in DOMAIN report : report[i] = "Failed" THEN "error" ELSE "ok")
    /\ UNCHANGED <<job, files, partials, objects, cur, dstKey, held, report, m, faulty>>

-----------------------------------------------------------------------------
(***************************************************************************)
(* One object: Filterer::process.                                          *)
(***************************************************************************)

(* The loop of cmd_filter takes an object's outcome and goes on to the     *)
(* next, whatever it was.                                                  *)
Report(what) ==
    /\ report' = [report EXCEPT ![cur] = what]
    /\ cur' = cur + 1
    /\ pc' = "pick" /\ held' = Nothing

Goto(where) == pc' = where /\ UNCHANGED <<report, cur>>

SrcPlace == Place(job.src, objects[cur].key)
DstPlace == Place(job.dst, dstKey)

OverwritesSource(src, dst) == src = dst

SelectMode(o) ==
    CASE cfg.mode = "buffer" -> "buffer"
      [] cfg.mode = "stream" -> "stream"
      [] cfg.mode = "auto" -> IF o.large THEN "stream" ELSE "buffer"

Unsafe(o) == ~ job.single /\ ~ IsS3(job.dst) /\ ~ ContainRel(o.rel)

Pick ==
    /\ pc = "pick"
    /\ cur <= Len(objects)
    /\ LET o == objects[cur]
           key == IF job.single THEN job.dst.path ELSE BatchDestKey(o.rel) IN
       IF Unsafe(o) THEN Report("Failed") /\ UNCHANGED dstKey
       ELSE /\ dstKey' = key
            /\ IF /\ ~ cfg.dryRun
                  /\ OverwritesSource(SrcPlace, Place(job.dst, key))
               THEN Report("Failed")
               ELSE Goto(SelectMode(o)) /\ UNCHANGED held
    /\ UNCHANGED <<job, files, partials, objects, m, faulty, exit>>

CopiesUnparsable == cfg.parse = "copy"

(* An object too large to buffer is retried as a stream.                   *)
RetryMode(o) == "stream"

Tallied(mm) == [mm EXCEPT !.tallied = @ \cup {cur}]

OneUnrecognized(mm) == [mm EXCEPT !.unrecognized = @ + 1]

(* fetch_capped and buffer_run: the Buffer arm of process.                 *)
BufferEval ==
    /\ pc = "buffer"
    /\ LET c == files[SrcPlace] IN
       CASE TooLarge(c) ->
              /\ IF cfg.tooLarge = "stream"
                 THEN Goto(RetryMode(objects[cur])) /\ UNCHANGED held
                 ELSE Report("Failed")
              /\ UNCHANGED m
         [] ~ TooLarge(c) /\ Verdict(c) = "Unparsable" ->
              /\ IF CopiesUnparsable THEN Goto("unparsed") /\ held' = c
                                     ELSE Report("Failed")
              /\ UNCHANGED m
         [] ~ TooLarge(c) /\ Verdict(c) # "Unparsable" /\ cfg.dryRun ->
              /\ m' = Tallied(IF Verdict(c) = "Unrecognized"
                              THEN OneUnrecognized(m) ELSE m)
              /\ Report("DryRun")
         [] ~ TooLarge(c) /\ Verdict(c) = "Written" /\ ~ cfg.dryRun ->
              /\ Goto("put") /\ held' = Filtered(c)
              /\ UNCHANGED m
         [] ~ TooLarge(c) /\ Verdict(c) = "NothingKept" /\ ~ cfg.dryRun ->
              /\ m' = Tallied(m)
              /\ Report("NothingKept")
         [] ~ TooLarge(c) /\ Verdict(c) = "Unrecognized" /\ ~ cfg.dryRun ->
              /\ Goto("unrecognized") /\ held' = c
              /\ UNCHANGED m
    /\ UNCHANGED <<job, files, partials, objects, dstKey, faulty, exit>>

(* Any read of the source may fail; the object fails with it.              *)
ReadFails ==
    /\ pc \in {"buffer", "stream", "copy"}
    /\ faulty' = TRUE
    /\ Report("Failed")
    /\ UNCHANGED <<job, files, partials, objects, dstKey, m, exit>>

(* copy_unparsable counts first, and a preview stops there.                *)
CopyUnparsable ==
    /\ pc = "unparsed"
    /\ m' = [m EXCEPT !.unparsed = @ + 1]
    /\ IF cfg.dryRun THEN Report("DryRun")
       ELSE /\ Goto(IF held = Nothing THEN "copy" ELSE "put")
            /\ UNCHANGED held
    /\ UNCHANGED <<job, files, partials, objects, dstKey, faulty, exit>>

(* unrecognized: behavior.on_unrecognized_object.                          *)
Unrecognized ==
    /\ pc = "unrecognized"
    /\ CASE cfg.unrecognized = "copy" ->
              /\ m' = OneUnrecognized(m)
              /\ Goto(IF held = Nothing THEN "copy" ELSE "put")
              /\ UNCHANGED held
         [] cfg.unrecognized = "skip" ->
              /\ m' = OneUnrecognized(IF held = Nothing THEN m ELSE Tallied(m))
              /\ Report("Skipped")
         [] cfg.unrecognized = "error" ->
              /\ UNCHANGED m
              /\ Report("Failed")
    /\ UNCHANGED <<job, files, partials, objects, dstKey, faulty, exit>>

-----------------------------------------------------------------------------
(***************************************************************************)
(* The stores.                                                             *)
(***************************************************************************)

(* create_parent and the write itself: no directory of the path is a file, *)
(* and the path is not a directory.                                        *)
LocalWritable(key) ==
    /\ job.single \/ key # job.dst.path
    /\ \A p \in DOMAIN files :
          p[1] = "" /\ p[2] # key => ~ IsPrefix(p[2], key) /\ ~ IsPrefix(key, p[2])

Writable == IsS3(job.dst) \/ LocalWritable(dstKey)

(* What is stored once c is at the destination of the current object.      *)
Stored(c) == [p \in DOMAIN files \cup {DstPlace} |-> IF p = DstPlace THEN c ELSE files[p]]

Torn(c) == [of |-> c.of, form |-> "torn"]

(* put: S3 stores all of a body or nothing, though a request that failed   *)
(* may have stored it; a local file is truncated and then written.         *)
PutLeaves(c) ==
    IF ~ Writable THEN {files}
    ELSE {files, Stored(IF IsS3(job.dst) THEN c ELSE Torn(c))}

(* put_stream: a local file is written beside its key and renamed.         *)
(* Mutant: it is written at its key.                                       *)
PutStreamInPlace(c) == PutLeaves(c)

PutStreamLeaves(c) ==
    IF IsS3(job.dst) THEN PutLeaves(c) ELSE {files}

(* The temporary sibling stays behind when its rename fails, and when its  *)
(* removal after an abandoned stream does.                                 *)
SiblingLeft ==
    IF IsS3(job.dst) THEN {partials} ELSE {partials, partials \cup {DstPlace}}

(* The report of a content that arrived at the destination.                *)
Arrived(c) == CASE c.form = "filtered" -> "Written"
                [] Verdict(c) = "Unrecognized" -> "CopiedUnrecognized"
                [] OTHER -> "CopiedUnparsed"

(* The tally of a parsed object is committed past its put.                 *)
(* Mutant: it is committed whether or not the put succeeds.                *)
CommitAnyway(ok) == IF Verdict(held) = "Unparsable" THEN m ELSE Tallied(m)

Commit(ok) == IF ok /\ Verdict(held) # "Unparsable" THEN Tallied(m) ELSE m

(* put, and past it the commit of the tally.                               *)
Put ==
    /\ pc = "put"
    /\ \/ /\ Writable
          /\ files' = Stored(held)
          /\ m' = Commit(TRUE)
          /\ Report(Arrived(held))
          /\ UNCHANGED faulty
       \/ /\ files' \in PutLeaves(held)
          /\ m' = Commit(FALSE)
          /\ faulty' = TRUE
          /\ Report("Failed")
    /\ UNCHANGED <<job, partials, objects, dstKey, exit>>

(* stream_copy: the source is read again.                                  *)
StreamCopy ==
    /\ pc = "copy"
    /\ LET c == files[SrcPlace] IN
       \/ /\ Writable
          /\ files' = Stored(c)
          /\ Report(Arrived(c))
          /\ UNCHANGED <<partials, faulty>>
       \/ /\ files' \in PutStreamLeaves(c)
          /\ partials' \in SiblingLeft
          /\ faulty' = TRUE
          /\ Report("Failed")
    /\ UNCHANGED <<job, objects, dstKey, m, exit>>

(* stream_run, into the destination or, in a preview, a DiscardStore whose *)
(* counters are folded back.  It commits its tally past its upload check.  *)
(* An upload it abandons leaves at most the temporary sibling.             *)
StreamRun ==
    /\ pc = "stream"
    /\ LET c == files[SrcPlace]
           store == IF cfg.dryRun THEN "discard" ELSE "destination" IN
       \/ /\ Verdict(c) = "Written"
          /\ store = "discard" \/ Writable
          /\ files' = IF store = "discard" THEN files ELSE Stored(Filtered(c))
          /\ m' = Tallied(m)
          /\ Report(IF store = "discard" THEN "DryRun" ELSE "Written")
          /\ UNCHANGED <<partials, faulty>>
       \/ /\ Verdict(c) = "Written"
          /\ store = "destination"
          /\ files' \in PutStreamLeaves(Filtered(c))
          /\ partials' \in SiblingLeft
          /\ faulty' = TRUE
          /\ Report("Failed")
          /\ UNCHANGED m
       \/ /\ Verdict(c) # "Written"
          /\ partials' \in IF store = "discard" THEN {partials} ELSE SiblingLeft
          /\ CASE Verdict(c) = "NothingKept" ->
                    /\ m' = Tallied(m)
                    /\ Report(IF cfg.dryRun THEN "DryRun" ELSE "NothingKept")
               [] Verdict(c) = "Unparsable" ->
                    /\ IF CopiesUnparsable THEN Goto("unparsed") /\ UNCHANGED held
                                           ELSE Report("Failed")
                    /\ UNCHANGED m
               [] Verdict(c) = "Unrecognized" ->
                    IF cfg.dryRun THEN m' = OneUnrecognized(m) /\ Report("DryRun")
                    ELSE Goto("unrecognized") /\ UNCHANGED <<held, m>>
          /\ UNCHANGED <<files, faulty>>
    /\ UNCHANGED <<job, objects, dstKey, exit>>

Work == \/ Enumerate \/ Summarise \/ Pick \/ BufferEval \/ CopyUnparsable
        \/ Unrecognized \/ Put \/ StreamCopy \/ StreamRun

Next == Work \/ Refuse \/ ReadFails

Spec == Init /\ [][Next]_vars

-----------------------------------------------------------------------------
(***************************************************************************)
(* What the policies of the settings say becomes of a source object: the   *)
(* content its destination receives, Nothing if it receives none.          *)
(***************************************************************************)
Streams(s) == \/ cfg.mode = "stream"
              \/ cfg.mode = "auto" /\ s.large /\ ~ IsS3(job.src)

MustFail(s) ==
    \/ s.over /\ ~ Streams(s) /\ cfg.tooLarge = "error"
    \/ s.verdict = "Unparsable" /\ cfg.parse = "error"
    \/ s.verdict = "Unrecognized" /\ cfg.unrecognized = "error"

Due(s) ==
    LET place == Place(job.src, s.key) IN
    CASE s.verdict = "Written" -> [of |-> place, form |-> "filtered"]
      [] s.verdict = "NothingKept" -> Nothing
      [] s.verdict = "Unparsable" -> [of |-> place, form |-> "source"]
      [] s.verdict = "Unrecognized" ->
           IF cfg.unrecognized = "copy" THEN [of |-> place, form |-> "source"]
                                        ELSE Nothing

(* Where the object belongs: under the destination, at the path it has     *)
(* under the source.                                                       *)
MirrorOf(s) ==
    LET rel == AsObject(s).rel IN
    Place(job.dst,
          IF job.single THEN job.dst.path
          ELSE IF ~ IsS3(job.dst) THEN job.dst.path \o SafeRel(rel)
          ELSE IF job.dst.path = <<"">> THEN rel
          ELSE TrimEnd(job.dst.path) \o rel)

(* Exit code 0 means the backfill is complete: every object in scope is at *)
(* the destination, at the relative path it has under the source, as the   *)
(* settings say of the bytes the source held when the run began, and an    *)
(* object with nothing to deliver left nothing there.                      *)
BackfillComplete ==
    exit = "ok" /\ ~ cfg.dryRun =>
        \A s \in InScope :
            LET p == MirrorOf(s) IN
            IF Due(s) # Nothing
            THEN p \in DOMAIN files /\ files[p] = Due(s)
            ELSE p \notin DOMAIN files

(* A failing object does not abandon the objects after it, and an error    *)
(* exit after the listing names at least one.                              *)
EveryObjectAttempted ==
    pc = "done" /\ objects # <<>> /\ ~ NoDestKey =>
        /\ \A i \in DOMAIN report : report[i] # "none"
        /\ exit = "error" <=> \E i \in DOMAIN report : report[i] = "Failed"

(* The exit code tells what happened to the objects: 0 means the backfill  *)
(* is complete, and another one that some object failed, with none of them *)
(* left out.                                                               *)
ExitHonest == BackfillComplete /\ EveryObjectAttempted

(* No source object is changed by the run, not even by `filter x x`: only  *)
(* there does an object's destination coincide with its own source.        *)
SourcesIntact ==
    \A s \in job.tree :
        files[Place(job.src, s.key)] = [of |-> Place(job.src, s.key), form |-> "source"]

(* Whatever the source keys contain, everything written lies at or under   *)
(* the destination.                                                        *)
WritesStayUnderDestination ==
    \A p \in DOMAIN files :
        \/ \E s \in job.tree : p = Place(job.src, s.key)
        \/ p[1] = job.dst.bucket /\ IsPrefix(TrimEnd(job.dst.path), p[2])
        \/ p[1] = job.dst.bucket /\ job.dst.path = <<"">>

(* The run writes under its destination, and nowhere else.                 *)
NothingElseTouched == SourcesIntact /\ WritesStayUnderDestination

(* A truncated object is never left at a destination key without a failure *)
(* reported for it, and never by stream mode, which renames a whole file   *)
(* into place.                                                             *)
DamageReported ==
    \A p \in DOMAIN files :
        files[p].form = "torn" =>
            /\ cfg.mode # "stream"
            /\ \E i \in DOMAIN report : /\ report[i] = "Failed"
                                        /\ MirrorOf(SourceAt(Place(job.src,
                                             objects[i].key))) = p

(* The records of the summary are those of the objects that were settled:  *)
(* a failed object's records are not counted, and those of an object       *)
(* written, dropped whole or previewed are.                                *)
CountsSettled ==
    \A i \in DOMAIN report :
        /\ report[i] = "Failed" => i \notin m.tallied
        /\ report[i] \in {"Written", "NothingKept"} => i \in m.tallied
        /\ report[i] = "DryRun" =>
              \/ i \in m.tallied
              \/ SourceAt(Place(job.src, objects[i].key)).verdict
                    \in {"Unparsable", "Unrecognized"}

(* A dry run writes nothing, and its unrecognized count is the number of   *)
(* objects the real run would hand to behavior.on_unrecognized_object,     *)
(* were none of them to be written onto itself.                            *)
PreviewFaithful ==
    cfg.dryRun /\ pc = "done" /\ ~ faulty /\ ~ NoDestKey =>
        /\ files = [p \in {Place(job.src, s.key) : s \in job.tree} |->
                       [of |-> p, form |-> "source"]]
        /\ m.unrecognized =
              Cardinality({s \in InScope : /\ s.verdict = "Unrecognized"
                                           /\ ~ Unsafe(AsObject(s))
                                           /\ ~ MustFail([s EXCEPT !.verdict = "Written"])})

(* The summary is true of the run, and of the run a preview stands for.    *)
SummaryHonest == CountsSettled /\ PreviewFaithful
=============================================================================
