------------------------------ MODULE Pipeline ------------------------------
(***************************************************************************)
(* Pipeline::handle (pipeline.rs): one batch of notifications, from the    *)
(* decoder's items to the outcome reported to Lambda and the one metric    *)
(* snapshot emitted.                                                       *)
(*                                                                         *)
(* Pass 1 classifies every item without I/O, pass 2 runs up to             *)
(* object_concurrency objects at once, pass 3 takes their results in       *)
(* submission order.  Inside an object, stream_run and the streaming copy  *)
(* are one step each, with the outcomes StreamRun and CopyStream show them *)
(* to have; every request to S3 may fail, and a failed write may still     *)
(* have landed.                                                            *)
(***************************************************************************)
EXTENDS Naturals, Sequences, FiniteSets

CONSTANTS Cases,     \* [batch, cfg]: the SourceItems and the settings considered
          MaxRefs    \* no item of them has more objects than this

Verdicts == {"Written", "NothingKept", "Unrecognized", "Unparsable"}

(* An object referenced by a notification.  verdict: what filtering its    *)
(* body yields; over: which of its sizes exceeds max_object_bytes; large:  *)
(* its announced size exceeds stream_threshold_bytes (an unannounced size  *)
(* does not); allowed: the key filter lets it in; loops: its destination   *)
(* is itself or it lies under the destination prefix.                      *)
Objects == [key : Nat, verdict : Verdicts, over : {"no", "source", "body"},
            large : BOOLEAN, allowed : BOOLEAN, loops : BOOLEAN]

Items == [ack : BOOLEAN, bad : BOOLEAN, objects : Seq(Objects)]

Settings == [mode : {"buffer", "stream", "auto"},
             concurrency : Nat \ {0},
             tooLarge : {"stream", "error"},
             missing : {"skip", "error"},
             parse : {"copy", "error"},
             unrecognized : {"copy", "skip", "error"},
             config : {"open", "closed"},
             partial : BOOLEAN,
             dryRun : BOOLEAN]

ASSUME CasesAssumption ==
    /\ MaxRefs \in Nat
    /\ \A c \in Cases : /\ c.batch \in Seq(Items)
                        /\ \A i \in DOMAIN c.batch : Len(c.batch[i].objects) <= MaxRefs
                        /\ c.cfg \in Settings

(* Two references with one key are to one object: dest_key is a function   *)
(* of the source key alone, so the batches considered are of one source    *)
(* bucket, and CloudTrail writes an object once.  The references may still *)
(* announce different sizes.                                               *)
ASSUME KeysAssumption ==
    \A c \in Cases : \A i, k \in DOMAIN c.batch :
      \A j \in DOMAIN c.batch[i].objects, l \in DOMAIN c.batch[k].objects :
        LET o == c.batch[i].objects[j]
            p == c.batch[k].objects[l]
        IN  o.key = p.key =>
              o.verdict = p.verdict /\ o.allowed = p.allowed /\ o.loops = p.loops

(* How the future of an object ends: well, or with an error.               *)
Results == {"none", "ok", "skipped", "NotFound", "Backend", "ObjectTooLarge",
            "UnrecognizedObject", "Unparsable", "Internal", "StreamError"}

(* The counters of Metrics this module moves.  BytesIn and BytesOut count  *)
(* the reads and writes that were billed, Tallies the RecordTally commits. *)
Counters == {"DecodeErrors", "ItemsWithoutObjects", "ObjectsExcludedByKey",
             "ObjectsProcessed", "ObjectsSkipped", "ObjectsFailed",
             "ObjectsCopiedUnparsed", "UnrecognizedObjects", "BytesIn",
             "BytesOut", "Tallies"}

VARIABLES
    cfg,       \* Settings
    batch,     \* the decoded items
    phase,     \* where handle is
    engine,    \* config.get() returned a ruleset
    item, obj, \* pass 1: the item, and its object (0: the item itself)
    work,      \* the objects that passed pass 1, with their futures
    taken,     \* pass 3: results adjudicated
    failed,    \* item_failed
    hard,      \* hard_error
    m,         \* Metrics
    dest,      \* destination keys: "absent", "filtered", "source"
    outcome,   \* what handle returned
    emitted    \* the snapshot it emitted

vars == <<cfg, batch, phase, engine, item, obj, work, taken, failed, hard, m,
          dest, outcome, emitted>>

Keys == UNION {UNION {{c.batch[i].objects[j].key : j \in DOMAIN c.batch[i].objects} :
                         i \in DOMAIN c.batch} : c \in Cases}

NoHard == [item |-> 0, err |-> "none"]
Zero == [c \in Counters |-> 0]

Init ==
    /\ \E c \in Cases : cfg = c.cfg /\ batch = c.batch
    /\ phase = "decode"
    /\ engine = FALSE
    /\ item = 1 /\ obj = 0
    /\ work = <<>>
    /\ taken = 0
    /\ failed = {}
    /\ hard = NoHard
    /\ m = Zero
    /\ dest = [k \in Keys |-> "absent"]
    /\ outcome = [err |-> "none", item |-> 0, failed |-> {}]
    /\ emitted = Zero

Plus(counters) == [c \in Counters |-> m[c] + IF c \in counters THEN 1 ELSE 0]

Count(counters) == m' = Plus(counters)

(* handle: whatever handle_inner returns, the counters are swapped out and *)
(* emitted once.                                                           *)
Return(err, at, acks, counters) ==
    /\ phase' = "returned"
    /\ outcome' = [err |-> err, item |-> at, failed |-> acks]
    /\ emitted' = Plus(counters)
    /\ m' = Zero

(* note_hard_error keeps the lowest item.                                  *)
(* Mutant: keeps the first one noted.                                      *)
NoteFirstError(i, err) ==
    hard' = IF hard = NoHard THEN [item |-> i, err |-> err] ELSE hard

NoteHardError(i, err) ==
    hard' = IF hard = NoHard \/ i < hard.item THEN [item |-> i, err |-> err]
                                               ELSE hard

(* partial_batch_failures && ack_id.is_some()                              *)
Isolated(i) == cfg.partial /\ batch[i].ack

-----------------------------------------------------------------------------
Decode ==
    /\ phase = "decode"
    /\ \/ /\ phase' = "config"
          /\ UNCHANGED <<outcome, emitted, m>>
       \/ Return("Decode", 0, {}, {"DecodeErrors"})
    /\ UNCHANGED <<cfg, batch, engine, item, obj, work, taken, failed, hard,
                   dest>>

(* ConfigStore::get answers with a ruleset or with none.                   *)
(* Mutant: on_config_error is not asked.                                   *)
GetConfigAlwaysOpen ==
    /\ phase = "config"
    /\ engine' \in BOOLEAN
    /\ phase' = "classify"
    /\ UNCHANGED <<cfg, batch, item, obj, work, taken, failed, hard, m, dest,
                   outcome, emitted>>

GetConfig ==
    /\ phase = "config"
    /\ engine' \in BOOLEAN
    /\ \/ /\ ~ engine' /\ cfg.config = "closed"
          /\ Return("Config", 0, {}, {})
       \/ /\ engine' \/ cfg.config = "open"
          /\ phase' = "classify"
          /\ UNCHANGED <<outcome, emitted, m>>
    /\ UNCHANGED <<cfg, batch, item, obj, work, taken, failed, hard, dest>>

-----------------------------------------------------------------------------
(* Pass 1.                                                                 *)
Classifying == phase = "classify" /\ item <= Len(batch)

PoisonItem ==
    /\ Classifying /\ obj = 0
    /\ batch[item].bad
    /\ Count({"DecodeErrors"})
    /\ \/ /\ Isolated(item)
          /\ failed' = failed \cup {item}
          /\ UNCHANGED hard
       \/ /\ ~ Isolated(item)
          /\ NoteHardError(item, "Decode")
          /\ UNCHANGED failed
    /\ item' = item + 1
    /\ UNCHANGED <<cfg, batch, phase, engine, obj, work, taken, dest, outcome,
                   emitted>>

OpenItem ==
    /\ Classifying /\ obj = 0
    /\ ~ batch[item].bad
    /\ Count(IF batch[item].objects = <<>> THEN {"ItemsWithoutObjects"} ELSE {})
    /\ obj' = 1
    /\ UNCHANGED <<cfg, batch, phase, engine, item, work, taken, failed, hard,
                   dest, outcome, emitted>>

CloseItem ==
    /\ Classifying
    /\ obj > Len(batch[item].objects)
    /\ item' = item + 1
    /\ obj' = 0
    /\ UNCHANGED <<cfg, batch, phase, engine, work, taken, failed, hard, m,
                   dest, outcome, emitted>>

AtObject == Classifying /\ obj \in 1..Len(batch[item].objects)
Current == batch[item].objects[obj]

ExcludeObject ==
    /\ AtObject
    /\ ~ Current.allowed
    /\ Count({"ObjectsExcludedByKey"})
    /\ obj' = obj + 1
    /\ UNCHANGED <<cfg, batch, phase, engine, item, work, taken, failed, hard,
                   dest, outcome, emitted>>

RefuseSelfTrigger ==
    /\ AtObject
    /\ Current.allowed /\ Current.loops
    /\ Return("SelfTrigger", item, {}, {"ObjectsFailed"})
    /\ UNCHANGED <<cfg, batch, engine, item, obj, work, taken, failed, hard,
                   dest>>

AdmitObject ==
    /\ AtObject
    /\ Current.allowed /\ ~ Current.loops
    /\ work' = Append(work, [item |-> item, object |-> Current,
                             pc |-> "waiting", res |-> "none",
                             put |-> "absent"])
    /\ obj' = obj + 1
    /\ UNCHANGED <<cfg, batch, phase, engine, item, taken, failed, hard, m,
                   dest, outcome, emitted>>

EndClassify ==
    /\ phase = "classify"
    /\ item > Len(batch)
    /\ phase' = "run"
    /\ UNCHANGED <<cfg, batch, engine, item, obj, work, taken, failed, hard, m,
                   dest, outcome, emitted>>

Classify == \/ PoisonItem \/ OpenItem \/ CloseItem \/ ExcludeObject
            \/ RefuseSelfTrigger \/ AdmitObject \/ EndClassify

-----------------------------------------------------------------------------
(* Pass 2: the future of work[w].                                          *)
runUnchanged == <<cfg, batch, phase, engine, item, obj, taken, failed, hard,
                  outcome, emitted>>

At(w, pc) == phase = "run" /\ w \in DOMAIN work /\ work[w].pc = pc

Goto(w, pc, put) == work' = [work EXCEPT ![w].pc = pc, ![w].put = put]

Finish(w, res, counters) ==
    /\ work' = [work EXCEPT ![w].pc = "done", ![w].res = res]
    /\ Count(counters)

Write(w, what) == dest' = [dest EXCEPT ![work[w].object.key] = what]

SelectMode(o) ==
    IF cfg.mode # "auto" THEN cfg.mode
    ELSE IF o.large THEN "stream" ELSE "buffer"

(* buffered(n) holds n futures, finished ones waiting their turn included. *)
(* Mutant: one fewer.                                                      *)
AdmittedShort(w) == w < taken + cfg.concurrency

Admitted(w) == w <= taken + cfg.concurrency

Start(w) ==
    /\ At(w, "waiting")
    /\ Admitted(w)
    /\ Goto(w, IF engine THEN SelectMode(work[w].object) ELSE "copy", "absent")
    /\ UNCHANGED <<runUnchanged, m, dest>>

(* open_with_missing_policy, of the first read and of the second one that  *)
(* a copy makes: the object may be gone by then.                           *)
OpenMissing(w) ==
    /\ \E pc \in {"buffer", "stream", "copy"} : At(w, pc)
    /\ \/ /\ cfg.missing = "skip"
          /\ Finish(w, "skipped", {"ObjectsSkipped"})
       \/ /\ cfg.missing = "error"
          /\ Finish(w, "NotFound", {})
    /\ UNCHANGED <<runUnchanged, dest>>

OpenFailed(w) ==
    /\ \E pc \in {"buffer", "stream", "copy"} : At(w, pc)
    /\ Finish(w, "Backend", {})
    /\ UNCHANGED <<runUnchanged, dest>>

(* ObjectTooLarge, from the fetch or from decompress_capped.  Only the     *)
(* latter has bytes to bill, and not if stream mode reads them again.      *)
BufferTooLarge(w) ==
    /\ At(w, "buffer")
    /\ work[w].object.over # "no"
    /\ \/ /\ cfg.tooLarge = "stream"
          /\ Goto(w, "stream", "absent")
          /\ UNCHANGED m
       \/ /\ cfg.tooLarge = "error"
          /\ Finish(w, "ObjectTooLarge",
                    IF work[w].object.over = "body" THEN {"BytesIn"} ELSE {})
    /\ UNCHANGED <<runUnchanged, dest>>

(* The verdicts both modes settle alike: nothing to write, the policy for  *)
(* unrecognized objects, the policy for unparsable ones.  `copier` is the  *)
(* step that forwards the source: a put of the buffered bytes, or a second *)
(* read.                                                                   *)
SettleNothingKept(w) ==
    /\ work[w].object.verdict = "NothingKept"
    /\ Finish(w, "ok", {"BytesIn", "Tallies", "ObjectsProcessed"})

SettleUnrecognized(w, copier) ==
    /\ work[w].object.verdict = "Unrecognized"
    /\ \/ /\ cfg.dryRun \/ cfg.unrecognized = "skip"
          /\ Finish(w, "ok", {"BytesIn", "UnrecognizedObjects",
                              "ObjectsProcessed"})
       \/ /\ ~ cfg.dryRun /\ cfg.unrecognized = "copy"
          /\ Goto(w, copier, "source")
          /\ Count({"BytesIn", "UnrecognizedObjects"})
       \/ /\ ~ cfg.dryRun /\ cfg.unrecognized = "error"
          /\ Finish(w, "UnrecognizedObject", {"BytesIn", "UnrecognizedObjects"})

SettleUnparsable(w, copier) ==
    /\ work[w].object.verdict = "Unparsable"
    /\ \/ /\ cfg.parse = "error"
          /\ Finish(w, "Unparsable", {"BytesIn"})
       \/ /\ cfg.parse = "copy" /\ cfg.dryRun
          /\ Finish(w, "ok", {"BytesIn", "ObjectsCopiedUnparsed",
                              "ObjectsProcessed"})
       \/ /\ cfg.parse = "copy" /\ ~ cfg.dryRun
          /\ Goto(w, copier, "source")
          /\ Count({"BytesIn", "ObjectsCopiedUnparsed"})

(* process_buffer and process_dry_run, up to the put.                      *)
BufferRun(w) ==
    /\ At(w, "buffer")
    /\ work[w].object.over = "no"
    /\ \/ /\ work[w].object.verdict = "Written"
          /\ \/ /\ ~ cfg.dryRun
                /\ Goto(w, "put", "filtered")
                /\ Count({"BytesIn"})
             \/ /\ cfg.dryRun
                /\ Finish(w, "ok", {"BytesIn", "Tallies", "ObjectsProcessed"})
             \/ Finish(w, "Internal", {"BytesIn"})
       \/ SettleNothingKept(w)
       \/ SettleUnrecognized(w, "put")
       \/ SettleUnparsable(w, "put")
    /\ UNCHANGED <<runUnchanged, dest>>

(* store.put, then BytesOut, the tally and ObjectsProcessed.               *)
Put(w) ==
    /\ At(w, "put")
    /\ \/ /\ Write(w, work[w].put)
          /\ Finish(w, "ok", {"BytesOut", "ObjectsProcessed"} \cup
                    IF work[w].put = "filtered" THEN {"Tallies"} ELSE {})
       \/ /\ Write(w, work[w].put)
          /\ Finish(w, "Backend", {})
       \/ /\ Finish(w, "Backend", {})
          /\ UNCHANGED dest
    /\ UNCHANGED runUnchanged

(* process_stream and process_dry_run_stream: stream_run, against S3 or    *)
(* the DiscardStore, and what follows it.  StreamError: the source read,   *)
(* the encoder or the upload failed and nothing landed.                    *)
StreamRun(w) ==
    /\ At(w, "stream")
    /\ \/ /\ work[w].object.verdict = "Written" /\ ~ cfg.dryRun
          /\ Write(w, "filtered")
          /\ \/ Finish(w, "ok", {"BytesIn", "BytesOut", "Tallies",
                                 "ObjectsProcessed"})
             \/ Finish(w, "StreamError", {"BytesIn"})
       \/ /\ work[w].object.verdict = "Written" /\ cfg.dryRun
          /\ Finish(w, "ok", {"BytesIn", "Tallies", "ObjectsProcessed"})
          /\ UNCHANGED dest
       \/ /\ \/ SettleNothingKept(w)
             \/ SettleUnrecognized(w, "copy")
             \/ SettleUnparsable(w, "copy")
             \/ Finish(w, "StreamError", {"BytesIn"})
          /\ UNCHANGED dest
    /\ UNCHANGED runUnchanged

(* stream_copy.  Only raw_copy's read, the first of the object, is billed. *)
(* Mutant: every copy is billed.                                           *)
CopyInAlways == {"BytesIn"}

CopyIn == IF engine THEN {} ELSE {"BytesIn"}

Copy(w) ==
    /\ At(w, "copy")
    /\ \/ /\ Write(w, "source")
          /\ \/ Finish(w, "ok", {"BytesOut", "ObjectsProcessed"} \cup CopyIn)
             \/ Finish(w, "Backend", CopyIn)
       \/ /\ Finish(w, "Backend", CopyIn)
          /\ UNCHANGED dest
    /\ UNCHANGED runUnchanged

ProcessObject(w) ==
    \/ Start(w) \/ OpenMissing(w) \/ OpenFailed(w) \/ BufferTooLarge(w)
    \/ BufferRun(w) \/ Put(w) \/ StreamRun(w) \/ Copy(w)

-----------------------------------------------------------------------------
(* Pass 3: results in submission order.                                    *)
(* Mutant: an unparsable source is no failure.                             *)
SucceededUnparsed(w) == work[w].res \in {"ok", "skipped", "Unparsable"}

Succeeded(w) == work[w].res \in {"ok", "skipped"}

Adjudicate ==
    /\ At(taken + 1, "done")
    /\ taken' = taken + 1
    /\ LET w == taken + 1
           i == work[w].item IN
       \/ /\ Succeeded(w)
          /\ UNCHANGED <<m, failed, hard>>
       \/ /\ ~ Succeeded(w) /\ Isolated(i)
          /\ Count({"ObjectsFailed"})
          /\ failed' = failed \cup {i}
          /\ UNCHANGED hard
       \/ /\ ~ Succeeded(w) /\ ~ Isolated(i)
          /\ Count({"ObjectsFailed"})
          /\ NoteHardError(i, work[w].res)
          /\ UNCHANGED failed
    /\ UNCHANGED <<cfg, batch, phase, engine, item, obj, work, dest, outcome,
                   emitted>>

(* Mutant: the first hard error ends the batch at once.                    *)
EndBatchAtFirstError ==
    /\ phase = "run"
    /\ \/ /\ hard # NoHard
          /\ Return(hard.err, hard.item, {}, {})
       \/ /\ hard = NoHard
          /\ taken = Len(work)
          /\ Return("none", 0, {i \in failed : batch[i].ack}, {})
    /\ UNCHANGED <<cfg, batch, engine, item, obj, work, taken, failed, hard,
                   dest>>

EndBatch ==
    /\ phase = "run"
    /\ taken = Len(work)
    /\ \/ /\ hard # NoHard
          /\ Return(hard.err, hard.item, {}, {})
       \/ /\ hard = NoHard
          /\ Return("none", 0, {i \in failed : batch[i].ack}, {})
    /\ UNCHANGED <<cfg, batch, engine, item, obj, work, taken, failed, hard,
                   dest>>

Returned ==
    /\ phase = "returned"
    /\ UNCHANGED vars

Next ==
    \/ Decode \/ GetConfig \/ Classify
    \/ \E w \in DOMAIN work : ProcessObject(w)
    \/ Adjudicate \/ EndBatch \/ Returned

(* One future polls everything: whatever can go on, does.                  *)
Fairness == WF_vars(Next)

Spec == Init /\ [][Next]_vars

FairSpec == Spec /\ Fairness
-----------------------------------------------------------------------------
(* handle has returned, and neither the payload, nor the ruleset, nor a    *)
(* self-trigger ended it before pass 2: whatever it returned, every object *)
(* must have been attempted and its future must have ended by itself.      *)
Completed ==
    /\ phase = "returned"
    /\ outcome.err # "SelfTrigger"
    /\ outcome.item > 0 \/ outcome.err = "none"

(* Every object reference of the batch is accounted for exactly once: as   *)
(* excluded, processed, skipped or failed.  No future is dropped halfway   *)
(* (a cancelled put_stream never aborts its upload), also not by an error  *)
(* that fails the batch.                                                   *)
EveryObjectAccounted ==
    Completed =>
      /\ \A w \in DOMAIN work : work[w].pc = "done"
      /\ emitted["ObjectsProcessed"] + emitted["ObjectsSkipped"]
            + emitted["ObjectsFailed"] = Len(work)
      /\ emitted["ObjectsExcludedByKey"] + Len(work) =
            Cardinality({r \in (DOMAIN batch) \X (1..MaxRefs) :
                            /\ ~ batch[r[1]].bad
                            /\ r[2] <= Len(batch[r[1]].objects)})

(* What the destination owes to object o once its reference has succeeded. *)
Settled(o) ==
    \/ cfg.dryRun
    \/ engine /\ o.verdict = "NothingKept"
    \/ engine /\ o.verdict = "Unrecognized" /\ cfg.unrecognized = "skip"
    \/ engine /\ o.verdict = "Written" /\ dest[o.key] = "filtered"
    \/ ~ (engine /\ o.verdict = "Written") /\ dest[o.key] = "source"

(* No message is acknowledged with its data lost: when handle returns Ok,  *)
(* every object of a message it does not report as failed is at the        *)
(* destination, or was rightly not written, or was missing under `skip`.   *)
AckedMeansSettled ==
    Completed /\ outcome.err = "none" =>
      /\ \A w \in DOMAIN work :
            \/ work[w].item \in outcome.failed
            \/ work[w].res = "skipped" /\ cfg.missing = "skip"
            \/ Settled(work[w].object)
      /\ \A i \in DOMAIN batch : batch[i].bad => i \in outcome.failed

(* Adjudication depends on the objects' results alone, not on the          *)
(* concurrency or on the order they finished in: the failed messages are   *)
(* exactly the isolatable ones with a failure, and the batch fails exactly *)
(* when another one has a failure, with the error of the lowest such item. *)
FailuresAttributed ==
    LET Failing(i) == \/ batch[i].bad
                      \/ \E w \in DOMAIN work :
                            work[w].item = i /\ ~ Succeeded(w)
        hardItems == {i \in DOMAIN batch : Failing(i) /\ ~ Isolated(i)}
    IN  Completed =>
          \/ /\ hardItems = {}
             /\ outcome.err = "none"
             /\ outcome.failed = {i \in DOMAIN batch : Failing(i)}
          \/ /\ outcome.item \in hardItems
             /\ \A i \in hardItems : outcome.item <= i
             /\ outcome.err # "none"

(* RecordsIn and its siblings are published once per object that was       *)
(* filtered to its end, and for no object that failed; BytesIn is billed   *)
(* at most once per object, whatever was retried or copied, and for every  *)
(* processed one.                                                          *)
CountersReconcile ==
    Completed =>
      /\ emitted["Tallies"] =
            Cardinality({w \in DOMAIN work :
                /\ engine /\ work[w].res = "ok"
                /\ work[w].object.verdict \in {"Written", "NothingKept"}})
      /\ emitted["BytesIn"] <= Len(work)
      /\ emitted["ObjectsProcessed"] <= emitted["BytesIn"]

(* A destination key never holds anything the policies do not allow:       *)
(* filtered output only of an object with survivors, source bytes only     *)
(* without a ruleset or under a copy policy, nothing under the             *)
(* destination's own prefix and nothing where a dry run has a ruleset.  A  *)
(* self-trigger refuses the whole batch before its first request to S3.    *)
DestinationAllowed ==
    /\ outcome.err = "SelfTrigger" =>
          /\ \A w \in DOMAIN work : work[w].pc = "waiting"
          /\ emitted["BytesIn"] = 0 /\ \A k \in Keys : dest[k] = "absent"
    /\ \A i \in DOMAIN batch : \A j \in DOMAIN batch[i].objects :
         LET o == batch[i].objects[j] IN
           /\ dest[o.key] # "absent" => o.allowed /\ ~ o.loops /\ ~ (cfg.dryRun /\ engine)
           /\ dest[o.key] = "filtered" => engine /\ o.verdict = "Written"
           /\ dest[o.key] = "source" =>
                \/ ~ engine /\ cfg.config = "open"
                \/ o.verdict = "Unrecognized" /\ cfg.unrecognized = "copy"
                \/ o.verdict = "Unparsable" /\ cfg.parse = "copy"

(* behavior.dry_run: "nothing is written -- the pipeline touches the       *)
(* destination bucket not at all" (docs/deployment.md).                    *)
DryRunWritesNothing ==
    cfg.dryRun => \A k \in Keys : dest[k] = "absent"

(* handle returns.                                                         *)
HandleReturns == <>(phase = "returned")
=============================================================================
