---------------------------- MODULE ConfigStore ----------------------------
(***************************************************************************)
(* ConfigStore (config/store.rs): one compiled ruleset cached behind a     *)
(* TTL, revalidated against a ConfigSource that others edit meanwhile.     *)
(*                                                                         *)
(* A source is "atomic" (S3 GetObject, SSM GetParameter: version tag and   *)
(* bytes come from one read) or a "file" (a stat, then a read).  A request *)
(* is sampled by the source at one moment and answered at a later one.     *)
(* Time passes between any two steps.  Clocks stop at Horizon; TTL is less *)
(* than that, so every comparison the code makes is unaffected.            *)
(***************************************************************************)
EXTENDS Naturals, FiniteSets

CONSTANTS TTL,       \* rules.ttl_seconds
          Horizon,   \* where the clocks of the model stop
          MaxRev     \* bound: how often the document is edited

ASSUME TTLAssumption == TTL \in Nat
ASSUME HorizonAssumption == Horizon \in Nat /\ Horizon > TTL
ASSUME MaxRevAssumption == MaxRev \in Nat

VARIABLES
    kind,       \* the kind of source
    rev,        \* the document's current revision
    bad,        \* the revisions that do not compile
    since,      \* since[r]: how long ago revision r was replaced
    has,        \* State::cached.is_some()
    value,      \* Cached::value, as the revision it was compiled from
    tag,        \* Cached::version
    age,        \* now - Cached::fetched_at
    pc,         \* the get() or prime() in progress
    elapsed,    \* time since its `now` was taken
    sampled,    \* the revision the outstanding request read
    newTag,     \* the version tag obtained with it, or before it
    loadError,  \* this call has counted a ConfigLoadErrors
    answer      \* what the last call returned: a revision, or None

vars == <<kind, rev, bad, since, has, value, tag, age, pc, elapsed, sampled,
          newTag, loadError, answer>>

srcVars == <<kind, rev, bad, since>>
cacheVars == <<has, value, tag, age>>

Revs == 0..MaxRev
None == MaxRev + 1
Clock == 0..Horizon

(* "stat" and "fetch": the request of fetch() has not reached the source;  *)
(* "fetched": it has, its answer is under way.  Likewise for version().    *)
Pcs == {"idle", "version", "versioned", "stat", "fetch", "fetched"}

(* The shape of the store: a tag and a value are always revisions the      *)
(* source has had a name for.                                              *)
StoreTypeOK ==
    /\ kind \in {"atomic", "file"}
    /\ rev \in Revs /\ bad \subseteq Revs /\ since \in [Revs -> Clock]
    /\ has \in BOOLEAN /\ value \in Revs /\ tag \in Revs /\ age \in Clock
    /\ pc \in Pcs /\ elapsed \in Clock
    /\ sampled \in Revs /\ newTag \in Revs
    /\ loadError \in BOOLEAN
    /\ answer \in Revs \cup {None}

FirstFetch == IF kind = "file" THEN "stat" ELSE "fetch"

(* prime() is the first call: an unconditional fetch.                      *)
Init ==
    /\ kind \in {"atomic", "file"}
    /\ rev = 0 /\ bad \in SUBSET {0} /\ since = [r \in Revs |-> 0]
    /\ has = FALSE /\ value = 0 /\ tag = 0 /\ age = 0
    /\ pc = FirstFetch /\ elapsed = 0 /\ sampled = 0 /\ newTag = 0
    /\ loadError = FALSE /\ answer = None

-----------------------------------------------------------------------------
(* The environment: time, and whoever edits the document.                  *)
Ticked(t) == IF t < Horizon THEN t + 1 ELSE t

Tick ==
    /\ age' = Ticked(age)
    /\ elapsed' = Ticked(elapsed)
    /\ since' = [r \in Revs |-> IF r < rev THEN Ticked(since[r]) ELSE 0]
    /\ UNCHANGED <<kind, rev, bad, has, value, tag, pc, sampled, newTag,
                   loadError, answer>>

Edit ==
    /\ rev < MaxRev
    /\ rev' = rev + 1
    /\ bad' \in {bad, bad \cup {rev + 1}}
    /\ UNCHANGED <<kind, since, cacheVars, pc, elapsed, sampled, newTag,
                   loadError, answer>>

-----------------------------------------------------------------------------
(* get(): within the TTL the cached value is returned at once; otherwise   *)
(* refresh starts, by version() when there is something to compare with.   *)
(* Mutant: compares with > instead of >=.                                  *)
StaleLate == ~ has \/ age > TTL

Stale == ~ has \/ age >= TTL

Get ==
    /\ pc = "idle"
    /\ elapsed' = 0
    /\ loadError' = FALSE
    /\ \/ /\ ~ Stale
          /\ answer' = value
          /\ UNCHANGED pc
       \/ /\ Stale
          /\ pc' = IF has THEN "version" ELSE FirstFetch
          /\ UNCHANGED answer
    /\ UNCHANGED <<srcVars, cacheVars, sampled, newTag>>

(* A request reaches the source.                                           *)
SampleVersion ==
    /\ pc = "version"
    /\ newTag' = rev
    /\ pc' = "versioned"
    /\ UNCHANGED <<srcVars, cacheVars, elapsed, sampled, loadError, answer>>

(* FileConfigSource::fetch stats before it reads.                          *)
SampleStat ==
    /\ pc = "stat"
    /\ newTag' = rev
    /\ pc' = "fetch"
    /\ UNCHANGED <<srcVars, cacheVars, elapsed, sampled, loadError, answer>>

SampleFetch ==
    /\ pc = "fetch"
    /\ sampled' = rev
    /\ newTag' = IF kind = "atomic" THEN rev ELSE newTag
    /\ pc' = "fetched"
    /\ UNCHANGED <<srcVars, cacheVars, elapsed, loadError, answer>>

(* The call returns what is cached after the refresh.                      *)
Answer == pc' = "idle" /\ answer' = IF has' THEN value' ELSE None

(* version() answered: unchanged, so only the clock is reset -- to the     *)
(* instant taken before the request -- or changed, so the document is      *)
(* fetched.                                                                *)
(* Mutant: the clock restarts when the answer arrives.                     *)
RevalidateNow ==
    /\ pc = "versioned"
    /\ newTag = tag
    /\ age' = 0
    /\ UNCHANGED <<has, value, tag>>
    /\ Answer
    /\ UNCHANGED <<srcVars, elapsed, sampled, newTag, loadError>>

Revalidate ==
    /\ pc = "versioned"
    /\ newTag = tag
    /\ age' = elapsed
    /\ UNCHANGED <<has, value, tag>>
    /\ Answer
    /\ UNCHANGED <<srcVars, elapsed, sampled, newTag, loadError>>

(* Mutant: a changed document is taken for an unchanged one.               *)
ChangedTouches ==
    /\ pc = "versioned"
    /\ newTag # tag
    /\ age' = elapsed
    /\ UNCHANGED <<has, value, tag>>
    /\ Answer
    /\ UNCHANGED <<srcVars, elapsed, sampled, newTag, loadError>>

Changed ==
    /\ pc = "versioned"
    /\ newTag # tag
    /\ pc' = FirstFetch
    /\ UNCHANGED <<srcVars, cacheVars, elapsed, sampled, newTag, loadError,
                   answer>>

(* Mutants: the tag is read after the content; the content is not compiled *)
(* before it replaces what is cached.                                      *)
StoreRestat ==
    /\ pc = "fetched"
    /\ sampled \notin bad
    /\ has' = TRUE /\ value' = sampled /\ tag' = rev /\ age' = elapsed
    /\ Answer
    /\ UNCHANGED <<srcVars, elapsed, sampled, newTag, loadError>>

StoreUnchecked ==
    /\ pc = "fetched"
    /\ has' = TRUE /\ value' = sampled /\ tag' = newTag /\ age' = elapsed
    /\ Answer
    /\ UNCHANGED <<srcVars, elapsed, sampled, newTag, loadError>>

Store ==
    /\ pc = "fetched"
    /\ sampled \notin bad
    /\ has' = TRUE /\ value' = sampled /\ tag' = newTag /\ age' = elapsed
    /\ Answer
    /\ UNCHANGED <<srcVars, elapsed, sampled, newTag, loadError>>

(* Any failure -- of a request, or of the compilation -- counts a load     *)
(* error and keeps what is cached, its clock included.                     *)
(* Mutant: a failure forgets the ruleset.                                  *)
ForgetRuleset ==
    /\ loadError' = TRUE
    /\ has' = FALSE
    /\ UNCHANGED <<value, tag, age>>
    /\ Answer
    /\ UNCHANGED <<srcVars, elapsed, sampled, newTag>>

KeepCached ==
    /\ loadError' = TRUE
    /\ UNCHANGED cacheVars
    /\ Answer
    /\ UNCHANGED <<srcVars, elapsed, sampled, newTag>>

CompileFailed == pc = "fetched" /\ sampled \in bad /\ KeepCached

RequestFailed == pc # "idle" /\ KeepCached

Refresh == \/ SampleVersion \/ SampleStat \/ SampleFetch \/ Revalidate
           \/ Changed \/ Store \/ CompileFailed

Next == Tick \/ Edit \/ Get \/ Refresh \/ RequestFailed

Spec == Init /\ [][Next]_vars

(* Time passes, invocations keep coming, and each request is answered; a   *)
(* request that is made over and over does not fail forever.               *)
Fairness ==
    /\ WF_vars(Tick) /\ WF_vars(Get) /\ WF_vars(Refresh)
    /\ SF_vars(SampleVersion) /\ SF_vars(SampleStat) /\ SF_vars(SampleFetch)
    /\ SF_vars(Revalidate) /\ SF_vars(Changed) /\ SF_vars(Store)

FairSpec == Spec /\ Fairness

-----------------------------------------------------------------------------
(* A matching version tag means the cached ruleset is the current one: no  *)
(* write, however it races the stat and the read of a fetch, leaves old    *)
(* content under the new tag, where revalidation would keep it forever.    *)
NoStalePin == has /\ tag = rev => value = rev

(* The cached ruleset always is one that compiled, however broken the      *)
(* document is now, and its tag is never newer than its content.           *)
CachedCompiles == has => value \notin bad /\ tag <= value

(* The age the TTL is compared with is honest: the cached ruleset was the  *)
(* current document at fetched_at or later, however long the source took   *)
(* to answer.                                                              *)
AgeIsHonest == has => since[value] <= age

(* The TTL bounds staleness: an answer from the cache was current less     *)
(* than a TTL ago, and an answer after a refresh was current at some       *)
(* moment since the call began.  (One after a failed refresh is as old as  *)
(* the failures last, and counts a load error.)                            *)
BoundedStaleness ==
    [][/\ Get /\ pc' = "idle" => since[answer'] < TTL
       /\ Revalidate \/ Store => since[answer'] <= elapsed]_vars

(* A good ruleset is never lost, and never replaced by an older one.       *)
NeverLosesRuleset ==
    [][has => has' /\ value' >= value /\ (value' # value => value' \notin bad)]_vars

(* Once the document is left alone in a state that compiles, the store     *)
(* comes to hold it and keeps it, whatever failed before.                  *)
EventuallyFresh ==
    \A r \in Revs : <>[](rev = r /\ r \notin bad) => <>[](has /\ value = r)
=============================================================================
