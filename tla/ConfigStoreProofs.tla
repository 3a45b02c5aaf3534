------------------------- MODULE ConfigStoreProofs -------------------------
(***************************************************************************)
(* Every safety property of the config store, for every TTL, horizon and   *)
(* number of edits.                                                        *)
(*                                                                         *)
(* The argument: revisions only grow, so what a request samples is never   *)
(* older than what is cached; the version tag is taken at or before the    *)
(* read it labels, so tag <= content <= current revision; and `elapsed`    *)
(* runs from before the request, so it bounds how long ago anything the    *)
(* request sampled was replaced.                                           *)
(***************************************************************************)
EXTENDS ConfigStore, TLAPS

(* A revision was replaced no later than any earlier one; the current one  *)
(* and the ones to come have not been replaced.                            *)
HistoryInv ==
    /\ bad \subseteq 0..rev
    /\ \A r, s \in Revs : r <= s => since[s] <= since[r]
    /\ \A r \in Revs : r >= rev => since[r] = 0

CacheInv ==
    has => /\ tag <= value /\ value <= rev
           /\ value \notin bad
           /\ since[value] <= age

(* The request in progress.                                                *)
RequestInv ==
    /\ pc \in {"version", "versioned"} => has
    /\ pc = "versioned" => newTag <= rev /\ since[newTag] <= elapsed
    /\ pc = "fetch" /\ kind = "file" => newTag <= rev
    /\ pc = "fetched" => /\ newTag <= sampled /\ sampled <= rev
                         /\ since[sampled] <= elapsed
                         /\ has => value <= sampled

StoreInv == StoreTypeOK /\ HistoryInv /\ CacheInv /\ RequestInv

USE TTLAssumption, HorizonAssumption, MaxRevAssumption

(* An empty store, with prime()'s fetch not yet sent, satisfies StoreInv.  *)
LEMMA StoreInit == Init => StoreInv
<1> SUFFICES ASSUME Init PROVE StoreInv
  OBVIOUS
<1>1. StoreTypeOK
  <2>1. 0 \in Revs /\ 0 \in Clock
    BY DEF Revs, Clock
  <2>2. FirstFetch \in Pcs
    BY DEF FirstFetch, Pcs
  <2>3. since \in [Revs -> Clock] /\ bad \subseteq Revs
    BY <2>1 DEF Init
  <2> QED
    BY <2>1, <2>2, <2>3 DEF Init, StoreTypeOK
<1>2. HistoryInv
  BY DEF Init, HistoryInv, Revs
<1>3. CacheInv /\ RequestInv
  BY DEF Init, CacheInv, RequestInv, FirstFetch
<1> QED
  BY <1>1, <1>2, <1>3 DEF StoreInv

(* Ticking keeps the order of two clocks.                                  *)
LEMMA TickedMonotone ==
    ASSUME NEW s \in Clock, NEW t \in Clock, s <= t
    PROVE  Ticked(s) \in Clock /\ Ticked(s) <= Ticked(t)
BY DEF Ticked, Clock

(* Time passing ages the cache, the call and the old revisions alike.      *)
LEMMA TickKeeps == StoreInv /\ Tick => StoreInv'
<1> SUFFICES ASSUME StoreInv, Tick PROVE StoreInv'
  OBVIOUS
<1> USE DEF Tick, StoreInv
<1>1. ASSUME NEW r \in Revs PROVE since'[r] = IF r < rev THEN Ticked(since[r]) ELSE 0
  OBVIOUS
<1>2. /\ rev \in Nat /\ \A r \in Revs : r \in Nat /\ since[r] \in Clock
      /\ age \in Clock /\ elapsed \in Clock /\ 0 \in Clock
      /\ \A c \in Clock : c \in Nat
  BY DEF StoreTypeOK, Revs, Clock
<1>3. ASSUME NEW r \in Revs, NEW c \in Clock, since[r] <= c
      PROVE  since'[r] <= Ticked(c)
  BY <1>1, <1>2, <1>3, TickedMonotone DEF Ticked
<1>4. \A c \in Clock : Ticked(c) \in Clock
  BY DEF Ticked, Clock
<1>5. StoreTypeOK'
  BY <1>1, <1>2, <1>4 DEF StoreTypeOK
<1>6. HistoryInv'
  <2>1. ASSUME NEW r \in Revs, NEW s \in Revs, r <= s
        PROVE  since'[s] <= since'[r]
    <3>1. CASE s < rev
      BY <1>1, <1>2, <2>1, <3>1, TickedMonotone DEF HistoryInv
    <3>2. CASE ~ (s < rev)
      BY <1>1, <1>2, <1>4, <3>2
    <3> QED
      BY <3>1, <3>2
  <2>2. ASSUME NEW r \in Revs, r >= rev PROVE since'[r] = 0
    BY <1>1, <1>2, <2>2
  <2> QED
    BY <2>1, <2>2 DEF HistoryInv
<1>7. CacheInv'
  BY <1>2, <1>3 DEF CacheInv, StoreTypeOK
<1>8. RequestInv'
  BY <1>2, <1>3 DEF RequestInv, StoreTypeOK
<1> QED
  BY <1>5, <1>6, <1>7, <1>8

(* Whoever edits the document only ever adds a revision, good or bad.      *)
LEMMA EditKeeps == StoreInv /\ Edit => StoreInv'
<1> SUFFICES ASSUME StoreInv, Edit PROVE StoreInv'
  OBVIOUS
<1> USE DEF Edit, StoreInv
<1>0. /\ rev \in Nat /\ rev < MaxRev /\ rev' = rev + 1
      /\ bad' \subseteq bad \cup {rev + 1}
      /\ UNCHANGED <<kind, since, has, value, tag, age, pc, elapsed, sampled,
                     newTag, loadError, answer>>
  BY DEF StoreTypeOK, Revs, cacheVars
<1>1. StoreTypeOK'
  BY <1>0 DEF StoreTypeOK, Revs
<1>2. HistoryInv'
  BY <1>0 DEF HistoryInv, StoreTypeOK, Revs
<1>3. CacheInv'
  BY <1>0 DEF CacheInv, StoreTypeOK, Revs
<1>4. RequestInv'
  BY <1>0 DEF RequestInv, StoreTypeOK, Revs
<1> QED
  BY <1>1, <1>2, <1>3, <1>4

(* A get() only starts a request, or answers from the cache.               *)
LEMMA GetKeeps == StoreInv /\ Get => StoreInv'
<1> SUFFICES ASSUME StoreInv, Get PROVE StoreInv'
  OBVIOUS
<1> USE DEF Get, StoreInv, srcVars, cacheVars
<1>1. StoreTypeOK'
  <2>1. pc' \in Pcs
    BY DEF StoreTypeOK, FirstFetch, Pcs
  <2>2. elapsed' \in Clock /\ answer' \in Revs \cup {None}
    BY DEF StoreTypeOK, Clock
  <2> QED
    BY <2>1, <2>2 DEF StoreTypeOK
<1>2. HistoryInv' /\ CacheInv'
  BY DEF HistoryInv, CacheInv
<1>3. RequestInv'
  BY DEF RequestInv, StoreTypeOK, FirstFetch, Revs
<1> QED
  BY <1>1, <1>2, <1>3

(* A request reaches the source and samples the current revision, which is *)
(* not older than anything cached.                                         *)
LEMMA SampleKeeps ==
    StoreInv /\ (SampleVersion \/ SampleStat \/ SampleFetch) => StoreInv'
<1> SUFFICES ASSUME StoreInv, SampleVersion \/ SampleStat \/ SampleFetch
             PROVE  StoreInv'
  OBVIOUS
<1> USE DEF StoreInv, SampleVersion, SampleStat, SampleFetch, srcVars,
        cacheVars
<1>0. UNCHANGED <<kind, rev, bad, since, has, value, tag, age, elapsed>>
  OBVIOUS
<1>1. StoreTypeOK'
  BY DEF StoreTypeOK, Pcs
<1>2. HistoryInv' /\ CacheInv'
  BY <1>0 DEF HistoryInv, CacheInv
<1>3. rev \in Revs /\ since[rev] = 0 /\ 0 <= elapsed /\ rev <= rev
  BY DEF StoreTypeOK, HistoryInv, Revs, Clock
<1>4. RequestInv'
  <2>1. CASE SampleVersion
    BY <1>3, <2>1 DEF RequestInv
  <2>2. CASE SampleStat
    BY <1>3, <2>2 DEF RequestInv
  <2>3. CASE SampleFetch
    <3>1. newTag' <= sampled'
      BY <1>3, <2>3 DEF RequestInv, StoreTypeOK
    <3>2. has => value <= sampled'
      BY <2>3 DEF CacheInv
    <3> QED
      BY <1>3, <2>3, <3>1, <3>2 DEF RequestInv
  <2> QED
    BY <2>1, <2>2, <2>3
<1> QED
  BY <1>1, <1>2, <1>4

(* An unchanged version tag: the cached content is at least as new as the  *)
(* tag, and the tag was current when the request sampled it.               *)
LEMMA RevalidateKeeps == StoreInv /\ Revalidate => StoreInv'
<1> SUFFICES ASSUME StoreInv, Revalidate PROVE StoreInv'
  OBVIOUS
<1> USE DEF StoreInv, Revalidate, Answer, srcVars
<1>0. has /\ tag \in Revs /\ value \in Revs /\ newTag = tag
  BY DEF RequestInv, StoreTypeOK
<1>1. StoreTypeOK'
  BY <1>0 DEF StoreTypeOK, Pcs
<1>2. HistoryInv'
  BY DEF HistoryInv
<1>3. since[value] <= elapsed
  <2>1. since[value] <= since[tag] /\ since[tag] <= elapsed
    BY <1>0 DEF HistoryInv, CacheInv, RequestInv
  <2>2. since[value] \in Nat /\ since[tag] \in Nat /\ elapsed \in Nat
    BY <1>0 DEF StoreTypeOK, Clock
  <2> QED
    BY <2>1, <2>2
<1>4. CacheInv' /\ RequestInv'
  BY <1>3 DEF CacheInv, RequestInv
<1> QED
  BY <1>1, <1>2, <1>4

(* A changed tag starts a fetch and leaves the cache alone.                *)
LEMMA ChangedKeeps == StoreInv /\ Changed => StoreInv'
<1> SUFFICES ASSUME StoreInv, Changed PROVE StoreInv'
  OBVIOUS
<1> USE DEF StoreInv, Changed, srcVars, cacheVars
<1>1. StoreTypeOK'
  BY DEF StoreTypeOK, FirstFetch, Pcs
<1>2. HistoryInv' /\ CacheInv'
  BY DEF HistoryInv, CacheInv
<1>3. RequestInv'
  BY DEF RequestInv, FirstFetch
<1> QED
  BY <1>1, <1>2, <1>3

(* What is stored compiled, and is labelled by a tag no newer than itself. *)
LEMMA StoreKeeps == StoreInv /\ Store => StoreInv'
<1> SUFFICES ASSUME StoreInv, Store PROVE StoreInv'
  OBVIOUS
<1> USE DEF StoreInv, Store, Answer, srcVars
<1>1. StoreTypeOK'
  BY DEF StoreTypeOK, Pcs
<1>2. HistoryInv'
  BY DEF HistoryInv
<1>3. CacheInv' /\ RequestInv'
  BY DEF CacheInv, RequestInv
<1> QED
  BY <1>1, <1>2, <1>3

(* A failure keeps the cache as it is.                                     *)
LEMMA KeepCachedKeeps == StoreInv /\ KeepCached => StoreInv'
<1> SUFFICES ASSUME StoreInv, KeepCached PROVE StoreInv'
  OBVIOUS
<1> USE DEF StoreInv, KeepCached, Answer, srcVars, cacheVars
<1>1. StoreTypeOK'
  BY DEF StoreTypeOK, Pcs
<1>2. HistoryInv' /\ CacheInv' /\ RequestInv'
  BY DEF HistoryInv, CacheInv, RequestInv
<1> QED
  BY <1>1, <1>2

(* StoreInv is an inductive invariant of the store and its environment.    *)
THEOREM StoreInvariant == Spec => []StoreInv
<1>1. StoreInv /\ [Next]_vars => StoreInv'
  <2> SUFFICES ASSUME StoreInv, [Next]_vars PROVE StoreInv'
    OBVIOUS
  <2>1. CASE Tick \/ Edit \/ Get
    BY <2>1, TickKeeps, EditKeeps, GetKeeps
  <2>2. CASE SampleVersion \/ SampleStat \/ SampleFetch
    BY <2>2, SampleKeeps
  <2>3. CASE Revalidate \/ Changed \/ Store
    BY <2>3, RevalidateKeeps, ChangedKeeps, StoreKeeps
  <2>4. CASE CompileFailed \/ RequestFailed
    BY <2>4, KeepCachedKeeps DEF CompileFailed, RequestFailed
  <2>5. CASE UNCHANGED vars
    BY <2>5 DEF vars, StoreInv, StoreTypeOK, HistoryInv, CacheInv, RequestInv
  <2> QED
    BY <2>1, <2>2, <2>3, <2>4, <2>5 DEF Next, Refresh
<1> QED
  BY StoreInit, <1>1, PTL DEF Spec

(* The variables of the store keep their types.                            *)
THEOREM StoreIsTyped == Spec => []StoreTypeOK
<1>1. StoreInv => StoreTypeOK
  BY DEF StoreInv
<1> QED
  BY <1>1, StoreInvariant, PTL

(* A write that races the stat and the read of FileConfigSource::fetch     *)
(* never leaves old rules under the new version tag.                       *)
THEOREM StoreNeverPinsStaleRules == Spec => []NoStalePin
<1>1. StoreInv => NoStalePin
  BY DEF StoreInv, StoreTypeOK, CacheInv, NoStalePin, Revs
<1> QED
  BY <1>1, StoreInvariant, PTL

(* The cached ruleset compiled, and its tag is not newer than it.          *)
THEOREM StoreHoldsCompiledRules == Spec => []CachedCompiles
<1>1. StoreInv => CachedCompiles
  BY DEF StoreInv, CacheInv, CachedCompiles
<1> QED
  BY <1>1, StoreInvariant, PTL

(* fetched_at never claims that the cached rules are younger than they are.*)
THEOREM StoreAgeIsHonest == Spec => []AgeIsHonest
<1>1. StoreInv => AgeIsHonest
  BY DEF StoreInv, CacheInv, AgeIsHonest
<1> QED
  BY <1>1, StoreInvariant, PTL

(* An answer from the cache was current less than a TTL ago; an answer     *)
(* after a refresh was current since the call began.                       *)
THEOREM StoreStalenessIsBounded == Spec => BoundedStaleness
<1>1. StoreInv /\ [Next]_vars =>
        [/\ Get /\ pc' = "idle" => since[answer'] < TTL
         /\ Revalidate \/ Store => since[answer'] <= elapsed]_vars
  <2> SUFFICES ASSUME StoreInv
               PROVE  /\ Get /\ pc' = "idle" => since[answer'] < TTL
                      /\ Revalidate \/ Store => since[answer'] <= elapsed
    OBVIOUS
  <2>1. ASSUME Get, pc' = "idle" PROVE since[answer'] < TTL
    <3>1. ~ Stale /\ answer' = value
      BY <2>1 DEF Get, FirstFetch
    <3>2. has /\ age < TTL /\ since[value] <= age /\ age \in Nat
             /\ since[value] \in Nat
      BY <3>1 DEF Stale, StoreInv, CacheInv, StoreTypeOK, Clock
    <3> QED
      BY <3>1, <3>2
  <2>2. ASSUME Revalidate PROVE since[answer'] <= elapsed
    <3>1. StoreInv' /\ has' /\ answer' = value' /\ age' = elapsed
             /\ since' = since
      BY <2>2, RevalidateKeeps DEF Revalidate, Answer, srcVars, StoreInv,
         RequestInv
    <3> QED
      BY <3>1 DEF StoreInv, CacheInv
  <2>3. ASSUME Store PROVE since[answer'] <= elapsed
    BY <2>3 DEF Store, Answer, StoreInv, RequestInv
  <2> QED
    BY <2>1, <2>2, <2>3
<1> QED
  BY <1>1, StoreInvariant, PTL DEF Spec, BoundedStaleness

(* No failure, late answer or broken document ever costs the store a       *)
(* ruleset it has, or brings back an older one.                            *)
THEOREM StoreNeverLosesRuleset == Spec => NeverLosesRuleset
<1>1. StoreInv /\ [Next]_vars =>
        [has => has' /\ value' >= value /\ (value' # value => value' \notin bad)]_vars
  <2> SUFFICES ASSUME StoreInv, Next, has
               PROVE  /\ has' /\ value' >= value
                      /\ value' # value => value' \notin bad
    OBVIOUS
  <2>0. value \in Nat
    BY DEF StoreInv, StoreTypeOK, Revs
  <2>1. CASE Store
    BY <2>1 DEF Store, StoreInv, RequestInv
  <2>2. CASE ~ Store
    <3>1. has' = has /\ value' = value
      BY <2>2 DEF Next, Refresh, Tick, Edit, Get, SampleVersion, SampleStat,
         SampleFetch, Revalidate, Changed, CompileFailed, RequestFailed,
         KeepCached, cacheVars
    <3> QED
      BY <2>0, <3>1
  <2> QED
    BY <2>1, <2>2
<1> QED
  BY <1>1, StoreInvariant, PTL DEF Spec, NeverLosesRuleset
=============================================================================
