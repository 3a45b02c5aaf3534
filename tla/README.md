# cloudtrail-rs: TLA+ models, model checking and proofs

cloudtrail-rs is a Lambda (four entry points, one core crate) that receives
notifications about new CloudTrail objects in S3, filters the records of each
object against exclusion rules, and writes what survives to a destination
bucket. What it must never do is lose records it was not told to drop, write a
truncated object, acknowledge a message whose object was not handled, or keep
filtering with rules that are long gone. This directory models the parts where
those things could go wrong, checks them with TLC on small instances, and
proves most of the safety results with TLAPS for every instance.

## 1. Inventory

| Component | State | Operations | Interacts with |
|---|---|---|---|
| `process/stream.rs` `stream_run` | three bounded channels, the parser's place in the envelope, the gzip sink, a tally | four joined tasks: `pump_input`, `extract_records` (blocking), the processing block, `put_stream` | source reader, object store, engine, metrics |
| `process/buffer.rs` | a few compressor threads | decompress with a cap, parse, evaluate, compress in parallel members | engine |
| `process/tally.rs` | counters of one object | count, `commit` | metrics |
| `aws/s3_store.rs` | a multipart upload at S3 | `get_stream`, `list_keys`, `put`, `put_stream`, `abort_upload` | S3 |
| `pipeline.rs` `Pipeline::handle` | one batch: failed items, hard error, work list | three passes: classify, run up to `object_concurrency` objects, adjudicate in order | decoder, config store, object store, metrics |
| `pipeline.rs` `stream_copy` | a byte total | copy through `CountingReader` | object store, metrics |
| `config/store.rs` | one cached ruleset, its tag, the instant it was fetched | `prime`, `get`, `refresh`, `store`, `touch` | a config source that others write |
| `config/file_source.rs`, `aws/s3_config.rs`, `aws/ssm_config.rs` | none | `version`, `fetch` | file system, S3, SSM |
| `config/rules.rs` | none | `RuleSet::parse`, `validate` | engine, CLI `validate` |
| `filter/engine.rs`, `filter/index.rs` | compiled rules and a two-dimensional index | `Engine::new`, `extract_literals`, `evaluate`, `evaluate_raw`, `evaluate_linear` | paths, projection |
| `filter/path.rs`, `filter/project.rs` | a trie of paths | `parse_path`, `resolve`, `visit_values`, `project` | engine |
| `metrics.rs` | atomic counters | `add_*`, `snapshot_and_reset`, sinks | everything |
| `decode/*.rs` | none | payload to items, for S3, SNS, SQS, EventBridge | pipeline |
| `config/settings.rs`, `uri.rs` | one document of 24 fields | defaults, file, `CT_*` overrides, `validate`, `ConfigUri::parse` | start-up, CLI `validate-settings` |
| four `lambda-*` crates | a container's ports, built once | INIT, the handler closure, `batch_response` | the event source, all of the above |
| `cli` | one run over a source tree | `filter`, `validate`, `validate-settings`, `test` | file system, S3, core |

What is hard to test here:

* **Concurrency inside one object.** The four tasks of `stream_run` end in any
  order, for any reason. The one signal that separates "finished" from "gave
  up" on the output side is an `Err` sent through a channel before the sender
  is dropped; each early return has to remember it, and nobody may be left
  waiting.
* **Verdicts that come too late.** Stream mode has sent records to S3 before it
  knows that the gzip trailer is right, that nothing follows the envelope, that
  `Records` is not repeated, or that any record survives. Buffer mode knows
  everything first. The two must agree, although they read JSON with different
  deserializers.
* **Partial failure at S3.** Any request may fail, and a failed one may have
  taken effect.
* **Adjudication of a batch.** Which messages are reported as failed, and with
  which error the batch fails, must follow from the objects' results and not
  from concurrency.
* **Redelivery.** A container is killed at its timeout in the middle of a write,
  a message comes back while its first delivery still runs, a poison message
  shares a batch with good ones: none of that may lose an object.
* **Counters.** They are published per invocation and a failed object is
  redelivered whole, so what is counted before its fate is known is counted
  twice.
* **Time and races in the config store.** A tag that is newer than the content
  it labels pins old rules for ever.
* **The rule index and the projection.** Leaving a rule out of a bucket, a
  literal out of its set, or a value out of a slot is silent: the record is
  kept or dropped, and nobody notices. Repeated keys and patterns that are
  almost literals are where it happens.
* **Settings from two places.** A file and the environment are each fine alone
  and wrong together, or the other way round; what is refused must be what
  would have been in effect.
* **Backfills.** The CLI writes into directories and prefixes that may be, or
  contain, its source; keys need not be paths; a local write can be torn; the
  exit code must still be true.

`PROJECT.json` lists each of these at its line under `hazards`, with the
properties that would catch it.

## 2. Modules

| Module | Models | State ↔ code |
|---|---|---|
| `Envelope` | a body as a sequence of grammar cells; `buffer_run`'s verdict and tally on a whole body (operators only) | a cell is one step of the envelope grammar, in the compressed input that carries it; `seal` is a gzip trailer that verifies, `odd` and `opaque` are values only a full parse rejects; `ReadApart` names the bodies the modes read apart |
| `PutStream` | `put_stream`, `upload_parts`, `abort_upload` | `upPc` is the place in `put_stream`; `outq`/`closed` the reader it is given; `mpu`, `landed`, `dest` what S3 holds |
| `StreamRun` | `stream_run`; extends `Envelope` and `PutStream` | `pumpPc`, `extPc`, `procPc`, `upPc` are the four tasks; `inq`, `recq`, `outq` the channels; `result`, `bytesOut`, `published` what leaves the function |
| `FilterObject` | the promise: at most one write, of the complete output, all at once, then an answer that fits: buffer mode's, or `Unrecognized` for a body the modes read apart | abstract specification that `StreamRun` implements, with `object <- IF landed THEN <<dest>> ELSE <<>>` (`FilterSpec`) |
| `CopyStream` | `stream_copy` with its `CountingReader`; extends `PutStream` | `stream` is the source, `total` the reader's total |
| `GzipMembers` | `gzip_compress_chunked`, and the two size caps of buffer mode | `members` are the compressor threads, `joined` the loop that joins them |
| `Pipeline` | `Pipeline::handle` and every per-object path under it | `item`/`obj` are pass 1's loops, `work` the futures of pass 2, `taken` pass 3; `m` the counters, `emitted` the snapshot |
| `Delivery` | the four binaries' INIT, handler closure and `batch_response`, under a queue or asynchronous invocation (external) | `con[c]` is a container; `queue`, `holder`, `receives` the event source; `last` the answer and its snapshot |
| `Decoders` | the four event decoders, record by record | `payload` the invocation's, `items` the `SourceItem`s so far |
| `SettingsDocument` | `Settings::load`/`from_parts`, `apply_env`, `validate`, `build_config_source`, `validate-settings` | `doc` is the `Document`; `preflight` what the CLI says of it; `pc` how INIT and the first object ended |
| `ConfigStore` | `ConfigStore<T>` and the config sources | `has`, `value`, `tag`, `age` are `State::cached`; `pc` the call in progress; `since[r]` how long ago revision `r` was replaced |
| `RulesDocument` | `RuleSet::parse` and `validate`, `Engine::new` up to its index, `cloudtrail-rs validate` | `ruleSet` is what parsed; `rules`, `paths`, `slots` the engine's fields |
| `FieldPath` | `parse_path`, `literal_path`, `visit_values`, `resolve` (operators only) | a path's text is a sequence of characters |
| `ExtractLiterals` | `extract_literals` and its helpers, against what the regex matches (external) | `literals` is the function's answer |
| `Projection` | the one-pass walk of `project` over a record's text | `slots` are the record's slots; a trie node is the path that leads to it |
| `RuleIndex` | `index_literals`, `RuleIndex::build`, `candidates_for`, `evaluate`, `evaluate_raw`, `evaluate_linear` | `bySource` ... `always` are the fields of the index, `seen` the projected or the whole record |
| `FilterCommand` | `cloudtrail-rs filter`: listing, containment, every per-object path, local and S3 writes, summary and exit code | `files` is all that is stored, `report` what became of each object |
| `MCStreamRun`, `MCPipeline`, `MCRules`, `MCBoundary`, `MCSettingsDocument`, `MCDecoders`, `MCDelivery`, `MCFilterCommand` | instances for TLC | |
| `StreamRunProofs`, `CopyStreamProofs`, `PipelineProofs`, `DeliveryProofs`, `ConfigStoreProofs`, `RuleIndexProofs`, `FilterCommandProofs`, `BoundaryProofs` | theorems | |

How they compose. `StreamRun` and `CopyStream` compose the writer of the body
with `PutStream`. `Pipeline` takes `stream_run` and `stream_copy` as one step
each: `DestinationComplete`, `OutcomeMatchesDestination`, `CountersSettled` and
`CopyVerbatim` are what entitle it to, and all four are theorems. It gets a ruleset or none from the config
store in one step, which is what `ConfigStore::get` gives it. `Delivery` in turn
cuts an invocation to what `Pipeline` shows of it: every object is attempted, and
a message fails when one of its objects does. `FilterCommand` uses the same
verdicts. `RulesDocument`, `ExtractLiterals` and `Projection` discharge what
`RuleIndex` takes for granted: that paths have slots, that literals cover what a
regex matches, that the values it sees are those of the record.

`MCRules` and `MCBoundary` put several of these side by side, each over its own
inputs: a behaviour exercises one part and leaves the variables of the others
idle. Their properties are the parts' own, which are stated and commented in the
parts' modules.

Abstractions worth knowing:

* In `StreamRun` bytes are counted in items (records, the opening and the
  closing), so a chunk of the output channel is a range of items, and a part is
  `PartSize` of them. The gzip sink may be flushed after any record that leaves
  something in it.
* The rest of a chunk that does not fit a part waits in the reader; the model
  keeps it in `part`, which therefore may exceed `PartSize` until the part has
  been uploaded.
* A chunk of the source carries one cell. Chunks that carry several only make
  fewer interleavings.
* A gzip error and a JSON error are one class to every caller
  (`is_unparsable_source`); parity compares up to that class, because which of
  the two comes first in a doubly damaged body depends on the reader.
* A skipped member or element is a cell only if it is `opaque`, that is, if a
  full parse rejects it; one that both parsers accept makes no difference and
  belongs to its neighbour. Where among the members it stands makes none either,
  so it follows the `Records` value.
* A value is `odd` or `opaque` for the same reasons: a lone surrogate escape, a
  number like `1e999`, nesting beyond `serde_json`'s limit. `IgnoredAny` and
  `RawValue` pass over all three; `from_slice::<Value>` fails on each.
* `Pipeline` and `FilterCommand` give an object one verdict, that of the mode
  that judges it. (Buffer mode refuses an oversized object before it parses it,
  so an object retried through stream mode is judged once.)
* `ExtractPanic` is the `JoinError` path. The release profile sets
  `panic = "abort"`, so it is taken in test builds only; the code handles it
  and so does the model.
* In `RuleIndex` a regex is the set of values it matches and a record the scalars
  of its paths in document order. `Projection` has the document's nesting,
  `ExtractLiterals` the pattern's text.
* Keys are sequences: of components in `FilterCommand`, where slashes matter, of
  characters in `Decoders`, where the encoding does. A setting's value is its
  text, a size a number of MiB; `Usize` is the width of a 32-bit target.
* An SNS wrapper in `Decoders` has the `Type` that SNS always writes. `auto` looks
  at it and `unwrap_sns` does not, so without one the two would part.
* `FilterCommand` takes each object's filtering as one step with the outcomes
  `StreamRun` shows it to have, and each write as one step that may tear a local
  file where the code writes in place.
* In `ConfigStore` each edit of the document has a tag of its own, and clocks
  stop at `Horizon`, which exceeds the TTL, so no comparison the code makes is
  affected.

Definitions marked `Mutant` in comments are deliberately wrong variants of the
definition that follows them, and are used by nothing. Each property has one
(`PROJECT.json`, `mutants`): with the definition replaced by the variant, TLC
finds the property violated.

## 3. Runs

| Run | Bounds | States | What it shows |
|---|---|---|---|
| `stream_run` | every envelope with up to 2 records; one-record envelopes with a cell replaced by junk or a corrupt block, cut anywhere, with an extra gzip member boundary anywhere, a trailing value, a corrupt second member; one-record envelopes, the undecodable record's included, with a second `Records` key or an opaque member anywhere; arrays of an array; other JSON shapes. All channels of capacity 1, parts of 2 items | 639 000 | the tasks in every interleaving, with every failure: an object that lands is complete (`DestinationComplete`), the answer is true (`OutcomeMatchesDestination`), the verdict and counters are buffer mode's, or the body is one of `ReadApart` and is `Unrecognized` (`ModeParity`), counters are published once and balance (`CountersSettled`), no orphan upload, it returns (`Terminates`), and it implements `FilterObject` (`FilterSpec`) |
| `copy_stream` | sources of 0 to 5 items, parts of 2, reads of any length | 724 | copies are verbatim at every length around the part size, billed once, and return |
| `pipeline` | one object of each verdict, size and announced size under all 576 settings, with and without a ruleset; and up to 3 messages, poison, empty, excluded, looping or with two objects, with and without ack ids, concurrency 1 and 3 | 338 000 | what may be written (`DestinationAllowed`) and acknowledged (`AckedMeansSettled`), counters that reconcile, every object accounted for, failures attributed to the right message at any concurrency, and the batch ends |
| `delivery` | two containers, a message with two objects and a poison one, two receives, SQS with and without partial failures and `ReportBatchItemFailures`, and asynchronous invocation | 618 000 | with kills, failed starts, late visibility timeouts and redelivery: a message that is deleted had its objects written (`NothingLost`), no message is dead-lettered for another's failure (`BatchmatesSpared`), one snapshot per answer, and every message is settled |
| `config_store` | 2 edits, TTL 2, horizon 3, both kinds of source | 38 000 | no stale pin, honest age, bounded staleness, nothing lost, eventually fresh |
| `rules` | *index*: rulesets of up to 2 rules of up to 2 conditions, 3 values, wildcard paths with up to 2 elements. *record*: documents two levels deep, 2 members or elements each, repeated keys, undecodable strings. *pattern*: anchored, unanchored, alternated and flagged patterns of up to 2 atoms and groups, against values of up to 3 characters. *document*: every field text of up to 5 characters, every operator and regex class, 3 rules around each ceiling | 592 000 | the indexed decision is the linear one; a projected record reads like a parsed one; no literal is missing; what parses compiles, and says all its fields say; `--max-unindexed` is exact |
| `filter` | one object of every kind between every pair of locations under all 72 settings; trees of 2 or 3 of nine awkward keys; local trees into themselves or a directory of their own; single files | 104 000 | exit code 0 means a complete backfill, the summary is true, a torn file is always reported, nothing but the destination is touched |
| `boundary` | *settings*: every pair of fields over file and environment, and the validated ones in triples. *event*: keys of up to 3 characters in every wrapping, and damaged payloads. *body*: bodies of up to 11 bytes in up to 4 members, word of 32, caps around the sizes | 35 000 | the override wins, only what is in effect is refused, and a container that loaded its settings fails on none but an unresolvable `rules.uri`; the keys are those the bucket stores and no event vanishes; a body comes back whole or is an error, at the width of the integers too |
| `dry_run_without_rules`, `extract_word_boundary`, `filter_collapsing_keys`, `settings_validated` | as the run of their module | | expected violations, see section 6 |

Why these bounds are enough to be interesting: capacity 1 makes every send block
as soon as its consumer lags, and any larger capacity only delays that; two
records are the least that can be split over two flushes and two parts, with a
dropped one between survivors; parts of 2 make bodies end on, before and after a
boundary; two edits are the least that can put one write between stat and read
and another after the answer; three messages are the least in which an early
object failure, a late decode error and an innocent message meet; two rules are
the least in which a constrained rule created after an unconstrained one, or the
reverse, shares a bucket with it; two containers are the least in which one
message is handled twice at a time, and two receives the least in which a
neighbour's failure can use one up; two members are the least in which a key is
repeated, and two levels the least in which a repeated key must take its
children's values with it; two objects are the least of which one fails and the
next must still be tried.

Fairness. `StreamRun`: each of the four tasks is polled by the runtime until it
ends (`WF` per task, and for the join); nothing makes the extraction task panic.
`CopyStream` and `Pipeline`: one future drives everything, so whatever can go on
does. A request always gets an answer, if only an error: the SDK's timeouts
stand behind that. `ConfigStore`: time passes, invocations keep coming (`WF`),
and a request that is made over and over does not fail for ever (`SF` on each
step a failure competes with); without the latter, a source that is down for
good would of course never be read. `Delivery`: the poller keeps polling while a
message is visible, and a container that runs goes on until it answers or is
killed (`WF`); nothing makes a kill, a failed start or a visibility timeout
happen.

Deadlock is checked where something must not get stuck: `stream_run`,
`copy_stream`, `pipeline` and `config_store`; there, a function that returned
stutters in an explicit final step. The other modules describe a function or a
command that ends, or a queue that is emptied, and a state without a successor
is the end of it (`CHECK_DEADLOCK FALSE`); that `Delivery` ends only where it
should is `EveryMessageSettles`.

## 4. Proofs

All by TLAPS, for all values of the constants, from the named assumptions of the
modules: capacities and part size positive, bodies sequences of cells, TTL below
the horizon, batches of well-formed items, finitely many objects, jobs of finitely
many objects each with a key of its own (`JobsAssumption`), bodies shorter than
the width of an integer and caps that fit it (`GzipAssumption`), numerals that
read as naturals, the numeric defaults among them (`NumeralAssumption`), literals
extracted from a regex covering what it matches, and `KeysAssumption` (below).

* **`StreamRunProofs`** — `StreamRunIsTyped`, `StreamRunOutcomeIsTrue`,
  `StreamRunLeavesNoOrphan`; `DestinationIsComplete`, `ModesAgree`,
  `CountersAreSettled`, `StreamRunImplementsFilter`. `TypeInv` adds to `TypeOK`
  that chunks lie within the output produced. `OutcomeInv` adds the argument of
  the code's comments: a run given up has left the sentinel at the end of the
  output channel (`SentinelInv`) until the upload has read it, so only a written
  run reaches `CompleteMultipartUpload` (`CommitInv`). Then the two modes, for
  every body: they agree, but for the bodies of `ReadApart`, which stream mode
  answers with `Unrecognized` and an empty tally (section 6). `ParityInv` follows a body through the tasks: the
  cells the parser has consumed are a prefix of the body, and `Parsed` says of
  each parser state how such a prefix reads (`ParseInv`); at the end, or at the
  first cell that does not fit, that makes the body an envelope, another JSON
  text (`IsText`) or neither; the records passed are
  processed, queued or in hand, in source order (`QueueInv`); tally and output
  are functions of the processed ones (`TallyInv`, `StreamInv`); what
  `put_stream` has read and what is on its way are the output, without a gap
  (`OutputInv`). From it, each step maps to a step of `FilterObject` or a
  stutter. `Envelope` defines what a body holds by positions (there is an `open`
  cell with only records behind it, and so on) and not by recursion, which is
  what makes an argument by prefixes possible.
* **`CopyStreamProofs`** — `CopyIsVerbatim`, `CopyIsBilledOnce`. `CopyInv`: what was
  read is a prefix of the source as long as `CountingReader` says, less the chunk
  on its way (`ReadInv`), and the reader ends cleanly only at the source's end.
* **`PipelineProofs`** — `DestinationIsAllowed`, `AckedIsSettled`,
  `FailuresAreAttributed`, `EveryObjectIsAccounted`, `CountersDoReconcile`: every
  invariant of the run. One lemma (`FutureAdvances`) reduces each of the steps of
  an object's future to `Advances`: the future moves to a place that fits what it
  has established (`FutureOK`), the destination changes only to what its object
  may have there (`Puttable`), and the counters that move fit where it got to.
  From there destination (`DestInv`, `OkInv`) and counters (`Counts`) follow one
  future at a time; the counters are cardinalities of sets of futures, with two
  sets around `BytesIn`, of the futures that may and of those that must have
  billed. Adjudication (`AttributionInv`) is a function of the results taken and
  the items classified. `KeysAssumption`: two references with one key agree on
  the object's verdict and on the key filter's answer (they may still announce
  different sizes, and be judged in different modes: for a body of `ReadApart`
  the assumption says that they are not). `dest_key` depends on the source key alone, so this says that
  a batch is of one source bucket, in which an object is written once; without it
  two buckets with one key overwrite each other's output, by design of the code.
* **`DeliveryProofs`** — `NothingIsLost`, `BatchmatesAreSpared`,
  `SnapshotIsPerInvocation`: every invariant of the run, for any number of
  messages, containers and receives. `BatchInv`: at every moment of an invocation
  a message that has not failed has each object stored or still to be attempted.
  `CollateralInv`: a receive that is neither in progress nor to be blamed on the
  message or the platform was answered, and then its objects were stored.
* **`RuleIndexProofs`** — `IndexedDecisionIsLinear`. `DecisionIsLinear` is not
  inductive: it says nothing before a decision. `IndexInv` adds that each rule
  walked by `build` is in the bucket of every literal of its key or among the
  unconstrained ones (`EnteredSoFar`), that after the second pass every bucket
  includes the unconstrained rules (`BucketsComplete`), that what the evaluator
  sees is the record or a projection of it that no wildcard rule looks at
  (`SeesRecord`), and that the rules walked past do not fire (`WalkedPast`). The
  key lemma is `FiringRuleIsPermitted`: a rule that fires has, for each indexed
  field, a value its key names.
* **`ConfigStoreProofs`** — `StoreIsTyped`, `StoreNeverPinsStaleRules`,
  `StoreHoldsCompiledRules`, `StoreAgeIsHonest`, `StoreStalenessIsBounded`,
  `StoreNeverLosesRuleset`: every invariant and action property of the run.
  `StoreInv` orders revisions: tag ≤ cached content ≤ sampled content ≤ current, and
  `since[sampled] ≤ elapsed`, since the call's instant is taken before the
  request is sent.
* **`FilterCommandProofs`** — `EveryObjectIsAttempted`, `SummaryIsHonest`,
  `WritesDoStayUnderDestination`, `NothingElseIsTouched`, `DamageIsReported`,
  `ExitIsHonest`: every invariant of the run. The argument goes by the position
  `cur` in the listing. What lies before it has been reported and nothing else
  has (`ProgressInv`); while its object is processed, `destination` is that
  object's mirror and is not its source (`CurrentInv`); what is held of it is
  what its verdict calls for (`HeldInv`, `ContentInv`); what is stored besides
  the sources are mirrors of objects before it (`PlacesInv`), torn only if the
  object failed (`DamageInv`), and what the object is due if it did not
  (`DeliveredInv`). Two hypotheses on the job, which the code does not check and
  which are therefore hypotheses and not assumptions: no object's mirror is
  another object's source (`Disjoint`, for the sources, the damage and the exit
  code), and no two objects that can be written share a mirror (`MirrorsApart`,
  for the exit code; the run `filter_collapsing_keys` refutes it without, section
  6). That every object is attempted, that writes stay under the destination and
  that the summary is true need neither.
* **`BoundaryProofs`** — `BodiesComeBackWhole`, `SettingsAreInEffect`. The body
  handed to `gzip_compress_chunked` is the concatenation of its members at any
  length and any number of chunks (`GzipInv`: those joined are the first of
  them), and the caps are right at the width of the integers. A container that
  serves holds the merged document, in which the environment's value wins field
  by field, and `from_parts` accepted it (`SettingsInv`). Past `load`, INIT ends in
  an error exactly when the `rules.uri` in effect names no source, which
  `validate` does not look at (section 6), and no other value fails INIT or the
  first object. `FlattenSeq` and the
  chain of overrides in `apply_env` are recursive functions; what the proofs need
  of them follows from their equations, which have one solution: two solutions
  would differ at a least place, and there the equation makes them equal
  (`FlattenUnique`, `AppliedUnique`).

A proof attempt corrected one property: `PreviewFaithful` claimed a count for every
preview, also for one of a single object that has no key to be written to and
ends before that object is read. It now leaves that case out.

Each inductive invariant was checked by TLC on the run of its module before it
was proved.

The assumption of `RuleIndexProofs` about literals is not proved but checked:
`ExtractLiterals` shows it for the patterns of the run `rules`, and refutes it for
word boundaries (section 6).

Only model-checked: all liveness (`Terminates`, `CopyTerminates`,
`HandleReturns`, `EventuallyFresh`, `EveryMessageSettles`), which is beyond the
prover; and what is defined by `RECURSIVE` operators over text or documents, which
the prover's induction does not reach: `RecordsReadAlike`, `LiteralsComplete`,
`DocumentsBuild`, `FieldsNeverSilent` and `GateTruthful` (`FieldPath`,
`Projection`, `ExtractLiterals`, `RulesDocument`) and `EventsDecoded`
(`Decoders`).

## 5. Not modelled

* EMF lines, log output, the CLI's printing and argument parsing, and its `test`
  command, which prints decisions and changes nothing.
* The HTTP client (construction only) and the test kit.
* `DiscardStore` draining its reader: a dry run's `stream_run` is one step.
* `buffer_run`'s capacity hint: no observable state.
* A source object that changes between two reads of it, and two writes of a
  rules file with the same mtime.
* The YAML, JSON, gzip and regex engines themselves, beyond what the code in
  `src/` relies on them for.
* `filter` from a local directory into one that contains it, or from one prefix
  into an overlapping one: an object can then land on another object's source.
  The pairs of the run do not do that, and `Disjoint` excludes it where a theorem
  needs it (section 4). The
  temporary siblings a killed or failed local write leaves are tracked
  (`partials`), but nothing is claimed of them.

## 6. Findings

* **A dry run can write.** `behavior.dry_run` with `on_config_error: open` and no
  cached ruleset takes `raw_copy` (`pipeline.rs:263`), which does not look at
  `dry_run`. `docs/deployment.md:201` promises that "the pipeline touches the
  destination bucket not at all". Run `dry_run_without_rules`. With a ruleset
  the promise holds (`DestinationAllowed`).
* **A word boundary is indexed as a character.** `unescape_literal`
  (`index.rs:307`) takes any escaped punctuation for itself, but `\<` and `\>`
  are word boundaries to the regex crate. A rule on `^\<a$` is indexed under the
  literal `<a` and never tried on `a`, which it matches, so what it should drop
  is kept. `index.rs:4-5` calls that "a silent correctness bug". Run
  `extract_word_boundary`.
* **Two keys, one file.** `contain_rel` (`cli/src/main.rs:614`) drops empty
  components, so `a//b` and `a/b` under one prefix are written to the same local
  file and the run exits 0, while `docs/cli.md:92-93` says that each object's
  relative path is mirrored. Run `filter_collapsing_keys`.
* **A validated document need not start.** `validate` does not look at
  `rules.uri`, so `validate-settings` accepts one that `ConfigUri::parse` refuses
  in INIT (`lambda-s3/src/main.rs:36`), while `docs/configuration.md:242` says
  that a bad settings file "is caught before it ships". Run `settings_validated`.

Smaller disagreements, not given a run:

* `stream.rs:279` says of a body without one `Records` array that it "is
  `Unrecognized`, matching buffer mode". Two kinds of bodies (`ReadApart`) do not
  match. A JSON text that is no envelope and holds a value only a full parse
  rejects, for instance a repeated `Records` key beside a record with a lone
  surrogate, fails `from_slice::<Value>` and is `CoreError::Json` in buffer mode
  (`buffer.rs:158-162`), so that `on_parse_error` applies and not
  `on_unrecognized_object`. And a top-level array of one array, `[[{..}]]`, is an
  envelope to the derived `Deserialize` of `buffer.rs:39-43`, which takes a
  struct's fields in order too; buffer mode filters and writes it, stream mode
  skips it (`stream.rs:335-341`). CloudTrail writes neither. `ModeParity` states
  both and no others.
* `ObjectsCopiedUnparsed` moves before the copy (`pipeline.rs:779`), so it counts
  copies that failed; `docs/metrics.md:42` says the object "was forwarded
  verbatim", and line 109 that nothing is lost.
* `docs/deployment.md:178` and `docs/cli.md:109` have `mode: buffer` opt out of
  the retry through stream mode; it applies in every mode (`pipeline.rs:478`).
* `docs/metrics.md:100` reads `Errors > 0` with `ObjectsFailed == 0` as a failure
  before any object was attempted; a poison message fails the batch only after
  its siblings were processed (`pipeline.rs:187`).
* A dry run of an unrecognized object under `on_unrecognized_object: error`
  succeeds where the live run fails (`pipeline.rs:543`, and in the CLI, where
  `docs/cli.md:114` equates the two verdicts).
* `docs/configuration.md` has `SETTINGS_URI` accept `s3://` and `ssm://`;
  `read_settings_uri` (`settings.rs:726`) refuses them and no binary fetches them.
* `eventbridge.rs:3-4` says that other detail types decode to nothing; `detail` is
  deserialized first, so one of another shape fails the payload.
* `docs/cli.md:111-112` lists `multipart_part_bytes` and `object_concurrency` as
  honoured by `filter`, which uses neither. `log_level` is parsed and never read.

## 7. Plan

Done, in this order: `Envelope`, `PutStream`, `StreamRun`, `FilterObject`;
`CopyStream`; `Pipeline`; `ConfigStore`; `RuleIndex`; their first three proof
modules; `ExtractLiterals`, `FieldPath`, `Projection`, `RulesDocument`;
`SettingsDocument`, `Decoders`, `GzipMembers`; `Delivery`; `FilterCommand`; the
proofs about `CopyStream`, `Delivery`, `StreamRun` against `Envelope` and
`FilterObject`, `Pipeline`, `FilterCommand`, `GzipMembers` and
`SettingsDocument`.

Left, most important first:

1. `RulesDocument` and `Decoders` with their recursion written as recursive
   functions, so that the argument of `BoundaryProofs` (a recursive function is
   the one solution of its equation) applies to them.
2. `ExtractLiterals` against what a regex matches, which would turn the
   assumption of `RuleIndexProofs` into a theorem. It needs an induction over
   patterns.
