-------------------------- MODULE SettingsDocument --------------------------
(***************************************************************************)
(* The settings document: the file that SETTINGS_URI names (or the        *)
(* built-in defaults), the CT_* overrides laid over it, the validation of *)
(* the result, and what the INIT of a Lambda binary then makes of it. The *)
(* same document also goes through the CLI's validate-settings.           *)
(*                                                                         *)
(* A value is its text; a numeral's number is Numeral[text]. Sizes are in *)
(* MiB, so the 2^32 bytes of a 32-bit usize are the number Usize.         *)
(***************************************************************************)
EXTENDS Integers, Sequences

CONSTANTS
    Deployments, \* The [uri, file, env] a container may be started with.
    Numeral,     \* The texts that are numbers, and the numbers they are.
    Usize        \* One more than the largest usize of the target, in MiB.

VARIABLES
    deployed,  \* The deployment of this container.
    doc,       \* The Document the container holds: the defaults until it is loaded.
    preflight, \* What validate-settings says of it: "unasked", "ok", "refused".
    pc         \* Where INIT is, or how it and the first object ended.

vars == <<deployed, doc, preflight, pc>>

-----------------------------------------------------------------------------
(* The largest and smallest numbers of a setting.                          *)

S3MinMultipartPart == 5
MaxGzipLevel == 9
MaxGzipChunks == 16
MaxObjectConcurrency == 64
DefaultMultipartPart == 8

Words ==
    [mode |-> {"auto", "buffer", "stream"}, fail |-> {"open", "closed"},
     missing |-> {"error", "skip"}, unrecognized |-> {"copy", "skip", "error"},
     unparsable |-> {"copy", "error"}, large |-> {"stream", "error"},
     format |-> {"auto", "s3", "sns"}, metrics |-> {"emf", "none"},
     bool |-> {"true", "false"}]

Field(kind, default) == [kind |-> kind, default |-> default]

(* Every field of the document: the type it is parsed as, its default.    *)
Schema ==
    [bucket |-> Field("text", ""),
     key_prefix |-> Field("text", ""),
     include_key_regex |-> Field("text", "gz"),
     exclude_key_regex |-> Field("text", "digest"),
     mode |-> Field("mode", "auto"),
     stream_threshold_bytes |-> Field("number", "8"),
     max_object_bytes |-> Field("number", "128"),
     multipart_part_bytes |-> Field("number", "8"),
     gzip_level |-> Field("number", "6"),
     object_concurrency |-> Field("number", "1"),
     gzip_chunks |-> Field("number", "1"),
     dry_run |-> Field("bool", "false"),
     on_config_error |-> Field("fail", "open"),
     on_missing_object |-> Field("missing", "error"),
     on_unrecognized_object |-> Field("unrecognized", "copy"),
     on_parse_error |-> Field("unparsable", "copy"),
     on_object_too_large |-> Field("large", "stream"),
     partial_batch_failures |-> Field("bool", "true"),
     body_format |-> Field("format", "auto"),
     rules_uri |-> Field("text", "s3://sec-config/rules"),
     rules_ttl_seconds |-> Field("number", "300"),
     metrics |-> Field("metrics", "emf"),
     namespace |-> Field("text", "cloudtrail-rs"),
     log_level |-> Field("text", "info")]

Fields == DOMAIN Schema

Defaults == [f \in Fields |-> Schema[f].default]

(* The defaults of the numbers are numerals.                               *)
ASSUME NumeralAssumption ==
    /\ \A text \in DOMAIN Numeral : Numeral[text] \in Nat
    /\ \A f \in Fields : Schema[f].kind = "number" => Defaults[f] \in DOMAIN Numeral

(* The variables of apply_env, in the order it reads them.                *)
Overrides ==
    << <<"CT_DEST_BUCKET", "bucket">>, <<"CT_KEY_PREFIX", "key_prefix">>,
       <<"CT_SOURCE_INCLUDE_KEY_REGEX", "include_key_regex">>,
       <<"CT_SOURCE_EXCLUDE_KEY_REGEX", "exclude_key_regex">>,
       <<"CT_PROCESSING_MODE", "mode">>,
       <<"CT_STREAM_THRESHOLD_BYTES", "stream_threshold_bytes">>,
       <<"CT_MAX_OBJECT_BYTES", "max_object_bytes">>,
       <<"CT_MULTIPART_PART_BYTES", "multipart_part_bytes">>,
       <<"CT_GZIP_LEVEL", "gzip_level">>,
       <<"CT_OBJECT_CONCURRENCY", "object_concurrency">>,
       <<"CT_GZIP_CHUNKS", "gzip_chunks">>, <<"CT_DRY_RUN", "dry_run">>,
       <<"CT_ON_CONFIG_ERROR", "on_config_error">>,
       <<"CT_ON_MISSING_OBJECT", "on_missing_object">>,
       <<"CT_ON_UNRECOGNIZED_OBJECT", "on_unrecognized_object">>,
       <<"CT_ON_PARSE_ERROR", "on_parse_error">>,
       <<"CT_ON_OBJECT_TOO_LARGE", "on_object_too_large">>,
       <<"CT_PARTIAL_BATCH_FAILURES", "partial_batch_failures">>,
       <<"CT_SQS_BODY_FORMAT", "body_format">>, <<"CT_RULES_URI", "rules_uri">>,
       <<"CT_RULES_TTL_SECONDS", "rules_ttl_seconds">>,
       <<"CT_METRICS", "metrics">>, <<"CT_METRICS_NAMESPACE", "namespace">>,
       <<"CT_LOG_LEVEL", "log_level">> >>

-----------------------------------------------------------------------------
(* Parsing a value: FromStr of an override, Deserialize of a file's field. *)

Parses(f, text) ==
    LET kind == Schema[f].kind IN
    CASE kind = "text" -> TRUE
      [] kind = "number" -> text \in DOMAIN Numeral
      [] OTHER -> text \in Words[kind]

(* std::env::var(key).ok(): a value that is not Unicode reads as unset.   *)
EnvLookup(env, key) ==
    IF key \in DOMAIN env THEN env[key] ELSE "notUnicode"

(* Document::deserialize under deny_unknown_fields.                        *)
FileParses(file) == ~file.unknown /\ \A f \in DOMAIN file.fields : Parses(f, file.fields[f])

FromFile(file) ==
    [version |-> file.version,
     values |-> [f \in Fields |-> IF f \in DOMAIN file.fields THEN file.fields[f]
                                                            ELSE Defaults[f]]]

(* Document::default, when there is no file.                               *)
NoFile == [version |-> 1, values |-> Defaults]

(* apply: one override laid over the document.                             *)
Apply(values, override, text) == [values EXCEPT ![override[2]] = text]

(* apply_env: the overrides in order; the first that does not parse is    *)
(* the error. Applied[i] is the document after i of them.                 *)
EnvParses(env) ==
    \A i \in 1..Len(Overrides) :
        LET text == EnvLookup(env, Overrides[i][1]) IN
        text = "notUnicode" \/ Parses(Overrides[i][2], text)

ApplyEnv(values, env) ==
    LET Applied[i \in 0..Len(Overrides)] ==
            IF i = 0 THEN values
            ELSE LET text == EnvLookup(env, Overrides[i][1]) IN
                 IF text = "notUnicode" THEN Applied[i - 1]
                 ELSE Apply(Applied[i - 1], Overrides[i], text)
    IN Applied[Len(Overrides)]

-----------------------------------------------------------------------------
(* Document::validate.                                                     *)

(* External: the pattern compiles under REGEX_SIZE_LIMIT.                  *)
Compiles(pattern) == pattern # "("

KeyFilterCompiles(v) == Compiles(v["include_key_regex"]) /\ Compiles(v["exclude_key_regex"])

Validate(d) ==
    LET v == d.values
        n(f) == Numeral[v[f]]
    IN /\ d.version = 1
       /\ v["bucket"] # ""
       /\ KeyFilterCompiles(v)
       /\ n("gzip_level") <= MaxGzipLevel
       /\ n("object_concurrency") \in 1..MaxObjectConcurrency
       /\ n("gzip_chunks") \in 1..MaxGzipChunks
       /\ n("max_object_bytes") >= n("stream_threshold_bytes")
       /\ n("multipart_part_bytes") >= S3MinMultipartPart

(* The Document that from_parts starts from: a file, or <<>> for none.    *)
HasFile(d) == d.file # <<>>

Parsed(d) == IF HasFile(d) THEN FromFile(d.file[1]) ELSE NoFile

Merged(d) == [Parsed(d) EXCEPT !.values = ApplyEnv(@, d.env)]

(* Settings::from_parts answers Ok, with Merged(d). Mutant: the file is   *)
(* judged before the overrides.                                           *)
FromPartsFileFirst(d) ==
    /\ HasFile(d) => FileParses(d.file[1]) /\ Validate(Parsed(d))
    /\ EnvParses(d.env)
    /\ Validate(Merged(d))

FromParts(d) ==
    /\ HasFile(d) => FileParses(d.file[1])
    /\ EnvParses(d.env)
    /\ Validate(Merged(d))

-----------------------------------------------------------------------------
Init ==
    /\ deployed \in Deployments
    /\ doc = NoFile
    /\ preflight = "unasked"
    /\ pc = "load"

Missing(d) == d.uri # "unset" /\ ~HasFile(d)

(* validate-settings: the document, wherever the operator keeps it, and   *)
(* the environment the container will have, before it is deployed.        *)
ValidateSettings ==
    /\ preflight = "unasked"
    /\ pc = "load"
    /\ preflight' = IF ~Missing(deployed) /\ FromParts(deployed) THEN "ok" ELSE "refused"
    /\ UNCHANGED <<deployed, doc, pc>>

Exit(reason) == pc' = reason /\ UNCHANGED <<deployed, doc, preflight>>

(* read_settings_uri: only file:// is read here, and it may not be there. *)
ReadRefused ==
    /\ pc = "load"
    /\ deployed.uri \in {"s3", "ssm", "other"}
    /\ Exit("unsupported")

ReadFails ==
    /\ pc = "load"
    /\ deployed.uri = "file"
    /\ Missing(deployed)
    /\ Exit("unreadable")

(* Settings::load.                                                         *)
Load ==
    /\ pc = "load"
    /\ deployed.uri \in {"unset", "file"}
    /\ ~Missing(deployed)
    /\ IF FromParts(deployed)
       THEN pc' = "compose" /\ doc' = Merged(deployed)
       ELSE pc' = "refused" /\ doc' = doc
    /\ UNCHANGED <<deployed, preflight>>

(* S3ObjectStore::from_settings.                                           *)
PartBytes(v) ==
    LET n == Numeral[v["multipart_part_bytes"]] IN
    IF n < Usize THEN n ELSE DefaultMultipartPart

(* ConfigUri::parse: an s3:// location needs a key after its bucket.       *)
Resolvable(uri) ==
    uri \in {"s3://sec-config/rules", "ssm:///rules", "file:///rules"}

(* The rest of INIT: build_config_source, prime (which never fails) and   *)
(* Pipeline::new, which panics on a key pattern that does not compile.    *)
Compose ==
    /\ pc = "compose"
    /\ IF ~Resolvable(doc.values["rules_uri"]) THEN Exit("rulesUri")
       ELSE IF ~KeyFilterCompiles(doc.values) THEN Exit("panic")
       ELSE Exit("serve")

(* The first object, in either mode. External: flate2 panics above its    *)
(* highest level, buffered(0) never polls a future, S3 refuses a          *)
(* complete with a short part, and a take() below the threshold turns     *)
(* every object that auto sends to buffer mode away.                      *)
Serve ==
    /\ pc = "serve"
    /\ LET v == doc.values
           n(f) == Numeral[v[f]]
       IN Exit(CASE n("gzip_level") > 9 -> "panic"
                 [] n("object_concurrency") = 0 -> "stalled"
                 [] PartBytes(v) < 5 -> "entityTooSmall"
                 [] n("max_object_bytes") < n("stream_threshold_bytes") -> "alwaysTooLarge"
                 [] OTHER -> "served")

Next == ValidateSettings \/ ReadRefused \/ ReadFails \/ Load \/ Compose \/ Serve

Spec == Init /\ [][Next]_vars

-----------------------------------------------------------------------------
(* Properties.                                                             *)

(* Settings::load answered Ok, whatever INIT has made of it since.         *)
Loaded == pc \in {"compose", "rulesUri", "serve", "served"}

(* The value a deployment means for a field, by the documented precedence. *)
Effective(f) ==
    LET set == {i \in 1..Len(Overrides) :
                  /\ Overrides[i][2] = f
                  /\ EnvLookup(deployed.env, Overrides[i][1]) # "notUnicode"}
    IN IF set # {} THEN deployed.env[Overrides[CHOOSE i \in set : TRUE][1]]
       ELSE IF HasFile(deployed) /\ f \in DOMAIN deployed.file[1].fields
            THEN deployed.file[1].fields[f]
            ELSE Defaults[f]

(* Settings::from_parts: in a container that has loaded its settings, each *)
(* of the 24 fields holds its own override, else what the file says, else *)
(* its default, whatever other fields were overridden with.               *)
EnvWinsOverFile == Loaded => \A f \in Fields : doc.values[f] = Effective(f)

(* Document::validate judges the merged document and nothing else: a file *)
(* value that an override repairs does not stop a container, and settings *)
(* are refused only when a file or override does not parse or when the    *)
(* values in effect break a rule.                                          *)
RefusedOnMergeOnly ==
    pc = "refused" =>
        \/ HasFile(deployed) /\ ~FileParses(deployed.file[1])
        \/ ~EnvParses(deployed.env)
        \/ ~Validate([version |-> Parsed(deployed).version,
                      values |-> [f \in Fields |-> Effective(f)]])

(* What becomes of settings that load.  A rules.uri that ConfigUri::parse  *)
(* rejects fails INIT, which validate leaves to it, and nothing else does: *)
(* a container serves exactly when that value is good.  Otherwise nothing  *)
(* fails on a value: Pipeline::new does not panic, nor does flate2 on the  *)
(* first object, no object waits for a slot that does not exist, and no    *)
(* upload is completed with a part S3 finds too small, on a target whose   *)
(* usize is narrower than the setting included.                            *)
LoadedSettingsRun ==
    /\ pc \notin {"panic", "stalled", "entityTooSmall", "alwaysTooLarge"}
    /\ pc = "rulesUri" => ~Resolvable(Effective("rules_uri"))
    /\ pc \in {"serve", "served"} => Resolvable(Effective("rules_uri"))

(* Settings::load and what runs on it: a container holds, field by field,  *)
(* its override, else its file's value, else the default; it is refused    *)
(* for the values in effect only; and once loaded the one value it can     *)
(* still fail on is a rules.uri in effect that no source answers to.       *)
SettingsInEffect == EnvWinsOverFile /\ RefusedOnMergeOnly /\ LoadedSettingsRun

(* docs/configuration.md: after validate-settings accepts a deployment,   *)
(* its cold start does not fail on the settings or on an override.        *)
ValidatedStarts == preflight = "ok" => pc # "rulesUri"
=============================================================================
