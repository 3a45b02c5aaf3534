------------------------ MODULE MCSettingsDocument --------------------------
(* Deployments of SettingsDocument: every field set alone in the file and  *)
(* in the environment, and the validated ones in every pair.               *)
EXTENDS SettingsDocument, TLC

(* The numerals the deployments use, sizes in MiB.                         *)
MCNumeral ==
    ("0" :> 0) @@ ("1" :> 1) @@ ("4" :> 4) @@ ("5" :> 5) @@ ("6" :> 6) @@
    ("8" :> 8) @@ ("9" :> 9) @@ ("10" :> 10) @@ ("16" :> 16) @@ ("17" :> 17) @@
    ("64" :> 64) @@ ("65" :> 65) @@ ("128" :> 128) @@ ("300" :> 300) @@
    ("4097" :> 4097)

(* The values tried for a field: a good one, the bad and the boundary ones. *)
Tried ==
    [bucket |-> {"", "siem"}, include_key_regex |-> {"all", "("},
     exclude_key_regex |-> {"("}, stream_threshold_bytes |-> {"0", "9", "300"},
     max_object_bytes |-> {"0", "5", "lots"}, multipart_part_bytes |-> {"4", "5", "4097"},
     gzip_level |-> {"0", "9", "10"}, object_concurrency |-> {"0", "64", "65"},
     gzip_chunks |-> {"0", "16", "17"}, rules_uri |-> {"https://rules", "s3://nokey", "file:///rules"},
     mode |-> {"stream", "fast"}, key_prefix |-> {"p/"}, dry_run |-> {"true", "yes"},
     on_config_error |-> {"closed"}, on_missing_object |-> {"skip"},
     on_unrecognized_object |-> {"error"}, on_parse_error |-> {"error"},
     on_object_too_large |-> {"error", "copy"}, partial_batch_failures |-> {"false"},
     body_format |-> {"sns"}, rules_ttl_seconds |-> {"0"}, metrics |-> {"none"},
     namespace |-> {"ns"}, log_level |-> {"debug"}]

Sets == UNION {{<<f, t>> : t \in Tried[f]} : f \in Fields}

(* The fields whose values validate compares or bounds.                    *)
Judged == {s \in Sets : s[1] \in {"bucket", "stream_threshold_bytes", "max_object_bytes",
                                  "multipart_part_bytes", "gzip_level", "include_key_regex"}}

(* A partial function given as pairs, the first of a field winning.        *)
Partial(S) == [f \in {s[1] : s \in S} |-> (CHOOSE s \in S : s[1] = f)[2]]

Variable(f) == (CHOOSE i \in 1..Len(Overrides) : Overrides[i][2] = f)

AsEnv(S) ==
    LET values == Partial(S) IN
    [key \in {Overrides[Variable(f)][1] : f \in DOMAIN values} |->
        values[Overrides[CHOOSE i \in 1..Len(Overrides) : Overrides[i][1] = key][2]]]

File(version, unknown, S) == <<[version |-> version, unknown |-> unknown, fields |-> Partial(S)]>>

InBucket == {<<"bucket", "siem">>}

Started(uri, file, env) == [uri |-> uri, file |-> file, env |-> env]

MCDeployments ==
    {Started("file", File(1, FALSE, InBucket \cup {s}), AsEnv({t})) : s, t \in Sets}
    \cup {Started("file", File(1, FALSE, {s}), AsEnv({t, u})) : s, t, u \in Judged}
    \cup {Started("unset", <<>>, AsEnv({t, u})) : t, u \in Sets}
    \cup {Started(uri, File(v, x, InBucket), AsEnv({t})) :
            uri \in {"s3", "ssm", "other", "file"}, v \in {1, 2}, x \in BOOLEAN, t \in Sets}
    \cup {Started(uri, <<>>, AsEnv(InBucket)) : uri \in {"file", "s3"}}
    \cup {Started("unset", <<>>, ("CT_DEST_BUCKET" :> "notUnicode"))}
=============================================================================
