-------------------------- MODULE MCFilterCommand ---------------------------
(* Instances of FilterCommand: one object of every kind, between every     *)
(* pair of locations, under every combination of settings; and trees whose *)
(* keys are awkward, under a few settings.                                 *)
EXTENDS FilterCommand

AllSettings ==
    [mode : {"buffer", "stream", "auto"}, tooLarge : {"stream", "error"},
     parse : {"copy", "error"}, unrecognized : {"copy", "skip", "error"},
     dryRun : BOOLEAN]

Default == [mode |-> "auto", tooLarge |-> "stream", parse |-> "copy",
            unrecognized |-> "copy", dryRun |-> FALSE]

Object(key, verdict) == [key |-> key, verdict |-> verdict, over |-> FALSE,
                         large |-> FALSE, allowed |-> TRUE]

OnS3(path) == [bucket |-> "s3", path |-> path]
OnDisk(path) == [bucket |-> "", path |-> path]

Job(src, dst, tree, settings) ==
    [src |-> src, dst |-> dst, single |-> FALSE, tree |-> tree, cfg |-> settings]

(* A local directory is named without its last slash, a prefix with it.    *)
Sources == {OnS3(<<"logs", "">>), OnDisk(<<"logs">>)}
Destinations == {OnS3(<<"out", "">>), OnDisk(<<"out">>)}

PolicyJobs ==
    {Job(src, dst, {s}, settings) :
        src \in Sources, dst \in Destinations, settings \in AllSettings,
        s \in [key : {<<"logs", "a">>},
               verdict : {"Written", "NothingKept", "Unparsable", "Unrecognized"},
               over : BOOLEAN, large : BOOLEAN, allowed : {TRUE}]}

(* Keys of an S3 listing, each under its own verdict.                      *)
AwkwardTree ==
    {Object(<<"logs", "a", "b">>, "Written"),
     Object(<<"logs", "", "a">>, "Written"),
     Object(<<"logs", "..", "b">>, "Unparsable"),
     Object(<<"logs", ".", "a">>, "Unrecognized"),
     Object(<<"logs", "b", "">>, "Unrecognized"),
     Object(<<"logs", "">>, "Written"),
     Object(<<"logs", "a">>, "NothingKept"),
     [Object(<<"logs", "out">>, "Written") EXCEPT !.allowed = FALSE],
     Object(<<"b", "a">>, "Written")}

AwkwardTrees ==
    {t \in SUBSET AwkwardTree : Cardinality(t) \in {2, 3}}

BatchSettings ==
    {Default, [Default EXCEPT !.mode = "stream"],
     [Default EXCEPT !.unrecognized = "error"],
     [Default EXCEPT !.dryRun = TRUE]}

(* No two keys of a tree name the same local file under `logs/`.           *)
AwkwardJobs ==
    {Job(OnS3(pair[1]), pair[2], t, settings) :
        pair \in {<<<<"logs", "">>, OnDisk(<<"out">>)>>}
                 \cup {<<"logs", "">>, <<"logs">>}
                     \X {OnS3(<<"out", "">>), OnS3(<<"logs", "">>), OnS3(<<"">>)},
        t \in AwkwardTrees,
        settings \in {Default, [Default EXCEPT !.mode = "stream"]}}

TwoFiles == {Object(<<"logs", "a">>, "Written"), Object(<<"logs", "b">>, "Unrecognized")}

(* Local trees: into another directory, into themselves, into a directory  *)
(* of their own; and a single named file.                                  *)
LocalJobs ==
    {Job(OnDisk(<<"logs">>), OnDisk(dst), TwoFiles, settings) :
        dst \in {<<"out">>, <<"logs">>, <<"logs", "out">>},
        settings \in BatchSettings}
    \cup {[Job(OnDisk(<<"logs", "a">>), dst, {Object(<<"logs", "a">>, v)},
               settings) EXCEPT !.single = TRUE] :
             v \in {"Written", "Unrecognized"},
             dst \in {OnDisk(<<"out">>), OnDisk(<<"logs", "a">>), OnS3(<<"">>),
                      OnS3(<<"out", "a">>)},
             settings \in BatchSettings}

BatchJobs == AwkwardJobs \cup LocalJobs

AllJobs == PolicyJobs \cup BatchJobs

(* Two keys of one listing whose local paths are the same file.            *)
CollapsingJobs ==
    {Job(OnS3(<<"logs", "">>), OnDisk(<<"out">>),
         {Object(<<"logs", "a", "b">>, "Written"),
          Object(<<"logs", "a", "", "b">>, v)}, Default) :
        v \in {"Written", "NothingKept", "Unparsable", "Unrecognized"}}
=============================================================================
