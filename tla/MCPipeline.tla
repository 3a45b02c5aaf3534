----------------------------- MODULE MCPipeline -----------------------------
(* Instances of Pipeline: one object of every kind under every combination *)
(* of settings; and batches of several messages under the settings         *)
(* adjudication looks at.                                                  *)
EXTENDS Pipeline

CONSTANT MaxItems   \* messages of a batch

PlainObject == [key |-> 1, verdict |-> "Written", over |-> "no",
                large |-> FALSE, allowed |-> TRUE, loops |-> FALSE]

ItemOf(ack, objects) == [ack |-> ack, bad |-> FALSE, objects |-> objects]

OneObjectBatches ==
    {<<ItemOf(TRUE, <<o>>)>> :
        o \in [key : {1}, verdict : Verdicts, over : {"no", "source", "body"},
               large : BOOLEAN, allowed : {TRUE}, loops : {FALSE}]}

PolicyConfigs ==
    [mode : {"buffer", "stream", "auto"}, concurrency : {1},
     tooLarge : {"stream", "error"}, missing : {"skip", "error"},
     parse : {"copy", "error"}, unrecognized : {"copy", "skip", "error"},
     config : {"open", "closed"}, partial : {TRUE}, dryRun : BOOLEAN]

OddItems(ack) ==
    {[ack |-> ack, bad |-> TRUE, objects |-> <<>>],
     ItemOf(ack, <<>>),
     ItemOf(ack, <<PlainObject>>),
     ItemOf(ack, <<[PlainObject EXCEPT !.key = 2, !.allowed = FALSE],
                   [PlainObject EXCEPT !.key = 3, !.verdict = "Unparsable"]>>),
     ItemOf(ack, <<PlainObject, [PlainObject EXCEPT !.key = 4, !.loops = TRUE]>>)}

MixedBatches ==
    UNION {UNION {[1..n -> OddItems(ack)] : n \in 1..MaxItems} : ack \in BOOLEAN}

BatchConfigs ==
    {[mode |-> "buffer", concurrency |-> n, tooLarge |-> "stream",
      missing |-> "skip", parse |-> "copy", unrecognized |-> "copy",
      config |-> "closed", partial |-> p, dryRun |-> FALSE] :
        n \in {1, 3}, p \in BOOLEAN}

PolicyCases == [batch : OneObjectBatches, cfg : PolicyConfigs]
AllCases == PolicyCases \cup [batch : MixedBatches, cfg : BatchConfigs]
=============================================================================
