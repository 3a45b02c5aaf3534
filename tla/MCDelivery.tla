----------------------------- MODULE MCDelivery -----------------------------
(* A message with two objects and a poison one, two containers.            *)
EXTENDS Delivery

MCRefs == [m \in Messages |-> IF m = "m1" THEN {"o1", "o2"} ELSE {}]

(* Each transport, SQS with and without partial_batch_failures and         *)
(* ReportBatchItemFailures; the ruleset may be unavailable under one.      *)
Config(transport, report, partial, closed) ==
    [transport |-> transport, report |-> report, partial |-> partial, closed |-> closed]

SomeConfigs == {Config("sqs", TRUE, TRUE, TRUE), Config("sqs", TRUE, FALSE, FALSE),
                Config("sqs", FALSE, FALSE, FALSE), Config("async", FALSE, TRUE, FALSE)}
=============================================================================
