------------------------------ MODULE Delivery ------------------------------
(***************************************************************************)
(* The four Lambda binaries at work: containers that start, are invoked    *)
(* with a batch of messages, answer, and may be killed at the function's   *)
(* timeout in the middle of it, under a queue (SQS with a redrive policy)  *)
(* or asynchronous invocation (S3, SNS, EventBridge) that delivers again   *)
(* what was not answered well.  Inside an invocation Pipeline::handle is   *)
(* cut to what Pipeline shows of it: every object is attempted, one after  *)
(* the other here, and a message fails when one of its objects does. No    *)
(* object is its own destination (the self-trigger fails every batch).     *)
(***************************************************************************)
EXTENDS Naturals, FiniteSets, FiniteSetsExt

CONSTANTS
    Messages,    \* The notifications sent.
    Containers,  \* The execution environments of the function.
    Poison,      \* The messages whose body does not decode.
    Refs,        \* Refs[m]: the objects message m names.
    MaxReceive,  \* maxReceiveCount, or the attempts of an asynchronous event.
    MaxBatch,    \* The batch size of the event source mapping.
    Configs      \* The [transport, report, partial, closed] considered.

ASSUME DeliveryAssumption ==
    /\ Poison \subseteq Messages
    /\ MaxReceive \in Nat \ {0} /\ MaxBatch \in Nat \ {0}
    /\ Configs \subseteq [transport : {"sqs", "async"}, report : BOOLEAN,
                          partial : BOOLEAN, closed : BOOLEAN]

Objects == UNION {Refs[m] : m \in Messages}

ASSUME ObjectsAssumption == IsFiniteSet(Objects)

VARIABLES
    cfg,       \* How the function is set up.
    queue,     \* "visible", "flight", "deleted" or "dead", for each message.
    holder,    \* The container whose receipt of the message is the current one.
    receives,  \* How often it was received.
    blame,     \* ... of which in vain, by its own failure or the platform's.
    con,       \* The containers.
    stored,    \* The objects filtered into the destination.
    last       \* The last answer, and the snapshot emitted with it.

vars == <<cfg, queue, holder, receives, blame, con, stored, last>>

Off == [pc |-> "off", batch |-> {}, left |-> {}, failed |-> {}, writing |-> {},
        rules |-> FALSE, cold |-> TRUE, answered |-> FALSE, pending |-> 0]

Nobody == "nobody"

Init ==
    /\ cfg \in Configs
    /\ queue = [m \in Messages |-> "visible"]
    /\ holder = [m \in Messages |-> Nobody]
    /\ receives = [m \in Messages |-> 0]
    /\ blame = [m \in Messages |-> 0]
    /\ con = [c \in Containers |-> Off]
    /\ stored = {}
    /\ last = [emitted |-> TRUE, reported |-> 0, cold |-> TRUE, attempted |-> 0, first |-> TRUE]

-----------------------------------------------------------------------------
(* External: the queue and the invoker.                                    *)

BatchLimit == IF cfg.transport = "sqs" THEN MaxBatch ELSE 1

(* A message that comes back is redriven to the dead-letter queue (or the *)
(* event is given up) once it was received often enough.                   *)
Back(m) == IF receives[m] >= MaxReceive THEN "dead" ELSE "visible"

(* The messages of S whose current receipt is c's.                         *)
Held(c, S) == {m \in S : holder[m] = c /\ queue[m] = "flight"}

(* The end of an invocation of c: `gone` is deleted, the rest comes back. *)
Settle(c, gone) ==
    LET held == Held(c, con[c].batch) IN
    /\ queue' = [m \in Messages |-> IF m \notin held THEN queue[m]
                                    ELSE IF m \in gone THEN "deleted" ELSE Back(m)]
    /\ holder' = [m \in Messages |-> IF m \in held THEN Nobody ELSE holder[m]]

Blamed(S) == blame' = [m \in Messages |-> IF m \in S THEN blame[m] + 1 ELSE blame[m]]

(* An invocation: of a warm container, or of one to be started for it.     *)
Invoke(c) ==
    /\ con[c].pc \in {"off", "idle"}
    /\ \E S \in SUBSET {m \in Messages : queue[m] = "visible"} :
        /\ S # {} /\ Cardinality(S) <= BatchLimit
        /\ queue' = [m \in Messages |-> IF m \in S THEN "flight" ELSE queue[m]]
        /\ holder' = [m \in Messages |-> IF m \in S THEN c ELSE holder[m]]
        /\ receives' = [m \in Messages |-> IF m \in S THEN receives[m] + 1 ELSE receives[m]]
        /\ con' = [con EXCEPT ![c].pc = IF @ = "off" THEN "init" ELSE "config",
                              ![c].batch = S, ![c].left = {}, ![c].failed = {}]
    /\ UNCHANGED <<cfg, blame, stored, last>>

(* The visibility timeout of a message runs out before its container      *)
(* answers: it is delivered a second time, and the first receipt is void.  *)
Reappear(m) ==
    /\ cfg.transport = "sqs"
    /\ queue[m] = "flight"
    /\ queue' = [queue EXCEPT ![m] = Back(m)]
    /\ holder' = [holder EXCEPT ![m] = Nobody]
    /\ Blamed({m})
    /\ UNCHANGED <<cfg, receives, con, stored, last>>

(* The function's timeout, or a panic under panic = "abort": neither the  *)
(* snapshot nor the answer happens, and a write may be half done.          *)
Kill(c) ==
    /\ con[c].pc \in {"init", "config", "run"}
    /\ Settle(c, {})
    /\ Blamed(Held(c, con[c].batch))
    /\ con' = [con EXCEPT ![c] = Off]
    /\ UNCHANGED <<cfg, receives, stored, last>>

(* An idle container is reclaimed.                                         *)
Reclaim(c) ==
    /\ con[c].pc = "idle"
    /\ con' = [con EXCEPT ![c] = Off]
    /\ UNCHANGED <<cfg, queue, holder, receives, blame, stored, last>>

-----------------------------------------------------------------------------
(* main: INIT builds every port once and primes the rules, which may fail *)
(* without failing it.                                                     *)
Start(c) ==
    /\ con[c].pc = "init"
    /\ \E primed \in BOOLEAN :
        con' = [con EXCEPT ![c].pc = "config", ![c].rules = primed]
    /\ UNCHANGED <<cfg, queue, holder, receives, blame, stored, last>>

(* Settings::load()?, build_config_source()?: main returns the error and  *)
(* the process exits before it asks for an event.                          *)
StartFails(c) ==
    /\ con[c].pc = "init"
    /\ Settle(c, {})
    /\ Blamed(Held(c, con[c].batch))
    /\ con' = [con EXCEPT ![c] = Off]
    /\ UNCHANGED <<cfg, receives, stored, last>>

(* handle emits one snapshot whatever handle_inner returned. Mutant: only *)
(* when it returned Ok.                                                    *)
EmitsOnSuccess(ok) == ok

Emits(ok) == TRUE

(* snapshot_and_reset: the counters since the last one and, on the first  *)
(* of the process, ColdStart. attempted: what this invocation did count.   *)
Report(c, ok, attempted) ==
    last' = [emitted |-> Emits(ok), reported |-> con[c].pending, cold |-> con[c].cold,
             attempted |-> attempted, first |-> ~con[c].answered]

(* The handler closure returned: the container waits for the next event.  *)
Idle(c, ok) ==
    [Off EXCEPT !.pc = "idle", !.rules = con[c].rules, !.answered = TRUE,
                !.cold = con[c].cold /\ ~Emits(ok),
                !.pending = IF Emits(ok) THEN 0 ELSE con[c].pending]

(* handle()? is an Err: the invocation failed, and all of it comes back.  *)
AnswerErr(c, guilty, attempted) ==
    /\ Settle(c, {})
    /\ Blamed(Held(c, guilty))
    /\ Report(c, FALSE, attempted)
    /\ con' = [con EXCEPT ![c] = Idle(c, FALSE)]

(* The objects an invocation is to attempt: undecodable bodies name none. *)
ObjectsOf(c) == UNION {Refs[m] : m \in con[c].batch \ Poison}

(* get: a ruleset once loaded is kept, see ConfigStore; without one,      *)
(* on_config_error decides.                                                *)
GetConfig(c) ==
    /\ con[c].pc = "config"
    /\ \E found \in BOOLEAN :
        /\ con[c].rules => found
        /\ \/ /\ found \/ ~cfg.closed
              /\ con' = [con EXCEPT ![c].pc = "run", ![c].rules = found,
                                    ![c].left = ObjectsOf(c),
                                    ![c].failed = con[c].batch \cap Poison]
              /\ UNCHANGED <<queue, holder, blame, last>>
           \/ /\ ~found /\ cfg.closed
              /\ AnswerErr(c, con[c].batch, 0)
    /\ UNCHANGED <<cfg, receives, stored>>

(* The items of the batch that name an object.                            *)
Naming(c, o) == {m \in con[c].batch \ Poison : o \in Refs[m]}

(* One object: taken up, then written or failed. A kill between the two   *)
(* leaves nothing at the destination (an upload is not completed).         *)
Begin(c) ==
    /\ con[c].pc = "run" /\ con[c].writing = {}
    /\ \E o \in con[c].left : con' = [con EXCEPT ![c].writing = {o}]
    /\ UNCHANGED <<cfg, queue, holder, receives, blame, stored, last>>

Write(c) ==
    /\ con[c].pc = "run"
    /\ \E o \in con[c].writing :
        /\ con' = [con EXCEPT ![c].writing = {}, ![c].left = @ \ {o}, ![c].pending = @ + 1]
        /\ stored' = stored \cup {o}
    /\ UNCHANGED <<cfg, queue, holder, receives, blame, last>>

(* Mutant: retried in place.                                               *)
FailWriteRetries(c) ==
    /\ con[c].pc = "run"
    /\ con[c].writing # {}
    /\ con' = [con EXCEPT ![c].writing = {}]
    /\ UNCHANGED <<cfg, queue, holder, receives, blame, stored, last>>

FailWrite(c) ==
    /\ con[c].pc = "run"
    /\ \E o \in con[c].writing :
        con' = [con EXCEPT ![c].writing = {}, ![c].left = @ \ {o}, ![c].pending = @ + 1,
                           ![c].failed = @ \cup Naming(c, o)]
    /\ UNCHANGED <<cfg, queue, holder, receives, blame, stored, last>>

(* Nothing is left to attempt: a failure that will fail the batch does not *)
(* end it early.                                                           *)
Attempted(c) == con[c].pc = "run" /\ con[c].writing = {} /\ con[c].left = {}

(* partial_batch_failures isolates a failure to a message with an ack id. *)
(* Mutant: never.                                                          *)
HardAlways(c) == con[c].failed # {}

IsHard(c) == con[c].failed # {} /\ ~(cfg.partial /\ cfg.transport = "sqs")

RespondErr(c) ==
    /\ Attempted(c)
    /\ IsHard(c)
    /\ AnswerErr(c, con[c].failed, Cardinality(ObjectsOf(c) \ con[c].left))
    /\ UNCHANGED <<cfg, receives, stored>>

(* batch_response. Mutant: only the failures that moved ObjectsFailed.     *)
BatchResponseObjectsOnly(c) == con[c].failed \ Poison

BatchResponse(c) == con[c].failed

(* The event source mapping deletes what is not reported as failed, and,  *)
(* without ReportBatchItemFailures, the whole batch.                       *)
RespondOk(c) ==
    /\ Attempted(c)
    /\ ~IsHard(c)
    /\ Settle(c, IF cfg.transport = "sqs" /\ cfg.report
                 THEN con[c].batch \ BatchResponse(c) ELSE con[c].batch)
    /\ Blamed(Held(c, con[c].failed))
    /\ Report(c, TRUE, Cardinality(ObjectsOf(c) \ con[c].left))
    /\ con' = [con EXCEPT ![c] = Idle(c, TRUE)]
    /\ UNCHANGED <<cfg, receives, stored>>

Step(c) ==
    \/ Start(c) \/ GetConfig(c) \/ Begin(c) \/ Write(c) \/ FailWrite(c)
    \/ RespondErr(c) \/ RespondOk(c)

Next ==
    \/ \E c \in Containers : Invoke(c) \/ Step(c) \/ StartFails(c) \/ Kill(c) \/ Reclaim(c)
    \/ \E m \in Messages : Reappear(m)

Spec == Init /\ [][Next]_vars

(* The poller keeps polling while a message is visible, and a running     *)
(* container keeps running until it answers or is killed.                  *)
FairSpec ==
    Spec /\ WF_vars(\E c \in Containers : Invoke(c))
         /\ \A c \in Containers : WF_vars(Step(c))

-----------------------------------------------------------------------------
(* Properties.                                                             *)

(* The setups docs/deployment.md calls safe.                               *)
Safe == cfg.transport = "async" \/ cfg.report \/ ~cfg.partial

(* batch_response and the async handlers: a message that left the queue   *)
(* for good, and not for the dead-letter queue, had every one of its      *)
(* objects written, whatever was killed, failed or delivered twice before. *)
NothingLost ==
    Safe => \A m \in Messages :
        queue[m] = "deleted" => m \notin Poison /\ Refs[m] \subseteq stored

(* partial_batch_failures with ReportBatchItemFailures: a message is      *)
(* dead-lettered only when every one of its receives ended in a failure   *)
(* of its own or of the platform, never for a message it was batched with. *)
InnocentSpared ==
    cfg.transport = "sqs" /\ cfg.partial /\ cfg.report =>
        \A m \in Messages : queue[m] = "dead" => blame[m] = receives[m]

(* Even when the whole batch fails, a poison message does not withhold    *)
(* the others' data: a message that was answered at least once without    *)
(* any fault of its own or the platform's has been written in full, even  *)
(* if its neighbours take it to the dead-letter queue.                     *)
CollateralStored ==
    \A m \in Messages : queue[m] = "dead" /\ blame[m] < receives[m] => Refs[m] \subseteq stored

(* A failing message harms no message it was batched with.                 *)
BatchmatesSpared == InnocentSpared /\ CollateralStored

(* Pipeline::handle: an invocation that is answered, well or not, reports *)
(* exactly the objects it attempted, none of an earlier one's, and        *)
(* ColdStart when, and only when, it is the first its container answered. *)
SnapshotPerInvocation ==
    last.emitted /\ last.reported = last.attempted /\ (last.cold <=> last.first)

(* Every message is eventually deleted or dead-lettered: a kill, a failed *)
(* start or a closed configuration uses up a receive, and none of them    *)
(* keeps a message in flight.                                              *)
EveryMessageSettles == \A m \in Messages : <>(queue[m] \in {"deleted", "dead"})
=============================================================================
