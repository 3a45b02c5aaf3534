----------------------------- MODULE MCBoundary -----------------------------
(***************************************************************************)
(* What crosses the boundary of a container, each over its own inputs: the *)
(* settings it starts from (SettingsDocument), the event it is invoked     *)
(* with (Decoders), and the body buffer mode writes and a later reader     *)
(* takes back (GzipMembers).  A behaviour exercises one of them; the       *)
(* variables of the others are idle.                                       *)
(***************************************************************************)
EXTENDS MCSettingsDocument, MCDecoders, GzipMembers

VARIABLES part,                        \* which
          payload, at, items, decoded  \* Decoders

Event == INSTANCE Decoders WITH Payloads <- MCPayloads, result <- decoded

eventVars == <<payload, at, items, decoded>>

Idle == "idle"

PartInit ==
    /\ part \in {"settings", "event", "body"}
    /\ IF part = "settings" THEN Init
       ELSE deployed = Idle /\ doc = Idle /\ preflight = Idle /\ pc = Idle
    /\ IF part = "event" THEN Event!Init
       ELSE payload = Idle /\ at = Idle /\ items = Idle /\ decoded = Idle
    /\ IF part = "body" THEN GzipInit
       ELSE /\ body = Idle /\ chunks = Idle /\ members = Idle /\ joined = Idle
            /\ out = Idle /\ result = Idle

PartNext ==
    /\ UNCHANGED part
    /\ \/ part = "settings" /\ Next /\ UNCHANGED <<eventVars, gzipVars>>
       \/ part = "event" /\ Event!Next /\ UNCHANGED <<vars, gzipVars>>
       \/ part = "body" /\ GzipNext /\ UNCHANGED <<vars, eventVars>>

PartSpec == PartInit /\ [][PartNext]_<<part, vars, eventVars, gzipVars>>

-----------------------------------------------------------------------------
(* The four decoders: the objects of an event under the keys the bucket    *)
(* stores, none lost in silence, a bad SQS message on its own, and         *)
(* sqs.body_format no more than a declaration.                             *)
EventsDecoded == part = "event" => Event!EventsDecoded
=============================================================================
