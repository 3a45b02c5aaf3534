---------------------------- MODULE FilterObject ----------------------------
(***************************************************************************)
(* What filtering one object promises, whatever does it: at most one write *)
(* of the destination key, of the complete output and all at once; then    *)
(* one answer, which fits the body and the destination, with its counters. *)
(* StreamRun implements it; buffer_run followed by one PutObject does so   *)
(* by construction.  The answer is buffer mode's, except that a body the   *)
(* modes read apart may be Unrecognized.                                   *)
(***************************************************************************)
EXTENDS Envelope

CONSTANT Bodies

VARIABLES
    body,      \* the source object
    object,    \* the destination key: <<>> while absent, else its content
    result,    \* the answer
    bytesOut,  \* what is billed as written
    published  \* the record counters

vars == <<body, object, result, bytesOut, published>>

Absent == object = <<>>

Init ==
    /\ body \in Bodies
    /\ Absent
    /\ result = "running"
    /\ bytesOut = 0
    /\ published = NoTally

(* The output becomes visible at the destination, in one step.             *)
Land ==
    /\ result = "running"
    /\ Absent
    /\ BufferRun(body) = "Written"
    /\ object' # <<>> /\ IsOutputOf(object'[1], body)
    /\ UNCHANGED <<body, result, bytesOut, published>>

Answer(r) == result = "running" /\ result' = r /\ UNCHANGED <<body, object>>

AnswerWritten ==
    /\ Answer("Written")
    /\ ~ Absent
    /\ bytesOut' = Len(object[1])
    /\ published' = BufferTally(body)

(* Nothing to write: every record dropped, or not a CloudTrail envelope.   *)
AnswerNothing ==
    /\ \/ Answer("NothingKept") /\ BufferRun(body) = "NothingKept"
          /\ published' = BufferTally(body)
       \/ Answer("Unrecognized") /\ (BufferRun(body) = "Unrecognized" \/ ReadApart(body))
          /\ published' = NoTally
    /\ Absent
    /\ UNCHANGED bytesOut

(* A failure publishes nothing.  Only one that reports the upload itself   *)
(* may leave a (complete) object behind.                                   *)
AnswerFailure ==
    /\ \/ Answer("Gzip") /\ IsUnparsable(BufferRun(body)) /\ Absent
       \/ Answer("Json") /\ IsUnparsable(BufferRun(body)) /\ Absent
       \/ Answer("Backend") /\ Absent
       \/ Answer("Internal") /\ Absent
       \/ Answer("Upload")
    /\ UNCHANGED <<bytesOut, published>>

Next == Land \/ AnswerWritten \/ AnswerNothing \/ AnswerFailure

Spec == Init /\ [][Next]_vars
=============================================================================
