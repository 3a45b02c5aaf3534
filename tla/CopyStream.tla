----------------------------- MODULE CopyStream -----------------------------
(***************************************************************************)
(* Pipeline::stream_copy: a source object piped into put_stream without    *)
(* being held in memory, through a CountingReader.  Used by raw_copy (no   *)
(* ruleset), and by the fail-open copies of process_stream.                *)
(*                                                                         *)
(* The reader is driven by put_stream itself, one read at a time, so the   *)
(* channel of PutStream holds at most the chunk of the read in progress.   *)
(***************************************************************************)
EXTENDS PutStream

CONSTANT MaxItems   \* items of the largest source considered

ASSUME MaxItemsAssumption == MaxItems \in Nat

VARIABLES
    counts,    \* BytesInPolicy: this read of the object bills BytesIn
    total,     \* CountingReader::total
    bytesIn,
    bytesOut,
    result

copyVars == <<counts, total, bytesIn, bytesOut, result>>
vars == <<stream, outq, closed, putVars, copyVars>>

(* Sources of every length, the empty one included.                        *)
Source(n) == [i \in 1..n |-> i]

Init ==
    /\ \E n \in 0..MaxItems : stream = Source(n)
    /\ outq = <<>> /\ closed = FALSE
    /\ PutInit
    /\ counts \in BOOLEAN
    /\ total = 0 /\ bytesIn = 0 /\ bytesOut = 0
    /\ result = "running"

(* BytesIn after n more bytes.                                             *)
(* Mutant: bills every copy.                                               *)
BilledAlways(n) == bytesIn + n

Billed(n) == IF counts THEN bytesIn + n ELSE bytesIn

(* CountingReader::poll_read: some bytes, the end of the source, or its    *)
(* read error, which fails the upload.                                     *)
CountedRead ==
    /\ upPc = "fill"
    /\ part < PartSize
    /\ outq = <<>>
    /\ ~ closed
    /\ \/ \E n \in 1..(Len(stream) - total) :
             /\ outq' = <<<<total, total + n>>>>
             /\ total' = total + n
             /\ bytesIn' = Billed(n)
             /\ UNCHANGED closed
       \/ /\ total = Len(stream)
          /\ closed' = TRUE
          /\ UNCHANGED <<outq, total, bytesIn>>
       \/ /\ outq' = <<AbortMsg>>
          /\ closed' = TRUE
          /\ UNCHANGED <<total, bytesIn>>
    /\ UNCHANGED <<stream, putVars, counts, bytesOut, result>>

PutStreamStep ==
    /\ PutNext \/ EmptyPut
    /\ UNCHANGED copyVars

(* put_stream has returned: BytesOut only for an upload that succeeded.    *)
CopyReturn ==
    /\ result = "running"
    /\ PutReturned
    /\ result' = IF upPc = "ok" THEN "copied" ELSE "failed"
    /\ bytesOut' = IF upPc = "ok" THEN total ELSE 0
    /\ UNCHANGED <<stream, outq, closed, putVars, counts, total, bytesIn>>

CopyDone ==
    /\ result # "running"
    /\ UNCHANGED vars

Next == CountedRead \/ PutStreamStep \/ CopyReturn \/ CopyDone

Spec == Init /\ [][Next]_vars

FairSpec == Spec /\ WF_vars(CountedRead) /\ WF_vars(PutStreamStep)
                 /\ WF_vars(CopyReturn)

-----------------------------------------------------------------------------
(* A copy that lands is the source byte for byte, the empty object         *)
(* included, at every part size; a copy reported as done has landed.       *)
CopyVerbatim ==
    /\ landed => dest = stream
    /\ result = "copied" => landed

(* BytesOut is billed for exactly the bytes that landed, and BytesIn       *)
(* exactly once: in full by the copy that is the first read of the object, *)
(* not at all by one that follows stream_run's read.                       *)
CopyBilled ==
    /\ result = "copied" => /\ bytesOut = Len(dest)
                            /\ bytesIn = IF counts THEN Len(stream) ELSE 0
    /\ result = "failed" => bytesOut = 0

(* stream_copy returns, whichever read or request fails.                   *)
CopyTerminates == <>(result # "running")
=============================================================================
