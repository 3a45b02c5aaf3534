----------------------------- MODULE PutStream -----------------------------
(***************************************************************************)
(* S3ObjectStore::put_stream: one multipart upload fed by a body reader.   *)
(*                                                                         *)
(* The writer (stream_run's processing block, or a source reader that is   *)
(* copied) produces the items of `stream`; `outq` holds the chunks on      *)
(* their way to the body reader.  A chunk <<a, b>> carries the items a+1   *)
(* to b of `stream`; AbortMsg is the Err that fails the reader.            *)
(* `closed` says that the writer is gone, which an empty channel turns     *)
(* into a clean end of file.                                               *)
(*                                                                         *)
(* Every request may fail.  A failed CompleteMultipartUpload, PutObject or *)
(* CreateMultipartUpload may still have taken effect at S3: only its       *)
(* answer is lost.                                                         *)
(***************************************************************************)
EXTENDS Naturals, Sequences

CONSTANTS OutCap,    \* OUTPUT_CHANNEL_CAPACITY
          PartSize   \* multipart_part_bytes, counted in items

ASSUME OutCapAssumption == OutCap \in Nat \ {0}
ASSUME PartSizeAssumption == PartSize \in Nat \ {0}

VARIABLES
    stream,     \* items produced by the writer so far
    outq,       \* chunks in the output channel
    closed,     \* the writer has dropped its sender
    upPc,       \* where put_stream is
    upBody,     \* items read from the body so far
    part,       \* how many of them are not yet in an uploaded part
    parts,      \* how many parts S3 holds
    mpu,        \* the multipart upload at S3
    abortLost,  \* an AbortMultipartUpload request failed
    landed,     \* an object exists at the destination key
    dest        \* its items

putVars == <<upPc, upBody, part, parts, mpu, abortLost, landed, dest>>

AbortMsg == <<0, 0>>

UpPcs == {"create", "fill", "complete", "abort", "abortEmpty", "putEmpty",
          "ok", "failed"}

(* "unheld": S3 opened the upload but its id never reached the client.     *)
UploadStates == {"none", "unheld", "open", "completed", "aborted"}

(* The output channel never exceeds its capacity; the rest is the shape of *)
(* put_stream's state.                                                     *)
PutTypeOK ==
    /\ stream \in Seq(Nat)
    /\ outq \in Seq(Nat \X Nat)
    /\ Len(outq) <= OutCap
    /\ closed \in BOOLEAN
    /\ upPc \in UpPcs
    /\ upBody \in Seq(Nat)
    /\ part \in Nat
    /\ parts \in Nat
    /\ mpu \in UploadStates
    /\ abortLost \in BOOLEAN
    /\ landed \in BOOLEAN
    /\ dest \in Seq(Nat)

PutInit ==
    /\ upPc = "create"
    /\ upBody = <<>>
    /\ part = 0
    /\ parts = 0
    /\ mpu = "none"
    /\ abortLost = FALSE
    /\ landed = FALSE
    /\ dest = <<>>

(* put_stream owns the body reader until it returns.                       *)
PutReturned == upPc \in {"ok", "failed"}

(* A bounded channel takes a message only while it holds fewer than cap.   *)
(* Mutant: one message too many.                                           *)
CanSendAtCap(q, cap) == Len(q) <= cap

CanSend(q, cap) == Len(q) < cap

(* Sender::send(msg).await: waits for room; an error once the receiver is  *)
(* gone, which every caller in stream_run ignores.                         *)
(* Mutant: waits for room even when nobody will ever make any.             *)
SendOutBlocks(msg) == CanSend(outq, OutCap) /\ outq' = Append(outq, msg)

SendOut(msg) ==
    \/ /\ ~ PutReturned
       /\ CanSend(outq, OutCap)
       /\ outq' = Append(outq, msg)
    \/ /\ PutReturned
       /\ UNCHANGED outq

-----------------------------------------------------------------------------
CreateUpload ==
    /\ upPc = "create"
    /\ \/ /\ mpu' = "open"
          /\ upPc' = "fill"
       \/ /\ mpu' \in {"none", "unheld"}
          /\ upPc' = "failed"
    /\ UNCHANGED <<stream, outq, closed, upBody, part, parts, abortLost,
                   landed, dest>>

(* upload_parts reads the body until the part is full.  The rest of a      *)
(* chunk that does not fit stays pending in the reader.                    *)
ReadBody ==
    /\ upPc = "fill"
    /\ part < PartSize
    /\ outq # <<>>
    /\ outq' = Tail(outq)
    /\ LET msg == Head(outq) IN
       \/ /\ msg = AbortMsg
          /\ upPc' = "abort"
          /\ UNCHANGED <<upBody, part>>
       \/ /\ msg # AbortMsg
          /\ upBody' = upBody \o SubSeq(stream, msg[1] + 1, msg[2])
          /\ part' = part + (msg[2] - msg[1])
          /\ UNCHANGED upPc
    /\ UNCHANGED <<stream, closed, parts, mpu, abortLost, landed, dest>>

(* UploadPart of a full part.                                              *)
UploadPart ==
    /\ upPc = "fill"
    /\ part >= PartSize
    /\ \/ /\ part' = part - PartSize
          /\ parts' = parts + 1
          /\ UNCHANGED upPc
       \/ /\ upPc' = "abort"
          /\ UNCHANGED <<part, parts>>
    /\ UNCHANGED <<stream, outq, closed, upBody, mpu, abortLost, landed, dest>>

AtEof == upPc = "fill" /\ part < PartSize /\ outq = <<>> /\ closed

(* The short last part ends the loop.                                      *)
(* Mutant: the short part is not uploaded.                                 *)
EndDropsShortPart ==
    /\ AtEof /\ part > 0
    /\ upPc' = IF parts = 0 THEN "abortEmpty" ELSE "complete"
    /\ UNCHANGED <<stream, outq, closed, upBody, part, parts, mpu, abortLost,
                   landed, dest>>

EndShort ==
    /\ AtEof /\ part > 0
    /\ \/ /\ part' = 0
          /\ parts' = parts + 1
          /\ upPc' = "complete"
       \/ /\ upPc' = "abort"
          /\ UNCHANGED <<part, parts>>
    /\ UNCHANGED <<stream, outq, closed, upBody, mpu, abortLost, landed, dest>>

(* The body ended on a part boundary.  One without a single part cannot be *)
(* completed and takes the PutObject path.                                 *)
(* Mutant: an empty read does not end the loop.                            *)
EndReadsAgain == AtEof /\ part = 0 /\ UNCHANGED <<stream, outq, closed, putVars>>

EndFull ==
    /\ AtEof /\ part = 0
    /\ upPc' = IF parts = 0 THEN "abortEmpty" ELSE "complete"
    /\ UNCHANGED <<stream, outq, closed, upBody, part, parts, mpu, abortLost,
                   landed, dest>>

(* S3 joins the uploaded parts.                                            *)
Uploaded == SubSeq(upBody, 1, Len(upBody) - part)

CompleteUpload ==
    /\ upPc = "complete"
    /\ \/ /\ upPc' = "ok"
          /\ mpu' = "completed"
          /\ landed' = TRUE
          /\ dest' = Uploaded
       \/ /\ upPc' = "abort"
          /\ mpu' = "completed"
          /\ landed' = TRUE
          /\ dest' = Uploaded
       \/ /\ upPc' = "abort"
          /\ UNCHANGED <<mpu, landed, dest>>
    /\ UNCHANGED <<stream, outq, closed, upBody, part, parts, abortLost>>

(* Best effort; put_stream then returns the error it aborts for.           *)
(* Mutant: the error is returned without an abort.                         *)
AbortForgotten == UNCHANGED <<mpu, abortLost>>

AbortRequest ==
    \/ /\ mpu' = IF mpu = "open" THEN "aborted" ELSE mpu
       /\ UNCHANGED abortLost
    \/ /\ abortLost' = TRUE
       /\ UNCHANGED mpu

AbortUpload ==
    /\ upPc = "abort"
    /\ AbortRequest
    /\ upPc' = "failed"
    /\ UNCHANGED <<stream, outq, closed, upBody, part, parts, landed, dest>>

(* parts.is_empty(): abort, then put a zero-byte object.                   *)
AbortEmpty ==
    /\ upPc = "abortEmpty"
    /\ AbortRequest
    /\ upPc' = "putEmpty"
    /\ UNCHANGED <<stream, outq, closed, upBody, part, parts, landed, dest>>

PutEmpty ==
    /\ upPc = "putEmpty"
    /\ \/ /\ upPc' = "ok"
          /\ landed' = TRUE
          /\ dest' = <<>>
       \/ /\ upPc' = "failed"
          /\ landed' = TRUE
          /\ dest' = <<>>
       \/ /\ upPc' = "failed"
          /\ UNCHANGED <<landed, dest>>
    /\ UNCHANGED <<stream, outq, closed, upBody, part, parts, mpu, abortLost>>

(* The upload of a body that is never empty; EmptyPut is the other case.   *)
PutNext ==
    \/ CreateUpload
    \/ ReadBody
    \/ UploadPart
    \/ EndShort
    \/ EndFull
    \/ CompleteUpload
    \/ AbortUpload

EmptyPut == AbortEmpty \/ PutEmpty

-----------------------------------------------------------------------------
(* No orphan: once put_stream has returned, an upload whose id it held is  *)
(* completed or aborted, unless the AbortMultipartUpload itself failed     *)
(* ("must abort the upload so no billable orphan parts remain").           *)
NoOrphanUpload == PutReturned /\ mpu = "open" => abortLost
=============================================================================
