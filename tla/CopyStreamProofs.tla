-------------------------- MODULE CopyStreamProofs --------------------------
(***************************************************************************)
(* stream_copy for every source length and every part size: a copy that    *)
(* lands is the source, byte for byte, and is billed for exactly that.     *)
(*                                                                         *)
(* The argument: what put_stream has read is always a prefix of the source *)
(* as long as CountingReader::total says, less the chunk on its way; the   *)
(* reader ends cleanly only at the end of the source; and a body that ends *)
(* without a single part is empty.                                         *)
(***************************************************************************)
EXTENDS CopyStream, SequenceTheorems, TLAPS

USE OutCapAssumption, PartSizeAssumption, MaxItemsAssumption

(* The shape of the copy's state.                                          *)
CopyTypeOK ==
    /\ stream \in Seq(Nat)
    /\ closed \in BOOLEAN /\ counts \in BOOLEAN /\ landed \in BOOLEAN
    /\ upPc \in UpPcs
    /\ upBody \in Seq(Nat)
    /\ part \in Nat /\ parts \in Nat
    /\ total \in 0..Len(stream)
    /\ result \in {"running", "copied", "failed"}

(* put_stream has read the first Len(upBody) items of the source; the      *)
(* chunk of a read in progress is the rest of what the reader has counted. *)
ReadInv ==
    /\ upBody = SubSeq(stream, 1, Len(upBody)) /\ Len(upBody) <= total
    /\ \/ outq = <<>> /\ Len(upBody) = total
       \/ /\ outq = <<<<Len(upBody), total>>>> /\ Len(upBody) < total /\ ~ closed
          /\ upPc = "fill" /\ part < PartSize
       \/ /\ outq = <<AbortMsg>> /\ Len(upBody) = total /\ closed
          /\ upPc = "fill" /\ part < PartSize

(* The items that are in no part yet; a body without parts is in none.     *)
PartInv ==
    /\ part <= Len(upBody)
    /\ parts = 0 => part = Len(upBody)

(* Past the clean end of the body, all of the source has been read and is  *)
(* in a part.                                                              *)
EofInv ==
    /\ closed => upPc # "create"
    /\ closed /\ outq = <<>> /\ upPc = "fill" => total = Len(stream)
    /\ upPc \in {"complete", "abortEmpty", "putEmpty", "ok"} =>
          total = Len(stream) /\ outq = <<>> /\ part = 0
    /\ upPc \in {"abortEmpty", "putEmpty"} => parts = 0

(* What S3 holds at the destination key.                                   *)
LandedInv ==
    /\ landed => dest = stream
    /\ upPc = "ok" => landed

(* What has been billed, and what stream_copy has returned.                *)
BilledInv ==
    /\ bytesIn = IF counts THEN total ELSE 0
    /\ result = "copied" => upPc = "ok" /\ bytesOut = total
    /\ result = "failed" => bytesOut = 0

CopyInv == CopyTypeOK /\ ReadInv /\ PartInv /\ EofInv /\ LandedInv /\ BilledInv

-----------------------------------------------------------------------------
(* A source is a sequence of as many items as it is long.                  *)
LEMMA SourceIsSeq == \A n \in Nat : Source(n) \in Seq(Nat) /\ Len(Source(n)) = n
<1> SUFFICES ASSUME NEW n \in Nat PROVE Source(n) \in Seq(Nat) /\ Len(Source(n)) = n
  OBVIOUS
<1>1. Source(n) \in [1..n -> Nat]
  BY DEF Source
<1>2. Source(n) \in Seq(Nat)
  BY <1>1, SeqDef
<1>3. DOMAIN Source(n) = 1..n /\ DOMAIN Source(n) = 1..Len(Source(n)) /\ Len(Source(n)) \in Nat
  BY <1>1, <1>2, LenProperties
<1> QED
  BY <1>2, <1>3

(* The empty body is the empty prefix of any source.                       *)
LEMMA CopyInit == Init => CopyInv
<1> SUFFICES ASSUME Init PROVE CopyInv
  OBVIOUS
<1>1. stream \in Seq(Nat) /\ Len(stream) \in Nat
  BY SourceIsSeq DEF Init
<1>2. upBody = <<>> /\ upBody \in Seq(Nat) /\ Len(upBody) = 0
  BY EmptySeq DEF Init, PutInit
<1>3. SubSeq(stream, 1, 0) = <<>>
  BY SubSeqEmpty
<1>4. CopyTypeOK
  <2>1. total \in 0..Len(stream)
    BY <1>1 DEF Init
  <2> QED
    BY <1>1, <1>2, <2>1 DEF Init, PutInit, CopyTypeOK, UpPcs
<1>5. ReadInv
  BY <1>2, <1>3 DEF Init, PutInit, ReadInv
<1>6. PartInv /\ EofInv /\ LandedInv /\ BilledInv
  BY <1>2 DEF Init, PutInit, PartInv, EofInv, LandedInv, BilledInv
<1> QED
  BY <1>4, <1>5, <1>6 DEF CopyInv

(* CountingReader counts what it hands on, and ends at the end.            *)
LEMMA CountedReadKeeps == CopyInv /\ CountedRead => CopyInv'
<1> SUFFICES ASSUME CopyInv, CountedRead PROVE CopyInv'
  OBVIOUS
<1> USE DEF CopyInv
<1>0. /\ UNCHANGED <<stream, upPc, upBody, part, parts, landed, dest, counts, bytesOut, result>>
      /\ upPc = "fill" /\ outq = <<>> /\ ~ closed
  BY DEF CountedRead, putVars
<1>1. Len(stream) \in Nat /\ Len(upBody) \in Nat
  BY LenProperties DEF CopyTypeOK
<1>2. ASSUME NEW n \in 1..(Len(stream) - total), outq' = <<<<total, total + n>>>>,
             total' = total + n, bytesIn' = Billed(n), UNCHANGED closed
      PROVE  CopyInv'
  <2>1. total' \in 0..Len(stream) /\ total < total'
    BY <1>1, <1>2 DEF CopyTypeOK
  <2>2. CopyTypeOK' /\ PartInv' /\ LandedInv'
    BY <1>0, <1>2, <2>1 DEF CopyTypeOK, PartInv, LandedInv
  <2>3. ReadInv'
    <3>1. Len(upBody) = total /\ part < PartSize
      BY <1>0, <1>1, <1>2 DEF ReadInv, CountedRead
    <3>2. outq' = <<<<Len(upBody'), total'>>>> /\ Len(upBody') < total'
      BY <1>0, <1>2, <2>1, <3>1
    <3> QED
      BY <1>0, <1>1, <1>2, <2>1, <3>1, <3>2 DEF ReadInv, CopyTypeOK
  <2>4. EofInv' /\ BilledInv'
    BY <1>0, <1>1, <1>2, <2>1 DEF CopyTypeOK, EofInv, BilledInv, Billed
  <2> QED
    BY <2>2, <2>3, <2>4
<1>3. CASE total = Len(stream) /\ closed' = TRUE /\ UNCHANGED <<outq, total, bytesIn>>
  BY <1>0, <1>1, <1>3 DEF CopyTypeOK, ReadInv, PartInv, EofInv, LandedInv, BilledInv, AbortMsg
<1>4. CASE outq' = <<AbortMsg>> /\ closed' = TRUE /\ UNCHANGED <<total, bytesIn>>
  <2>1. Len(upBody) = total /\ part < PartSize
    BY <1>0, <1>1 DEF ReadInv, CountedRead
  <2>2. ReadInv'
    BY <1>0, <1>4, <2>1 DEF ReadInv
  <2>3. outq' # <<>>
    BY <1>4
  <2> QED
    BY <1>0, <1>4, <2>2, <2>3 DEF CopyTypeOK, PartInv, EofInv, LandedInv, BilledInv
<1> QED
  BY <1>2, <1>3, <1>4 DEF CountedRead

(* Reading the chunk makes the prefix longer by it.                        *)
LEMMA ReadBodyKeeps == CopyInv /\ ReadBody /\ UNCHANGED copyVars => CopyInv'
<1> SUFFICES ASSUME CopyInv, ReadBody, UNCHANGED copyVars PROVE CopyInv'
  OBVIOUS
<1> USE DEF CopyInv
<1>0. /\ UNCHANGED <<stream, closed, parts, landed, dest, counts, total, bytesIn, bytesOut, result>>
      /\ upPc = "fill" /\ outq # <<>> /\ outq' = Tail(outq)
  BY DEF ReadBody, copyVars
<1>1. Len(stream) \in Nat /\ Len(upBody) \in Nat
  BY LenProperties DEF CopyTypeOK
<1>2. CASE outq = <<AbortMsg>>
  <2>1. outq' = <<>> /\ Head(outq) = AbortMsg
    BY <1>0, <1>2
  <2>2. upPc' = "abort" /\ UNCHANGED <<upBody, part>> /\ closed /\ Len(upBody) = total
    BY <1>2, <2>1 DEF ReadBody, ReadInv, AbortMsg
  <2> QED
    BY <1>0, <2>1, <2>2 DEF CopyTypeOK, UpPcs, ReadInv, PartInv, EofInv, LandedInv, BilledInv
<1>3. CASE outq = <<<<Len(upBody), total>>>> /\ Len(upBody) < total
  <2> DEFINE chunk == SubSeq(stream, Len(upBody) + 1, total)
  <2>1. outq' = <<>> /\ Head(outq) = <<Len(upBody), total>> /\ Head(outq) # AbortMsg
    BY <1>0, <1>1, <1>3 DEF AbortMsg, CopyTypeOK
  <2>2. upBody' = upBody \o chunk /\ part' = part + (total - Len(upBody)) /\ UNCHANGED upPc
    <3>1. Head(outq)[1] = Len(upBody) /\ Head(outq)[2] = total
      BY <2>1
    <3> QED
      BY <2>1, <3>1 DEF ReadBody
  <2>3. upBody' = SubSeq(stream, 1, total)
    <3>1. SubSeq(stream, 1, Len(upBody)) \o chunk = SubSeq(stream, 1, total)
      <4>1. /\ 1 \in 1..(Len(stream) + 1) /\ Len(upBody) \in (1 - 1)..Len(stream)
            /\ total \in Len(upBody)..Len(stream)
        BY <1>1, <1>3 DEF CopyTypeOK
      <4> QED
        BY <4>1, ConcatAdjacentSubSeq DEF CopyTypeOK
    <3> QED
      BY <2>2, <3>1 DEF ReadInv
  <2>4. upBody' \in Seq(Nat) /\ Len(upBody') = total
    <3>1. \A i \in 1..total : stream[i] \in Nat
      BY <1>1, LenProperties DEF CopyTypeOK
    <3> QED
      BY <2>3, <3>1, <1>1, SubSeqProperties DEF CopyTypeOK
  <2>5. ~ closed
    <3>1. outq # <<AbortMsg>> /\ outq # <<>>
      BY <2>1, <1>3, <1>0
    <3> QED
      BY <3>1 DEF ReadInv
  <2>6. part' \in Nat /\ part' <= Len(upBody') /\ (parts = 0 => part' = Len(upBody'))
    <3>1. part' = part + (total - Len(upBody)) /\ Len(upBody') = total
      BY <2>2, <2>4
    <3>2. part \in Nat /\ total \in Nat /\ part <= Len(upBody) /\ (parts = 0 => part = Len(upBody))
      BY <1>1 DEF CopyTypeOK, PartInv
    <3> QED
      BY <1>1, <1>3, <3>1, <3>2
  <2>7. CopyTypeOK' /\ PartInv' /\ LandedInv' /\ BilledInv'
    BY <1>0, <2>2, <2>4, <2>6 DEF CopyTypeOK, PartInv, LandedInv, BilledInv
  <2>8. ReadInv' /\ EofInv'
    <3>1. upPc' = "fill" /\ ~ closed' /\ outq' = <<>> /\ Len(upBody') = total'
      BY <1>0, <2>1, <2>2, <2>4, <2>5
    <3>2. upBody' = SubSeq(stream', 1, Len(upBody')) /\ Len(upBody') <= total'
      BY <1>0, <1>1, <2>3, <2>4 DEF CopyTypeOK
    <3> QED
      BY <3>1, <3>2 DEF ReadInv, EofInv
  <2> QED
    BY <2>7, <2>8
<1> QED
  BY <1>0, <1>2, <1>3 DEF ReadInv

(* The parts hold the body from its beginning.                             *)
LEMMA UploadKeeps ==
    CopyInv /\ (CreateUpload \/ UploadPart \/ EndShort \/ EndFull)
        /\ UNCHANGED copyVars => CopyInv'
<1> SUFFICES ASSUME CopyInv, CreateUpload \/ UploadPart \/ EndShort \/ EndFull,
                    UNCHANGED copyVars
             PROVE  CopyInv'
  OBVIOUS
<1> USE DEF CopyInv, copyVars
<1>1. Len(stream) \in Nat /\ Len(upBody) \in Nat
  BY LenProperties DEF CopyTypeOK
<1>2. CASE CreateUpload
  <2>0. /\ UNCHANGED <<stream, outq, closed, upBody, part, parts, landed, dest,
                       counts, total, bytesIn, bytesOut, result>>
        /\ upPc = "create" /\ upPc' \in {"fill", "failed"}
    BY <1>2 DEF CreateUpload
  <2>1. outq = <<>> /\ Len(upBody) = total /\ ~ closed
    BY <2>0 DEF ReadInv, EofInv
  <2>2. CopyTypeOK' /\ PartInv' /\ LandedInv' /\ BilledInv'
    BY <2>0 DEF CopyTypeOK, UpPcs, PartInv, LandedInv, BilledInv
  <2>3. ReadInv'
    BY <2>0, <2>1 DEF ReadInv
  <2>4. EofInv'
    BY <2>0, <2>1 DEF EofInv
  <2> QED
    BY <2>2, <2>3, <2>4
<1>3. CASE UploadPart
  <2>0. /\ UNCHANGED <<stream, outq, closed, upBody, landed, dest,
                       counts, total, bytesIn, bytesOut, result>>
        /\ upPc = "fill" /\ upPc' \in {"fill", "abort"} /\ ~ (part < PartSize)
    BY <1>3 DEF UploadPart, CopyTypeOK
  <2>1. outq = <<>> /\ Len(upBody) = total
    BY <2>0 DEF ReadInv
  <2>2. /\ part' \in Nat /\ parts' \in Nat /\ part' <= Len(upBody)
        /\ parts' = 0 => part' = Len(upBody)
    BY <1>1, <1>3 DEF UploadPart, CopyTypeOK, PartInv
  <2>3. CopyTypeOK' /\ PartInv' /\ LandedInv' /\ BilledInv'
    BY <2>0, <2>2 DEF CopyTypeOK, UpPcs, PartInv, LandedInv, BilledInv
  <2>4. ReadInv'
    BY <2>0, <2>1 DEF ReadInv
  <2>5. EofInv'
    BY <2>0, <2>1 DEF EofInv
  <2> QED
    BY <2>3, <2>4, <2>5
<1>4. CASE EndShort
  BY <1>1, <1>4 DEF EndShort, AtEof, CopyTypeOK, UpPcs, ReadInv, PartInv, EofInv, LandedInv, BilledInv
<1>5. CASE EndFull
  BY <1>1, <1>5 DEF EndFull, AtEof, CopyTypeOK, UpPcs, ReadInv, PartInv, EofInv, LandedInv, BilledInv
<1> QED
  BY <1>2, <1>3, <1>4, <1>5

(* What becomes visible at the destination is all of the source.           *)
LEMMA LandKeeps ==
    CopyInv /\ (CompleteUpload \/ AbortUpload \/ EmptyPut) /\ UNCHANGED copyVars
        => CopyInv'
<1> SUFFICES ASSUME CopyInv, CompleteUpload \/ AbortUpload \/ EmptyPut, UNCHANGED copyVars
             PROVE  CopyInv'
  OBVIOUS
<1> USE DEF CopyInv, copyVars
<1>1. Len(stream) \in Nat /\ Len(upBody) \in Nat
  BY LenProperties DEF CopyTypeOK
<1>2. CASE CompleteUpload
  <2>1. Uploaded = upBody /\ upBody = stream
    <3>1. Len(upBody) = Len(stream) /\ part = 0
      BY <1>2 DEF CompleteUpload, EofInv, ReadInv, AbortMsg
    <3>2. SubSeq(stream, 1, Len(stream)) = stream /\ SubSeq(upBody, 1, Len(upBody)) = upBody
      BY SubSeqFull DEF CopyTypeOK
    <3> QED
      BY <1>1, <3>1, <3>2 DEF Uploaded, ReadInv
  <2>2. /\ UNCHANGED <<stream, outq, closed, upBody, part, parts,
                       counts, total, bytesIn, bytesOut, result>>
        /\ upPc = "complete" /\ upPc' \in {"ok", "abort"}
    BY <1>2 DEF CompleteUpload
  <2>3. landed' \in BOOLEAN /\ (landed' => dest' = stream) /\ (upPc' = "ok" => landed')
    <3>1. \/ landed' = TRUE /\ dest' = stream
          \/ landed' = landed /\ dest' = dest /\ upPc' # "ok"
      BY <1>2, <2>1 DEF CompleteUpload
    <3>2. landed \in BOOLEAN /\ (landed => dest = stream)
      BY DEF LandedInv, CopyTypeOK
    <3>3. CASE landed' = TRUE /\ dest' = stream
      BY <3>3
    <3>4. CASE landed' = landed /\ dest' = dest /\ upPc' # "ok"
      BY <3>2, <3>4
    <3> QED
      BY <3>1, <3>3, <3>4
  <2>4. CopyTypeOK' /\ PartInv' /\ LandedInv' /\ BilledInv'
    BY <2>2, <2>3 DEF CopyTypeOK, UpPcs, PartInv, LandedInv, BilledInv
  <2>5. ReadInv' /\ EofInv'
    BY <2>2 DEF ReadInv, EofInv
  <2> QED
    BY <2>4, <2>5
<1>3. CASE AbortUpload
  BY <1>1, <1>3 DEF AbortUpload, AbortRequest, CopyTypeOK, UpPcs, ReadInv, PartInv, EofInv,
     LandedInv, BilledInv
<1>4. CASE AbortEmpty
  BY <1>1, <1>4 DEF AbortEmpty, AbortRequest, CopyTypeOK, UpPcs, ReadInv, PartInv, EofInv,
     LandedInv, BilledInv
<1>5. CASE PutEmpty
  <2>1. Len(stream) = 0
    BY <1>1, <1>5 DEF PutEmpty, EofInv, PartInv, ReadInv, AbortMsg
  <2>2. stream = <<>>
    BY <2>1, EmptySeq DEF CopyTypeOK
  <2>3. /\ UNCHANGED <<stream, outq, closed, upBody, part, parts,
                       counts, total, bytesIn, bytesOut, result>>
        /\ upPc = "putEmpty" /\ upPc' \in {"ok", "failed"}
    BY <1>5 DEF PutEmpty
  <2>4. landed' \in BOOLEAN /\ (landed' => dest' = stream) /\ (upPc' = "ok" => landed')
    <3>1. \/ landed' = TRUE /\ dest' = stream
          \/ landed' = landed /\ dest' = dest /\ upPc' # "ok"
      BY <1>5, <2>2 DEF PutEmpty
    <3>2. landed \in BOOLEAN /\ (landed => dest = stream)
      BY DEF LandedInv, CopyTypeOK
    <3>3. CASE landed' = TRUE /\ dest' = stream
      BY <3>3
    <3>4. CASE landed' = landed /\ dest' = dest /\ upPc' # "ok"
      BY <3>2, <3>4
    <3> QED
      BY <3>1, <3>3, <3>4
  <2>5. CopyTypeOK' /\ PartInv' /\ LandedInv' /\ BilledInv'
    BY <2>3, <2>4 DEF CopyTypeOK, UpPcs, PartInv, LandedInv, BilledInv
  <2>6. ReadInv' /\ EofInv'
    BY <2>3 DEF ReadInv, EofInv
  <2> QED
    BY <2>5, <2>6
<1> QED
  BY <1>2, <1>3, <1>4, <1>5 DEF EmptyPut

(* The answer is read off put_stream's.                                    *)
LEMMA CopyReturnKeeps == CopyInv /\ CopyReturn => CopyInv'
<1> SUFFICES ASSUME CopyInv, CopyReturn PROVE CopyInv'
  OBVIOUS
<1> QED
  BY DEF CopyInv, CopyReturn, PutReturned, CopyTypeOK, ReadInv, PartInv, EofInv, LandedInv,
     BilledInv, putVars

(* CopyInv is inductive.                                                   *)
THEOREM CopyInvariant == Spec => []CopyInv
<1>1. CopyInv /\ [Next]_vars => CopyInv'
  <2> SUFFICES ASSUME CopyInv, [Next]_vars PROVE CopyInv'
    OBVIOUS
  <2>1. CASE UNCHANGED vars
    BY <2>1 DEF vars, putVars, copyVars, CopyInv, CopyTypeOK, ReadInv, PartInv, EofInv,
       LandedInv, BilledInv
  <2>2. CASE CopyDone
    BY <2>1, <2>2 DEF CopyDone
  <2>3. CASE PutStreamStep
    BY <2>3, ReadBodyKeeps, UploadKeeps, LandKeeps DEF PutStreamStep, PutNext
  <2> QED
    BY <2>1, <2>2, <2>3, CountedReadKeeps, CopyReturnKeeps DEF Next
<1> QED
  BY CopyInit, <1>1, PTL DEF Spec

(* stream_copy: whatever lands is the source, of any length and at any     *)
(* part size, and a copy reported as done has landed.                      *)
THEOREM CopyIsVerbatim == Spec => []CopyVerbatim
<1>1. CopyInv => CopyVerbatim
  BY DEF CopyInv, LandedInv, BilledInv, CopyVerbatim
<1> QED
  BY <1>1, CopyInvariant, PTL

(* CountingReader and BytesInPolicy: a copy that succeeds bills BytesOut   *)
(* for what landed, and BytesIn for all of the source or for none of it.   *)
THEOREM CopyIsBilledOnce == Spec => []CopyBilled
<1>1. CopyInv => CopyBilled
  BY DEF CopyInv, LandedInv, BilledInv, EofInv, CopyBilled
<1> QED
  BY <1>1, CopyInvariant, PTL
=============================================================================
