-------------------------- MODULE StreamRunProofs --------------------------
(***************************************************************************)
(* stream_run for every body, every channel capacity and every part size.  *)
(*                                                                         *)
(* First its types, and that its answer tells the truth about the          *)
(* destination: the output channel of a run that is given up ends in the   *)
(* abort sentinel, and stays so until put_stream has read it; a clean end  *)
(* of the body therefore means that the run was written.                   *)
(*                                                                         *)
(* Then stream_run against buffer_run: the verdict, the counters and the   *)
(* object that lands are the ones buffer mode would have given, but for    *)
(* the bodies of ReadApart, which are Unrecognized, and seen from outside  *)
(* stream_run implements FilterObject.  That argument follows              *)
(* a body through the four tasks.  The cells the parser has consumed are a *)
(* prefix of the body, and its state says how that prefix reads            *)
(* (ParseInv); the records of the prefix are processed, queued or in the   *)
(* extractor's hand, in source order (QueueInv); tally and output are a    *)
(* function of the processed ones (TallyInv, StreamInv); and what          *)
(* put_stream has read is a prefix of the output (OutputInv).              *)
(***************************************************************************)
EXTENDS StreamRun, SequenceTheorems, FiniteSetTheorems, TLAPS

USE OutCapAssumption, PartSizeAssumption, InCapAssumption, RecCapAssumption

(* A chunk lies within the output produced so far.                         *)
ChunkInv ==
    /\ flushed <= Len(stream)
    /\ part <= Len(upBody)
    /\ \A i \in 1..Len(outq) :
          outq[i][1] <= outq[i][2] /\ outq[i][2] <= Len(stream)

(* The processing block has its result before it winds down.               *)
ResultInv == procPc \in {"tail", "abort", "done"} => procRes \in ProcResults

TypeInv == TypeOK /\ ChunkInv /\ ResultInv

-----------------------------------------------------------------------------
(* Sending on and receiving from a bounded channel.                        *)
LEMMA SendTyped ==
    ASSUME NEW S, NEW q \in Seq(S), NEW x \in S, NEW cap \in Nat, Len(q) < cap
    PROVE  Append(q, x) \in Seq(S) /\ Len(Append(q, x)) <= cap
<1>1. Append(q, x) \in Seq(S) /\ Len(Append(q, x)) = Len(q) + 1
  BY AppendProperties
<1>2. Len(q) \in Nat
  BY LenProperties
<1> QED
  BY <1>1, <1>2

(* Receiving: the head is a message, the tail the channel that is left.    *)
LEMMA ReceiveTyped ==
    ASSUME NEW S, NEW q \in Seq(S), q # <<>>, NEW cap \in Nat, Len(q) <= cap
    PROVE  /\ Head(q) \in S
           /\ Tail(q) \in Seq(S) /\ Len(Tail(q)) <= cap
           /\ Len(Tail(q)) = Len(q) - 1 /\ Len(q) \in Nat \ {0}
           /\ \A i \in 1..(Len(q) - 1) : Tail(q)[i] = q[i + 1]
<1>1. /\ Head(q) \in S /\ Tail(q) \in Seq(S) /\ Len(Tail(q)) = Len(q) - 1
      /\ \A i \in 1..(Len(q) - 1) : Tail(q)[i] = q[i + 1]
  BY HeadTailProperties
<1>2. Len(q) \in Nat /\ Len(q) # 0
  BY EmptySeq, LenProperties
<1> QED
  BY <1>1, <1>2

(* The channel a task starts with.                                         *)
LEMMA EmptyTyped ==
    ASSUME NEW S PROVE <<>> \in Seq(S) /\ Len(<<>>) = 0
BY EmptySeq

(* The source body is a finite sequence of cells.                          *)
LEMMA BodyFacts ==
    ASSUME TypeOK
    PROVE  body \in Seq(Cell) /\ Len(body) \in Nat /\ 0 \in 0..Len(body)
           /\ DOMAIN body = 1..Len(body)
<1>1. body \in Seq(Cell)
  BY BodiesAssumption DEF TypeOK
<1> QED
  BY <1>1, LenProperties

(* The state stream_run starts its four tasks in is typed.                 *)
LEMMA TypeInit == Init => TypeInv
<1> SUFFICES ASSUME Init PROVE TypeInv
  OBVIOUS
<1>1. body \in Seq(Cell) /\ Len(body) \in Nat
  BY BodiesAssumption, LenProperties DEF Init
<1>2. parser \in ParserStates
  BY DEF Init, ParserStates
<1>3. tally \in Tallies /\ published \in Tallies
  BY DEF Init, Tallies, NoTally
<1>4. PutTypeOK
  <2>1. stream \in Seq(Nat) /\ upBody \in Seq(Nat) /\ dest \in Seq(Nat)
    BY EmptyTyped DEF Init, PutInit
  <2>2. outq \in Seq(Nat \X Nat) /\ Len(outq) <= OutCap
    BY EmptyTyped DEF Init
  <2> QED
    BY <2>1, <2>2 DEF Init, PutInit, PutTypeOK, UpPcs, UploadStates
<1>5. TypeOK
  <2>1. /\ inq \in Seq(0..Len(body)) /\ Len(inq) <= InCap
        /\ recq \in Seq(0..Len(body)) /\ Len(recq) <= RecCap
    BY EmptyTyped DEF Init
  <2>2. bytesIn \in 0..Len(body) /\ scanned \in 0..Len(body)
    BY <1>1 DEF Init
  <2>3. body \in Bodies /\ transport \in BOOLEAN /\ flushed \in Nat
           /\ bytesOut \in Nat
    BY DEF Init
  <2> QED
    BY <1>2, <1>3, <1>4, <2>1, <2>2, <2>3 DEF Init, TypeOK
<1>6. ChunkInv
  BY EmptyTyped DEF Init, PutInit, ChunkInv
<1> QED
  BY <1>5, <1>6 DEF TypeInv, ResultInv, Init

(* The input pump.                                                         *)
LEMMA PumpTypes == TypeInv /\ Pump => TypeInv'
<1> SUFFICES ASSUME TypeInv, Pump PROVE TypeInv'
  OBVIOUS
<1> USE DEF Pump, PumpRead, PumpSend, PumpSendErr, CanSend, TypeInv
<1>0. UNCHANGED <<body, extVars, recq, procVars, joinVars, stream, outq,
                  closed, putVars>>
  OBVIOUS
<1>1. body \in Seq(Cell) /\ Len(body) \in Nat /\ 0 \in 0..Len(body)
  BY BodyFacts
<1>2. pumpPc' \in {"read", "send", "sendErr", "done"} /\ bytesIn' \in 0..Len(body)
  BY <1>1 DEF TypeOK
<1>3. inq' \in Seq(0..Len(body)) /\ Len(inq') <= InCap
  <2>1. CASE inq' = inq
    BY <2>1 DEF TypeOK
  <2>2. ASSUME NEW x \in 0..Len(body), Len(inq) < InCap, inq' = Append(inq, x)
        PROVE  inq' \in Seq(0..Len(body)) /\ Len(inq') <= InCap
    BY <2>2, SendTyped DEF TypeOK
  <2> QED
    BY <1>1, <2>1, <2>2 DEF TypeOK
<1>4. TypeOK'
  BY <1>0, <1>2, <1>3 DEF TypeOK, PutTypeOK, extVars, procVars, joinVars, putVars
<1>5. ChunkInv' /\ ResultInv'
  BY <1>0 DEF ChunkInv, ResultInv, procVars, putVars
<1> QED
  BY <1>4, <1>5

(* The parser's state stays in the grammar's state set.                    *)
LEMMA AfterCellTyped ==
    ASSUME NEW p \in ParserStates, NEW cell
    PROVE  AfterCell(p, cell) \in ParserStates
<1> USE DEF ParserStates
<1>1. CASE cell = "seal"
  BY <1>1 DEF AfterCell
<1>2. CASE cell \in {"open", "shape"}
  BY <1>2 DEF AfterCell
<1>3. CASE cell \in {"list", "other", "close", "end"}
  BY <1>3 DEF AfterCell
<1>4. CASE cell = "again"
  <2>1. AfterCell(p, cell) = [p EXCEPT !.keys = p.keys + 1, !.sealed = FALSE]
    BY <1>4 DEF AfterCell
  <2>2. p.keys + 1 \in Nat
    OBVIOUS
  <2> QED
    BY <2>1, <2>2
<1>5. CASE cell \notin {"seal", "open", "list", "shape", "other", "close",
                        "again", "end"}
  BY <1>5 DEF AfterCell
<1> QED
  BY <1>1, <1>2, <1>3, <1>4, <1>5

(* The extraction task, whether it runs or panics.                         *)
LEMMA ExtractTypes == TypeInv /\ (Extract \/ ExtractPanic) => TypeInv'
<1> SUFFICES ASSUME TypeInv, Extract \/ ExtractPanic PROVE TypeInv'
  OBVIOUS
<1> USE DEF Extract, ScanCell, ScanReadError, ScanEof, EmitRecord,
        SendFinished, ExtractPanic, EndScan, CanSend, TypeInv
<1>0. UNCHANGED <<body, pumpVars, procVars, joinVars, stream, outq, closed,
                  putVars>>
  OBVIOUS
<1>1. body \in Seq(Cell) /\ Len(body) \in Nat /\ 0 \in 0..Len(body)
  BY BodyFacts
<1>2. /\ inq' \in Seq(0..Len(body)) /\ Len(inq') <= InCap
      /\ scanned' \in 0..Len(body)
  <2>1. CASE inq' = inq /\ scanned' = scanned
    BY <2>1 DEF TypeOK
  <2>2. CASE /\ inq # <<>> /\ inq' = Tail(inq)
             /\ scanned' \in {scanned, Head(inq)}
    <3>1. inq \in Seq(0..Len(body)) /\ Len(inq) <= InCap /\ scanned \in 0..Len(body)
      BY DEF TypeOK
    <3>2. /\ Tail(inq) \in Seq(0..Len(body)) /\ Len(Tail(inq)) <= InCap
          /\ Head(inq) \in 0..Len(body)
      BY <2>2, <3>1, ReceiveTyped
    <3> QED
      BY <2>2, <3>1, <3>2, Zenon
  <2> QED
    BY <2>1, <2>2
<1>3. recq' \in Seq(0..Len(body)) /\ Len(recq') <= RecCap
  <2>1. CASE recq' = recq
    BY <2>1 DEF TypeOK
  <2>2. ASSUME NEW x \in 0..Len(body), Len(recq) < RecCap,
               recq' = Append(recq, x)
        PROVE  recq' \in Seq(0..Len(body)) /\ Len(recq') <= RecCap
    BY <2>2, SendTyped DEF TypeOK
  <2> QED
    BY <1>1, <2>1, <2>2 DEF TypeOK
<1>4. parser' \in ParserStates
  BY AfterCellTyped DEF TypeOK
<1>5. finish' \in FinishKinds \cup {"none"}
  BY DEF TypeOK, FinishKinds, Failures, FinishAtEof
<1>6. extPc' \in {"scan", "emit", "finish", "done", "panicked"}
        /\ transport' \in BOOLEAN
  BY DEF TypeOK
<1>7. TypeOK'
  BY <1>0, <1>2, <1>3, <1>4, <1>5, <1>6 DEF TypeOK, PutTypeOK, pumpVars,
     procVars, joinVars, putVars
<1>8. ChunkInv' /\ ResultInv'
  BY <1>0 DEF ChunkInv, ResultInv, procVars, putVars
<1> QED
  BY <1>7, <1>8

-----------------------------------------------------------------------------
(* A chunk of output produced so far may be sent.                          *)
LEMMA SendOutTyped ==
    ASSUME TypeInv, NEW a \in Nat, NEW b \in Nat, a <= b, b <= Len(stream),
           SendOut(<<a, b>>)
    PROVE  /\ outq' \in Seq(Nat \X Nat) /\ Len(outq') <= OutCap
           /\ \A i \in 1..Len(outq') :
                 outq'[i][1] <= outq'[i][2] /\ outq'[i][2] <= Len(stream)
<1> USE DEF TypeInv
<1>1. CASE UNCHANGED outq
  BY <1>1 DEF TypeOK, PutTypeOK, ChunkInv
<1>2. CASE Len(outq) < OutCap /\ outq' = Append(outq, <<a, b>>)
  <2>1. outq \in Seq(Nat \X Nat) /\ <<a, b>> \in Nat \X Nat
    BY DEF TypeOK, PutTypeOK
  <2>2. /\ outq' \in Seq(Nat \X Nat) /\ Len(outq') <= OutCap
    BY <1>2, <2>1, SendTyped
  <2>3. /\ Len(outq') = Len(outq) + 1 /\ Len(outq) \in Nat
        /\ \A i \in 1..Len(outq) : outq'[i] = outq[i]
        /\ outq'[Len(outq) + 1] = <<a, b>>
    BY <1>2, <2>1, AppendProperties, LenProperties
  <2>4. ASSUME NEW i \in 1..Len(outq')
        PROVE  outq'[i][1] <= outq'[i][2] /\ outq'[i][2] <= Len(stream)
    <3>1. CASE i \in 1..Len(outq)
      BY <2>3, <3>1 DEF ChunkInv
    <3>2. CASE i = Len(outq) + 1
      BY <2>3, <3>2
    <3> QED
      BY <2>3, <3>1, <3>2
  <2> QED
    BY <2>2, <2>4
<1> QED
  BY <1>1, <1>2 DEF SendOut, CanSend

(* Counting one record keeps the tally a record of naturals.               *)
LEMMA CountedTyped ==
    ASSUME NEW t \in Tallies, NEW cell PROVE Counted(t, cell) \in Tallies
BY DEF Counted, Tallies

(* The processing block adds to the output and hands it on in chunks.      *)
LEMMA ProcessingTypes == TypeInv /\ Processing => TypeInv'
<1> SUFFICES ASSUME TypeInv, Processing PROVE TypeInv'
  OBVIOUS
<1> USE DEF TypeInv
<1>0. UNCHANGED <<body, pumpVars, inq, extVars, joinVars, putVars>>
  BY DEF Processing, ProcHeader, ProcRecord, ProcFlush, ProcFinished,
     ProcVanished, ProcTail, ProcAbort
<1>1. /\ body \in Seq(Cell) /\ Len(body) \in Nat
      /\ stream \in Seq(Nat) /\ Len(stream) \in Nat /\ flushed \in Nat
  BY BodyFacts, LenProperties DEF TypeOK, PutTypeOK
<1>2. recq' \in Seq(0..Len(body)) /\ Len(recq') <= RecCap
  <2>1. CASE recq' = recq
    BY <2>1 DEF TypeOK
  <2>2. CASE recq # <<>> /\ recq' = Tail(recq)
    BY <1>1, <2>2, ReceiveTyped DEF TypeOK
  <2> QED
    BY <2>1, <2>2 DEF Processing, ProcHeader, ProcRecord, ProcFlush,
       ProcFinished, ProcVanished, ProcTail, ProcAbort
<1>3. tally' \in Tallies
  <2>1. NoTally \in Tallies
    BY DEF NoTally, Tallies
  <2> QED
    BY <2>1, CountedTyped DEF TypeOK, Processing, ProcHeader, ProcRecord,
       ProcFlush, ProcFinished, ProcVanished, ProcTail, ProcAbort
<1>4. /\ procPc' \in {"header", "recv", "flush", "tail", "abort", "done"}
      /\ procRes' \in ProcResults \cup {"none"}
      /\ closed' \in BOOLEAN
  BY DEF TypeOK, PutTypeOK, Processing, ProcHeader, ProcRecord, ProcFlush,
     ProcFinished, ProcVanished, ProcTail, ProcAbort, GiveUp, ProcResults,
     Failures
<1>5. /\ stream' \in Seq(Nat) /\ Len(stream') \in Nat
      /\ Len(stream') >= Len(stream)
      /\ stream' # stream => outq' = outq /\ flushed' = flushed
  <2>1. CASE stream' = stream
    BY <1>1, <2>1
  <2>2. ASSUME NEW x \in Nat, stream' = Append(stream, x)
        PROVE  /\ stream' \in Seq(Nat) /\ Len(stream') \in Nat
               /\ Len(stream') >= Len(stream)
    BY <1>1, <2>2, AppendProperties
  <2>3. CASE ProcHeader
    BY <2>1, <2>2, <2>3 DEF ProcHeader, Opening
  <2>4. CASE ProcRecord
    <3>1. Head(recq) \in Nat
      <4>1. recq \in Seq(0..Len(body)) /\ Len(recq) <= RecCap /\ recq # <<>>
        BY <2>4 DEF TypeOK, ProcRecord
      <4>2. Head(recq) \in 0..Len(body)
        BY <4>1, ReceiveTyped
      <4> QED
        BY <1>1, <4>2
    <3> QED
      BY <2>1, <2>2, <2>4, <3>1 DEF ProcRecord
  <2>5. CASE ProcFinished
    <3>1. Closing(body) \in Nat
      BY <1>1 DEF Closing
    <3> QED
      BY <2>1, <2>2, <2>5, <3>1 DEF ProcFinished
  <2> QED
    BY <2>1, <2>3, <2>4, <2>5 DEF Processing, ProcFlush, ProcVanished,
       ProcTail, ProcAbort
<1>6. /\ flushed' \in Nat /\ flushed' <= Len(stream')
      /\ outq' \in Seq(Nat \X Nat) /\ Len(outq') <= OutCap
      /\ \A i \in 1..Len(outq') :
            outq'[i][1] <= outq'[i][2] /\ outq'[i][2] <= Len(stream')
  <2>1. CASE outq' = outq /\ flushed' = flushed
    <3>1. outq \in Seq(Nat \X Nat) /\ Len(outq) <= OutCap
      BY DEF TypeOK, PutTypeOK
    <3>2. ASSUME NEW i \in 1..Len(outq)
          PROVE  outq[i][1] <= outq[i][2] /\ outq[i][2] <= Len(stream')
      <4>1. outq[i] \in Nat \X Nat
        BY <3>1
      <4>2. outq[i][2] <= Len(stream) /\ outq[i][1] <= outq[i][2]
        BY DEF ChunkInv
      <4> QED
        BY <1>1, <1>5, <4>1, <4>2
    <3> QED
      BY <1>1, <1>5, <2>1, <3>1, <3>2 DEF ChunkInv
  <2>2. CASE /\ stream' = stream /\ flushed' = Len(stream)
             /\ SendOut(<<flushed, Len(stream)>>)
    BY <1>1, <2>2, SendOutTyped DEF ChunkInv
  <2>3. CASE stream' = stream /\ flushed' = flushed /\ SendOut(AbortMsg)
    <3>1. SendOut(<<0, 0>>) /\ 0 <= Len(stream)
      BY <1>1, <2>3 DEF AbortMsg
    <3> QED
      BY <1>1, <2>3, <3>1, SendOutTyped DEF ChunkInv
  <2> QED
    BY <2>1, <2>2, <2>3 DEF Processing, ProcHeader, ProcRecord, ProcFlush,
       ProcFinished, ProcVanished, ProcTail, ProcAbort
<1>7. TypeOK'
  BY <1>0, <1>2, <1>3, <1>4, <1>5, <1>6 DEF TypeOK, PutTypeOK, pumpVars,
     extVars, joinVars, putVars
<1>8. ResultInv' /\ part' <= Len(upBody')
  BY <1>0 DEF ChunkInv, putVars, TypeOK, ResultInv, Processing, ProcHeader, ProcRecord, ProcFlush,
     ProcFinished, ProcVanished, ProcTail, ProcAbort, GiveUp, ProcResults,
     Failures
<1> QED
  BY <1>6, <1>7, <1>8 DEF ChunkInv

-----------------------------------------------------------------------------
(* put_stream.                                                             *)
LEMMA UploadTypes == TypeInv /\ Upload => TypeInv'
<1> SUFFICES ASSUME TypeInv, Upload PROVE TypeInv'
  OBVIOUS
<1> USE DEF TypeInv
<1>0. UNCHANGED <<body, pumpVars, inq, extVars, recq, procVars, joinVars,
                  stream, closed>>
  BY DEF Upload, PutNext, CreateUpload, ReadBody, UploadPart, EndShort, EndFull,
     CompleteUpload, AbortUpload
<1>1. /\ outq \in Seq(Nat \X Nat) /\ Len(outq) <= OutCap
      /\ stream \in Seq(Nat) /\ Len(stream) \in Nat
      /\ upBody \in Seq(Nat) /\ Len(upBody) \in Nat
      /\ part \in Nat /\ parts \in Nat
  BY LenProperties DEF TypeOK, PutTypeOK
<1>2. /\ outq' \in Seq(Nat \X Nat) /\ Len(outq') <= OutCap
      /\ \A i \in 1..Len(outq') :
            outq'[i][1] <= outq'[i][2] /\ outq'[i][2] <= Len(stream)
  <2>1. CASE outq' = outq
    BY <1>1, <2>1 DEF ChunkInv
  <2>2. CASE ReadBody
    <3>1. outq # <<>> /\ outq' = Tail(outq)
      BY <2>2 DEF ReadBody
    <3>2. /\ Tail(outq) \in Seq(Nat \X Nat) /\ Len(Tail(outq)) <= OutCap
          /\ Len(Tail(outq)) = Len(outq) - 1 /\ Len(outq) \in Nat
          /\ \A i \in 1..(Len(outq) - 1) : Tail(outq)[i] = outq[i + 1]
      BY <1>1, <3>1, ReceiveTyped
    <3>3. ASSUME NEW i \in 1..Len(outq')
          PROVE  outq'[i][1] <= outq'[i][2] /\ outq'[i][2] <= Len(stream)
      <4>1. i + 1 \in 1..Len(outq) /\ outq'[i] = outq[i + 1]
        BY <3>1, <3>2
      <4> QED
        BY <4>1 DEF ChunkInv
    <3> QED
      BY <3>1, <3>2, <3>3
  <2> QED
    BY <2>1, <2>2 DEF Upload, PutNext, CreateUpload, UploadPart, EndShort,
       EndFull, CompleteUpload, AbortUpload
<1>3. /\ upBody' \in Seq(Nat) /\ part' \in Nat /\ parts' \in Nat
      /\ part' <= Len(upBody')
  <2>1. CASE ReadBody
    <3>1. outq # <<>> /\ Head(outq) \in Nat \X Nat /\ Head(outq) = outq[1]
             /\ Len(outq) \in Nat \ {0}
      BY <1>1, <2>1, ReceiveTyped DEF ReadBody
    <3>2. PICK a, b \in Nat : Head(outq) = <<a, b>>
      <4>1. \A p \in Nat \X Nat : \E a, b \in Nat : p = <<a, b>>
        OBVIOUS
      <4> QED
        BY <3>1, <4>1, Zenon
    <3>3. a <= b /\ b <= Len(stream)
      BY <3>1, <3>2 DEF ChunkInv
    <3> DEFINE chunk == SubSeq(stream, a + 1, b)
    <3>4. chunk \in Seq(Nat) /\ Len(chunk) = b - a
      BY <1>1, <3>3, SubSeqProperties
    <3>5. upBody \o chunk \in Seq(Nat)
             /\ Len(upBody \o chunk) = Len(upBody) + (b - a)
      BY <1>1, <3>4, ConcatProperties
    <3>6. part + (b - a) \in Nat /\ part + (b - a) <= Len(upBody) + (b - a)
      BY <1>1, <3>3 DEF ChunkInv
    <3>7. Head(outq)[1] = a /\ Head(outq)[2] = b
      BY <3>2
    <3> QED
      BY <1>1, <2>1, <3>5, <3>6, <3>7 DEF ReadBody, ChunkInv
  <2>2. CASE UploadPart
    BY <1>1, <2>2 DEF UploadPart, ChunkInv
  <2>3. CASE ~ ReadBody /\ ~ UploadPart
    BY <1>1, <2>3 DEF Upload, PutNext, CreateUpload, EndShort, EndFull,
       CompleteUpload, AbortUpload, ChunkInv
  <2> QED
    BY <2>1, <2>2, <2>3
<1>4. Uploaded \in Seq(Nat)
  <2>1. Len(upBody) - part \in Nat /\ Len(upBody) - part <= Len(upBody)
    BY <1>1 DEF ChunkInv
  <2> QED
    BY <1>1, <2>1, SubSeqProperties DEF Uploaded
<1>5. /\ upPc' \in UpPcs /\ mpu' \in UploadStates
      /\ abortLost' \in BOOLEAN /\ landed' \in BOOLEAN
      /\ dest' \in Seq(Nat)
  BY <1>1, <1>4 DEF TypeOK, PutTypeOK, Upload, PutNext, CreateUpload, ReadBody,
     UploadPart, EndShort, EndFull, CompleteUpload, AbortUpload, AbortRequest,
     UpPcs, UploadStates
<1>6. TypeOK'
  BY <1>0, <1>2, <1>3, <1>5 DEF TypeOK, PutTypeOK, pumpVars, extVars,
     procVars, joinVars
<1>7. ChunkInv' /\ ResultInv'
  BY <1>0, <1>2, <1>3 DEF ChunkInv, ResultInv, procVars
<1> QED
  BY <1>6, <1>7

(* The end of stream_run.                                                  *)
LEMMA JoinTypes == TypeInv /\ Join => TypeInv'
<1> SUFFICES ASSUME TypeInv, Join PROVE TypeInv'
  OBVIOUS
<1> USE DEF Join, JoinedResult, Committed, TypeInv
<1>0. UNCHANGED <<body, pumpVars, inq, extVars, recq, procVars, stream, outq,
                  closed, putVars>>
  OBVIOUS
<1>1. result' \in Results \cup {"running"}
  BY DEF ResultInv, ProcessingGone, Results, ProcResults
<1>2. bytesOut' \in Nat /\ published' \in Tallies
  BY DEF TypeOK, NoTally, Tallies
<1>3. TypeOK'
  BY <1>0, <1>1, <1>2 DEF TypeOK, PutTypeOK, pumpVars, extVars, procVars,
     putVars
<1> QED
  BY <1>0, <1>3 DEF ChunkInv, ResultInv, procVars, putVars

(* TypeInv is inductive.                                                   *)
THEOREM TypeInvariant == Spec => []TypeInv
<1>1. TypeInv /\ [Next]_vars => TypeInv'
  <2> SUFFICES ASSUME TypeInv, [Next]_vars PROVE TypeInv'
    OBVIOUS
  <2>1. CASE UNCHANGED vars
    BY <2>1 DEF vars, pumpVars, extVars, procVars, joinVars, putVars, TypeInv,
       TypeOK, PutTypeOK, ChunkInv, ResultInv
  <2>2. CASE Returned
    BY <2>1, <2>2 DEF Returned
  <2> QED
    BY <2>1, <2>2, PumpTypes, ExtractTypes, ProcessingTypes, UploadTypes,
       JoinTypes DEF Next
<1> QED
  BY TypeInit, <1>1, PTL DEF Spec

(* Every channel stays within its capacity and every variable in its type. *)
THEOREM StreamRunIsTyped == Spec => []TypeOK
<1>1. TypeInv => TypeOK
  BY DEF TypeInv
<1> QED
  BY <1>1, TypeInvariant, PTL

-----------------------------------------------------------------------------
(* The processing block's result, and when it lets go of the channel.      *)
VerdictInv ==
    /\ closed = (procPc = "done")
    /\ procPc \in {"header", "recv", "flush"} => procRes = "none"
    /\ procPc = "tail" => procRes = "Written"
    /\ procPc = "abort" => procRes # "Written"

(* A run that was given up has left the abort sentinel for the upload.     *)
SentinelInv ==
    closed /\ procRes # "Written" /\ upPc \in {"create", "fill"} =>
        outq # <<>> /\ outq[Len(outq)] = AbortMsg

(* Only a written run reaches CompleteMultipartUpload.                     *)
CommitInv ==
    /\ upPc \in {"complete", "abortEmpty", "putEmpty", "ok"} \/ landed
          => closed /\ procRes = "Written"
    /\ upPc = "create" => mpu = "none"
    /\ upPc = "ok" => landed /\ mpu # "open"
    /\ upPc = "failed" /\ mpu = "open" => abortLost

(* What stream_run has returned.                                           *)
AnswerInv ==
    result # "running" =>
        /\ procPc = "done" /\ PutReturned
        /\ result = "Written" => upPc = "ok"
        /\ result \in {"NothingKept", "Unrecognized", "Gzip", "Json", "Backend"}
              => procRes = result

OutcomeInv ==
    TypeInv /\ VerdictInv /\ SentinelInv /\ CommitInv /\ AnswerInv

(* Before any task has moved, nothing has landed and nothing is answered.  *)
LEMMA OutcomeInit == Init => OutcomeInv
<1> SUFFICES ASSUME Init PROVE OutcomeInv
  OBVIOUS
<1>1. TypeInv
  BY TypeInit
<1> QED
  BY <1>1 DEF Init, PutInit, OutcomeInv, VerdictInv, SentinelInv, CommitInv,
     AnswerInv

(* The pump and the extraction task touch none of it.                      *)
LEMMA InputKeepsOutcome ==
    OutcomeInv /\ (Pump \/ Extract \/ ExtractPanic) => OutcomeInv'
<1> SUFFICES ASSUME OutcomeInv, Pump \/ Extract \/ ExtractPanic
             PROVE  OutcomeInv'
  OBVIOUS
<1>1. TypeInv'
  BY PumpTypes, ExtractTypes DEF OutcomeInv
<1>2. UNCHANGED <<procVars, joinVars, stream, outq, closed, putVars>>
  BY DEF Pump, PumpRead, PumpSend, PumpSendErr, Extract, ScanCell,
     ScanReadError, ScanEof, EmitRecord, SendFinished, ExtractPanic
<1> QED
  BY <1>1, <1>2 DEF OutcomeInv, VerdictInv, SentinelInv, CommitInv, AnswerInv,
     PutReturned, procVars, joinVars, putVars

(* Giving up sends the sentinel before the channel is closed.              *)
LEMMA ProcessingKeepsOutcome == OutcomeInv /\ Processing => OutcomeInv'
<1> SUFFICES ASSUME OutcomeInv, Processing PROVE OutcomeInv'
  OBVIOUS
<1> USE DEF OutcomeInv
<1>1. TypeInv'
  BY ProcessingTypes
<1>2. procPc # "done" /\ ~ closed /\ UNCHANGED <<joinVars, putVars>>
  BY DEF VerdictInv, Processing, ProcHeader, ProcRecord, ProcFlush,
     ProcFinished, ProcVanished, ProcTail, ProcAbort
<1>3. VerdictInv'
  <2>1. CASE ProcHeader \/ ProcRecord \/ ProcVanished
    BY <1>2, <2>1 DEF VerdictInv, ProcHeader, ProcRecord, ProcVanished, GiveUp
  <2>2. CASE ProcFinished
    BY <1>2, <2>2 DEF VerdictInv, ProcFinished, GiveUp, Failures
  <2>3. CASE ProcFlush \/ ProcTail \/ ProcAbort
    BY <1>2, <2>3 DEF VerdictInv, ProcFlush, ProcTail, ProcAbort
  <2> QED
    BY <2>1, <2>2, <2>3 DEF Processing
<1>4. SentinelInv'
  <2>1. CASE ProcAbort
    <3>1. CASE PutReturned
      BY <1>2, <3>1 DEF SentinelInv, PutReturned, putVars
    <3>2. CASE ~ PutReturned
      <4>1. outq' = Append(outq, AbortMsg)
        BY <2>1, <3>2 DEF ProcAbort, SendOut
      <4>2. outq \in Seq(Nat \X Nat) /\ AbortMsg \in Nat \X Nat
        BY DEF TypeInv, TypeOK, PutTypeOK, AbortMsg
      <4>3. Len(outq') = Len(outq) + 1 /\ outq'[Len(outq) + 1] = AbortMsg
               /\ outq' # <<>>
        BY <4>1, <4>2, AppendProperties
      <4> QED
        BY <4>3 DEF SentinelInv
    <3> QED
      BY <3>1, <3>2
  <2>2. CASE ProcTail
    BY <2>2 DEF SentinelInv, VerdictInv, ProcTail
  <2>3. CASE ~ closed'
    BY <2>3 DEF SentinelInv
  <2> QED
    BY <1>2, <2>1, <2>2, <2>3 DEF Processing, ProcHeader, ProcRecord,
       ProcFlush, ProcFinished, ProcVanished
<1>5. CommitInv'
  BY <1>2 DEF CommitInv, putVars
<1>6. AnswerInv'
  BY <1>2 DEF AnswerInv, joinVars, putVars
<1> QED
  BY <1>1, <1>3, <1>4, <1>5, <1>6

(* The upload reaches its completion only past the last chunk of a run     *)
(* that was written, and leaves no upload open without having tried.       *)
LEMMA UploadKeepsOutcome == OutcomeInv /\ Upload => OutcomeInv'
<1> SUFFICES ASSUME OutcomeInv, Upload PROVE OutcomeInv'
  OBVIOUS
<1> USE DEF OutcomeInv
<1>1. TypeInv'
  BY UploadTypes
<1>2. UNCHANGED <<procVars, joinVars, closed>>
  BY DEF Upload, PutNext, CreateUpload, ReadBody, UploadPart, EndShort, EndFull,
     CompleteUpload, AbortUpload
<1>3. ~ PutReturned /\ result = "running"
  BY DEF AnswerInv, PutReturned, Upload, PutNext, CreateUpload, ReadBody,
     UploadPart, EndShort, EndFull, AtEof, CompleteUpload, AbortUpload
<1>4. VerdictInv' /\ AnswerInv'
  BY <1>2, <1>3 DEF VerdictInv, AnswerInv, procVars, joinVars
<1>5. SentinelInv'
  <2>1. CASE ReadBody
    <3> SUFFICES ASSUME closed, procRes # "Written", upPc' = "fill"
                 PROVE  outq' # <<>> /\ outq'[Len(outq')] = AbortMsg
      BY <1>2, <2>1 DEF SentinelInv, ReadBody, procVars
    <3>1. /\ outq # <<>> /\ outq' = Tail(outq) /\ Head(outq) # AbortMsg
          /\ outq[Len(outq)] = AbortMsg
      BY <2>1 DEF ReadBody, SentinelInv
    <3>2. /\ outq \in Seq(Nat \X Nat) /\ Len(outq) <= OutCap
      BY DEF TypeInv, TypeOK, PutTypeOK
    <3>3. /\ Len(outq') = Len(outq) - 1 /\ Len(outq) \in Nat \ {0}
          /\ \A i \in 1..(Len(outq) - 1) : outq'[i] = outq[i + 1]
          /\ Head(outq) = outq[1]
      BY <3>1, <3>2, ReceiveTyped
    <3>4. Len(outq) # 1
      BY <3>1, <3>3
    <3>5. Len(outq) - 1 \in 1..(Len(outq) - 1)
      BY <3>3, <3>4
    <3>6. outq'[Len(outq')] = AbortMsg /\ Len(outq') # 0
      BY <3>1, <3>3, <3>4, <3>5
    <3> QED
      BY <3>6, EmptyTyped
  <2>2. CASE ~ ReadBody
    BY <1>2, <2>2 DEF SentinelInv, procVars, Upload, PutNext, CreateUpload,
       UploadPart, EndShort, EndFull, CompleteUpload, AbortUpload
  <2> QED
    BY <2>1, <2>2
<1>6. CommitInv'
  <2>1. CASE EndShort \/ EndFull
    <3>1. closed /\ procRes = "Written"
      BY <2>1 DEF EndShort, EndFull, AtEof, SentinelInv
    <3> QED
      BY <1>2, <2>1, <3>1 DEF EndShort, EndFull, AtEof, CommitInv, procVars
  <2>2. CASE CreateUpload \/ ReadBody \/ UploadPart
    BY <1>2, <2>2 DEF CreateUpload, ReadBody, UploadPart, CommitInv, procVars
  <2>3. CASE CompleteUpload
    BY <1>2, <2>3 DEF CompleteUpload, CommitInv, procVars
  <2>4. CASE AbortUpload
    BY <1>2, <2>4 DEF AbortUpload, AbortRequest, CommitInv, procVars
  <2> QED
    BY <2>1, <2>2, <2>3, <2>4 DEF Upload, PutNext
<1> QED
  BY <1>1, <1>4, <1>5, <1>6

(* join! reads the four ends off the tasks and turns them into the answer. *)
LEMMA JoinKeepsOutcome == OutcomeInv /\ Join => OutcomeInv'
<1> SUFFICES ASSUME OutcomeInv, Join PROVE OutcomeInv'
  OBVIOUS
<1> USE DEF OutcomeInv
<1>1. TypeInv'
  BY JoinTypes
<1>2. UNCHANGED <<procVars, stream, outq, closed, putVars>>
  BY DEF Join
<1>3. VerdictInv' /\ SentinelInv' /\ CommitInv'
  BY <1>2 DEF VerdictInv, SentinelInv, CommitInv, procVars, putVars
<1>4. AnswerInv'
  BY <1>2 DEF Join, JoinedResult, ProcessingGone, PutReturned, AnswerInv, procVars, putVars
<1> QED
  BY <1>1, <1>3, <1>4

(* OutcomeInv is inductive.                                                *)
THEOREM OutcomeInvariant == Spec => []OutcomeInv
<1>1. OutcomeInv /\ [Next]_vars => OutcomeInv'
  <2> SUFFICES ASSUME OutcomeInv, [Next]_vars PROVE OutcomeInv'
    OBVIOUS
  <2>1. CASE UNCHANGED vars
    <3>1. TypeInv'
      BY <2>1 DEF vars, pumpVars, extVars, procVars, joinVars, putVars,
         OutcomeInv, TypeInv, TypeOK, PutTypeOK, ChunkInv, ResultInv
    <3> QED
      BY <2>1, <3>1 DEF vars, procVars, joinVars, putVars, OutcomeInv,
         VerdictInv, SentinelInv, CommitInv, AnswerInv, PutReturned
  <2>2. CASE Returned
    BY <2>1, <2>2 DEF Returned
  <2> QED
    BY <2>1, <2>2, InputKeepsOutcome, ProcessingKeepsOutcome,
       UploadKeepsOutcome, JoinKeepsOutcome DEF Next
<1> QED
  BY OutcomeInit, <1>1, PTL DEF Spec

(* Written means the object is at dest_key; any other verdict on the       *)
(* source, and a failed read of it, means dest_key is untouched, whatever  *)
(* the four tasks did meanwhile.                                           *)
THEOREM StreamRunOutcomeIsTrue == Spec => []OutcomeMatchesDestination
<1>1. OutcomeInv => OutcomeMatchesDestination
  BY DEF OutcomeInv, CommitInv, AnswerInv, OutcomeMatchesDestination
<1> QED
  BY <1>1, OutcomeInvariant, PTL

(* put_stream never returns with its upload open, unless the request that  *)
(* aborts it failed.                                                       *)
THEOREM StreamRunLeavesNoOrphan == Spec => []NoOrphanUpload
<1>1. OutcomeInv => NoOrphanUpload
  BY DEF OutcomeInv, CommitInv, NoOrphanUpload, PutReturned
<1> QED
  BY <1>1, OutcomeInvariant, PTL

-----------------------------------------------------------------------------
(***************************************************************************)
(* Parity with buffer_run.                                                 *)
(***************************************************************************)

-----------------------------------------------------------------------------
(* How the first n cells of body b read: the decompressed cells among      *)
(* them, and the places the grammar can be in before `end`, by the cell    *)
(* op that opened the value.                                               *)
Prefix(b, n) == {k \in 1..n : b[k] # "seal"}

InRecords(b, n, op) ==
    \E o \in 1..n : b[o] = op /\ \A k \in Prefix(b, n) : k = o \/ (o < k /\ b[k] \in Record)

InArray(b, n, op) ==
    \E o, c \in 1..n :
        /\ o < c /\ b[o] = op /\ b[c] = "close"
        /\ \A k \in Prefix(b, n) :
              \/ k \in {o, c} \/ (o < k /\ k < c /\ b[k] \in Record)
              \/ c < k /\ b[k] = "opaque"
              \/ c < k /\ b[k] = "again" /\ op = "open"

InSkipped(b, n, op) ==
    \E o \in 1..n :
        /\ b[o] = op
        /\ \A k \in Prefix(b, n) :
              \/ k = o \/ (o < k /\ b[k] = "opaque")
              \/ o < k /\ b[k] = "again" /\ op = "shape"

InEnvelope(b, n, p) ==
    \/ /\ p.found = TRUE /\ p.keys >= 1 /\ InArray(b, n, "open")
       /\ p.keys = 1 <=> \A k \in 1..n : b[k] # "again"
    \/ p.found = FALSE /\ p.keys = 0 /\ InArray(b, n, "list")
    \/ p.found = FALSE /\ p.keys >= 1 /\ InSkipped(b, n, "shape")
    \/ p.found = FALSE /\ p.keys = 0 /\ InSkipped(b, n, "other")

(* The parser is in state p after the first n cells of b.                  *)
Parsed(b, n, p) ==
    /\ \A k \in 1..n : b[k] # "corrupt"
    /\ p.sealed = (n > 0 /\ b[n] = "seal")
    /\ p.at = "start" => Prefix(b, n) = {} /\ p.found = FALSE /\ p.keys = 0
    /\ p.at = "records" =>
          \/ InRecords(b, n, "open") /\ p.found = TRUE /\ p.keys = 1
          \/ InRecords(b, n, "list") /\ p.found = FALSE /\ p.keys = 0
    /\ p.at = "envelope" => InEnvelope(b, n, p)
    /\ p.at = "ended" =>
          \E e \in 1..n : b[e] = "end" /\ InEnvelope(b, e - 1, p)
                             /\ \A k \in Prefix(b, n) : k <= e

-----------------------------------------------------------------------------
Parsing == extPc \in {"scan", "emit"}

(* While the extraction task reads, the input channel holds the cells from *)
(* the next one on, in order, and a read error only at its end.            *)
InputInv ==
    /\ pumpPc = "send" => bytesIn >= 1
    /\ Parsing =>
        /\ \A i \in 1..Len(inq) : \/ inq[i] = scanned + i
                                  \/ inq[i] = 0 /\ i = Len(inq) /\ pumpPc = "done"
        /\ \/ inq # <<>> /\ inq[Len(inq)] = 0 /\ pumpPc = "done"
           \/ /\ scanned + Len(inq) = IF pumpPc = "send" THEN bytesIn - 1 ELSE bytesIn
              /\ pumpPc = "done" => bytesIn = Len(body)

(* What stream mode makes of a body that is no envelope.                   *)
PassedOver(b) == BufferRun(b) = "Unrecognized" \/ ReadApart(b)

Unreadable(b) == IsUnparsable(BufferRun(b)) /\ ~ ReadApart(b)

(* The parser's state fits the cells consumed, and how the parse ended     *)
(* fits the whole body, as long as the processing block still listens.     *)
ParseInv ==
    /\ Parsing => finish = "none" /\ Parsed(body, scanned, parser)
    /\ extPc = "emit" => scanned \in RecordsOf(body) /\ parser.found = TRUE
    /\ procRes = "none" =>
        /\ finish = "RecordsFound" =>
              /\ scanned = Len(body) /\ bytesIn = Len(body)
              /\ parser.found = TRUE /\ Decompresses(body) /\ IsEnvelope(body)
        /\ finish = "Unrecognized" => bytesIn = Len(body) /\ PassedOver(body)
        /\ finish \in {"Gzip", "Json"} => Unreadable(body)

(* Finished is the last message of the extraction task.                    *)
FinishedInv == \A i \in 1..Len(recq) : recq[i] = 0 => i = Len(recq) /\ extPc = "done"

(* The records the parser has passed, and where they are, while the run    *)
(* may still succeed.                                                      *)
Reading == procRes = "none" /\ extPc # "panicked" /\ finish \notin Failures

Queued == {recq[i] : i \in 1..Len(recq)} \ {0}
InHand == IF extPc = "emit" THEN {scanned} ELSE {}
Passed == {k \in RecordsOf(body) : parser.found = TRUE /\ k <= scanned}
Processed == Passed \ (Queued \cup InHand)

QueueInv ==
    Reading =>
        /\ Queued \subseteq Passed \ InHand
        /\ \A i, j \in 1..Len(recq) : i < j /\ recq[j] # 0 => recq[i] < recq[j]
        /\ \A k \in Processed, q \in Queued : k < q

TallyOf(b, S) ==
    [in    |-> Cardinality(S),
     kept  |-> Cardinality({k \in S : Survives(b[k])}),
     ruled |-> Cardinality({k \in S : b[k] = "drop"}),
     odd   |-> Cardinality({k \in S : b[k] = "odd"})]

TallyInv == Reading => tally = TallyOf(body, Processed)

(* The output so far: the opening and the survivors processed, in order.   *)
StreamInv ==
    Reading =>
        /\ procPc = "header" => stream = <<>> /\ Processed = {}
        /\ procPc \in {"recv", "flush"} =>
              /\ Len(stream) >= 1 /\ stream[1] = Opening
              /\ \A i, j \in 1..Len(stream) : i < j => stream[i] < stream[j]
              /\ {stream[i] : i \in 2..Len(stream)} = {k \in Processed : Survives(body[k])}

(* The result of the processing block is buffer mode's, or Unrecognized    *)
(* for a body the modes read apart.                                        *)
ResultTrue ==
    /\ procRes = "Written" =>
          /\ extPc = "done" /\ bytesIn = Len(body)
          /\ BufferRun(body) = "Written" /\ tally = BufferTally(body)
          /\ ~ ReadApart(body)
          /\ IsOutputOf(stream, body)
    /\ procRes = "NothingKept" =>
          /\ bytesIn = Len(body)
          /\ BufferRun(body) = "NothingKept" /\ tally = BufferTally(body)
          /\ ~ ReadApart(body)
    /\ procRes = "Unrecognized" =>
          /\ bytesIn = Len(body)
          /\ PassedOver(body) /\ tally = NoTally
    /\ procRes \in {"Gzip", "Json"} => Unreadable(body)

(* put_stream has read a prefix of the output; while it reads, the chunks  *)
(* on their way follow it, and one another, without a gap.                 *)
OutputInv ==
    /\ Len(upBody) <= Len(stream) /\ upBody = SubSeq(stream, 1, Len(upBody))
    /\ procPc \in {"flush", "tail"} => flushed < Len(stream)
    /\ procPc = "done" /\ procRes = "Written" => flushed = Len(stream)
    /\ upPc \in {"create", "fill"} =>
        /\ outq = <<>> => Len(upBody) = flushed
        /\ outq # <<>> => outq[1] = AbortMsg \/ outq[1][1] = Len(upBody)
        /\ outq # <<>> => outq[Len(outq)] = AbortMsg \/ outq[Len(outq)][2] = flushed
        /\ \A i \in 1..Len(outq) :
              IF outq[i] = AbortMsg THEN i = Len(outq) /\ closed
              ELSE /\ outq[i][1] < outq[i][2]
                   /\ i > 1 => outq[i][1] = outq[i - 1][2]

(* The whole output, and nothing else, becomes visible.                    *)
LandInv ==
    /\ upPc = "complete" => part = 0 /\ upBody = stream
    /\ landed => upPc \in {"ok", "abort", "failed"} /\ dest = stream

(* The answer, and what was published with it.                             *)
PublishInv ==
    /\ result = "running" => bytesOut = 0 /\ published = NoTally
    /\ result # "running" =>
          /\ extPc \in {"done", "panicked"}
          /\ result = JoinedResult
          /\ bytesOut = IF result = "Written" THEN flushed ELSE 0
          /\ published = Committed(result)

ParityInv ==
    /\ OutcomeInv
    /\ InputInv /\ ParseInv /\ FinishedInv
    /\ QueueInv /\ TallyInv /\ StreamInv
    /\ ResultTrue /\ OutputInv /\ LandInv /\ PublishInv

-----------------------------------------------------------------------------
(* The grammar: what may stand before a cell of one JSON text.             *)
LEMMA TextShape ==
    ASSUME NEW b \in Seq(Cell), IsText(b)
    PROVE  /\ \E e \in 1..Len(b) : b[e] = "end"
           /\ \A k \in 1..Len(b) :
                /\ b[k] # "junk"
                /\ b[k] \in {"open", "list", "shape", "other"} => Prefix(b, k - 1) = {}
                /\ b[k] \in Record \cup {"close"} =>
                      /\ Prefix(b, k - 1) # {}
                      /\ \A j \in Prefix(b, k - 1) : b[j] \in Record \cup {"open", "list"}
                /\ b[k] = "again" =>
                      /\ \E j \in Prefix(b, k - 1) : b[j] \in {"close", "shape"}
                      /\ \A j \in Prefix(b, k - 1) : b[j] \notin {"list", "other", "end"}
                /\ b[k] \in {"opaque", "end"} =>
                      /\ \E j \in Prefix(b, k - 1) : b[j] \in {"close", "shape", "other"}
                      /\ \A j \in Prefix(b, k - 1) : b[j] # "end"
<1>0. Len(b) \in Nat /\ DOMAIN b = 1..Len(b)
  BY LenProperties
<1> USE DEF Prefix, Decompressed, Record
<1>1. CASE \E o, c, e \in DOMAIN b :
              /\ o < c /\ c < e
              /\ b[o] \in {"open", "list"} /\ b[c] = "close" /\ b[e] = "end"
              /\ \A k \in Decompressed(b) :
                    \/ k \in {o, c, e}
                    \/ o < k /\ k < c /\ b[k] \in Record
                    \/ c < k /\ k < e /\ b[k] = "opaque"
                    \/ c < k /\ k < e /\ b[k] = "again" /\ b[o] = "open"
  BY <1>0, <1>1
<1>2. CASE \E o, e \in DOMAIN b :
              /\ o < e /\ b[o] \in {"shape", "other"} /\ b[e] = "end"
              /\ \A k \in Decompressed(b) :
                    \/ k \in {o, e}
                    \/ o < k /\ k < e /\ b[k] = "opaque"
                    \/ o < k /\ k < e /\ b[k] = "again" /\ b[o] = "shape"
  BY <1>0, <1>2
<1> QED
  BY <1>1, <1>2 DEF IsText

(* An envelope is a JSON text, without a second Records key.               *)
LEMMA EnvelopeIsText ==
    ASSUME NEW b \in Seq(Cell), IsEnvelope(b)
    PROVE  /\ IsText(b)
           /\ \A k \in 1..Len(b) : b[k] \notin {"again", "list", "shape", "other"}
<1>0. Len(b) \in Nat /\ DOMAIN b = 1..Len(b)
  BY LenProperties
<1>1. IsText(b)
  BY DEF IsEnvelope, IsText
<1>2. \A k \in 1..Len(b) : b[k] \notin {"again", "list", "shape", "other"}
  BY <1>0 DEF IsEnvelope, Decompressed, Record
<1> QED
  BY <1>1, <1>2

(* So is the array of an array.                                            *)
LEMMA ListedIsText == ASSUME NEW b, IsListed(b) PROVE IsText(b)
BY DEF IsListed, IsText

(* What is no JSON text is unparsable in both modes.                       *)
LEMMA NoText ==
    ASSUME NEW b \in Seq(Cell), ~ IsText(b)
    PROVE  Unreadable(b)
<1>1. ~ IsEnvelope(b) /\ ~ IsListed(b) /\ ~ IsValue(b)
  BY EnvelopeIsText, ListedIsText DEF IsValue
<1> QED
  BY <1>1 DEF Unreadable, BufferRun, IsUnparsable, ReadApart

(* So is what does not decompress.                                         *)
LEMMA NoMember ==
    ASSUME NEW b, ~ Decompresses(b) PROVE Unreadable(b)
BY DEF Unreadable, BufferRun, IsUnparsable, ReadApart

(* A JSON text that is no envelope: buffer mode passes it over as well, or *)
(* reads it apart.                                                         *)
LEMMA NoEnvelope ==
    ASSUME NEW b \in Seq(Cell), Decompresses(b), IsText(b), ~ IsEnvelope(b)
    PROVE  PassedOver(b)
BY DEF PassedOver, BufferRun, ReadApart

(* A cell the parser does not expect makes the body no JSON text.          *)
LEMMA UnexpectedIsNoText ==
    ASSUME NEW b \in Seq(Cell), NEW p \in ParserStates, NEW n \in Nat, n < Len(b),
           Parsed(b, n, p), b[n + 1] # "corrupt", ~ Expected(p, b[n + 1])
    PROVE  ~ IsText(b)
<1> SUFFICES ASSUME IsText(b) PROVE FALSE
  OBVIOUS
<1>0. Len(b) \in Nat /\ n + 1 \in 1..Len(b) /\ (n + 1) - 1 = n /\ b[n + 1] \in Cell
  BY LenProperties
<1>1. /\ b[n + 1] # "junk"
      /\ b[n + 1] \in {"open", "list", "shape", "other"} => Prefix(b, n) = {}
      /\ b[n + 1] \in Record \cup {"close"} =>
            /\ Prefix(b, n) # {}
            /\ \A j \in Prefix(b, n) : b[j] \in Record \cup {"open", "list"}
      /\ b[n + 1] = "again" =>
            /\ \E j \in Prefix(b, n) : b[j] \in {"close", "shape"}
            /\ \A j \in Prefix(b, n) : b[j] \notin {"list", "other", "end"}
      /\ b[n + 1] \in {"opaque", "end"} =>
            /\ \E j \in Prefix(b, n) : b[j] \in {"close", "shape", "other"}
            /\ \A j \in Prefix(b, n) : b[j] # "end"
  BY <1>0, TextShape
<1>2. CASE p.at = "start"
  BY <1>0, <1>1, <1>2 DEF Parsed, Expected, Cell
<1>3. CASE p.at = "records"
  <2>1. PICK o \in 1..n : /\ b[o] \in {"open", "list"}
                         /\ \A k \in Prefix(b, n) : k = o \/ b[k] \in Record
    BY <1>3 DEF Parsed, InRecords
  <2>2. o \in Prefix(b, n)
    BY <2>1 DEF Prefix
  <2> QED
    BY <1>0, <1>1, <1>3, <2>1, <2>2 DEF Expected, Cell, Record
<1>4. CASE p.at = "envelope"
  <2>1. InEnvelope(b, n, p)
    BY <1>4 DEF Parsed
  <2>2. /\ \E c \in 1..n : b[c] \in {"close", "shape", "other"}
        /\ p.keys = 0 => \E o \in 1..n : b[o] \in {"list", "other"}
    BY <2>1 DEF InEnvelope, InArray, InSkipped
  <2>3. /\ \E c \in Prefix(b, n) : b[c] \in {"close", "shape", "other"}
        /\ p.keys = 0 => \E o \in Prefix(b, n) : b[o] \in {"list", "other"}
    BY <2>2 DEF Prefix
  <2> QED
    BY <1>0, <1>1, <1>4, <2>3 DEF Expected, Cell, Record, ParserStates
<1>5. CASE p.at = "ended"
  <2>1. PICK e \in 1..n : b[e] = "end"
    BY <1>5 DEF Parsed
  <2>2. e \in Prefix(b, n)
    BY <2>1 DEF Prefix
  <2> QED
    BY <1>0, <1>1, <1>5, <2>1, <2>2 DEF Expected, Cell, Record
<1> QED
  BY <1>2, <1>3, <1>4, <1>5 DEF ParserStates

(* A cell the parser expects: its state goes on fitting the prefix.        *)
LEMMA ParsedStep ==
    ASSUME NEW b \in Seq(Cell), NEW p \in ParserStates, NEW n \in Nat, n < Len(b),
           Parsed(b, n, p), b[n + 1] # "corrupt", Expected(p, b[n + 1])
    PROVE  Parsed(b, n + 1, AfterCell(p, b[n + 1]))
<1> DEFINE m == n + 1
           cell == b[m]
           q == AfterCell(p, cell)
<1>0. /\ m \in Nat /\ m > 0 /\ m \in 1..m /\ 1..m = (1..n) \cup {m} /\ m \notin 1..n /\ m - 1 = n
      /\ \A k \in 1..n : k < m
  OBVIOUS
<1>1. cell \in Cell
  BY LenProperties
<1>2. \A k \in 1..m : b[k] # "corrupt"
  BY <1>0 DEF Parsed
<1>3. CASE cell = "seal"
  <2>1. q = [p EXCEPT !.sealed = TRUE]
    BY <1>3 DEF AfterCell
  <2>2. q.at = p.at /\ q.found = p.found /\ q.keys = p.keys /\ q.sealed = TRUE
    BY <2>1 DEF ParserStates
  <2>3. Prefix(b, m) = Prefix(b, n)
    BY <1>0, <1>3 DEF Prefix
  <2>4. \A op : InRecords(b, n, op) => InRecords(b, m, op)
    BY <1>0, <2>3 DEF InRecords
  <2>5. InEnvelope(b, n, p) => InEnvelope(b, m, q)
    <3>1. \A op : InArray(b, n, op) => InArray(b, m, op)
      BY <1>0, <2>3 DEF InArray
    <3>2. \A op : InSkipped(b, n, op) => InSkipped(b, m, op)
      BY <1>0, <2>3 DEF InSkipped
    <3>3. (\A k \in 1..n : b[k] # "again") <=> (\A k \in 1..m : b[k] # "again")
      BY <1>0, <1>3
    <3> QED
      BY <2>2, <3>1, <3>2, <3>3 DEF InEnvelope
  <2>6. \A e \in 1..n : InEnvelope(b, e - 1, p) => InEnvelope(b, e - 1, q)
    BY <2>2 DEF InEnvelope
  <2>7. q.sealed = (m > 0 /\ b[m] = "seal")
    BY <1>0, <1>3, <2>2
  <2> QED
    BY <1>0, <1>2, <2>2, <2>3, <2>4, <2>5, <2>6, <2>7 DEF Parsed
<1>4. CASE cell # "seal"
  <2>0. q.sealed = FALSE /\ q.sealed = (m > 0 /\ b[m] = "seal")
    BY <1>1, <1>4 DEF AfterCell, ParserStates, Cell, Record
  <2>1. Prefix(b, m) = Prefix(b, n) \cup {m}
    BY <1>0, <1>4 DEF Prefix
  <2>2. CASE p.at = "start"
    <3>1. /\ cell \in {"open", "list", "shape", "other"} /\ Prefix(b, m) = {m}
          /\ p.found = FALSE /\ p.keys = 0
      BY <1>4, <2>1, <2>2 DEF Expected, Parsed
    <3>2. CASE cell \in {"open", "list"}
      <4>1. /\ q.at = "records" /\ q.found = (cell = "open")
            /\ q.keys = IF cell = "open" THEN 1 ELSE 0
        BY <3>1, <3>2 DEF AfterCell, ParserStates
      <4>2. InRecords(b, m, cell)
        BY <1>0, <3>1 DEF InRecords
      <4> QED
        BY <1>2, <2>0, <3>2, <4>1, <4>2 DEF Parsed
    <3>3. CASE cell \in {"shape", "other"}
      <4>1. /\ q.at = "envelope" /\ q.found = FALSE
            /\ q.keys = IF cell = "shape" THEN 1 ELSE 0
        BY <3>1, <3>3 DEF AfterCell, ParserStates
      <4>2. InSkipped(b, m, cell)
        BY <1>0, <3>1 DEF InSkipped
      <4>3. InEnvelope(b, m, q)
        BY <3>3, <4>1, <4>2 DEF InEnvelope
      <4> QED
        BY <1>2, <2>0, <4>1, <4>3 DEF Parsed
    <3> QED
      BY <3>1, <3>2, <3>3
  <2>3. CASE p.at = "records"
    <3>1. PICK op \in {"open", "list"} :
             /\ InRecords(b, n, op)
             /\ op = "open" => p.found = TRUE /\ p.keys = 1
             /\ op = "list" => p.found = FALSE /\ p.keys = 0
      BY <2>3 DEF Parsed
    <3>2. PICK o \in 1..n : b[o] = op /\ \A k \in Prefix(b, n) : k = o \/ (o < k /\ b[k] \in Record)
      BY <3>1 DEF InRecords
    <3>3. CASE cell \in Record
      <4>1. q.at = "records" /\ q.found = p.found /\ q.keys = p.keys
        BY <2>3, <3>3 DEF AfterCell, ParserStates, Record
      <4>2. InRecords(b, m, op)
        BY <1>0, <2>1, <3>2, <3>3 DEF InRecords
      <4> QED
        BY <1>2, <2>0, <3>1, <4>1, <4>2 DEF Parsed
    <3>4. CASE cell = "close"
      <4>1. q.at = "envelope" /\ q.found = p.found /\ q.keys = p.keys
        BY <3>4 DEF AfterCell, ParserStates
      <4>2. \A k \in Prefix(b, m) : k \in {o, m} \/ (o < k /\ k < m /\ b[k] \in Record)
        BY <1>0, <2>1, <3>2 DEF Prefix
      <4>3. InArray(b, m, op)
        BY <1>0, <3>2, <3>4, <4>2 DEF InArray
      <4>4. \A k \in 1..m : b[k] # "again"
        BY <3>1, <3>2, <3>4, <4>2 DEF Prefix, Record
      <4>5. InEnvelope(b, m, q)
        <5>1. CASE op = "open"
          <6>1. q.found = TRUE /\ q.keys = 1 /\ q.keys >= 1
            BY <3>1, <4>1, <5>1
          <6>2. InArray(b, m, "open")
            BY <4>3, <5>1
          <6> QED
            BY <4>4, <6>1, <6>2 DEF InEnvelope
        <5>2. CASE op = "list"
          <6>1. q.found = FALSE /\ q.keys = 0
            BY <3>1, <4>1, <5>2
          <6>2. InArray(b, m, "list")
            BY <4>3, <5>2
          <6> QED
            BY <6>1, <6>2 DEF InEnvelope
        <5> QED
          BY <5>1, <5>2
      <4> QED
        BY <1>2, <2>0, <4>1, <4>5 DEF Parsed
    <3> QED
      BY <1>4, <2>3, <3>3, <3>4 DEF Expected
  <2>4. CASE p.at = "envelope"
    <3>1. cell \in {"opaque", "end"} \/ (cell = "again" /\ p.keys > 0)
      BY <1>4, <2>4 DEF Expected
    <3>2. InEnvelope(b, n, p)
      BY <2>4 DEF Parsed
    <3>3. CASE cell = "end"
      <4>1. q.at = "ended" /\ q.found = p.found /\ q.keys = p.keys
        BY <3>3 DEF AfterCell, ParserStates
      <4>2. InEnvelope(b, m - 1, q)
        BY <1>0, <3>2, <4>1 DEF InEnvelope
      <4>3. \A k \in Prefix(b, m) : k <= m
        BY <1>0 DEF Prefix
      <4> QED
        BY <1>0, <1>2, <2>0, <3>3, <4>1, <4>2, <4>3 DEF Parsed
    <3>4. CASE cell = "again" /\ p.keys > 0
      <4>1. q.at = "envelope" /\ q.found = p.found /\ q.keys = p.keys + 1 /\ p.keys \in Nat
        BY <2>4, <3>4 DEF AfterCell, ParserStates
      <4>2. InArray(b, n, "open") => InArray(b, m, "open")
        BY <1>0, <2>1, <3>4 DEF InArray
      <4>3. InSkipped(b, n, "shape") => InSkipped(b, m, "shape")
        BY <1>0, <2>1, <3>4 DEF InSkipped
      <4>4. ~ (\A k \in 1..m : b[k] # "again")
        BY <1>0, <3>4
      <4>5. q.keys >= 1 /\ q.keys # 1 /\ p.keys # 0
        BY <3>4, <4>1
      <4>6. InEnvelope(b, m, q)
        BY <3>2, <4>1, <4>2, <4>3, <4>4, <4>5 DEF InEnvelope
      <4> QED
        BY <1>2, <2>0, <4>1, <4>6 DEF Parsed
    <3>5. CASE cell = "opaque"
      <4>1. q.at = "envelope" /\ q.found = p.found /\ q.keys = p.keys
        BY <2>4, <3>5 DEF AfterCell, ParserStates
      <4>2. \A op : InArray(b, n, op) => InArray(b, m, op)
        BY <1>0, <2>1, <3>5 DEF InArray
      <4>3. \A op : InSkipped(b, n, op) => InSkipped(b, m, op)
        BY <1>0, <2>1, <3>5 DEF InSkipped
      <4>4. (\A k \in 1..n : b[k] # "again") <=> (\A k \in 1..m : b[k] # "again")
        BY <1>0, <3>5
      <4>5. InEnvelope(b, m, q)
        BY <3>2, <4>1, <4>2, <4>3, <4>4 DEF InEnvelope
      <4> QED
        BY <1>2, <2>0, <4>1, <4>5 DEF Parsed
    <3> QED
      BY <3>1, <3>3, <3>4, <3>5
  <2> QED
    BY <1>4, <2>2, <2>3, <2>4 DEF Expected
<1> QED
  BY <1>3, <1>4

(* The end of the input: FinishAtEof is buffer mode's verdict, or finds no *)
(* envelope where the modes read apart.                                    *)
LEMMA EofVerdict ==
    ASSUME NEW b \in Seq(Cell), NEW p \in ParserStates, Parsed(b, Len(b), p)
    PROVE  /\ FinishAtEof(p) \in {"Gzip", "Json"} => Unreadable(b)
           /\ FinishAtEof(p) = "RecordsFound" =>
                 p.found = TRUE /\ Decompresses(b) /\ IsEnvelope(b)
           /\ FinishAtEof(p) = "Unrecognized" => PassedOver(b)
<1> DEFINE n == Len(b)
<1>0. n \in Nat /\ DOMAIN b = 1..n /\ (b = <<>> => n = 0)
  BY LenProperties, EmptySeq
<1>1. Decompressed(b) = Prefix(b, n)
  BY <1>0 DEF Decompressed, Prefix
<1>2. Decompresses(b) <=> p.sealed = TRUE
  <2>1. p.sealed = (n > 0 /\ b[n] = "seal") /\ \A k \in 1..n : b[k] # "corrupt"
    BY DEF Parsed
  <2>2. n > 0 <=> b # <<>>
    BY <1>0, EmptySeq
  <2> QED
    BY <1>0, <2>1, <2>2 DEF Decompresses
<1>3. CASE ~ p.sealed
  BY <1>2, <1>3, NoMember DEF FinishAtEof, ParserStates
<1>4. CASE p.sealed /\ p.at # "ended"
  <2>1. FinishAtEof(p) = "Json"
    BY <1>4 DEF FinishAtEof
  <2>2. \A k \in 1..n : b[k] # "end"
    <3>1. CASE p.at = "start"
      BY <3>1 DEF Parsed, Prefix
    <3>2. CASE p.at = "records"
      BY <3>2 DEF Parsed, InRecords, Prefix, Record
    <3>3. CASE p.at = "envelope"
      BY <3>3 DEF Parsed, InEnvelope, InArray, InSkipped, Prefix, Record
    <3> QED
      BY <1>4, <3>1, <3>2, <3>3 DEF ParserStates
  <2>3. ~ IsText(b)
    BY <2>2, TextShape
  <2> QED
    BY <2>1, <2>3, NoText
<1>5. CASE p.sealed /\ p.at = "ended"
  <2>1. PICK e \in 1..n : b[e] = "end" /\ InEnvelope(b, e - 1, p) /\ \A k \in Prefix(b, n) : k <= e
    BY <1>5 DEF Parsed
  <2>2. e \in Nat /\ e - 1 \in 0..n /\ \A k \in Prefix(b, n) : k = e \/ k \in Prefix(b, e - 1)
    BY <1>0, <2>1 DEF Prefix
  <2>3. Decompresses(b)
    BY <1>2, <1>5 DEF ParserStates
  <2>4. ASSUME NEW op \in {"open", "list"}, InArray(b, e - 1, op)
        PROVE  /\ IsText(b) /\ \E o \in 1..n : b[o] = op
               /\ op = "open" /\ (\A k \in 1..(e - 1) : b[k] # "again") => IsEnvelope(b)
    <3>1. PICK o, c \in 1..(e - 1) :
            /\ o < c /\ b[o] = op /\ b[c] = "close"
            /\ \A k \in Prefix(b, e - 1) :
                 \/ k \in {o, c} \/ (o < k /\ k < c /\ b[k] \in Record)
                 \/ c < k /\ b[k] = "opaque"
                 \/ c < k /\ b[k] = "again" /\ op = "open"
      BY <2>4 DEF InArray
    <3>2. o \in DOMAIN b /\ c \in DOMAIN b /\ e \in DOMAIN b /\ c < e /\ o \in 1..n
      BY <1>0, <2>2, <3>1
    <3>3. IsText(b)
      BY <1>0, <1>1, <2>1, <2>2, <3>1, <3>2 DEF IsText, Prefix
    <3>4. op = "open" /\ (\A k \in 1..(e - 1) : b[k] # "again") => IsEnvelope(b)
      BY <1>0, <1>1, <2>1, <2>2, <3>1, <3>2 DEF IsEnvelope, Prefix
    <3> QED
      BY <3>1, <3>2, <3>3, <3>4
  <2>5. ASSUME NEW op \in {"shape", "other"}, InSkipped(b, e - 1, op)
        PROVE  IsText(b) /\ \E o \in 1..n : b[o] = op
    <3>1. PICK o \in 1..(e - 1) :
            /\ b[o] = op
            /\ \A k \in Prefix(b, e - 1) :
                 \/ k = o \/ (o < k /\ b[k] = "opaque")
                 \/ o < k /\ b[k] = "again" /\ op = "shape"
      BY <2>5 DEF InSkipped
    <3>2. o \in DOMAIN b /\ e \in DOMAIN b /\ o < e /\ o \in 1..n
      BY <1>0, <2>2, <3>1
    <3>3. IsText(b)
      BY <1>0, <1>1, <2>1, <2>2, <3>1, <3>2 DEF IsText, Prefix
    <3> QED
      BY <3>1, <3>2, <3>3
  <2>6. CASE p.found = TRUE /\ p.keys = 1
    <3>1. IsEnvelope(b)
      BY <2>1, <2>4, <2>6 DEF InEnvelope
    <3> QED
      BY <1>5, <2>3, <2>6, <3>1 DEF FinishAtEof
  <2>7. CASE ~ (p.found = TRUE /\ p.keys = 1)
    <3>1. IsText(b)
      BY <2>1, <2>4, <2>5 DEF InEnvelope
    <3>2. \E k \in 1..n : b[k] \in {"again", "list", "shape", "other"}
      <4>1. \A k \in 1..(e - 1) : k \in 1..n
        BY <1>0, <2>2
      <4> QED
        BY <2>1, <2>4, <2>5, <2>7, <4>1 DEF InEnvelope
    <3>3. ~ IsEnvelope(b)
      BY <3>2, EnvelopeIsText
    <3>4. FinishAtEof(p) = "Unrecognized"
      BY <1>5, <2>7 DEF FinishAtEof, ParserStates
    <3> QED
      BY <2>3, <3>1, <3>3, <3>4, NoEnvelope
  <2> QED
    BY <2>6, <2>7
<1> QED
  BY <1>3, <1>4, <1>5

-----------------------------------------------------------------------------
(* Nothing has been read, passed on or written.                            *)
LEMMA ParityInit == Init => ParityInv
<1> SUFFICES ASSUME Init PROVE ParityInv
  OBVIOUS
<1>0. body \in Seq(Cell) /\ Len(body) \in Nat /\ DOMAIN body = 1..Len(body)
  BY BodiesAssumption, LenProperties DEF Init
<1>1. OutcomeInv
  BY OutcomeInit
<1>2. /\ inq = <<>> /\ recq = <<>> /\ outq = <<>> /\ stream = <<>> /\ upBody = <<>>
      /\ Len(<<>>) = 0 /\ 1..0 = {}
  BY EmptyTyped DEF Init, PutInit
<1>3. InputInv
  BY <1>2 DEF Init, InputInv
<1>4. ParseInv
  <2>1. Parsed(body, 0, parser)
    <3>1. /\ parser.at = "start" /\ parser.found = FALSE /\ parser.keys = 0
          /\ parser.sealed = FALSE
      BY DEF Init
    <3>2. (0 > 0 /\ body[0] = "seal") = FALSE /\ Prefix(body, 0) = {}
      BY DEF Prefix
    <3> QED
      BY <1>2, <3>1, <3>2 DEF Parsed
  <2> QED
    BY <2>1 DEF Init, ParseInv
<1>5. FinishedInv
  BY <1>2 DEF FinishedInv
<1>6. Queued = {} /\ Passed = {} /\ Processed = {}
  BY <1>0, <1>2 DEF Init, Queued, Passed, Processed, RecordsOf
<1>7. QueueInv
  BY <1>2, <1>6 DEF QueueInv
<1>8. TallyInv
  <2>1. Cardinality({}) = 0
    BY FS_EmptySet
  <2>2. /\ {k \in {} : Survives(body[k])} = {} /\ {k \in {} : body[k] = "drop"} = {}
        /\ {k \in {} : body[k] = "odd"} = {}
    OBVIOUS
  <2>3. TallyOf(body, {}) = NoTally
    BY <2>1, <2>2 DEF TallyOf, NoTally
  <2> QED
    BY <1>6, <2>3 DEF Init, TallyInv
<1>9. StreamInv
  BY <1>2, <1>6 DEF Init, StreamInv
<1>10. ResultTrue
  BY DEF Init, ResultTrue
<1>11. OutputInv
  <2>1. SubSeq(stream, 1, 0) = <<>>
    BY SubSeqEmpty
  <2> QED
    BY <1>2, <2>1 DEF Init, PutInit, OutputInv
<1>12. LandInv /\ PublishInv
  BY DEF Init, PutInit, LandInv, PublishInv
<1> QED
  BY <1>1, <1>3, <1>4, <1>5, <1>7, <1>8, <1>9, <1>10, <1>11, <1>12 DEF ParityInv

(* What the output side does not see.                                      *)
LEMMA OutputFrame ==
    ASSUME OutputInv, LandInv,
           UNCHANGED <<procVars, stream, outq, closed, putVars>>
    PROVE  OutputInv' /\ LandInv'
BY DEF OutputInv, LandInv, procVars, putVars

(* What the processing block does not see.                                 *)
LEMMA ReadingFrame ==
    ASSUME QueueInv, TallyInv, StreamInv, Reading' => Reading,
           Reading' => Passed' = Passed /\ InHand' = InHand,
           UNCHANGED <<body, recq, procVars, stream>>
    PROVE  QueueInv' /\ TallyInv' /\ StreamInv'
<1> USE DEF procVars
<1>0. Queued' = Queued
  BY DEF Queued
<1>1. Reading' => Processed' = Processed
  BY <1>0 DEF Processed
<1>2. QueueInv'
  BY <1>0, <1>1 DEF QueueInv
<1>3. TallyInv'
  BY <1>1 DEF TallyInv
<1>4. StreamInv'
  BY <1>1 DEF StreamInv
<1> QED
  BY <1>2, <1>3, <1>4

(* pump_input sends the cells one after the other, and nothing after an    *)
(* error or the end.                                                       *)
LEMMA PumpKeepsParity == ParityInv /\ Pump => ParityInv'
<1> SUFFICES ASSUME ParityInv, Pump PROVE ParityInv'
  OBVIOUS
<1> USE DEF ParityInv
<1>0. UNCHANGED <<body, extVars, recq, procVars, joinVars, stream, outq, closed, putVars>>
  BY DEF Pump, PumpRead, PumpSend, PumpSendErr
<1>1. /\ body \in Seq(Cell) /\ Len(body) \in Nat /\ bytesIn \in 0..Len(body)
      /\ scanned \in 0..Len(body) /\ inq \in Seq(0..Len(body)) /\ Len(inq) \in Nat
  BY BodyFacts, LenProperties DEF OutcomeInv, TypeInv, TypeOK
<1>2. OutcomeInv'
  BY InputKeepsOutcome
<1>3. bytesIn = Len(body) => bytesIn' = Len(body)
  BY <1>1 DEF Pump, PumpRead, PumpSend, PumpSendErr
<1>4. ParseInv' /\ ResultTrue'
  BY <1>0, <1>3 DEF ParseInv, ResultTrue, Parsing, extVars, procVars
<1>5. FinishedInv'
  BY <1>0 DEF FinishedInv, extVars
<1>6. QueueInv' /\ TallyInv' /\ StreamInv'
  <2>1. Reading' = Reading /\ Passed' = Passed /\ InHand' = InHand
    BY <1>0 DEF Reading, Passed, InHand, extVars, procVars
  <2> QED
    BY <1>0, <2>1, ReadingFrame
<1>7. OutputInv' /\ LandInv'
  BY <1>0, OutputFrame
<1>8. PublishInv'
  BY <1>0 DEF PublishInv, JoinedResult, Committed, extVars, procVars, joinVars, putVars
<1>9. InputInv'
  <2>0. UNCHANGED <<extPc, scanned>> /\ Parsing' = Parsing
    BY <1>0 DEF extVars, Parsing
  <2>1. CASE PumpRead
    BY <1>0, <1>1, <2>0, <2>1 DEF PumpRead, InputInv
  <2>2. CASE inq' = inq /\ pumpPc' = "done" /\ ExtractGone
    BY <1>0, <2>0, <2>2 DEF InputInv, Parsing, ExtractGone
  <2>3. ASSUME NEW x, x \in {bytesIn, 0}, inq' = Append(inq, x), bytesIn' = bytesIn,
               pumpPc = IF x = 0 THEN "sendErr" ELSE "send",
               pumpPc' = IF x = 0 THEN "done" ELSE "read"
        PROVE  InputInv'
    <3> SUFFICES ASSUME Parsing
                 PROVE  /\ \A i \in 1..Len(inq') :
                             \/ inq'[i] = scanned + i
                             \/ inq'[i] = 0 /\ i = Len(inq') /\ pumpPc' = "done"
                        /\ \/ inq' # <<>> /\ inq'[Len(inq')] = 0 /\ pumpPc' = "done"
                           \/ /\ scanned + Len(inq')
                                   = IF pumpPc' = "send" THEN bytesIn' - 1 ELSE bytesIn'
                              /\ pumpPc' = "done" => bytesIn' = Len(body)
      BY <1>0, <2>0, <2>3 DEF InputInv
    <3>1. /\ x \in 0..Len(body) /\ Len(inq') = Len(inq) + 1 /\ inq'[Len(inq) + 1] = x
          /\ inq' # <<>> /\ \A i \in 1..Len(inq) : inq'[i] = inq[i]
      BY <1>1, <2>3, AppendProperties
    <3>2. /\ \A i \in 1..Len(inq) : inq[i] = scanned + i
          /\ scanned + Len(inq) = IF pumpPc = "send" THEN bytesIn - 1 ELSE bytesIn
      BY <2>3 DEF InputInv
    <3>3. CASE x = 0
      BY <1>1, <2>3, <3>1, <3>2, <3>3
    <3>4. CASE x # 0
      <4>1. x = scanned + (Len(inq) + 1) /\ pumpPc' = "read" /\ scanned + Len(inq') = bytesIn
        BY <1>1, <2>3, <3>1, <3>2, <3>4
      <4>2. ASSUME NEW i \in 1..Len(inq') PROVE inq'[i] = scanned + i
        <5>1. CASE i \in 1..Len(inq)
          BY <3>1, <3>2, <5>1
        <5>2. CASE i = Len(inq) + 1
          BY <3>1, <4>1, <5>2
        <5> QED
          BY <1>1, <3>1, <5>1, <5>2
      <4> QED
        BY <2>3, <4>1, <4>2
    <3> QED
      BY <3>3, <3>4
  <2>4. CASE PumpSend
    <3>1. bytesIn >= 1
      BY <2>4 DEF PumpSend, InputInv
    <3> QED
      BY <1>1, <2>2, <2>3, <2>4, <3>1 DEF PumpSend
  <2>5. CASE PumpSendErr
    BY <2>2, <2>3, <2>5 DEF PumpSendErr
  <2> QED
    BY <2>1, <2>4, <2>5 DEF Pump
<1> QED
  BY <1>2, <1>4, <1>5, <1>6, <1>7, <1>8, <1>9

-----------------------------------------------------------------------------
(* The extraction task takes the next cell of the body off its channel.    *)
LEMMA NextCell ==
    ASSUME ParityInv, extPc = "scan", inq # <<>>, Head(inq) # 0
    PROVE  /\ scanned \in Nat /\ scanned < Len(body) /\ Head(inq) = scanned + 1
           /\ \A i \in 1..Len(Tail(inq)) :
                \/ Tail(inq)[i] = (scanned + 1) + i
                \/ Tail(inq)[i] = 0 /\ i = Len(Tail(inq)) /\ pumpPc = "done"
           /\ \/ Tail(inq) # <<>> /\ Tail(inq)[Len(Tail(inq))] = 0 /\ pumpPc = "done"
              \/ /\ (scanned + 1) + Len(Tail(inq)) = IF pumpPc = "send" THEN bytesIn - 1 ELSE bytesIn
                 /\ pumpPc = "done" => bytesIn = Len(body)
<1> USE DEF ParityInv
<1>1. /\ Len(body) \in Nat /\ scanned \in 0..Len(body)
      /\ inq \in Seq(0..Len(body)) /\ Len(inq) <= InCap
  BY BodyFacts DEF OutcomeInv, TypeInv, TypeOK
<1>2. /\ Head(inq) \in 0..Len(body) /\ Tail(inq) \in Seq(0..Len(body))
      /\ Len(Tail(inq)) = Len(inq) - 1 /\ Len(inq) \in Nat \ {0}
      /\ \A i \in 1..(Len(inq) - 1) : Tail(inq)[i] = inq[i + 1]
      /\ Head(inq) = inq[1]
  BY <1>1, ReceiveTyped
<1>3. /\ \A i \in 1..Len(inq) : \/ inq[i] = scanned + i
                                \/ inq[i] = 0 /\ i = Len(inq) /\ pumpPc = "done"
      /\ \/ inq[Len(inq)] = 0 /\ pumpPc = "done"
         \/ /\ scanned + Len(inq) = IF pumpPc = "send" THEN bytesIn - 1 ELSE bytesIn
            /\ pumpPc = "done" => bytesIn = Len(body)
  BY DEF InputInv, Parsing
<1>4. Head(inq) = scanned + 1 /\ scanned \in Nat /\ scanned < Len(body)
  <2>1. 1 \in 1..Len(inq)
    BY <1>2
  <2>2. inq[1] = scanned + 1
    BY <1>2, <1>3, <2>1
  <2> QED
    BY <1>1, <1>2, <2>2
<1>5. ASSUME NEW i \in 1..Len(Tail(inq))
      PROVE  \/ Tail(inq)[i] = (scanned + 1) + i
             \/ Tail(inq)[i] = 0 /\ i = Len(Tail(inq)) /\ pumpPc = "done"
  <2>1. i + 1 \in 1..Len(inq) /\ Tail(inq)[i] = inq[i + 1] /\ i \in Nat
    BY <1>2
  <2>2. \/ inq[i + 1] = scanned + (i + 1)
        \/ inq[i + 1] = 0 /\ i + 1 = Len(inq) /\ pumpPc = "done"
    BY <1>3, <2>1
  <2>3. scanned + (i + 1) = (scanned + 1) + i
    BY <1>4, <2>1
  <2>4. i + 1 = Len(inq) => i = Len(Tail(inq))
    <3>1. Len(inq) \in Nat /\ i \in Nat /\ Len(Tail(inq)) = Len(inq) - 1
      BY <1>2, <2>1, Zenon
    <3>2. \A l, j \in Nat : j + 1 = l => j = l - 1
      OBVIOUS
    <3> QED
      BY <3>1, <3>2, Zenon
  <2> QED
    BY <2>1, <2>2, <2>3, <2>4, Zenon
<1>6. \/ Tail(inq) # <<>> /\ Tail(inq)[Len(Tail(inq))] = 0 /\ pumpPc = "done"
      \/ /\ (scanned + 1) + Len(Tail(inq)) = IF pumpPc = "send" THEN bytesIn - 1 ELSE bytesIn
         /\ pumpPc = "done" => bytesIn = Len(body)
  <2>1. CASE inq[Len(inq)] = 0 /\ pumpPc = "done"
    <3>1. Len(inq) # 1
      BY <1>2, <2>1
    <3>2. Len(inq) - 1 \in 1..(Len(inq) - 1) /\ Len(Tail(inq)) # 0
      BY <1>2, <3>1
    <3>3. Tail(inq)[Len(Tail(inq))] = 0
      BY <1>2, <2>1, <3>2
    <3> QED
      BY <2>1, <3>2, <3>3, EmptyTyped
  <2>2. CASE /\ scanned + Len(inq) = IF pumpPc = "send" THEN bytesIn - 1 ELSE bytesIn
             /\ pumpPc = "done" => bytesIn = Len(body)
    BY <1>2, <1>4, <2>2
  <2> QED
    BY <1>3, <2>1, <2>2
<1> QED
  BY <1>4, <1>5, <1>6

(* What the parse may not disturb while it goes on or ends.                *)
LEMMA ParseFrame ==
    ASSUME ParityInv, Extract \/ ExtractPanic
    PROVE  OutcomeInv' /\ OutputInv' /\ LandInv' /\ PublishInv' /\ ResultTrue'
<1> USE DEF ParityInv
<1>0. UNCHANGED <<body, pumpVars, procVars, joinVars, stream, outq, closed, putVars>>
  BY DEF Extract, ScanCell, ScanReadError, ScanEof, EmitRecord, SendFinished, ExtractPanic
<1>1. extPc # "done" /\ extPc # "panicked"
  BY DEF Extract, ScanCell, ScanReadError, ScanEof, EmitRecord, SendFinished, ExtractPanic,
     ExtractGone
<1>2. OutcomeInv'
  BY InputKeepsOutcome
<1>3. OutputInv' /\ LandInv'
  BY <1>0, OutputFrame
<1>4. result = "running" /\ PublishInv'
  BY <1>0, <1>1 DEF PublishInv, joinVars
<1>5. ResultTrue'
  BY <1>0, <1>1 DEF ResultTrue, pumpVars, procVars
<1> QED
  BY <1>2, <1>3, <1>4, <1>5

(* One cell: the prefix grows by it, and so do the records passed.         *)
LEMMA ScanCellKeepsParity == ParityInv /\ ScanCell => ParityInv'
<1> SUFFICES ASSUME ParityInv, ScanCell PROVE ParityInv'
  OBVIOUS
<1> USE DEF ParityInv
<1>0. /\ UNCHANGED <<body, pumpVars, transport, recq, procVars, joinVars, stream>>
      /\ extPc = "scan" /\ inq # <<>> /\ Head(inq) # 0 /\ inq' = Tail(inq)
      /\ scanned' = Head(inq)
  BY DEF ScanCell
<1>1. OutcomeInv' /\ OutputInv' /\ LandInv' /\ PublishInv' /\ ResultTrue'
  BY ParseFrame DEF Extract
<1>2. /\ body \in Seq(Cell) /\ Len(body) \in Nat /\ DOMAIN body = 1..Len(body)
      /\ parser \in ParserStates
  BY BodyFacts DEF OutcomeInv, TypeInv, TypeOK
<1>3. /\ scanned \in Nat /\ scanned < Len(body) /\ scanned' = scanned + 1
  BY <1>0, NextCell
<1>4. FinishedInv'
  BY <1>0 DEF FinishedInv
<1>5. InputInv'
  BY <1>0, <1>3, NextCell DEF InputInv, pumpVars
<1> DEFINE cell == body[scanned + 1]
<1>6. finish = "none" /\ Parsed(body, scanned, parser)
  BY <1>0 DEF ParseInv, Parsing
<1>7. CASE cell = "corrupt" \/ ~ Expected(parser, cell)
  <2>1. extPc' = "finish" /\ finish' \in {"Gzip", "Json"} /\ finish' \in Failures
    BY <1>0, <1>3, <1>7 DEF ScanCell, EndScan, Failures
  <2>2. Unreadable(body)
    <3>1. CASE cell = "corrupt"
      <4>1. ~ Decompresses(body)
        BY <1>2, <1>3, <3>1 DEF Decompresses
      <4> QED
        BY <4>1, NoMember
    <3>2. CASE cell # "corrupt" /\ ~ Expected(parser, cell)
      <4>1. ~ IsText(body)
        BY <1>2, <1>3, <1>6, <3>2, UnexpectedIsNoText
      <4> QED
        BY <1>2, <4>1, NoText
    <3> QED
      BY <1>7, <3>1, <3>2
  <2>3. ParseInv'
    BY <1>0, <2>1, <2>2 DEF ParseInv, Parsing
  <2>4. ~ Reading'
    BY <2>1 DEF Reading
  <2>5. QueueInv' /\ TallyInv' /\ StreamInv'
    BY <2>4 DEF QueueInv, TallyInv, StreamInv
  <2> QED
    BY <1>1, <1>4, <1>5, <2>3, <2>5
<1>8. CASE cell # "corrupt" /\ Expected(parser, cell)
  <2>1. /\ parser' = AfterCell(parser, cell) /\ UNCHANGED finish
        /\ extPc' = IF cell \in Record /\ parser.found THEN "emit" ELSE "scan"
    BY <1>0, <1>3, <1>8 DEF ScanCell
  <2>2. Parsed(body, scanned', parser')
    BY <1>2, <1>3, <1>6, <1>8, <2>1, ParsedStep
  <2>a. /\ cell # "open" => parser'.found = parser.found
        /\ cell = "open" => parser'.found = TRUE /\ parser.found = FALSE
                              /\ Prefix(body, scanned) = {}
    <3>1. cell # "open" => parser'.found = parser.found
      <4>1. cell = "shape" => parser.found = FALSE
        BY <1>6, <1>8 DEF Expected, Parsed, Record
      <4> QED
        BY <1>2, <2>1, <4>1 DEF AfterCell, ParserStates
    <3>2. cell = "open" => parser.at = "start" /\ parser'.found = TRUE
      BY <1>8, <2>1 DEF Expected, AfterCell, Record
    <3> QED
      BY <1>6, <3>1, <3>2 DEF Parsed
  <2>3. ParseInv'
    <3>1. cell \in Record => scanned' \in RecordsOf(body) /\ parser'.found = parser.found
      BY <1>2, <1>3, <2>a DEF RecordsOf, Record
    <3> QED
      BY <1>0, <1>2, <1>3, <1>6, <2>1, <2>2, <3>1 DEF ParseInv, Parsing, ParserStates
  <2>4. Reading' = Reading
    BY <1>0, <2>1 DEF Reading, procVars
  <2>5. InHand = {} /\ Queued' = Queued
    BY <1>0 DEF InHand, Queued
  <2>6. /\ Passed' = Passed \cup InHand' /\ scanned' \notin Passed
        /\ InHand' = {} \/ InHand' = {scanned'}
    <3>1. scanned' \notin Passed /\ (InHand' = {} \/ InHand' = {scanned'})
      BY <1>3 DEF Passed, InHand
    <3>2. CASE cell = "open"
      <4>1. \A k \in RecordsOf(body) : ~ (k <= scanned')
        BY <1>2, <1>3, <2>a, <3>2 DEF Prefix, RecordsOf, Record
      <4>2. InHand' = {}
        BY <2>1, <3>2 DEF InHand, Record
      <4> QED
        BY <1>0, <2>a, <3>1, <3>2, <4>1, <4>2 DEF Passed
    <3>3. CASE cell # "open" /\ parser.found = TRUE
      <4>1. parser'.found = TRUE
        BY <2>a, <3>3
      <4> QED
        BY <1>0, <1>2, <1>3, <2>1, <3>1, <3>3, <4>1 DEF Passed, InHand, RecordsOf
    <3>4. CASE cell # "open" /\ parser.found = FALSE
      <4>1. parser'.found = FALSE /\ extPc' = "scan"
        BY <2>a, <2>1, <3>4
      <4> QED
        BY <3>1, <3>4, <4>1 DEF Passed, InHand
    <3> QED
      BY <1>2, <3>2, <3>3, <3>4 DEF ParserStates
  <2>7. Reading => Processed' = Processed /\ Queued' \subseteq Passed' \ InHand'
    BY <2>5, <2>6 DEF Processed, QueueInv
  <2>8. QueueInv'
    BY <1>0, <2>4, <2>5, <2>7 DEF QueueInv
  <2>9. TallyInv' /\ StreamInv'
    BY <1>0, <2>4, <2>7 DEF TallyInv, StreamInv, procVars
  <2> QED
    BY <1>1, <1>4, <1>5, <2>3, <2>8, <2>9
<1> QED
  BY <1>7, <1>8

(* The end of the input, or a failed read of it.                           *)
LEMMA ScanEndKeepsParity == ParityInv /\ (ScanReadError \/ ScanEof) => ParityInv'
<1> SUFFICES ASSUME ParityInv, ScanReadError \/ ScanEof PROVE ParityInv'
  OBVIOUS
<1> USE DEF ParityInv
<1>0. /\ UNCHANGED <<body, pumpVars, scanned, parser, recq, procVars, joinVars, stream>>
      /\ extPc = "scan" /\ extPc' = "finish" /\ finish' # "none"
      /\ finish' = IF ScanReadError THEN "Transport" ELSE FinishAtEof(parser)
  BY DEF ScanReadError, ScanEof, EndScan, FinishAtEof
<1>1. OutcomeInv' /\ OutputInv' /\ LandInv' /\ PublishInv' /\ ResultTrue'
  BY ParseFrame DEF Extract
<1>2. /\ body \in Seq(Cell) /\ Len(body) \in Nat /\ parser \in ParserStates
      /\ scanned \in 0..Len(body)
  BY BodyFacts DEF OutcomeInv, TypeInv, TypeOK
<1>3. FinishedInv' /\ InputInv'
  BY <1>0 DEF FinishedInv, InputInv, Parsing, pumpVars
<1>4. ParseInv'
  <2>1. CASE finish' = "Transport"
    BY <1>0, <2>1 DEF ParseInv, Parsing
  <2>2. CASE ScanEof /\ finish' = FinishAtEof(parser)
    <3>1. scanned = Len(body) /\ bytesIn = Len(body)
      BY <1>2, <2>2, EmptyTyped DEF ScanEof, PumpGone, InputInv, Parsing
    <3>2. Parsed(body, Len(body), parser)
      BY <1>0, <3>1 DEF ParseInv, Parsing
    <3>3. /\ finish' \in {"Gzip", "Json"} => Unreadable(body)
          /\ finish' = "RecordsFound" =>
                parser.found = TRUE /\ Decompresses(body) /\ IsEnvelope(body)
          /\ finish' = "Unrecognized" => PassedOver(body)
      BY <1>2, <2>2, <3>2, EofVerdict
    <3> QED
      BY <1>0, <3>1, <3>3 DEF ParseInv, Parsing, pumpVars
  <2> QED
    BY <1>0, <2>1, <2>2
<1>5. finish = "none" /\ (Reading' => Reading)
  BY <1>0 DEF ParseInv, Parsing, Reading, Failures, procVars
<1>6. QueueInv' /\ TallyInv' /\ StreamInv'
  <2>1. Passed' = Passed /\ InHand' = InHand
    BY <1>0 DEF Passed, InHand
  <2> QED
    BY <1>0, <1>5, <2>1, ReadingFrame
<1> QED
  BY <1>1, <1>3, <1>4, <1>6

(* The record channel before and after a message is appended.              *)
LEMMA AppendedRecord ==
    ASSUME ParityInv, NEW x \in 0..Len(body), recq' = Append(recq, x)
    PROVE  /\ Len(recq) \in Nat /\ Len(recq') = Len(recq) + 1
           /\ \A i \in 1..Len(recq) : recq'[i] = recq[i]
           /\ recq'[Len(recq) + 1] = x
           /\ \A i \in 1..Len(recq) : recq[i] \in 0..Len(body)
           /\ \A i \in 1..Len(recq') : i \in 1..Len(recq) \/ i = Len(recq) + 1
           /\ Queued' = Queued \cup ({x} \ {0})
<1>1. recq \in Seq(0..Len(body))
  BY DEF ParityInv, OutcomeInv, TypeInv, TypeOK
<1>2. /\ Len(recq) \in Nat /\ Len(recq') = Len(recq) + 1
      /\ \A i \in 1..Len(recq) : recq'[i] = recq[i]
      /\ recq'[Len(recq) + 1] = x
      /\ \A i \in 1..Len(recq) : recq[i] \in 0..Len(body)
  BY <1>1, AppendProperties, LenProperties
<1>3. \A i \in 1..Len(recq') : i \in 1..Len(recq) \/ i = Len(recq) + 1
  BY <1>2
<1>4. 1..Len(recq') = (1..Len(recq)) \cup {Len(recq) + 1}
  BY <1>2
<1>5. Queued' = Queued \cup ({x} \ {0})
  <2>1. {recq'[i] : i \in 1..Len(recq')} = {recq[i] : i \in 1..Len(recq)} \cup {x}
    BY <1>2, <1>4
  <2> QED
    BY <2>1 DEF Queued
<1> QED
  BY <1>2, <1>3, <1>5

(* RecordsVisitor sends the record in its hand.                            *)
LEMMA EmitKeepsParity == ParityInv /\ EmitRecord => ParityInv'
<1> SUFFICES ASSUME ParityInv, EmitRecord PROVE ParityInv'
  OBVIOUS
<1> USE DEF ParityInv
<1>0. /\ UNCHANGED <<body, pumpVars, inq, scanned, parser, procVars, joinVars, stream>>
      /\ extPc = "emit" /\ extPc' \in {"scan", "finish"}
  BY DEF EmitRecord, EndScan
<1>1. OutcomeInv' /\ OutputInv' /\ LandInv' /\ PublishInv' /\ ResultTrue'
  BY ParseFrame DEF Extract
<1>2. /\ Len(body) \in Nat /\ DOMAIN body = 1..Len(body) /\ scanned \in 0..Len(body)
  BY BodyFacts DEF OutcomeInv, TypeInv, TypeOK
<1>3. /\ scanned \in RecordsOf(body) /\ scanned \in 1..Len(body) /\ scanned # 0
      /\ parser.found = TRUE
  <2>1. scanned \in RecordsOf(body) /\ parser.found = TRUE
    BY <1>0 DEF ParseInv
  <2> QED
    BY <1>2, <2>1 DEF RecordsOf
<1>4. InputInv'
  BY <1>0 DEF InputInv, Parsing, pumpVars
<1>5. \A i \in 1..Len(recq) : recq[i] # 0
  BY <1>0 DEF FinishedInv
<1>6. CASE /\ ~ ProcessingGone /\ recq' = Append(recq, scanned)
           /\ extPc' = "scan" /\ UNCHANGED finish
  <2>1. ParseInv'
    BY <1>0, <1>6 DEF ParseInv, Parsing, pumpVars, procVars
  <2>2. /\ Len(recq) \in Nat /\ Len(recq') = Len(recq) + 1
        /\ \A i \in 1..Len(recq) : recq'[i] = recq[i]
        /\ recq'[Len(recq) + 1] = scanned
        /\ \A i \in 1..Len(recq') : i \in 1..Len(recq) \/ i = Len(recq) + 1
        /\ Queued' = Queued \cup ({scanned} \ {0})
    BY <1>2, <1>6, AppendedRecord
  <2>3. FinishedInv'
    BY <1>3, <1>5, <2>2 DEF FinishedInv
  <2>4. Reading' = Reading /\ Passed' = Passed /\ InHand = {scanned} /\ InHand' = {}
    BY <1>0, <1>6 DEF Reading, Passed, InHand, procVars
  <2>5. Processed' = Processed /\ scanned \in Passed
    BY <1>2, <1>3, <2>2, <2>4 DEF Processed, Passed
  <2>6. QueueInv'
    <3> SUFFICES ASSUME Reading
                 PROVE  /\ Queued' \subseteq Passed' \ InHand'
                        /\ \A i, j \in 1..Len(recq') : i < j /\ recq'[j] # 0 => recq'[i] < recq'[j]
                        /\ \A k \in Processed', q \in Queued' : k < q
      BY <2>4 DEF QueueInv
    <3>1. \A k \in Passed \ InHand : k < scanned
      BY <1>2, <2>4 DEF Passed, RecordsOf
    <3>2. \A i \in 1..Len(recq) : recq[i] \in Queued /\ recq[i] < scanned
      BY <1>5, <3>1 DEF QueueInv, Queued
    <3>3. ASSUME NEW i \in 1..Len(recq'), NEW j \in 1..Len(recq'), i < j
          PROVE  recq'[i] < recq'[j]
      <4>1. i \in 1..Len(recq)
        BY <2>2, <3>3
      <4>2. CASE j \in 1..Len(recq)
        BY <1>5, <2>2, <3>3, <4>1, <4>2 DEF QueueInv
      <4>3. CASE j = Len(recq) + 1
        BY <2>2, <3>2, <4>1, <4>3
      <4> QED
        BY <2>2, <4>2, <4>3
    <3>4. \A k \in Processed', q \in Queued' : k < q
      BY <2>2, <2>5, <3>1 DEF Processed, QueueInv
    <3>5. Queued' \subseteq Passed' \ InHand'
      BY <2>2, <2>4, <2>5 DEF QueueInv
    <3> QED
      BY <3>3, <3>4, <3>5
  <2>7. TallyInv' /\ StreamInv'
    BY <1>0, <2>4, <2>5 DEF TallyInv, StreamInv, procVars
  <2> QED
    BY <1>1, <1>4, <2>1, <2>3, <2>6, <2>7
<1>7. CASE ProcessingGone /\ extPc' = "finish" /\ finish' = "Json" /\ UNCHANGED recq
  <2>1. procRes # "none" /\ ~ Reading'
    BY <1>0, <1>7 DEF OutcomeInv, TypeInv, ResultInv, ProcResults, ProcessingGone, Reading, Failures
  <2>2. ParseInv'
    BY <1>0, <1>7, <2>1 DEF ParseInv, Parsing, procVars
  <2>3. FinishedInv' /\ QueueInv' /\ TallyInv' /\ StreamInv'
    BY <1>5, <1>7, <2>1 DEF FinishedInv, QueueInv, TallyInv, StreamInv
  <2> QED
    BY <1>1, <1>4, <2>2, <2>3
<1> QED
  BY <1>6, <1>7 DEF EmitRecord, EndScan

(* Finished is sent, or the task panics.                                   *)
LEMMA FinishKeepsParity == ParityInv /\ (SendFinished \/ ExtractPanic) => ParityInv'
<1> SUFFICES ASSUME ParityInv, SendFinished \/ ExtractPanic PROVE ParityInv'
  OBVIOUS
<1> USE DEF ParityInv
<1>0. /\ UNCHANGED <<body, pumpVars, inq, scanned, parser, finish, procVars, joinVars, stream>>
      /\ extPc # "done" /\ extPc' \in {"done", "panicked"}
  BY DEF SendFinished, ExtractPanic, ExtractGone
<1>1. OutcomeInv' /\ OutputInv' /\ LandInv' /\ PublishInv' /\ ResultTrue'
  BY ParseFrame DEF Extract
<1>2. Len(body) \in Nat /\ 0 \in 0..Len(body)
  BY BodyFacts DEF OutcomeInv, TypeInv
<1>3. InputInv' /\ ParseInv'
  BY <1>0 DEF InputInv, ParseInv, Parsing, pumpVars, procVars
<1>4. \A i \in 1..Len(recq) : recq[i] # 0
  BY <1>0 DEF FinishedInv
<1>5. CASE ExtractPanic
  <2>1. ~ Reading' /\ UNCHANGED recq
    BY <1>5 DEF ExtractPanic, Reading
  <2> QED
    BY <1>1, <1>3, <1>4, <2>1 DEF FinishedInv, QueueInv, TallyInv, StreamInv
<1>6. CASE SendFinished
  <2>1. /\ extPc = "finish" /\ extPc' = "done" /\ Reading' = Reading
        /\ Passed' = Passed /\ InHand' = {} /\ InHand = {}
    BY <1>0, <1>6 DEF SendFinished, Reading, Passed, InHand, procVars
  <2>2. CASE recq' = recq
    <3>1. FinishedInv'
      BY <1>4, <2>2 DEF FinishedInv
    <3> QED
      BY <1>0, <1>1, <1>3, <2>1, <2>2, <3>1, ReadingFrame
  <2>3. CASE recq' = Append(recq, 0)
    <3>1. /\ Len(recq) \in Nat /\ Len(recq') = Len(recq) + 1
          /\ \A i \in 1..Len(recq) : recq'[i] = recq[i]
          /\ recq'[Len(recq) + 1] = 0
          /\ \A i \in 1..Len(recq') : i \in 1..Len(recq) \/ i = Len(recq) + 1
          /\ Queued' = Queued \cup ({0} \ {0})
      BY <1>2, <2>3, AppendedRecord
    <3>2. FinishedInv'
      BY <1>4, <2>1, <3>1 DEF FinishedInv
    <3>3. Queued' = Queued /\ Processed' = Processed
      BY <2>1, <3>1 DEF Processed
    <3>4. QueueInv'
      <4>1. Reading => \A i, j \in 1..Len(recq') : i < j /\ recq'[j] # 0 => recq'[i] < recq'[j]
        BY <3>1 DEF QueueInv
      <4> QED
        BY <2>1, <3>3, <4>1 DEF QueueInv
    <3>5. TallyInv' /\ StreamInv'
      BY <1>0, <2>1, <3>3 DEF TallyInv, StreamInv, procVars
    <3> QED
      BY <1>1, <1>3, <3>2, <3>4, <3>5
  <2> QED
    BY <1>6, <2>2, <2>3 DEF SendFinished
<1> QED
  BY <1>5, <1>6

-----------------------------------------------------------------------------
(* Sets of positions of a body are finite.                                 *)
LEMMA PositionsFinite ==
    ASSUME NEW b \in Seq(Cell), NEW S, S \subseteq DOMAIN b
    PROVE  IsFiniteSet(S) /\ Cardinality(S) \in Nat
<1>1. DOMAIN b = 1..Len(b) /\ Len(b) \in Nat
  BY LenProperties
<1>2. IsFiniteSet(1..Len(b))
  BY <1>1, FS_Interval
<1>3. IsFiniteSet(S)
  BY <1>1, <1>2, FS_Subset
<1> QED
  BY <1>3, FS_CardinalityType

(* Of the positions in S and one more, the ones a property holds of.       *)
LEMMA OneMore ==
    ASSUME NEW T, IsFiniteSet(T), NEW U, NEW k, k \notin T, NEW B \in BOOLEAN,
           U = IF B THEN T \cup {k} ELSE T
    PROVE  Cardinality(U) = Cardinality(T) + (IF B THEN 1 ELSE 0)
<1>1. Cardinality(T) \in Nat
  BY FS_CardinalityType
<1>2. CASE B
  BY <1>1, <1>2, FS_AddElement
<1>3. CASE ~ B
  BY <1>1, <1>3
<1> QED
  BY <1>2, <1>3

(* RecordTally: one more record counted is the tally of one more record.   *)
LEMMA TallyAdds ==
    ASSUME NEW b \in Seq(Cell), NEW S, S \subseteq DOMAIN b, NEW k, k \in DOMAIN b, k \notin S
    PROVE  TallyOf(b, S \cup {k}) = Counted(TallyOf(b, S), b[k])
<1> DEFINE T == {j \in S : Survives(b[j])}
           D == {j \in S : b[j] = "drop"}
           O == {j \in S : b[j] = "odd"}
           R == S \cup {k}
           TR == {j \in R : Survives(b[j])}
           DR == {j \in R : b[j] = "drop"}
           OR == {j \in R : b[j] = "odd"}
<1>1. /\ IsFiniteSet(S) /\ IsFiniteSet(T) /\ IsFiniteSet(D) /\ IsFiniteSet(O)
      /\ k \notin T /\ k \notin D /\ k \notin O
  BY PositionsFinite
<1>2. /\ Survives(b[k]) \in BOOLEAN /\ (b[k] = "drop") \in BOOLEAN /\ (b[k] = "odd") \in BOOLEAN
  BY DEF Survives
<1>3. R = IF TRUE THEN S \cup {k} ELSE S
  OBVIOUS
<1>4. TR = IF Survives(b[k]) THEN T \cup {k} ELSE T
  OBVIOUS
<1>5. DR = IF b[k] = "drop" THEN D \cup {k} ELSE D
  OBVIOUS
<1>6. OR = IF b[k] = "odd" THEN O \cup {k} ELSE O
  OBVIOUS
<1>7. TallyOf(b, S) = [in |-> Cardinality(S), kept |-> Cardinality(T),
                       ruled |-> Cardinality(D), odd |-> Cardinality(O)]
  BY DEF TallyOf
<1>8. TallyOf(b, R) = [in |-> Cardinality(R), kept |-> Cardinality(TR),
                       ruled |-> Cardinality(DR), odd |-> Cardinality(OR)]
  BY DEF TallyOf
<1> HIDE DEF T, D, O, R, TR, DR, OR
<1>9. Cardinality(R) = Cardinality(S) + 1
  BY <1>1, <1>3, OneMore
<1>10. Cardinality(TR) = Cardinality(T) + (IF Survives(b[k]) THEN 1 ELSE 0)
  BY <1>1, <1>2, <1>4, OneMore
<1>11. Cardinality(DR) = Cardinality(D) + (IF b[k] = "drop" THEN 1 ELSE 0)
  BY <1>1, <1>2, <1>5, OneMore
<1>12. Cardinality(OR) = Cardinality(O) + (IF b[k] = "odd" THEN 1 ELSE 0)
  BY <1>1, <1>2, <1>6, OneMore
<1>13. Counted(TallyOf(b, S), b[k])
        = [in    |-> Cardinality(S) + 1,
           kept  |-> Cardinality(T) + (IF Survives(b[k]) THEN 1 ELSE 0),
           ruled |-> Cardinality(D) + (IF b[k] = "drop" THEN 1 ELSE 0),
           odd   |-> Cardinality(O) + (IF b[k] = "odd" THEN 1 ELSE 0)]
  BY <1>7 DEF Counted
<1> QED
  BY <1>8, <1>9, <1>10, <1>11, <1>12, <1>13 DEF R

(* Buffer mode's tally is the tally of all records; every record is kept   *)
(* or dropped by a rule.                                                   *)
LEMMA WholeTally ==
    ASSUME NEW b \in Seq(Cell)
    PROVE  /\ BufferRun(b) \in {"Written", "NothingKept"} =>
                 BufferTally(b) = TallyOf(b, RecordsOf(b))
           /\ BufferRun(b) \notin {"Written", "NothingKept"} => BufferTally(b) = NoTally
           /\ TallyOf(b, RecordsOf(b)).kept = Cardinality(SurvivorsOf(b))
           /\ Cardinality(RecordsOf(b)) = Cardinality(SurvivorsOf(b))
                 + Cardinality({k \in DOMAIN b : b[k] = "drop"})
           /\ {k \in RecordsOf(b) : Survives(b[k])} = SurvivorsOf(b)
<1>1. /\ {k \in RecordsOf(b) : Survives(b[k])} = SurvivorsOf(b)
      /\ {k \in RecordsOf(b) : b[k] = "drop"} = {k \in DOMAIN b : b[k] = "drop"}
      /\ {k \in RecordsOf(b) : b[k] = "odd"} = {k \in DOMAIN b : b[k] = "odd"}
  BY DEF RecordsOf, SurvivorsOf, Survives, Record
<1>2. TallyOf(b, RecordsOf(b)) =
          [in    |-> Cardinality(RecordsOf(b)),
           kept  |-> Cardinality(SurvivorsOf(b)),
           ruled |-> Cardinality({k \in DOMAIN b : b[k] = "drop"}),
           odd   |-> Cardinality({k \in DOMAIN b : b[k] = "odd"})]
  BY <1>1 DEF TallyOf
<1>3. Cardinality(RecordsOf(b)) = Cardinality(SurvivorsOf(b))
                 + Cardinality({k \in DOMAIN b : b[k] = "drop"})
  <2> DEFINE D == {k \in DOMAIN b : b[k] = "drop"}
  <2>1. RecordsOf(b) = SurvivorsOf(b) \cup D /\ SurvivorsOf(b) \cap D = {}
    BY DEF RecordsOf, SurvivorsOf, Survives, Record
  <2>2. /\ IsFiniteSet(SurvivorsOf(b)) /\ IsFiniteSet(D)
        /\ Cardinality(SurvivorsOf(b)) \in Nat /\ Cardinality(D) \in Nat
    BY PositionsFinite DEF SurvivorsOf
  <2> HIDE DEF D
  <2>3. Cardinality(RecordsOf(b)) = Cardinality(SurvivorsOf(b)) + Cardinality(D) - Cardinality({})
    BY <2>1, <2>2, FS_Union
  <2> QED
    BY <2>2, <2>3, FS_EmptySet DEF D
<1>4. /\ BufferRun(b) \in {"Written", "NothingKept"} =>
                 BufferTally(b) = TallyOf(b, RecordsOf(b))
      /\ BufferRun(b) \notin {"Written", "NothingKept"} => BufferTally(b) = NoTally
  BY <1>2 DEF BufferTally
<1>5. TallyOf(b, RecordsOf(b)).kept = Cardinality(SurvivorsOf(b))
  BY <1>2
<1> QED
  BY <1>1, <1>3, <1>4, <1>5

-----------------------------------------------------------------------------
(* While the processing block runs, the output channel is open: nothing    *)
(* has landed and nothing is answered.                                     *)
LEMMA ProcessingFrame ==
    ASSUME ParityInv, Processing
    PROVE  /\ OutcomeInv' /\ InputInv' /\ LandInv' /\ PublishInv'
           /\ ~ closed
           /\ UNCHANGED <<body, pumpVars, extVars, joinVars, putVars>>
<1> USE DEF ParityInv
<1>0. UNCHANGED <<body, pumpVars, inq, extVars, joinVars, putVars>> /\ procPc # "done"
  BY DEF Processing, ProcHeader, ProcRecord, ProcFlush, ProcFinished, ProcVanished,
     ProcTail, ProcAbort
<1>1. OutcomeInv'
  BY ProcessingKeepsOutcome
<1>2. InputInv'
  BY <1>0 DEF InputInv, Parsing, pumpVars, extVars
<1>3. ~ closed
  BY <1>0 DEF OutcomeInv, VerdictInv
<1>4. LandInv'
  BY <1>0, <1>3 DEF LandInv, OutcomeInv, CommitInv, putVars
<1>5. PublishInv'
  BY <1>0 DEF PublishInv, OutcomeInv, AnswerInv, joinVars
<1> QED
  BY <1>0, <1>1, <1>2, <1>3, <1>4, <1>5

(* The output may grow under the reader: what it has read stays a prefix.  *)
LEMMA OutputGrows ==
    ASSUME ParityInv, UNCHANGED <<flushed, outq, closed, putVars>>,
           \/ stream' = stream
           \/ \E x \in Nat : stream' = Append(stream, x),
           procPc' # "done",
           procPc' \in {"flush", "tail"} => flushed < Len(stream')
    PROVE  OutputInv'
<1> USE DEF ParityInv, putVars
<1>1. stream \in Seq(Nat) /\ upBody \in Seq(Nat) /\ Len(stream) \in Nat /\ Len(upBody) \in Nat
  BY LenProperties DEF OutcomeInv, TypeInv, TypeOK, PutTypeOK
<1>2. Len(upBody) <= Len(stream) /\ upBody = SubSeq(stream, 1, Len(upBody))
  BY DEF OutputInv
<1>3. Len(upBody) <= Len(stream') /\ upBody = SubSeq(stream', 1, Len(upBody))
  <2>1. CASE stream' = stream
    BY <1>2, <2>1
  <2>2. ASSUME NEW x \in Nat, stream' = Append(stream, x)
        PROVE  Len(upBody) <= Len(stream') /\ upBody = SubSeq(stream', 1, Len(upBody))
    <3>1. /\ stream' \in Seq(Nat) /\ Len(stream') = Len(stream) + 1
          /\ \A i \in 1..Len(stream) : stream'[i] = stream[i]
      BY <1>1, <2>2, AppendProperties
    <3> DEFINE n == Len(upBody)
               s == SubSeq(stream, 1, n)
               t == SubSeq(stream', 1, n)
    <3>2. n \in Nat /\ n <= Len(stream) /\ n <= Len(stream')
      BY <1>1, <1>2, <3>1
    <3>3. s \in Seq(Nat) /\ Len(s) = n /\ \A i \in 1..n : s[i] = stream[i]
      BY <1>1, <3>2, SubSeqProperties
    <3>4. t \in Seq(Nat) /\ Len(t) = n /\ \A i \in 1..n : t[i] = stream'[i]
      BY <3>1, <3>2, SubSeqProperties
    <3>5. \A i \in 1..n : s[i] = t[i]
      BY <1>1, <3>1, <3>2, <3>3, <3>4
    <3>6. s = t
      BY <3>3, <3>4, <3>5, SeqEqual
    <3> QED
      BY <1>2, <3>2, <3>6
  <2> QED
    BY <2>1, <2>2
<1> QED
  BY <1>3 DEF OutputInv

(* A chunk follows the chunks before it; the sentinel follows everything.  *)
LEMMA ChunkFollows ==
    ASSUME ParityInv, ~ closed, ~ PutReturned, NEW m \in Nat \X Nat, outq' = Append(outq, m),
           UNCHANGED <<stream, putVars>>,
           \/ m = AbortMsg /\ closed' /\ flushed' = flushed
           \/ m = <<flushed, Len(stream)>> /\ flushed < Len(stream) /\ flushed' = Len(stream),
           procPc' \notin {"flush", "tail"},
           procPc' = "done" /\ procRes' = "Written" => flushed' = Len(stream)
    PROVE  OutputInv'
<1> USE DEF ParityInv, putVars
<1>1. /\ outq \in Seq(Nat \X Nat) /\ Len(outq) \in Nat /\ flushed \in Nat /\ Len(stream) \in Nat
  BY LenProperties DEF OutcomeInv, TypeInv, TypeOK, PutTypeOK
<1>2. /\ Len(outq') = Len(outq) + 1 /\ outq'[Len(outq) + 1] = m /\ outq' # <<>>
      /\ \A i \in 1..Len(outq) : outq'[i] = outq[i]
  BY <1>1, AppendProperties
<1>3. /\ Len(upBody) <= Len(stream') /\ upBody' = SubSeq(stream', 1, Len(upBody'))
      /\ Len(upBody') <= Len(stream')
      /\ procPc' \in {"flush", "tail"} => flushed' < Len(stream')
      /\ procPc' = "done" /\ procRes' = "Written" => flushed' = Len(stream')
  BY DEF OutputInv
<1> SUFFICES ASSUME upPc \in {"create", "fill"}
             PROVE  /\ outq'[1] = AbortMsg \/ outq'[1][1] = Len(upBody)
                    /\ outq'[Len(outq')] = AbortMsg \/ outq'[Len(outq')][2] = flushed'
                    /\ \A i \in 1..Len(outq') :
                          IF outq'[i] = AbortMsg THEN i = Len(outq') /\ closed'
                          ELSE /\ outq'[i][1] < outq'[i][2]
                               /\ i > 1 => outq'[i][1] = outq'[i - 1][2]
  BY <1>2, <1>3 DEF OutputInv
<1>4. \A i \in 1..Len(outq) : /\ outq[i] # AbortMsg /\ outq[i][1] < outq[i][2]
                              /\ i > 1 => outq[i][1] = outq[i - 1][2]
  BY DEF OutputInv
<1>5. /\ outq = <<>> => Len(upBody) = flushed
      /\ outq # <<>> => outq[1][1] = Len(upBody) /\ outq[Len(outq)][2] = flushed
  <2>1. outq # <<>> => Len(outq) \in 1..Len(outq) /\ 1 \in 1..Len(outq)
    BY <1>1, EmptySeq
  <2> QED
    BY <1>4, <2>1 DEF OutputInv
<1>6. m # AbortMsg => m[1] = flushed /\ m[2] = Len(stream) /\ m[1] < m[2] /\ flushed' = m[2]
  BY <1>1
<1>7. outq = <<>> <=> Len(outq) = 0
  BY <1>1, EmptySeq
<1>8. outq'[1] = AbortMsg \/ outq'[1][1] = Len(upBody)
  <2>1. CASE Len(outq) = 0
    BY <1>2, <1>5, <1>6, <1>7, <2>1
  <2>2. CASE Len(outq) # 0
    BY <1>1, <1>2, <1>5, <1>7, <2>2
  <2> QED
    BY <2>1, <2>2
<1>9. outq'[Len(outq')] = AbortMsg \/ outq'[Len(outq')][2] = flushed'
  BY <1>2, <1>6
<1>10. ASSUME NEW i \in 1..Len(outq')
       PROVE  IF outq'[i] = AbortMsg THEN i = Len(outq') /\ closed'
              ELSE /\ outq'[i][1] < outq'[i][2]
                   /\ i > 1 => outq'[i][1] = outq'[i - 1][2]
  <2>1. CASE i \in 1..Len(outq)
    <3>1. i > 1 => i - 1 \in 1..Len(outq)
      BY <1>1, <2>1
    <3> QED
      BY <1>2, <1>4, <2>1, <3>1
  <2>2. CASE i = Len(outq) + 1
    <3>1. CASE m = AbortMsg
      <4>1. closed'
        BY <1>1, <3>1 DEF AbortMsg
      <4> QED
        BY <1>2, <2>2, <3>1, <4>1
    <3>2. CASE m # AbortMsg
      <4>1. i > 1 => i - 1 = Len(outq) /\ Len(outq) \in 1..Len(outq) /\ outq # <<>>
        BY <1>1, <1>7, <2>2
      <4>2. i > 1 => outq'[i - 1][2] = flushed
        BY <1>2, <1>5, <4>1
      <4> QED
        BY <1>2, <1>6, <2>2, <3>2, <4>2
    <3> QED
      BY <3>1, <3>2
  <2> QED
    BY <1>1, <1>2, <2>1, <2>2
<1> QED
  BY <1>8, <1>9, <1>10

(* Handing the sink over, the last time or not, and giving up.             *)
LEMMA SendKeepsParity == ParityInv /\ (ProcFlush \/ ProcTail \/ ProcAbort) => ParityInv'
<1> SUFFICES ASSUME ParityInv, ProcFlush \/ ProcTail \/ ProcAbort PROVE ParityInv'
  OBVIOUS
<1> USE DEF ParityInv
<1>0. /\ OutcomeInv' /\ InputInv' /\ LandInv' /\ PublishInv' /\ ~ closed
      /\ UNCHANGED <<body, pumpVars, extVars, joinVars, putVars>>
  BY ProcessingFrame DEF Processing
<1>1. UNCHANGED <<recq, procRes, tally, stream>>
  BY DEF ProcFlush, ProcTail, ProcAbort
<1>2. ParseInv' /\ FinishedInv' /\ ResultTrue'
  BY <1>0, <1>1 DEF ParseInv, FinishedInv, ResultTrue, Parsing, pumpVars, extVars
<1>3. /\ procPc = "flush" => procPc' = "recv"
      /\ procPc # "flush" => procPc' = "done"
      /\ procPc \in {"flush", "tail", "abort"}
  BY DEF ProcFlush, ProcTail, ProcAbort
<1>4. /\ Reading' = Reading /\ Passed' = Passed /\ InHand' = InHand /\ Queued' = Queued
      /\ Processed' = Processed
  BY <1>0, <1>1 DEF Reading, Passed, InHand, Queued, Processed, extVars
<1>5. QueueInv' /\ TallyInv' /\ StreamInv'
  BY <1>0, <1>1, <1>3, <1>4 DEF QueueInv, TallyInv, StreamInv
<1>6. OutputInv'
  <2>0. /\ flushed \in Nat /\ Len(stream) \in Nat /\ AbortMsg \in Nat \X Nat
        /\ <<flushed, Len(stream)>> \in Nat \X Nat
    BY LenProperties DEF OutcomeInv, TypeInv, TypeOK, PutTypeOK, AbortMsg
  <2>1. procPc \in {"flush", "tail"} => flushed < Len(stream)
    BY DEF OutputInv
  <2>2. procPc = "abort" => procRes # "Written"
    BY DEF OutcomeInv, VerdictInv
  <2>3. /\ procPc' \notin {"flush", "tail"}
        /\ procPc' = "done" /\ procRes' = "Written" => flushed' = Len(stream)
    BY <1>1, <1>3, <2>2 DEF ProcFlush, ProcTail, ProcAbort
  <2>4. CASE PutReturned
    BY <1>0, <1>1, <2>3, <2>4 DEF OutputInv, PutReturned, putVars
  <2>5. CASE ~ PutReturned /\ ProcAbort
    <3>1. outq' = Append(outq, AbortMsg) /\ closed' /\ flushed' = flushed
      BY <2>5 DEF ProcAbort, SendOut
    <3> QED
      BY <1>0, <1>1, <2>0, <2>3, <2>5, <3>1, ChunkFollows
  <2>6. CASE ~ PutReturned /\ (ProcFlush \/ ProcTail)
    <3>1. /\ outq' = Append(outq, <<flushed, Len(stream)>>) /\ flushed' = Len(stream)
          /\ flushed < Len(stream)
      BY <2>1, <2>6 DEF ProcFlush, ProcTail, SendOut
    <3> QED
      BY <1>0, <1>1, <2>0, <2>3, <2>6, <3>1, ChunkFollows
  <2> QED
    BY <2>4, <2>5, <2>6
<1> QED
  BY <1>0, <1>2, <1>5, <1>6

(* What a run that is given up needs no more.                              *)
LEMMA GivenUp ==
    ASSUME procRes' # "none", ParseInv, UNCHANGED extVars, UNCHANGED body
    PROVE  ParseInv' /\ QueueInv' /\ TallyInv' /\ StreamInv'
<1>1. ~ Reading'
  BY DEF Reading
<1> QED
  BY <1>1 DEF ParseInv, Parsing, QueueInv, TallyInv, StreamInv, extVars

(* The opening is written, or an encoder fails, or the producer is gone.   *)
LEMMA HeaderKeepsParity == ParityInv /\ (ProcHeader \/ ProcVanished) => ParityInv'
<1> SUFFICES ASSUME ParityInv, ProcHeader \/ ProcVanished PROVE ParityInv'
  OBVIOUS
<1> USE DEF ParityInv
<1>0. /\ OutcomeInv' /\ InputInv' /\ LandInv' /\ PublishInv' /\ ~ closed
      /\ UNCHANGED <<body, pumpVars, extVars, joinVars, putVars>>
  BY ProcessingFrame DEF Processing
<1>1. UNCHANGED <<recq, tally, flushed, outq, closed>>
  BY DEF ProcHeader, ProcVanished
<1>2. FinishedInv'
  BY <1>0, <1>1 DEF FinishedInv, extVars
<1>3. CASE procPc' = "abort" /\ procRes' = "Internal" /\ UNCHANGED stream
  <2>1. OutputInv'
    BY <1>0, <1>1, <1>3, OutputGrows
  <2>2. ResultTrue'
    BY <1>3 DEF ResultTrue
  <2>3. ParseInv' /\ QueueInv' /\ TallyInv' /\ StreamInv'
    BY <1>0, <1>3, GivenUp
  <2> QED
    BY <1>0, <1>2, <2>1, <2>2, <2>3
<1>4. CASE /\ procPc = "header" /\ stream' = Append(stream, Opening)
           /\ procPc' = "recv" /\ UNCHANGED procRes
  <2>1. OutputInv'
    BY <1>0, <1>1, <1>4, OutputGrows DEF Opening
  <2>2. ResultTrue' /\ ParseInv'
    BY <1>0, <1>1, <1>4 DEF ResultTrue, ParseInv, Parsing, OutcomeInv, VerdictInv, pumpVars, extVars
  <2>3. /\ Reading' = Reading /\ Passed' = Passed /\ InHand' = InHand /\ Queued' = Queued
        /\ Processed' = Processed
    BY <1>0, <1>1, <1>4 DEF Reading, Passed, InHand, Queued, Processed, extVars
  <2>4. QueueInv' /\ TallyInv'
    BY <1>0, <1>1, <2>3 DEF QueueInv, TallyInv
  <2>5. StreamInv'
    <3> SUFFICES ASSUME Reading
                 PROVE  /\ Len(stream') >= 1 /\ stream'[1] = Opening
                        /\ \A i, j \in 1..Len(stream') : i < j => stream'[i] < stream'[j]
                        /\ {stream'[i] : i \in 2..Len(stream')} = {k \in Processed : Survives(body[k])}
      BY <1>0, <1>4, <2>3 DEF StreamInv
    <3>1. stream = <<>> /\ Processed = {}
      BY <1>4 DEF StreamInv
    <3>2. Len(stream') = 1 /\ stream'[1] = Opening
      BY <1>4, <3>1, EmptySeq, AppendProperties DEF Opening
    <3> QED
      BY <3>1, <3>2
  <2> QED
    BY <1>0, <1>2, <2>1, <2>2, <2>4, <2>5
<1> QED
  BY <1>3, <1>4 DEF ProcHeader, ProcVanished, GiveUp

-----------------------------------------------------------------------------
(* A message is taken off the record channel.                              *)
LEMMA RecordTaken ==
    ASSUME ParityInv, recq # <<>>, recq' = Tail(recq), UNCHANGED extPc
    PROVE  /\ Len(recq) \in Nat \ {0} /\ Len(recq') = Len(recq) - 1 /\ Head(recq) = recq[1]
           /\ Head(recq) \in 0..Len(body)
           /\ \A i \in 1..(Len(recq) - 1) : recq'[i] = recq[i + 1]
           /\ FinishedInv'
<1> USE DEF ParityInv
<1>1. recq \in Seq(0..Len(body)) /\ Len(recq) <= RecCap
  BY DEF OutcomeInv, TypeInv, TypeOK
<1>2. /\ Len(recq) \in Nat \ {0} /\ Len(recq') = Len(recq) - 1 /\ Head(recq) = recq[1]
      /\ Head(recq) \in 0..Len(body)
      /\ \A i \in 1..(Len(recq) - 1) : recq'[i] = recq[i + 1]
  BY <1>1, ReceiveTyped
<1>3. ASSUME NEW i \in 1..Len(recq'), recq'[i] = 0
      PROVE  i = Len(recq') /\ extPc' = "done"
  <2>1. i + 1 \in 1..Len(recq) /\ recq[i + 1] = 0 /\ i \in Nat
    BY <1>2, <1>3
  <2>2. i + 1 = Len(recq) /\ extPc = "done"
    BY <2>1 DEF FinishedInv
  <2>3. \A l, j \in Nat : j + 1 = l => j = l - 1
    OBVIOUS
  <2> QED
    BY <1>2, <2>1, <2>2, <2>3, Zenon
<1> QED
  BY <1>2, <1>3 DEF FinishedInv

(* The records queued and processed after that, if it was a record.        *)
LEMMA RecordMoves ==
    ASSUME ParityInv, Reading, recq # <<>>, recq' = Tail(recq), Head(recq) # 0,
           UNCHANGED <<body, extPc, scanned, parser>>
    PROVE  /\ Head(recq) \in Passed /\ Head(recq) \notin InHand /\ Head(recq) \in Queued
           /\ Queued' = Queued \ {Head(recq)} /\ Processed' = Processed \cup {Head(recq)}
           /\ Passed' = Passed /\ InHand' = InHand
           /\ \A q \in Queued' : Head(recq) < q
           /\ Head(recq) \notin Processed /\ \A p \in Processed : p < Head(recq)
           /\ \A i, j \in 1..Len(recq') : i < j /\ recq'[j] # 0 => recq'[i] < recq'[j]
<1> USE DEF ParityInv
<1>1. /\ Len(recq) \in Nat \ {0} /\ Len(recq') = Len(recq) - 1 /\ Head(recq) = recq[1]
      /\ Head(recq) \in 0..Len(body)
      /\ \A i \in 1..(Len(recq) - 1) : recq'[i] = recq[i + 1]
  BY RecordTaken
<1> DEFINE k == Head(recq)
<1>2. k \in Queued /\ k \in Passed /\ k \notin InHand
  BY <1>1 DEF Queued, QueueInv
<1>3. /\ \A i \in 1..Len(recq) : i # 1 => i - 1 \in 1..Len(recq')
      /\ \A i \in 1..Len(recq') : i + 1 \in 1..Len(recq) /\ i + 1 # 1 /\ 1 < i + 1
      /\ \A i \in 1..Len(recq) : i # 1 => recq'[i - 1] = recq[i]
      /\ \A i \in 1..Len(recq') : recq'[i] = recq[i + 1]
      /\ 1 \in 1..Len(recq)
  BY <1>1
<1>4. \A i \in 1..Len(recq') : recq'[i] # 0 => k < recq'[i]
  BY <1>1, <1>3 DEF QueueInv
<1>5. Queued' = Queued \ {k}
  <2>1. ASSUME NEW q \in Queued' PROVE q \in Queued \ {k}
    <3>1. PICK i \in 1..Len(recq') : q = recq'[i] /\ q # 0
      BY DEF Queued
    <3>2. q \in Queued
      BY <1>3, <3>1 DEF Queued
    <3>3. k < q
      BY <1>4, <3>1
    <3> QED
      BY <1>1, <3>2, <3>3
  <2>2. ASSUME NEW q \in Queued \ {k} PROVE q \in Queued'
    <3>1. PICK i \in 1..Len(recq) : q = recq[i] /\ q # 0
      BY DEF Queued
    <3>2. i # 1
      BY <1>1, <3>1
    <3> QED
      BY <1>3, <3>1, <3>2 DEF Queued
  <2> QED
    BY <2>1, <2>2
<1>6. \A q \in Queued' : k < q
  BY <1>4 DEF Queued
<1>7. Passed' = Passed /\ InHand' = InHand
  BY DEF Passed, InHand
<1>8. Processed' = Processed \cup {k} /\ k \notin Processed
  BY <1>2, <1>5, <1>7 DEF Processed
<1>9. \A p \in Processed : p < k
  BY <1>2 DEF QueueInv
<1>10. ASSUME NEW i \in 1..Len(recq'), NEW j \in 1..Len(recq'), i < j, recq'[j] # 0
       PROVE  recq'[i] < recq'[j]
  <2>1. i + 1 < j + 1
    BY <1>10
  <2> QED
    BY <1>3, <1>10, <2>1 DEF QueueInv
<1> QED
  BY <1>2, <1>5, <1>6, <1>7, <1>8, <1>9, <1>10

(* One record is evaluated, counted and, if it survives, written.          *)
LEMMA RecordKeepsParity == ParityInv /\ ProcRecord => ParityInv'
<1> SUFFICES ASSUME ParityInv, ProcRecord PROVE ParityInv'
  OBVIOUS
<1> USE DEF ParityInv
<1> DEFINE k == Head(recq)
<1>0. /\ OutcomeInv' /\ InputInv' /\ LandInv' /\ PublishInv' /\ ~ closed
      /\ UNCHANGED <<body, pumpVars, extVars, joinVars, putVars>>
  BY ProcessingFrame DEF Processing
<1>1. /\ UNCHANGED <<flushed, outq, closed>> /\ procPc = "recv" /\ recq # <<>>
      /\ recq' = Tail(recq) /\ k # 0
  BY DEF ProcRecord
<1>2. FinishedInv' /\ k \in Nat
  <2>1. FinishedInv' /\ k \in 0..Len(body)
    BY <1>0, <1>1, RecordTaken DEF extVars
  <2> QED
    BY <2>1, BodyFacts DEF OutcomeInv, TypeInv
<1>3. CASE procPc' = "abort" /\ procRes' = "Internal" /\ UNCHANGED <<tally, stream>>
  <2>1. OutputInv'
    BY <1>0, <1>1, <1>3, OutputGrows
  <2>2. ResultTrue'
    BY <1>3 DEF ResultTrue
  <2>3. ParseInv' /\ QueueInv' /\ TallyInv' /\ StreamInv'
    BY <1>0, <1>3, GivenUp
  <2> QED
    BY <1>0, <1>2, <2>1, <2>2, <2>3
<1>4. CASE /\ tally' = Counted(tally, body[k])
           /\ stream' = IF Survives(body[k]) THEN Append(stream, k) ELSE stream
           /\ procPc' \in IF Len(stream') > flushed THEN {"recv", "flush"} ELSE {"recv"}
           /\ UNCHANGED procRes
  <2>0. stream \in Seq(Nat) /\ Len(stream) \in Nat /\ body \in Seq(Cell) /\ flushed \in Nat
    BY BodyFacts, LenProperties DEF OutcomeInv, TypeInv, TypeOK, PutTypeOK
  <2>1. OutputInv'
    <3>1. Len(stream') \in Nat
      BY <1>2, <1>4, <2>0, AppendProperties
    <3>2. procPc' \in {"flush", "tail"} => flushed < Len(stream')
      BY <1>4, <2>0, <3>1
    <3>3. \/ stream' = stream
          \/ \E x \in Nat : stream' = Append(stream, x)
      BY <1>2, <1>4
    <3>4. procPc' # "done"
      BY <1>4
    <3> QED
      BY <1>0, <1>1, <3>2, <3>3, <3>4, OutputGrows
  <2>2. ResultTrue' /\ ParseInv'
    BY <1>0, <1>1, <1>4 DEF ResultTrue, ParseInv, Parsing, OutcomeInv, VerdictInv, pumpVars, extVars
  <2>3. Reading' = Reading
    BY <1>0, <1>4 DEF Reading, extVars
  <2> SUFFICES ASSUME Reading PROVE QueueInv' /\ TallyInv' /\ StreamInv'
    BY <1>0, <1>2, <2>1, <2>2, <2>3 DEF QueueInv, TallyInv, StreamInv
  <2>4. /\ k \in Passed /\ k \notin InHand /\ k \in Queued
        /\ Queued' = Queued \ {k} /\ Processed' = Processed \cup {k}
        /\ Passed' = Passed /\ InHand' = InHand
        /\ \A q \in Queued' : k < q
        /\ k \notin Processed /\ \A p \in Processed : p < k
        /\ \A i, j \in 1..Len(recq') : i < j /\ recq'[j] # 0 => recq'[i] < recq'[j]
    BY <1>0, <1>1, RecordMoves DEF extVars
  <2>5. QueueInv'
    <3>1. Queued \subseteq Passed \ InHand /\ \A p \in Processed, q \in Queued : p < q
      BY DEF QueueInv
    <3> QED
      BY <2>3, <2>4, <3>1 DEF QueueInv
  <2>6. Processed \subseteq DOMAIN body /\ k \in DOMAIN body
    BY <2>4 DEF Processed, Passed, RecordsOf
  <2>7. TallyInv'
    <3>1. TallyOf(body, Processed \cup {k}) = Counted(TallyOf(body, Processed), body[k])
      BY <2>0, <2>4, <2>6, TallyAdds
    <3> QED
      BY <1>0, <1>4, <2>4, <3>1 DEF TallyInv
  <2>8. StreamInv'
    <3>1. /\ Len(stream) >= 1 /\ stream[1] = Opening
          /\ \A i, j \in 1..Len(stream) : i < j => stream[i] < stream[j]
          /\ {stream[i] : i \in 2..Len(stream)} = {p \in Processed : Survives(body[p])}
      BY <1>1 DEF StreamInv
    <3> SUFFICES /\ Len(stream') >= 1 /\ stream'[1] = Opening
                 /\ \A i, j \in 1..Len(stream') : i < j => stream'[i] < stream'[j]
                 /\ {stream'[i] : i \in 2..Len(stream')}
                      = {p \in Processed \cup {k} : Survives(body[p])}
      BY <1>0, <1>4, <2>4 DEF StreamInv
    <3>2. CASE ~ Survives(body[k])
      <4>1. {p \in Processed \cup {k} : Survives(body[p])} = {p \in Processed : Survives(body[p])}
        BY <3>2
      <4> QED
        BY <1>4, <3>1, <3>2, <4>1
    <3>3. CASE Survives(body[k])
      <4>1. /\ Len(stream') = Len(stream) + 1 /\ stream'[Len(stream) + 1] = k
            /\ \A i \in 1..Len(stream) : stream'[i] = stream[i]
        BY <1>2, <1>4, <2>0, <3>3, AppendProperties
      <4>2. \A i \in 1..Len(stream) : stream[i] < k
        <5>1. stream[1] < k
          BY <1>1, <1>2, <3>1 DEF Opening
        <5>2. \A i \in 2..Len(stream) : stream[i] \in Processed
          BY <3>1
        <5> QED
          BY <2>4, <5>1, <5>2
      <4>3. \A i \in 1..Len(stream') : i \in 1..Len(stream) \/ i = Len(stream) + 1
        BY <2>0, <4>1
      <4>4. ASSUME NEW i \in 1..Len(stream'), NEW j \in 1..Len(stream'), i < j
            PROVE  stream'[i] < stream'[j]
        <5>1. i \in 1..Len(stream)
          BY <2>0, <4>1, <4>4
        <5>2. CASE j \in 1..Len(stream)
          BY <3>1, <4>1, <4>4, <5>1, <5>2
        <5>3. CASE j = Len(stream) + 1
          BY <4>1, <4>2, <5>1, <5>3
        <5> QED
          BY <4>3, <5>2, <5>3
      <4>5. 2..Len(stream') = (2..Len(stream)) \cup {Len(stream) + 1}
        BY <2>0, <3>1, <4>1
      <4>6. \A i \in 2..Len(stream) : stream'[i] = stream[i]
        BY <2>0, <4>1
      <4>7. {stream'[i] : i \in 2..Len(stream')} = {stream[i] : i \in 2..Len(stream)} \cup {k}
        BY <4>1, <4>5, <4>6
      <4>8. {p \in Processed \cup {k} : Survives(body[p])}
              = {p \in Processed : Survives(body[p])} \cup {k}
        BY <3>3
      <4>9. Len(stream') >= 1 /\ stream'[1] = Opening
        BY <2>0, <3>1, <4>1
      <4> QED
        BY <3>1, <4>4, <4>7, <4>8, <4>9
    <3> QED
      BY <3>2, <3>3
  <2> QED
    BY <2>5, <2>7, <2>8
<1> QED
  BY <1>3, <1>4 DEF ProcRecord, GiveUp

(* Finished: everything the parser passed has been processed.              *)
LEMMA FinishedTaken ==
    ASSUME ParityInv, procPc = "recv", recq # <<>>, Head(recq) = 0, finish = "RecordsFound"
    PROVE  /\ extPc = "done" /\ bytesIn = Len(body)
           /\ tally = TallyOf(body, RecordsOf(body))
           /\ tally.kept = Cardinality(SurvivorsOf(body))
           /\ BufferRun(body) = IF tally.kept > 0 THEN "Written" ELSE "NothingKept"
           /\ tally = BufferTally(body) /\ ~ ReadApart(body)
           /\ Len(stream) >= 1 /\ stream[1] = Opening
           /\ \A i, j \in 1..Len(stream) : i < j => stream[i] < stream[j]
           /\ {stream[i] : i \in 2..Len(stream)} = SurvivorsOf(body)
<1> USE DEF ParityInv
<1>1. /\ body \in Seq(Cell) /\ Len(body) \in Nat /\ DOMAIN body = 1..Len(body)
      /\ recq \in Seq(0..Len(body)) /\ Len(recq) <= RecCap
  BY BodyFacts DEF OutcomeInv, TypeInv, TypeOK
<1>2. Len(recq) \in Nat \ {0} /\ Head(recq) = recq[1]
  BY <1>1, ReceiveTyped
<1>3. Len(recq) = 1 /\ extPc = "done" /\ recq[1] = 0
  BY <1>2 DEF FinishedInv
<1>4. Queued = {} /\ InHand = {}
  BY <1>3 DEF Queued, InHand
<1>5. procRes = "none" /\ Reading
  BY <1>3 DEF OutcomeInv, VerdictInv, Reading, Failures
<1>6. /\ scanned = Len(body) /\ bytesIn = Len(body) /\ parser.found = TRUE
      /\ Decompresses(body) /\ IsEnvelope(body) /\ ~ ReadApart(body)
  BY <1>5 DEF ParseInv, ReadApart
<1>7. Processed = RecordsOf(body)
  BY <1>1, <1>4, <1>6 DEF Processed, Passed, RecordsOf
<1>8. tally = TallyOf(body, RecordsOf(body))
  BY <1>5, <1>7 DEF TallyInv
<1>9. tally.kept = Cardinality(SurvivorsOf(body))
  BY <1>1, <1>8, WholeTally
<1>10. BufferRun(body) = IF tally.kept > 0 THEN "Written" ELSE "NothingKept"
  <2>1. IsFiniteSet(SurvivorsOf(body)) /\ Cardinality(SurvivorsOf(body)) \in Nat
    BY <1>1, PositionsFinite DEF SurvivorsOf
  <2>2. Cardinality(SurvivorsOf(body)) > 0 <=> SurvivorsOf(body) # {}
    BY <2>1, FS_EmptySet
  <2> QED
    BY <1>6, <1>9, <2>2 DEF BufferRun
<1>11. tally = BufferTally(body)
  BY <1>1, <1>8, <1>10, WholeTally
<1>12. {k \in RecordsOf(body) : Survives(body[k])} = SurvivorsOf(body)
  BY <1>1, WholeTally
<1>13. /\ Len(stream) >= 1 /\ stream[1] = Opening
       /\ \A i, j \in 1..Len(stream) : i < j => stream[i] < stream[j]
       /\ {stream[i] : i \in 2..Len(stream)} = SurvivorsOf(body)
  BY <1>5, <1>7, <1>12 DEF StreamInv
<1> QED
  BY <1>3, <1>6, <1>8, <1>9, <1>10, <1>11, <1>13

(* The end of the records: the verdict is buffer mode's, and so is the     *)
(* output once the closing is written.                                     *)
LEMMA FinishedKeepsParity == ParityInv /\ ProcFinished => ParityInv'
<1> SUFFICES ASSUME ParityInv, ProcFinished PROVE ParityInv'
  OBVIOUS
<1> USE DEF ParityInv
<1>0. /\ OutcomeInv' /\ InputInv' /\ LandInv' /\ PublishInv' /\ ~ closed
      /\ UNCHANGED <<body, pumpVars, extVars, joinVars, putVars>>
  BY ProcessingFrame DEF Processing
<1>1. /\ UNCHANGED <<flushed, outq, closed>> /\ procPc = "recv" /\ recq # <<>>
      /\ recq' = Tail(recq) /\ Head(recq) = 0
  BY DEF ProcFinished
<1>2. FinishedInv'
  BY <1>0, <1>1, RecordTaken DEF extVars
<1>3. procRes = "none" /\ procRes' # "none" /\ procPc' \in {"tail", "abort"}
  BY <1>1 DEF OutcomeInv, VerdictInv, ProcFinished, GiveUp, Failures
<1>4. ParseInv' /\ QueueInv' /\ TallyInv' /\ StreamInv'
  BY <1>0, <1>3, GivenUp
<1>5. /\ stream \in Seq(Nat) /\ Len(stream) \in Nat /\ body \in Seq(Cell) /\ Len(body) \in Nat
      /\ DOMAIN body = 1..Len(body) /\ flushed \in Nat /\ flushed <= Len(stream)
      /\ tally.kept \in Nat
  BY BodyFacts, LenProperties DEF OutcomeInv, TypeInv, TypeOK, PutTypeOK, ChunkInv, Tallies
<1>6. CASE /\ finish = "RecordsFound" /\ tally.kept > 0
           /\ stream' = Append(stream, Closing(body))
           /\ procPc' = "tail" /\ procRes' = "Written" /\ UNCHANGED tally
  <2>1. /\ extPc = "done" /\ bytesIn = Len(body) /\ BufferRun(body) = "Written"
        /\ tally = BufferTally(body) /\ ~ ReadApart(body)
        /\ Len(stream) >= 1 /\ stream[1] = Opening
        /\ \A i, j \in 1..Len(stream) : i < j => stream[i] < stream[j]
        /\ {stream[i] : i \in 2..Len(stream)} = SurvivorsOf(body)
        /\ tally.kept = Cardinality(SurvivorsOf(body))
    BY <1>1, <1>6, FinishedTaken
  <2>2. /\ Closing(body) \in Nat /\ Closing(body) = Len(body) + 1
    BY <1>5 DEF Closing
  <2>3. /\ Len(stream') = Len(stream) + 1 /\ stream'[Len(stream) + 1] = Closing(body)
        /\ \A i \in 1..Len(stream) : stream'[i] = stream[i]
    BY <1>5, <1>6, <2>2, AppendProperties
  <2>4. OutputInv'
    <3>1. procPc' \in {"flush", "tail"} => flushed < Len(stream')
      BY <1>5, <2>3
    <3>2. \E x \in Nat : stream' = Append(stream, x)
      BY <1>6, <2>2
    <3> QED
      BY <1>0, <1>1, <1>3, <3>1, <3>2, OutputGrows
  <2>5. IsOutputOf(stream', body)
    <3>1. Len(stream') >= 2 /\ stream'[1] = Opening /\ stream'[Len(stream')] = Closing(body)
      BY <1>5, <2>1, <2>3
    <3>2. \A i \in 1..Len(stream) : stream[i] < Closing(body)
      <4>1. \A i \in 2..Len(stream) : stream[i] \in SurvivorsOf(body)
        BY <2>1
      <4>2. \A i \in 2..Len(stream) : stream[i] \in 1..Len(body)
        BY <1>5, <4>1 DEF SurvivorsOf
      <4>3. stream[1] < Closing(body)
        BY <1>5, <2>1, <2>2 DEF Opening
      <4> QED
        BY <1>5, <2>2, <4>2, <4>3
    <3>3. ASSUME NEW i \in 1..Len(stream'), NEW j \in 1..Len(stream'), i < j
          PROVE  stream'[i] < stream'[j]
      <4>1. i \in 1..Len(stream)
        BY <1>5, <2>3, <3>3
      <4>2. CASE j \in 1..Len(stream)
        BY <2>1, <2>3, <3>3, <4>1, <4>2
      <4>3. CASE j = Len(stream) + 1
        BY <2>3, <3>2, <4>1, <4>3
      <4> QED
        BY <1>5, <2>3, <4>2, <4>3
    <3>4. Len(stream') - 1 = Len(stream) /\ \A i \in 2..Len(stream) : stream'[i] = stream[i]
      BY <1>5, <2>3
    <3>5. {stream'[i] : i \in 2..(Len(stream') - 1)} = SurvivorsOf(body)
      BY <2>1, <3>4
    <3> QED
      BY <3>1, <3>3, <3>5 DEF IsOutputOf
  <2>6. ResultTrue'
    BY <1>0, <1>6, <2>1, <2>5 DEF ResultTrue, pumpVars, extVars
  <2> QED
    BY <1>0, <1>2, <1>4, <2>4, <2>6
<1>7. CASE procPc' = "abort" /\ UNCHANGED stream
  <2>1. OutputInv'
    BY <1>0, <1>1, <1>7, OutputGrows
  <2>2. procRes' # "Written"
    BY <1>0, <1>7 DEF OutcomeInv, VerdictInv
  <2>3. ASSUME procRes' = "NothingKept" PROVE ResultTrue'
    <3>1. finish = "RecordsFound" /\ tally.kept = 0 /\ UNCHANGED tally
      BY <2>3 DEF ProcFinished, GiveUp, Failures
    <3>2. /\ bytesIn = Len(body) /\ BufferRun(body) = "NothingKept"
          /\ tally = BufferTally(body) /\ ~ ReadApart(body)
      BY <1>1, <3>1, FinishedTaken
    <3> QED
      BY <1>0, <2>3, <3>1, <3>2 DEF ResultTrue, pumpVars
  <2>4. ASSUME procRes' = "Unrecognized" PROVE ResultTrue'
    <3>1. finish = "Unrecognized" /\ tally' = NoTally
      BY <2>4 DEF ProcFinished, GiveUp, Failures
    <3>2. bytesIn = Len(body) /\ PassedOver(body)
      BY <1>3, <3>1 DEF ParseInv
    <3> QED
      BY <1>0, <2>4, <3>1, <3>2 DEF ResultTrue, pumpVars
  <2>5. ASSUME procRes' \in {"Gzip", "Json"} PROVE ResultTrue'
    <3>1. finish \in {"Gzip", "Json"}
      BY <2>5 DEF ProcFinished, GiveUp, Failures
    <3>2. Unreadable(body)
      BY <1>3, <3>1 DEF ParseInv
    <3> QED
      BY <1>0, <2>5, <3>2 DEF ResultTrue
  <2>6. ResultTrue'
    BY <2>2, <2>3, <2>4, <2>5 DEF ResultTrue
  <2> QED
    BY <1>0, <1>2, <1>4, <2>1, <2>6
<1> QED
  BY <1>6, <1>7 DEF ProcFinished, GiveUp

(* The processing block as a whole.                                        *)
LEMMA ProcessingKeepsParity == ParityInv /\ Processing => ParityInv'
BY HeaderKeepsParity, RecordKeepsParity, SendKeepsParity, FinishedKeepsParity DEF Processing

-----------------------------------------------------------------------------
(* put_stream reads the next chunk: what it has read stays a prefix of the *)
(* output, and the chunks on their way still follow it.                    *)
LEMMA ChunkRead ==
    ASSUME ParityInv, ReadBody, UNCHANGED procVars
    PROVE  OutputInv'
<1> USE DEF ParityInv
<1>0. /\ upPc = "fill" /\ outq # <<>> /\ outq' = Tail(outq) /\ UNCHANGED <<stream, closed>>
  BY DEF ReadBody
<1>1. /\ stream \in Seq(Nat) /\ upBody \in Seq(Nat) /\ outq \in Seq(Nat \X Nat)
      /\ Len(outq) <= OutCap /\ Len(stream) \in Nat /\ Len(upBody) \in Nat
  BY LenProperties DEF OutcomeInv, TypeInv, TypeOK, PutTypeOK
<1>2. /\ Head(outq) \in Nat \X Nat /\ Head(outq) = outq[1] /\ Len(outq) \in Nat \ {0}
      /\ Tail(outq) \in Seq(Nat \X Nat) /\ Len(outq') = Len(outq) - 1
      /\ \A i \in 1..(Len(outq) - 1) : outq'[i] = outq[i + 1]
  BY <1>0, <1>1, ReceiveTyped
<1>3. CASE Head(outq) = AbortMsg
  <2>1. upPc' = "abort" /\ upBody' = upBody
    BY <1>3 DEF ReadBody
  <2> QED
    BY <1>0, <2>1 DEF OutputInv, procVars
<1>4. CASE Head(outq) # AbortMsg
  <2>1. PICK a \in Nat, b \in Nat : Head(outq) = <<a, b>>
    BY <1>2
  <2>2. /\ upPc' = "fill" /\ upBody' = upBody \o SubSeq(stream, a + 1, b)
        /\ outq[1] = <<a, b>> /\ outq[1][1] = a /\ outq[1][2] = b /\ outq[1] # AbortMsg
    <3>1. /\ outq[1] = <<a, b>> /\ outq[1][1] = a /\ outq[1][2] = b /\ outq[1] # AbortMsg
          /\ Head(outq)[1] = a /\ Head(outq)[2] = b
      BY <1>2, <1>4, <2>1
    <3>2. upPc' = upPc /\ upBody' = upBody \o SubSeq(stream, Head(outq)[1] + 1, Head(outq)[2])
      BY <1>4 DEF ReadBody
    <3> QED
      BY <1>0, <3>1, <3>2
  <2>3. a = Len(upBody) /\ upBody = SubSeq(stream, 1, a) /\ a <= Len(stream)
    BY <1>0, <2>2 DEF OutputInv
  <2>4. a < b /\ b <= Len(stream)
    <3>1. 1 \in 1..Len(outq)
      BY <1>2
    <3> QED
      BY <1>0, <2>2, <3>1 DEF OutputInv, OutcomeInv, TypeInv, ChunkInv
  <2>5. upBody' = SubSeq(stream, 1, b)
    <3>1. /\ 1 \in 1..(Len(stream) + 1) /\ a \in (1 - 1)..Len(stream) /\ b \in a..Len(stream)
      BY <1>1, <2>3, <2>4
    <3>2. SubSeq(stream, 1, a) \o SubSeq(stream, a + 1, b) = SubSeq(stream, 1, b)
      BY <1>1, <3>1, ConcatAdjacentSubSeq
    <3> QED
      BY <2>2, <2>3, <3>2
  <2>6. Len(upBody') = b
    <3>1. \A i \in 1..b : stream[i] \in Nat
      BY <1>1, <2>4
    <3>2. Len(SubSeq(stream, 1, b)) = IF 1 <= b THEN b - 1 + 1 ELSE 0
      BY <3>1, SubSeqProperties
    <3> QED
      BY <2>4, <2>5, <3>2
  <2>7. \A i \in 1..Len(outq) :
            IF outq[i] = AbortMsg THEN i = Len(outq) /\ closed
            ELSE /\ outq[i][1] < outq[i][2]
                 /\ i > 1 => outq[i][1] = outq[i - 1][2]
    BY <1>0 DEF OutputInv
  <2>8. outq[Len(outq)] = AbortMsg \/ outq[Len(outq)][2] = flushed
    BY <1>0 DEF OutputInv
  <2>9. outq' = <<>> => Len(upBody') = flushed
    <3>1. outq' = <<>> => Len(outq) = 1
      BY <1>2, EmptyTyped
    <3> QED
      BY <2>2, <2>6, <2>8, <3>1
  <2>10. outq' # <<>> => /\ 2 \in 1..Len(outq) /\ 1 \in 1..(Len(outq) - 1)
                         /\ outq'[1] = outq[2] /\ outq'[Len(outq')] = outq[Len(outq)]
    <3>1. outq' # <<>> => Len(outq') # 0
      BY <1>0, <1>2, EmptySeq
    <3>2. outq' # <<>> => Len(outq) - 1 \in 1..(Len(outq) - 1) /\ 2 \in 1..Len(outq)
                            /\ 1 \in 1..(Len(outq) - 1) /\ (Len(outq) - 1) + 1 = Len(outq)
      BY <1>2, <3>1
    <3> QED
      BY <1>2, <3>2
  <2>11. outq' # <<>> => outq'[1] = AbortMsg \/ outq'[1][1] = Len(upBody')
    <3>1. ASSUME outq' # <<>>, outq[2] # AbortMsg
          PROVE  outq[2][1] = outq[1][2]
      <4>1. 2 \in 1..Len(outq) /\ 2 > 1 /\ 2 - 1 = 1
        BY <2>10, <3>1
      <4> QED
        BY <2>7, <3>1, <4>1
    <3> QED
      BY <2>2, <2>6, <2>10, <3>1
  <2>12. ASSUME NEW i \in 1..Len(outq')
         PROVE  IF outq'[i] = AbortMsg THEN i = Len(outq') /\ closed
                ELSE /\ outq'[i][1] < outq'[i][2]
                     /\ i > 1 => outq'[i][1] = outq'[i - 1][2]
    <3>0. /\ i \in 1..(Len(outq) - 1) /\ i \in Nat /\ i + 1 \in 1..Len(outq)
          /\ i > 1 => i - 1 \in 1..(Len(outq) - 1) /\ (i - 1) + 1 = i
          /\ i + 1 > 1 /\ (i + 1) - 1 = i
      <4>1. \A l \in Nat \ {0} : \A j \in 1..(l - 1) :
              /\ j \in 1..(l - 1) /\ j \in Nat /\ j + 1 \in 1..l
              /\ j > 1 => j - 1 \in 1..(l - 1) /\ (j - 1) + 1 = j
              /\ j + 1 > 1 /\ (j + 1) - 1 = j
        OBVIOUS
      <4>2. Len(outq) \in Nat \ {0} /\ i \in 1..(Len(outq) - 1)
        BY <1>2, Zenon
      <4> QED
        BY <4>1, <4>2, Zenon
    <3>1. /\ i + 1 \in 1..Len(outq) /\ outq'[i] = outq[i + 1] /\ i \in Nat
          /\ i > 1 => outq'[i - 1] = outq[i]
          /\ i + 1 > 1 /\ (i + 1) - 1 = i
      <4>1. \A j \in 1..(Len(outq) - 1) : outq'[j] = outq[j + 1]
        BY <1>2, Zenon
      <4>2. outq'[i] = outq[i + 1]
        BY <3>0, <4>1, Zenon
      <4>3. i > 1 => outq'[i - 1] = outq[(i - 1) + 1] /\ (i - 1) + 1 = i
        BY <3>0, <4>1, Zenon
      <4>4. i > 1 => outq'[i - 1] = outq[i]
        BY <4>3, Zenon
      <4> QED
        BY <3>0, <4>2, <4>4, Zenon
    <3>2. i + 1 = Len(outq) => i = Len(outq')
      <4>1. \A l, j \in Nat : j + 1 = l => j = l - 1
        OBVIOUS
      <4> QED
        BY <1>2, <3>1, <4>1, Zenon
    <3> QED
      BY <2>7, <3>1, <3>2
  <2> QED
    BY <1>0, <2>2, <2>4, <2>5, <2>6, <2>8, <2>9, <2>10, <2>11, <2>12 DEF OutputInv, procVars
<1> QED
  BY <1>3, <1>4

(* The end of the body is the end of a written output.                     *)
LEMMA EofIsComplete ==
    ASSUME ParityInv, AtEof
    PROVE  upBody = stream
<1> USE DEF ParityInv, AtEof
<1>1. procPc = "done" /\ procRes = "Written"
  BY DEF OutcomeInv, VerdictInv, SentinelInv
<1>2. Len(upBody) = Len(stream) /\ upBody = SubSeq(stream, 1, Len(upBody))
  BY <1>1 DEF OutputInv
<1>3. stream \in Seq(Nat)
  BY DEF OutcomeInv, TypeInv, TypeOK, PutTypeOK
<1> QED
  BY <1>2, <1>3, SubSeqFull

(* The upload.                                                             *)
LEMMA UploadKeepsParity == ParityInv /\ Upload => ParityInv'
<1> SUFFICES ASSUME ParityInv, Upload PROVE ParityInv'
  OBVIOUS
<1> USE DEF ParityInv
<1>0. UNCHANGED <<body, pumpVars, inq, extVars, recq, procVars, joinVars, stream, closed>>
  BY DEF Upload, PutNext, CreateUpload, ReadBody, UploadPart, EndShort, EndFull,
     CompleteUpload, AbortUpload
<1>1. OutcomeInv'
  BY UploadKeepsOutcome
<1>2. InputInv' /\ ParseInv' /\ FinishedInv' /\ ResultTrue'
  BY <1>0 DEF InputInv, ParseInv, FinishedInv, ResultTrue, Parsing, pumpVars, extVars, procVars
<1>3. QueueInv' /\ TallyInv' /\ StreamInv'
  <2>1. Reading' = Reading /\ Passed' = Passed /\ InHand' = InHand
    BY <1>0 DEF Reading, Passed, InHand, extVars, procVars
  <2> QED
    BY <1>0, <2>1, ReadingFrame
<1>4. PublishInv'
  <2>1. ~ PutReturned
    BY DEF Upload, PutNext, CreateUpload, ReadBody, UploadPart, EndShort, EndFull, AtEof,
       CompleteUpload, AbortUpload, PutReturned
  <2> QED
    BY <1>0, <2>1 DEF PublishInv, OutcomeInv, AnswerInv, joinVars
<1>5. OutputInv'
  <2>1. CASE ReadBody
    BY <1>0, <2>1, ChunkRead
  <2>2. CASE ~ ReadBody
    <3>1. upBody' = upBody /\ outq' = outq /\ (upPc' \in {"create", "fill"} => upPc \in {"create", "fill"})
      BY <2>2 DEF Upload, PutNext, CreateUpload, UploadPart, EndShort, EndFull,
         CompleteUpload, AbortUpload
    <3> QED
      BY <1>0, <3>1 DEF OutputInv, procVars
  <2> QED
    BY <2>1, <2>2
<1>6. LandInv'
  <2>1. CASE CreateUpload \/ ReadBody \/ UploadPart
    BY <1>0, <2>1 DEF LandInv, CreateUpload, ReadBody, UploadPart
  <2>2. CASE EndShort \/ EndFull
    <3>1. upBody = stream
      BY <2>2, EofIsComplete DEF EndShort, EndFull
    <3> QED
      BY <1>0, <2>2, <3>1 DEF LandInv, EndShort, EndFull, AtEof
  <2>3. CASE CompleteUpload
    <3>1. upPc = "complete" /\ part = 0 /\ upBody = stream
      BY <2>3 DEF CompleteUpload, LandInv
    <3>2. Uploaded = stream
      <4>1. stream \in Seq(Nat) /\ Len(stream) - 0 = Len(stream)
        BY LenProperties DEF OutcomeInv, TypeInv, TypeOK, PutTypeOK
      <4> QED
        BY <3>1, <4>1, SubSeqFull DEF Uploaded
    <3> QED
      BY <1>0, <2>3, <3>1, <3>2 DEF LandInv, CompleteUpload
  <2>4. CASE AbortUpload
    BY <1>0, <2>4 DEF LandInv, AbortUpload
  <2> QED
    BY <2>1, <2>2, <2>3, <2>4 DEF Upload, PutNext
<1> QED
  BY <1>1, <1>2, <1>3, <1>4, <1>5, <1>6

(* join!.                                                                  *)
LEMMA JoinKeepsParity == ParityInv /\ Join => ParityInv'
<1> SUFFICES ASSUME ParityInv, Join PROVE ParityInv'
  OBVIOUS
<1> USE DEF ParityInv
<1>0. UNCHANGED <<body, pumpVars, inq, extVars, recq, procVars, stream, outq, closed, putVars>>
  BY DEF Join
<1>1. OutcomeInv'
  BY JoinKeepsOutcome
<1>2. InputInv' /\ ParseInv' /\ FinishedInv' /\ ResultTrue'
  BY <1>0 DEF InputInv, ParseInv, FinishedInv, ResultTrue, Parsing, pumpVars, extVars, procVars
<1>3. QueueInv' /\ TallyInv' /\ StreamInv'
  <2>1. Reading' = Reading /\ Passed' = Passed /\ InHand' = InHand
    BY <1>0 DEF Reading, Passed, InHand, extVars, procVars
  <2> QED
    BY <1>0, <2>1, ReadingFrame
<1>4. OutputInv' /\ LandInv'
  BY <1>0, OutputFrame
<1>5. PublishInv'
  <2>1. result' # "running"
    BY <1>1 DEF Join, JoinedResult, OutcomeInv, TypeInv, ResultInv, ProcResults, ProcessingGone
  <2> QED
    BY <1>0, <2>1 DEF PublishInv, Join, JoinedResult, Committed, ExtractGone, extVars,
       procVars, putVars
<1> QED
  BY <1>1, <1>2, <1>3, <1>4, <1>5

(* The inductive invariant behind the theorems below.                      *)
THEOREM ParityInvariant == Spec => []ParityInv
<1>1. ParityInv /\ [Next]_vars => ParityInv'
  <2> SUFFICES ASSUME ParityInv, [Next]_vars PROVE ParityInv'
    OBVIOUS
  <2>1. CASE UNCHANGED vars
    <3> USE <2>1 DEF vars, ParityInv
    <3>1. OutcomeInv'
      <4>1. TypeInv'
        BY DEF pumpVars, extVars, procVars, joinVars, putVars, OutcomeInv, TypeInv,
           TypeOK, PutTypeOK, ChunkInv, ResultInv
      <4> QED
        BY <4>1 DEF procVars, joinVars, putVars, OutcomeInv, VerdictInv, SentinelInv,
           CommitInv, AnswerInv, PutReturned
    <3>2. InputInv' /\ ParseInv' /\ FinishedInv' /\ ResultTrue'
      BY DEF InputInv, ParseInv, FinishedInv, ResultTrue, Parsing, pumpVars, extVars, procVars
    <3>3. QueueInv' /\ TallyInv' /\ StreamInv'
      <4>1. Reading' = Reading /\ Passed' = Passed /\ InHand' = InHand
        BY DEF Reading, Passed, InHand, extVars, procVars
      <4> QED
        BY <4>1, ReadingFrame
    <3>4. OutputInv' /\ LandInv'
      BY OutputFrame
    <3>5. PublishInv'
      BY DEF PublishInv, JoinedResult, Committed, extVars, procVars, joinVars, putVars
    <3> QED
      BY <3>1, <3>2, <3>3, <3>4, <3>5
  <2>2. CASE Returned
    BY <2>1, <2>2 DEF Returned
  <2> QED
    BY <2>1, <2>2, PumpKeepsParity, ScanCellKeepsParity, ScanEndKeepsParity, EmitKeepsParity,
       FinishKeepsParity, ProcessingKeepsParity, UploadKeepsParity, JoinKeepsParity
       DEF Next, Extract
<1> QED
  BY ParityInit, <1>1, PTL DEF Spec

-----------------------------------------------------------------------------
(* Whatever fails, and wherever the other tasks are at that moment, what   *)
(* put_stream leaves at dest_key is the whole filtered output of a body    *)
(* that buffer mode would have written too.                                *)
THEOREM DestinationIsComplete == Spec => []DestinationComplete
<1>1. ParityInv => DestinationComplete
  BY DEF ParityInv, LandInv, OutcomeInv, CommitInv, ResultTrue, DestinationComplete
<1> QED
  BY <1>1, ParityInvariant, PTL

(* What stream_run answers and publishes is what buffer_run would have, or *)
(* Unrecognized and nothing for a body the modes read apart.               *)
LEMMA AnswerIsTrue ==
    ASSUME ParityInv, result \in {"Written", "NothingKept", "Unrecognized", "Gzip", "Json"}
    PROVE  /\ procRes = result
           /\ IF ReadApart(body)
              THEN result = "Unrecognized" /\ published = NoTally
              ELSE SameVerdict(result, BufferRun(body)) /\ published = BufferTally(body)
<1> USE DEF ParityInv
<1>0. body \in Seq(Cell)
  BY BodyFacts DEF OutcomeInv, TypeInv
<1>1. procRes = result
  BY DEF PublishInv, JoinedResult
<1>2. published = Committed(result)
  BY DEF PublishInv
<1>3. CASE result \in {"Written", "NothingKept"}
  BY <1>1, <1>2, <1>3 DEF ResultTrue, Committed, SameVerdict
<1>4. CASE result = "Unrecognized"
  <2>1. PassedOver(body) /\ tally = NoTally
    BY <1>1, <1>4 DEF ResultTrue
  <2>2. ~ ReadApart(body) => BufferRun(body) = "Unrecognized" /\ BufferTally(body) = NoTally
    BY <1>0, <2>1, WholeTally DEF PassedOver
  <2> QED
    BY <1>1, <1>2, <1>4, <2>1, <2>2 DEF Committed, SameVerdict
<1>5. CASE result \in {"Gzip", "Json"}
  <2>1. IsUnparsable(BufferRun(body)) /\ ~ ReadApart(body)
    BY <1>1, <1>5 DEF ResultTrue, Unreadable
  <2>2. BufferTally(body) = NoTally
    BY <1>0, <2>1, WholeTally DEF IsUnparsable
  <2> QED
    BY <1>1, <1>2, <1>5, <2>1, <2>2 DEF Committed, SameVerdict, IsUnparsable
<1> QED
  BY <1>3, <1>4, <1>5

(* Stream mode and buffer mode give a body the same verdict and count the  *)
(* same records, for every body but those of ReadApart, and each of those  *)
(* is Unrecognized in stream mode.                                         *)
THEOREM ModesAgree == Spec => []ModeParity
<1>1. ParityInv => ModeParity
  BY AnswerIsTrue DEF ModeParity
<1> QED
  BY <1>1, ParityInvariant, PTL

(* A run that fails publishes nothing; one that succeeds has read the      *)
(* source to its end, accounts for every record, and bills what landed.    *)
THEOREM CountersAreSettled == Spec => []CountersSettled
<1>1. ASSUME ParityInv PROVE CountersSettled
  <2> USE <1>1 DEF ParityInv
  <2>0. body \in Seq(Cell)
    BY BodyFacts DEF OutcomeInv, TypeInv
  <2>1. ASSUME published # NoTally
        PROVE  result \in {"Written", "NothingKept"} /\ published.in = published.kept + published.ruled
    <3>1. result \in {"Written", "NothingKept", "Unrecognized"}
      BY <2>1 DEF PublishInv, Committed
    <3>2. published = BufferTally(body) /\ SameVerdict(result, BufferRun(body))
      BY <2>1, <3>1, AnswerIsTrue
    <3>3. BufferRun(body) \in {"Written", "NothingKept"}
      BY <2>0, <2>1, <3>2, WholeTally
    <3>4. result \in {"Written", "NothingKept"}
      BY <3>1, <3>2, <3>3 DEF SameVerdict, IsUnparsable
    <3>5. published = [in    |-> Cardinality(RecordsOf(body)),
                       kept  |-> Cardinality(SurvivorsOf(body)),
                       ruled |-> Cardinality({k \in DOMAIN body : body[k] = "drop"}),
                       odd   |-> Cardinality({k \in DOMAIN body : body[k] = "odd"})]
      BY <3>2, <3>3 DEF BufferTally
    <3>6. Cardinality(RecordsOf(body)) = Cardinality(SurvivorsOf(body))
             + Cardinality({k \in DOMAIN body : body[k] = "drop"})
      BY <2>0, WholeTally
    <3>7. published.in = published.kept + published.ruled
      BY <3>5, <3>6
    <3> QED
      BY <3>4, <3>7
  <2>2. ASSUME bytesOut > 0
        PROVE  result = "Written" /\ landed /\ bytesOut = Len(dest)
    <3>1. result = "Written" /\ bytesOut = flushed
      BY <2>2 DEF PublishInv
    <3>2. procRes = "Written" /\ procPc = "done" /\ landed
      BY <3>1, AnswerIsTrue DEF OutcomeInv, AnswerInv, CommitInv
    <3>3. flushed = Len(stream) /\ dest = stream
      BY <3>2 DEF OutputInv, LandInv
    <3> QED
      BY <3>1, <3>2, <3>3
  <2>3. ASSUME result \in {"Written", "NothingKept", "Unrecognized"} PROVE bytesIn = Len(body)
    BY <2>3, AnswerIsTrue DEF ResultTrue
  <2> QED
    BY <2>1, <2>2, <2>3 DEF CountersSettled
<1> QED
  BY <1>1, ParityInvariant, PTL

-----------------------------------------------------------------------------
(* The two modules read a body alike.                                      *)
LEMMA SameReading ==
    ASSUME NEW b, NEW s
    PROVE  /\ Filter!BufferRun(b) = BufferRun(b)
           /\ Filter!BufferTally(b) = BufferTally(b)
           /\ Filter!NoTally = NoTally
           /\ Filter!IsOutputOf(s, b) <=> IsOutputOf(s, b)
           /\ \A r : Filter!IsUnparsable(r) <=> IsUnparsable(r)
           /\ Filter!ReadApart(b) <=> ReadApart(b)
<1>1. Filter!SurvivorsOf(b) = SurvivorsOf(b) /\ Filter!RecordsOf(b) = RecordsOf(b)
  BY DEF Filter!SurvivorsOf, SurvivorsOf, Filter!Survives, Survives, Filter!RecordsOf, RecordsOf,
     Filter!Record, Record
<1>2. Filter!Decompresses(b) <=> Decompresses(b)
  BY DEF Filter!Decompresses, Decompresses
<1>3. Filter!IsEnvelope(b) <=> IsEnvelope(b)
  BY DEF Filter!IsEnvelope, IsEnvelope, Filter!Decompressed, Decompressed, Filter!Record, Record
<1>a. Filter!IsListed(b) <=> IsListed(b)
  BY DEF Filter!IsListed, IsListed, Filter!Decompressed, Decompressed, Filter!Record, Record
<1>b. Filter!IsText(b) <=> IsText(b)
  BY DEF Filter!IsText, IsText, Filter!Decompressed, Decompressed, Filter!Record, Record
<1>4. Filter!IsValue(b) <=> IsValue(b)
  BY <1>b DEF Filter!IsValue, IsValue
<1>5. /\ Filter!BufferRun(b) = BufferRun(b)
      /\ Filter!ReadApart(b) <=> ReadApart(b)
  BY <1>1, <1>2, <1>3, <1>4, <1>a, <1>b
  DEF Filter!BufferRun, BufferRun, Filter!ReadApart, ReadApart
<1>6. Filter!NoTally = NoTally
  BY DEF Filter!NoTally, NoTally
<1>7. Filter!BufferTally(b) = BufferTally(b)
  <2>1. \A S : Filter!Cardinality(S) = Cardinality(S)
    BY DEF Filter!Cardinality, Cardinality
  <2> QED
    BY <1>1, <1>5, <1>6, <2>1 DEF Filter!BufferTally, BufferTally
<1>8. Filter!IsOutputOf(s, b) <=> IsOutputOf(s, b)
  BY <1>1 DEF Filter!IsOutputOf, IsOutputOf, Filter!Opening, Opening, Filter!Closing, Closing
<1>9. \A r : Filter!IsUnparsable(r) <=> IsUnparsable(r)
  BY DEF Filter!IsUnparsable, IsUnparsable
<1> QED
  BY <1>5, <1>6, <1>7, <1>8, <1>9

(* join! gives an answer that fits the body and the destination.           *)
LEMMA JoinAnswers == ParityInv /\ ParityInv' /\ Join => Filter!Next
<1> SUFFICES ASSUME ParityInv, ParityInv', Join PROVE Filter!Next
  OBVIOUS
<1> USE DEF ParityInv
<1>0. /\ UNCHANGED <<body, landed, dest, procRes, procPc, upPc, flushed, extPc, tally>>
      /\ result = "running" /\ result' # "running" /\ PutReturned
  <2>1. result' # "running"
    BY DEF Join, JoinedResult, OutcomeInv, TypeInv, ResultInv, ProcResults, ProcessingGone
  <2> QED
    BY <2>1 DEF Join, putVars, procVars, extVars
<1>1. bytesOut = 0 /\ published = NoTally
  BY <1>0 DEF PublishInv
<1>2. /\ result' = JoinedResult /\ bytesOut' = (IF result' = "Written" THEN flushed ELSE 0)
      /\ published' = Committed(result')
  BY DEF Join
<1>3. landed => procRes = "Written" /\ extPc = "done"
  BY DEF OutcomeInv, CommitInv, ResultTrue
<1>4. procRes \in ProcResults /\ procPc = "done"
  BY DEF OutcomeInv, TypeInv, ResultInv, Join, ProcessingGone
<1>5. CASE result' = "Written"
  <2>1. procRes = "Written" /\ upPc = "ok"
    BY <1>0, <1>2, <1>5 DEF JoinedResult, PutReturned
  <2>2. landed /\ dest = stream /\ flushed = Len(stream)
    BY <1>4, <2>1 DEF OutcomeInv, CommitInv, LandInv, OutputInv
  <2>3. published' = BufferTally(body)
    BY <1>2, <1>5, <2>1 DEF Committed, ResultTrue
  <2>4. bytesOut' = Len(dest)
    BY <1>2, <1>5, <2>2
  <2>5. Filter!AnswerWritten
    BY <1>0, <1>5, <2>2, <2>3, <2>4, SameReading DEF Filter!AnswerWritten, Filter!Answer, Filter!Absent
  <2> QED
    BY <2>5 DEF Filter!Next
<1>6. CASE result' \in {"NothingKept", "Unrecognized"}
  <2>1. procRes = result' /\ ~ landed /\ bytesOut' = bytesOut
    BY <1>1, <1>2, <1>3, <1>6 DEF JoinedResult
  <2>2. /\ procRes = "NothingKept" => BufferRun(body) = "NothingKept" /\ tally = BufferTally(body)
        /\ procRes = "Unrecognized" => PassedOver(body) /\ tally = NoTally
    BY DEF ResultTrue
  <2>3. published' = tally
    BY <1>2, <1>6 DEF Committed
  <2>4. Filter!AnswerNothing
    BY <1>0, <1>6, <2>1, <2>2, <2>3, SameReading
    DEF Filter!AnswerNothing, Filter!Answer, Filter!Absent, PassedOver
  <2> QED
    BY <2>4 DEF Filter!Next
<1>7. CASE result' \notin {"Written", "NothingKept", "Unrecognized"}
  <2>1. published' = published /\ bytesOut' = bytesOut
    BY <1>1, <1>2, <1>7 DEF Committed
  <2>2. result' \in {"Gzip", "Json", "Backend", "Internal", "Upload"}
    BY <1>2, <1>4, <1>7 DEF JoinedResult, ProcResults
  <2>3. result' # "Upload" => ~ landed
    <3>1. CASE extPc = "panicked"
      BY <1>3, <3>1
    <3>2. CASE extPc # "panicked"
      BY <1>2, <1>3, <1>7, <3>2 DEF JoinedResult
    <3> QED
      BY <3>1, <3>2
  <2>4. result' \in {"Gzip", "Json"} => IsUnparsable(BufferRun(body))
    BY <1>2 DEF JoinedResult, ResultTrue, Unreadable
  <2>5. Filter!AnswerFailure
    BY <1>0, <2>1, <2>2, <2>3, <2>4, SameReading DEF Filter!AnswerFailure, Filter!Answer, Filter!Absent
  <2> QED
    BY <2>5 DEF Filter!Next
<1> QED
  BY <1>5, <1>6, <1>7

(* The object becomes visible with CompleteMultipartUpload, at once.       *)
LEMMA UploadLands == ParityInv /\ ParityInv' /\ Upload => Filter!Next \/ UNCHANGED Filter!vars
<1> SUFFICES ASSUME ParityInv, ParityInv', Upload PROVE Filter!Next \/ UNCHANGED Filter!vars
  OBVIOUS
<1> USE DEF ParityInv
<1>0. UNCHANGED <<body, procRes, result, bytesOut, published>>
  BY DEF Upload, procVars, joinVars
<1>1. CASE UNCHANGED <<landed, dest>>
  BY <1>0, <1>1 DEF Filter!vars
<1>2. CASE CompleteUpload /\ landed'
  <2>1. ~ landed /\ result = "running"
    BY <1>2 DEF CompleteUpload, LandInv, OutcomeInv, AnswerInv, PutReturned
  <2>2. dest' = stream' /\ procRes' = "Written"
    BY <1>2 DEF LandInv, OutcomeInv, CommitInv
  <2>3. BufferRun(body) = "Written" /\ IsOutputOf(dest', body)
    BY <1>0, <2>2 DEF ResultTrue
  <2>4. Filter!Land
    BY <1>0, <1>2, <2>1, <2>3, SameReading DEF Filter!Land, Filter!Absent
  <2> QED
    BY <2>4 DEF Filter!Next
<1> QED
  BY <1>1, <1>2 DEF Upload, PutNext, CreateUpload, ReadBody, UploadPart, EndShort, EndFull,
     CompleteUpload, AbortUpload

(* stream_run implements FilterObject: seen from outside, dest_key changes *)
(* at most once, to the complete output and all at once, and one answer    *)
(* follows that fits it.                                                   *)
THEOREM StreamRunImplementsFilter == Spec => FilterSpec
<1>1. Init => Filter!Init
  BY SameReading DEF Init, PutInit, Filter!Init, Filter!Absent
<1>2. ParityInv /\ ParityInv' /\ [Next]_vars => [Filter!Next]_Filter!vars
  <2> SUFFICES ASSUME ParityInv, ParityInv', [Next]_vars
               PROVE  Filter!Next \/ UNCHANGED Filter!vars
    OBVIOUS
  <2>1. CASE Pump \/ Extract \/ ExtractPanic \/ Processing
    BY <2>1 DEF Pump, PumpRead, PumpSend, PumpSendErr, Extract, ScanCell, ScanReadError, ScanEof,
       EmitRecord, SendFinished, ExtractPanic, Processing, ProcHeader, ProcRecord, ProcFlush,
       ProcFinished, ProcVanished, ProcTail, ProcAbort, Filter!vars, joinVars, putVars
  <2>2. CASE UNCHANGED vars
    BY <2>2 DEF vars, Filter!vars, joinVars, putVars
  <2>3. CASE Returned
    BY <2>2, <2>3 DEF Returned
  <2> QED
    BY <2>1, <2>2, <2>3, UploadLands, JoinAnswers DEF Next
<1> QED
  BY <1>1, <1>2, ParityInvariant, PTL DEF Spec, FilterSpec, Filter!Spec
=============================================================================
