----------------------------- MODULE StreamRun -----------------------------
(***************************************************************************)
(* stream_run (process/stream.rs): four tasks joined over three bounded    *)
(* channels.                                                               *)
(*                                                                         *)
(*   pump_input --inq--> extract_records --recq--> processing --outq-->    *)
(*   put_stream                                                            *)
(*                                                                         *)
(* A sender or receiver lives exactly as long as its task, so whether one  *)
(* is gone is read off the task's program counter.  Messages are positions *)
(* of the source body; 0 is the message that ends a channel: a read error  *)
(* in inq, Finished(finish) in recq.                                       *)
(***************************************************************************)
EXTENDS Envelope, PutStream

CONSTANTS Bodies,   \* the source bodies considered
          InCap,    \* INPUT_CHANNEL_CAPACITY
          RecCap    \* RECORD_CHANNEL_CAPACITY

ASSUME BodiesAssumption == Bodies \subseteq Seq(Cell)
ASSUME InCapAssumption == InCap \in Nat \ {0}
ASSUME RecCapAssumption == RecCap \in Nat \ {0}

VARIABLES
    body,       \* the source body
    pumpPc,     \* pump_input
    bytesIn,    \* chunks read from the source so far, billed to BytesIn
    inq,        \* input channel
    extPc,      \* extract_records
    scanned,    \* cells the decoder and parser have consumed
    parser,     \* EnvelopeVisitor and the gzip decoder under it
    transport,  \* ChannelSyncRead::transport_error is set
    finish,     \* FinishKind
    recq,       \* record channel
    procPc,     \* the processing block
    procRes,    \* its result
    tally,      \* its RecordTally
    flushed,    \* items of stream already handed to the output channel
    result,     \* what stream_run returns
    bytesOut,   \* items billed to BytesOut
    published   \* the tally committed to Metrics

pumpVars == <<pumpPc, bytesIn>>
extVars == <<extPc, scanned, parser, transport, finish>>
procVars == <<procPc, procRes, tally, flushed>>
joinVars == <<result, bytesOut, published>>
vars == <<body, pumpVars, inq, extVars, recq, procVars, joinVars,
          stream, outq, closed, putVars>>

Failures == {"Gzip", "Json", "Transport"}
FinishKinds == {"RecordsFound", "Unrecognized"} \cup Failures
ProcResults == {"Written", "NothingKept", "Unrecognized", "Gzip", "Json",
                "Backend", "Internal"}
Results == ProcResults \cup {"Upload"}

(* The decoder and parser between two reads: the place in the envelope     *)
(* grammar, whether the first Records value was an array, how many Records *)
(* keys there were, and whether the last gzip member has been verified.    *)
ParserStates ==
    [at : {"start", "records", "envelope", "ended"}, found : BOOLEAN,
     keys : Nat, sealed : BOOLEAN]

Tallies == [in : Nat, kept : Nat, ruled : Nat, odd : Nat]

(* The shape of the four tasks' state: no channel exceeds its capacity and *)
(* no task reads past the body.                                            *)
TypeOK ==
    /\ PutTypeOK
    /\ body \in Bodies
    /\ pumpPc \in {"read", "send", "sendErr", "done"}
    /\ bytesIn \in 0..Len(body)
    /\ inq \in Seq(0..Len(body)) /\ Len(inq) <= InCap
    /\ extPc \in {"scan", "emit", "finish", "done", "panicked"}
    /\ scanned \in 0..Len(body)
    /\ parser \in ParserStates
    /\ transport \in BOOLEAN
    /\ finish \in FinishKinds \cup {"none"}
    /\ recq \in Seq(0..Len(body)) /\ Len(recq) <= RecCap
    /\ procPc \in {"header", "recv", "flush", "tail", "abort", "done"}
    /\ procRes \in ProcResults \cup {"none"}
    /\ tally \in Tallies
    /\ flushed \in Nat
    /\ result \in Results \cup {"running"}
    /\ bytesOut \in Nat
    /\ published \in Tallies

Init ==
    /\ body \in Bodies
    /\ pumpPc = "read" /\ bytesIn = 0 /\ inq = <<>>
    /\ extPc = "scan" /\ scanned = 0
    /\ parser = [at |-> "start", found |-> FALSE, keys |-> 0, sealed |-> FALSE]
    /\ transport = FALSE /\ finish = "none" /\ recq = <<>>
    /\ procPc = "header" /\ procRes = "none"
    /\ tally = NoTally /\ flushed = 0
    /\ result = "running" /\ bytesOut = 0 /\ published = NoTally
    /\ stream = <<>> /\ outq = <<>> /\ closed = FALSE
    /\ PutInit

(* The senders and receivers of the channels, by the task that owns them.  *)
PumpGone == pumpPc = "done"
ExtractGone == extPc \in {"done", "panicked"}
ProcessingGone == procPc = "done"

-----------------------------------------------------------------------------
(* pump_input: read a chunk, bill it, send it.  The source may fail at any *)
(* read.                                                                   *)
PumpRead ==
    /\ pumpPc = "read"
    /\ \/ /\ bytesIn = Len(body)
          /\ pumpPc' = "done"
          /\ UNCHANGED bytesIn
       \/ /\ bytesIn < Len(body)
          /\ bytesIn' = bytesIn + 1
          /\ pumpPc' = "send"
       \/ /\ pumpPc' = "sendErr"
          /\ UNCHANGED bytesIn
    /\ UNCHANGED <<body, inq, extVars, recq, procVars, joinVars,
                   stream, outq, closed, putVars>>

PumpSend ==
    /\ pumpPc = "send"
    /\ \/ /\ ~ ExtractGone
          /\ CanSend(inq, InCap)
          /\ inq' = Append(inq, bytesIn)
          /\ pumpPc' = "read"
       \/ /\ ExtractGone
          /\ pumpPc' = "done"
          /\ UNCHANGED inq
    /\ UNCHANGED <<body, bytesIn, extVars, recq, procVars, joinVars,
                   stream, outq, closed, putVars>>

PumpSendErr ==
    /\ pumpPc = "sendErr"
    /\ \/ /\ ~ ExtractGone
          /\ CanSend(inq, InCap)
          /\ inq' = Append(inq, 0)
       \/ /\ ExtractGone
          /\ UNCHANGED inq
    /\ pumpPc' = "done"
    /\ UNCHANGED <<body, bytesIn, extVars, recq, procVars, joinVars,
                   stream, outq, closed, putVars>>

Pump == PumpRead \/ PumpSend \/ PumpSendErr

-----------------------------------------------------------------------------
(* EnvelopeVisitor, RecordsVisitor and Deserializer::end: the cells that   *)
(* may come next, and the state after one of them.  Everything else is a   *)
(* JSON syntax error.  The elements of a top-level array are skipped like  *)
(* the values of other keys (IgnoredAny), so `found` stays FALSE.          *)
Expected(p, cell) ==
    \/ cell = "seal"
    \/ p.at = "start" /\ cell \in {"open", "list", "shape", "other"}
    \/ p.at = "records" /\ cell \in Record \cup {"close"}
    \/ p.at = "envelope" /\ cell \in {"opaque", "end"}
    \/ p.at = "envelope" /\ cell = "again" /\ p.keys > 0

AfterCell(p, cell) ==
    CASE cell = "seal"  -> [p EXCEPT !.sealed = TRUE]
      [] cell = "open"  -> [at |-> "records", found |-> TRUE, keys |-> 1,
                            sealed |-> FALSE]
      [] cell = "list"  -> [p EXCEPT !.at = "records", !.sealed = FALSE]
      [] cell = "shape" -> [at |-> "envelope", found |-> FALSE, keys |-> 1,
                            sealed |-> FALSE]
      [] cell = "other" -> [p EXCEPT !.at = "envelope", !.sealed = FALSE]
      [] cell = "close" -> [p EXCEPT !.at = "envelope", !.sealed = FALSE]
      [] cell = "again" -> [p EXCEPT !.keys = @ + 1, !.sealed = FALSE]
      [] cell = "end"   -> [p EXCEPT !.at = "ended", !.sealed = FALSE]
      [] OTHER          -> [p EXCEPT !.sealed = FALSE]

(* The end of the input: a member still open is a gzip error, an envelope  *)
(* still open a JSON error.  Reached from `end()` too, which reads on to   *)
(* the end of the input before Finished is sent.                           *)
(* Mutant: end() is not called, so the trailer is never verified.          *)
FinishUnverified(p) ==
    IF p.at # "ended" THEN "Json"
    ELSE IF p.found /\ p.keys = 1 THEN "RecordsFound" ELSE "Unrecognized"

FinishAtEof(p) ==
    IF ~ p.sealed THEN "Gzip"
    ELSE IF p.at # "ended" THEN "Json"
    ELSE IF p.found /\ p.keys = 1 THEN "RecordsFound" ELSE "Unrecognized"

(* Ends the parse with kind f.                                             *)
EndScan(f) == extPc' = "finish" /\ finish' = f

ScanCell ==
    /\ extPc = "scan"
    /\ inq # <<>>
    /\ Head(inq) # 0
    /\ inq' = Tail(inq)
    /\ scanned' = Head(inq)
    /\ LET cell == body[Head(inq)] IN
       \/ /\ cell = "corrupt"
          /\ EndScan("Gzip")
          /\ UNCHANGED parser
       \/ /\ cell # "corrupt"
          /\ ~ Expected(parser, cell)
          /\ EndScan("Json")
          /\ UNCHANGED parser
       \/ /\ cell # "corrupt"
          /\ Expected(parser, cell)
          /\ parser' = AfterCell(parser, cell)
          /\ extPc' = IF cell \in Record /\ parser.found THEN "emit" ELSE "scan"
          /\ UNCHANGED finish
    /\ UNCHANGED <<body, pumpVars, transport, recq, procVars, joinVars,
                   stream, outq, closed, putVars>>

(* The read error of the source body, told apart from a corrupt member by  *)
(* the out-of-band flag.                                                   *)
ScanReadError ==
    /\ extPc = "scan"
    /\ inq # <<>>
    /\ Head(inq) = 0
    /\ inq' = Tail(inq)
    /\ transport' = TRUE
    /\ EndScan("Transport")
    /\ UNCHANGED <<body, pumpVars, scanned, parser, recq, procVars, joinVars,
                   stream, outq, closed, putVars>>

ScanEof ==
    /\ extPc = "scan"
    /\ inq = <<>>
    /\ PumpGone
    /\ EndScan(FinishAtEof(parser))
    /\ UNCHANGED <<body, pumpVars, inq, scanned, parser, transport, recq,
                   procVars, joinVars, stream, outq, closed, putVars>>

(* RecordsVisitor::visit_seq sends the record, or gives the parse up when  *)
(* the consumer is gone.                                                   *)
EmitRecord ==
    /\ extPc = "emit"
    /\ \/ /\ ~ ProcessingGone
          /\ CanSend(recq, RecCap)
          /\ recq' = Append(recq, scanned)
          /\ extPc' = "scan"
          /\ UNCHANGED finish
       \/ /\ ProcessingGone
          /\ EndScan("Json")
          /\ UNCHANGED recq
    /\ UNCHANGED <<body, pumpVars, inq, scanned, parser, transport, procVars,
                   joinVars, stream, outq, closed, putVars>>

SendFinished ==
    /\ extPc = "finish"
    /\ \/ /\ ~ ProcessingGone
          /\ CanSend(recq, RecCap)
          /\ recq' = Append(recq, 0)
       \/ /\ ProcessingGone
          /\ UNCHANGED recq
    /\ extPc' = "done"
    /\ UNCHANGED <<body, pumpVars, inq, scanned, parser, transport, finish,
                   procVars, joinVars, stream, outq, closed, putVars>>

(* The blocking task panics; its channel ends are dropped.                 *)
ExtractPanic ==
    /\ ~ ExtractGone
    /\ extPc' = "panicked"
    /\ UNCHANGED <<body, pumpVars, inq, scanned, parser, transport, finish,
                   recq, procVars, joinVars, stream, outq, closed, putVars>>

Extract == ScanCell \/ ScanReadError \/ ScanEof \/ EmitRecord \/ SendFinished

-----------------------------------------------------------------------------
(* The processing block.  Every way out of it but the written one first    *)
(* fails the upload's reader: dropping out_tx alone is a clean end of      *)
(* file, which put_stream commits.                                         *)
GiveUp(res) == procPc' = "abort" /\ procRes' = res

ProcHeader ==
    /\ procPc = "header"
    /\ \/ /\ stream' = Append(stream, Opening)
          /\ procPc' = "recv"
          /\ UNCHANGED procRes
       \/ /\ GiveUp("Internal")
          /\ UNCHANGED stream
    /\ UNCHANGED <<body, pumpVars, inq, extVars, recq, tally, flushed,
                   joinVars, outq, closed, putVars>>

(* The tally after a record: record_in, drop_by_rule, parse_error, keep.   *)
(* Mutant: a record that cannot be decoded is not counted as kept.         *)
CountedOddAsDropped(t, cell) ==
    [in    |-> t.in + 1,
     kept  |-> t.kept + (IF cell = "keep" THEN 1 ELSE 0),
     ruled |-> t.ruled + (IF cell = "drop" THEN 1 ELSE 0),
     odd   |-> t.odd + (IF cell = "odd" THEN 1 ELSE 0)]

Counted(t, cell) ==
    [in    |-> t.in + 1,
     kept  |-> t.kept + (IF Survives(cell) THEN 1 ELSE 0),
     ruled |-> t.ruled + (IF cell = "drop" THEN 1 ELSE 0),
     odd   |-> t.odd + (IF cell = "odd" THEN 1 ELSE 0)]

(* One record.  The gzip sink may have reached OUTPUT_FLUSH_THRESHOLD      *)
(* whenever it holds anything.  A failed write of the encoder drops the    *)
(* tally with everything else.                                             *)
ProcRecord ==
    /\ procPc = "recv"
    /\ recq # <<>>
    /\ Head(recq) # 0
    /\ recq' = Tail(recq)
    /\ LET k == Head(recq) IN
       \/ /\ tally' = Counted(tally, body[k])
          /\ stream' = IF Survives(body[k]) THEN Append(stream, k) ELSE stream
          /\ procPc' \in IF Len(stream') > flushed THEN {"recv", "flush"}
                                                   ELSE {"recv"}
          /\ UNCHANGED procRes
       \/ /\ Survives(body[k])
          /\ GiveUp("Internal")
          /\ UNCHANGED <<tally, stream>>
    /\ UNCHANGED <<body, pumpVars, inq, extVars, flushed, joinVars,
                   outq, closed, putVars>>

(* Drains the sink into the output channel; a missing receiver is ignored, *)
(* so the record channel keeps being drained.                              *)
ProcFlush ==
    /\ procPc = "flush"
    /\ SendOut(<<flushed, Len(stream)>>)
    /\ flushed' = Len(stream)
    /\ procPc' = "recv"
    /\ UNCHANGED <<body, pumpVars, inq, extVars, recq, procRes, tally,
                   joinVars, stream, closed, putVars>>

(* Finished(kind) ends the loop.                                           *)
ProcFinished ==
    /\ procPc = "recv"
    /\ recq # <<>>
    /\ Head(recq) = 0
    /\ recq' = Tail(recq)
    /\ \/ /\ finish = "RecordsFound" /\ tally.kept > 0
          /\ stream' = Append(stream, Closing(body))
          /\ procPc' = "tail" /\ procRes' = "Written"
          /\ UNCHANGED tally
       \/ /\ finish = "RecordsFound" /\ tally.kept > 0
          /\ GiveUp("Internal")
          /\ UNCHANGED <<tally, stream>>
       \/ /\ finish = "RecordsFound" /\ tally.kept = 0
          /\ GiveUp("NothingKept")
          /\ UNCHANGED <<tally, stream>>
       \/ /\ finish = "Unrecognized"
          /\ GiveUp("Unrecognized")
          /\ tally' = NoTally
          /\ UNCHANGED stream
       \/ /\ finish \in Failures
          /\ GiveUp(IF finish = "Transport" THEN "Backend" ELSE finish)
          /\ UNCHANGED <<tally, stream>>
    /\ UNCHANGED <<body, pumpVars, inq, extVars, flushed, joinVars,
                   outq, closed, putVars>>

(* recv() returns None: the producer is gone without a Finished message.   *)
ProcVanished ==
    /\ procPc = "recv"
    /\ recq = <<>>
    /\ ExtractGone
    /\ GiveUp("Internal")
    /\ UNCHANGED <<body, pumpVars, inq, extVars, recq, tally, flushed,
                   joinVars, stream, outq, closed, putVars>>

(* The last chunk, then out_tx is dropped.                                 *)
ProcTail ==
    /\ procPc = "tail"
    /\ SendOut(<<flushed, Len(stream)>>)
    /\ flushed' = Len(stream)
    /\ procPc' = "done"
    /\ closed' = TRUE
    /\ UNCHANGED <<body, pumpVars, inq, extVars, recq, procRes, tally,
                   joinVars, stream, putVars>>

(* The abort sentinel, then out_tx is dropped.                             *)
(* Mutant: the sender is dropped without the sentinel.                     *)
AbortByDropping ==
    /\ procPc = "abort"
    /\ procPc' = "done"
    /\ closed' = TRUE
    /\ UNCHANGED <<body, pumpVars, inq, extVars, recq, procRes, tally,
                   flushed, joinVars, stream, outq, putVars>>

ProcAbort ==
    /\ procPc = "abort"
    /\ SendOut(AbortMsg)
    /\ procPc' = "done"
    /\ closed' = TRUE
    /\ UNCHANGED <<body, pumpVars, inq, extVars, recq, procRes, tally,
                   flushed, joinVars, stream, putVars>>

Processing == \/ ProcHeader \/ ProcRecord \/ ProcFlush \/ ProcFinished
              \/ ProcVanished \/ ProcTail \/ ProcAbort

-----------------------------------------------------------------------------
Upload ==
    /\ PutNext
    /\ UNCHANGED <<body, pumpVars, inq, extVars, recq, procVars, joinVars>>

(* After join!: the errors in the order they are looked at, then BytesOut, *)
(* then the tally.                                                         *)
(* Mutant: the upload's error is not looked at.                            *)
ResultIgnoringUpload == IF extPc = "panicked" THEN "Internal" ELSE procRes

JoinedResult ==
    IF extPc = "panicked" THEN "Internal"
    ELSE IF procRes = "Written" /\ upPc = "failed" THEN "Upload"
    ELSE procRes

(* Mutant: the tally is published whatever happened.                       *)
CommittedAlways(res) == tally

Committed(res) ==
    IF res \in {"Written", "NothingKept", "Unrecognized"} THEN tally ELSE NoTally

Join ==
    /\ result = "running"
    /\ PumpGone /\ ExtractGone /\ ProcessingGone /\ PutReturned
    /\ result' = JoinedResult
    /\ bytesOut' = IF result' = "Written" THEN flushed ELSE 0
    /\ published' = Committed(result')
    /\ UNCHANGED <<body, pumpVars, inq, extVars, recq, procVars,
                   stream, outq, closed, putVars>>

Returned ==
    /\ result # "running"
    /\ UNCHANGED vars

Next == Pump \/ Extract \/ ExtractPanic \/ Processing \/ Upload \/ Join
        \/ Returned

(* Each task is polled by the runtime until it ends.  Nothing makes the    *)
(* extraction task panic.                                                  *)
Fairness ==
    /\ WF_vars(Pump) /\ WF_vars(Extract) /\ WF_vars(Processing)
    /\ WF_vars(Upload) /\ WF_vars(Join)

Spec == Init /\ [][Next]_vars

FairSpec == Spec /\ Fairness
-----------------------------------------------------------------------------
(* An object at the destination key is the whole filtered output of a body *)
(* buffer mode would have written too: never truncated, never without      *)
(* records, never of a body that did not verify to its end, whichever task *)
(* failed and wherever the others were at that moment.                     *)
DestinationComplete ==
    landed => IsOutputOf(dest, body) /\ BufferRun(body) = "Written"

(* What stream_run returns tells the caller the truth about dest_key:      *)
(* Written means the object is there; every other answer but an error of   *)
(* the upload itself or a panic means the key is untouched, which          *)
(* process_stream relies on when it copies the source to it.               *)
OutcomeMatchesDestination ==
    /\ result = "Written" => landed
    /\ result \in {"NothingKept", "Unrecognized", "Gzip", "Json", "Backend"}
          => ~ landed

(* Stream mode gives a body the verdict buffer mode gives it, and counts   *)
(* the same records for it, but for the bodies of ReadApart, of which it   *)
(* answers Unrecognized, with nothing counted.  A failed read of the       *)
(* source is never taken for an unparsable source.                         *)
ModeParity ==
    result \in {"Written", "NothingKept", "Unrecognized", "Gzip", "Json"}
      => IF ReadApart(body)
         THEN result = "Unrecognized" /\ published = NoTally
         ELSE /\ SameVerdict(result, BufferRun(body))
              /\ published = BufferTally(body)

(* A run that fails publishes no record counters and no BytesOut, and one  *)
(* that succeeds has read the source to its end: RecordsIn = RecordsKept + *)
(* RecordsDropped, the rules account for every dropped record, and         *)
(* BytesOut is the size of the object that landed.                         *)
CountersSettled ==
    /\ published # NoTally =>
          /\ result \in {"Written", "NothingKept"}
          /\ published.in = published.kept + published.ruled
    /\ bytesOut > 0 => result = "Written" /\ landed /\ bytesOut = Len(dest)
    /\ result \in {"Written", "NothingKept", "Unrecognized"}
          => bytesIn = Len(body)

(* stream_run implements the abstract filter: seen from outside, the       *)
(* destination changes once, atomically, and the answer fits it.  The      *)
(* parts of an upload that is not completed are not seen from outside.     *)
Filter == INSTANCE FilterObject WITH object <- IF landed THEN <<dest>> ELSE <<>>

FilterSpec == Filter!Spec

(* The four tasks never wait for one another forever: stream_run returns.  *)
Terminates == <>(result # "running")
=============================================================================
