------------------------------ MODULE Envelope ------------------------------
(***************************************************************************)
(* The body of a CloudTrail object, as the two processing modes tell       *)
(* bodies apart, and the verdict buffer mode (process/buffer.rs) gives on  *)
(* a whole body.                                                           *)
(*                                                                         *)
(* A body is a sequence of cells.  Each cell stands for the stretch of     *)
(* compressed input that carries one step of the envelope grammar:         *)
(*   open      `{"Records":[`           close     `]`                      *)
(*   keep      a record no rule drops   drop      a record a rule drops    *)
(*   odd       a record evaluate_raw cannot decode (kept, counted)         *)
(*   list      `[[`, an array whose one element is an array                *)
(*   shape     `{"Records":` with a value that is not an array             *)
(*   other     any other top-level value, without a Records key            *)
(*   again     a repeated Records key with its value                       *)
(*   opaque    a further member or element that only a full parse rejects  *)
(*   end       the end of the top-level value                              *)
(*   junk      a JSON syntax error      corrupt   an invalid gzip block    *)
(*   seal      the end of a gzip member, its CRC32 and ISIZE correct       *)
(* A body that stops before its seal is a truncated upload.  An odd record *)
(* and an opaque value hold what from_str::<Value> rejects and a parser    *)
(* that skips them does not look at: a lone surrogate escape, a number out *)
(* of range, nesting beyond serde_json's limit.                            *)
(***************************************************************************)
EXTENDS Naturals, Sequences, FiniteSets

Record == {"keep", "drop", "odd"}

Cell == Record \cup {"open", "close", "list", "shape", "other", "again",
                     "opaque", "end", "junk", "corrupt", "seal"}

(* engine.evaluate_raw keeps a record unless a rule drops it; a record it  *)
(* cannot decode is kept.                                                  *)
Survives(cell) == cell \in {"keep", "odd"}

(* The positions of a body's records, and of the ones that survive.  A     *)
(* position stands for the record's own bytes, which both modes copy       *)
(* through unchanged.                                                      *)
RecordsOf(body) == {k \in DOMAIN body : body[k] \in Record}

SurvivorsOf(body) == {k \in DOMAIN body : Survives(body[k])}

(***************************************************************************)
(* The output object.  Items are naturals: 0 is the opening `{"Records":[`,*)
(* k the record at position k of the source, Len(body)+1 the closing `]}`  *)
(* with the gzip trailer.  The output is complete when it opens, closes,   *)
(* and has between them exactly the survivors, in source order.            *)
(***************************************************************************)
Opening == 0

Closing(body) == Len(body) + 1

IsOutputOf(out, body) ==
    /\ Len(out) >= 2
    /\ out[1] = Opening
    /\ out[Len(out)] = Closing(body)
    /\ \A i, j \in 1..Len(out) : i < j => out[i] < out[j]
    /\ {out[i] : i \in 2..(Len(out) - 1)} = SurvivorsOf(body)

-----------------------------------------------------------------------------
(***************************************************************************)
(* buffer_run on a whole body.                                             *)
(***************************************************************************)

(* decompress_capped: MultiGzDecoder over the whole input fails on a bad   *)
(* block and on a last member that never ends.                             *)
Decompresses(body) ==
    /\ body # <<>>
    /\ body[Len(body)] = "seal"
    /\ \A i \in DOMAIN body : body[i] # "corrupt"

(* The cells that are in the decompressed JSON: all but the seals.         *)
Decompressed(body) == {k \in DOMAIN body : body[k] # "seal"}

(* serde_json::from_slice::<Envelope>: an object with exactly one Records  *)
(* key, and that one an array (a duplicate field is an error, and any      *)
(* other field is skipped),                                                *)
IsEnvelope(body) ==
    \E o, c, e \in DOMAIN body :
        /\ o < c /\ c < e
        /\ body[o] = "open" /\ body[c] = "close" /\ body[e] = "end"
        /\ \A k \in Decompressed(body) :
              \/ k \in {o, c, e}
              \/ o < k /\ k < c /\ body[k] \in Record
              \/ c < k /\ k < e /\ body[k] = "opaque"

(* or an array of exactly one element, the array of records: what derive   *)
(* generates takes a struct's fields in order as well.                     *)
IsListed(body) ==
    \E o, c, e \in DOMAIN body :
        /\ o < c /\ c < e
        /\ body[o] = "list" /\ body[c] = "close" /\ body[e] = "end"
        /\ \A k \in Decompressed(body) :
              k \in {o, c, e} \/ (o < k /\ k < c /\ body[k] \in Record)

(* One JSON value and nothing after it, to a parser that skips what it     *)
(* does not need (IgnoredAny, RawValue): an object with its Records first  *)
(* and maybe again, an array, an object whose Records is no array, or      *)
(* something else.                                                         *)
IsText(body) ==
    \/ \E o, c, e \in DOMAIN body :
          /\ o < c /\ c < e
          /\ body[o] \in {"open", "list"} /\ body[c] = "close" /\ body[e] = "end"
          /\ \A k \in Decompressed(body) :
                \/ k \in {o, c, e}
                \/ o < k /\ k < c /\ body[k] \in Record
                \/ c < k /\ k < e /\ body[k] = "opaque"
                \/ c < k /\ k < e /\ body[k] = "again" /\ body[o] = "open"
    \/ \E o, e \in DOMAIN body :
          /\ o < e /\ body[o] \in {"shape", "other"} /\ body[e] = "end"
          /\ \A k \in Decompressed(body) :
                \/ k \in {o, e}
                \/ o < k /\ k < e /\ body[k] = "opaque"
                \/ o < k /\ k < e /\ body[k] = "again" /\ body[o] = "shape"

(* serde_json::from_slice::<Value>: a full parse, of every value in it.    *)
IsValue(body) ==
    IsText(body) /\ \A k \in DOMAIN body : body[k] \notin {"odd", "opaque"}

BufferRun(body) ==
    IF ~ Decompresses(body) THEN "Gzip"
    ELSE IF IsEnvelope(body) \/ IsListed(body)
         THEN IF SurvivorsOf(body) # {} THEN "Written" ELSE "NothingKept"
    ELSE IF IsValue(body) THEN "Unrecognized" ELSE "Json"

(* The bodies the modes read apart.  To stream mode each is a JSON text    *)
(* that is no envelope; buffer mode filters the array of an array, and     *)
(* calls a text with a value it cannot decode unparsable.                  *)
ReadApart(body) ==
    /\ Decompresses(body)
    /\ IsText(body)
    /\ ~ IsEnvelope(body)
    /\ IsListed(body) \/ ~ IsValue(body)

(* CoreError::is_unparsable_source: what on_parse_error: copy fails open   *)
(* on.  The two classes are treated alike by every caller.                 *)
IsUnparsable(result) == result \in {"Gzip", "Json"}

SameVerdict(r, s) == r = s \/ (IsUnparsable(r) /\ IsUnparsable(s))

(* RecordTally: what a run over the whole body has counted at the end.     *)
NoTally == [in |-> 0, kept |-> 0, ruled |-> 0, odd |-> 0]

BufferTally(body) ==
    IF BufferRun(body) \in {"Written", "NothingKept"}
    THEN [in    |-> Cardinality(RecordsOf(body)),
          kept  |-> Cardinality(SurvivorsOf(body)),
          ruled |-> Cardinality({k \in DOMAIN body : body[k] = "drop"}),
          odd   |-> Cardinality({k \in DOMAIN body : body[k] = "odd"})]
    ELSE NoTally
=============================================================================
