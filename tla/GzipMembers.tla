----------------------------- MODULE GzipMembers ----------------------------
(***************************************************************************)
(* The two ends of buffer mode (process/buffer.rs): the body is gzipped as *)
(* up to gzip_chunks members, each on a thread of its own, and an object   *)
(* is read back through a size cap, first compressed and then decompressed. *)
(*                                                                         *)
(* A body is a sequence of bytes; a gzip member is the record of the bytes *)
(* it holds, one byte of compressed size for each and one of framing.      *)
(***************************************************************************)
EXTENDS Integers, Sequences, SequencesExt

CONSTANTS
    MaxLen,    \* The longest body.
    MaxChunks, \* The largest gzip_chunks.
    MinChunk,  \* MIN_CHUNK_BYTES.
    Word,      \* 2^64: one more than the largest u64.
    Caps       \* The max_object_bytes considered.

(* A body is held in memory, and every cap is a u64.                       *)
ASSUME GzipAssumption ==
    /\ MaxLen \in Nat /\ MaxChunks \in Nat
    /\ MinChunk \in Nat \ {0}
    /\ Word \in Nat /\ MaxLen < Word
    /\ Caps \subseteq 0..(Word - 1)

VARIABLES
    body,    \* What buffer_run assembled.
    chunks,  \* gzip_chunks.
    members, \* For each part: "working", "ok" or "failed".
    joined,  \* How many were joined.
    out,     \* The members in the output.
    result   \* "compressing", "written" or "err".

gzipVars == <<body, chunks, members, joined, out, result>>

-----------------------------------------------------------------------------
Clamp(lo, n) == IF n < lo THEN lo ELSE n

Lesser(a, b) == IF a < b THEN a ELSE b

CeilDiv(a, b) == (a + b - 1) \div b

(* How many members: never one below MIN_CHUNK_BYTES, and at least one.   *)
Members(b, n) == Clamp(1, Lesser(n, Len(b) \div MinChunk))

(* body.chunks(len.div_ceil(n)): slices of that length, the last shorter. *)
Parts(b, n) ==
    LET size == Clamp(1, CeilDiv(Len(b), n)) IN
    [i \in 1..Clamp(1, CeilDiv(Len(b), size)) |->
        SubSeq(b, (i - 1) * size + 1, Lesser(i * size, Len(b)))]

Split == Parts(body, Members(body, chunks))

GzipInit ==
    /\ body \in {[i \in 1..n |-> i] : n \in 0..MaxLen}
    /\ chunks \in 1..MaxChunks
    /\ members = [i \in 1..Len(Split) |-> "working"]
    /\ joined = 0
    /\ out = <<>>
    /\ result = "compressing"

(* gzip_compress of one part, on its thread (the first on the caller's):  *)
(* it may fail, or the thread panic.                                       *)
Compress(i) ==
    /\ result = "compressing"
    /\ members[i] = "working"
    /\ \E end \in {"ok", "failed"} : members' = [members EXCEPT ![i] = end]
    /\ UNCHANGED <<body, chunks, joined, out, result>>

(* out.extend_from_slice(&member?): the first failure is the answer.      *)
(* Mutant: members.iter().flatten() for the output too.                    *)
CollectFlattened(i) ==
    /\ joined' = joined + 1
    /\ out' = IF members[i] = "ok" THEN Append(out, Split[i]) ELSE out
    /\ result' = IF joined' = Len(members) THEN "written" ELSE result

Collect(i) ==
    \/ /\ members[i] = "ok"
       /\ joined' = joined + 1
       /\ out' = Append(out, Split[i])
       /\ result' = IF joined' = Len(members) THEN "written" ELSE result
    \/ /\ members[i] = "failed"
       /\ result' = "err"
       /\ UNCHANGED <<joined, out>>

(* Once the scope has joined every thread, in the order they were spawned. *)
Join(i) ==
    /\ result = "compressing"
    /\ \A j \in DOMAIN members : members[j] # "working"
    /\ i = joined + 1
    /\ Collect(i)
    /\ UNCHANGED <<body, chunks, members>>

GzipNext == \E i \in DOMAIN members : Compress(i) \/ Join(i)

GzipSpec == GzipInit /\ [][GzipNext]_gzipVars

-----------------------------------------------------------------------------
(* Reading an object back.                                                 *)

(* limit.saturating_add(1).                                                *)
SaturatingSucc(cap) == Lesser(cap + 1, Word - 1)

Compressed(o) == FoldLeft(LAMBDA n, part : n + Len(part) + 1, 0, o)

(* fetch_with_missing_policy: the compressed body through take().          *)
FetchFits(o, cap) == Lesser(Compressed(o), SaturatingSucc(cap)) <= cap

(* decompress_capped with MultiGzDecoder: every member, through take().   *)
Decompressed(o, cap) == LET all == FlattenSeq(o) IN
                        SubSeq(all, 1, Lesser(Len(all), SaturatingSucc(cap)))

-----------------------------------------------------------------------------
(* Properties.                                                             *)

(* gzip_compress_chunked: whatever the chunk count and whichever thread   *)
(* finishes first, the object written decompresses to the body, every     *)
(* byte once and in order; a part that failed is never left out of it.    *)
DecompressesToBody == result = "written" => FlattenSeq(out) = body

(* The two caps of buffer mode, at every cap up to the largest u64: the   *)
(* body read back is whole, or it is refused for its size; it is never    *)
(* cut short and taken for whole, and the largest cap refuses nothing.    *)
CapsNeverTruncate ==
    result = "written" =>
        \A cap \in Caps :
            LET read == Decompressed(out, cap) IN
            FetchFits(out, cap) =>
                /\ Len(read) <= cap => read = body
                /\ cap = Word - 1 => Len(read) <= cap

(* gzip_compress_chunked and the two size caps: a body comes back whole,   *)
(* or it is an error.                                                      *)
BodiesWhole == DecompressesToBody /\ CapsNeverTruncate
=============================================================================
