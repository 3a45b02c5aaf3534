---------------------------- MODULE MCStreamRun ----------------------------
(* Bodies of the stream_run instance: every envelope with up to MaxRecords *)
(* records, and around some with one record the shapes and the damage that *)
(* the two modes must tell apart.                                          *)
EXTENDS StreamRun

CONSTANTS MaxRecords,   \* records of an undamaged envelope
          Damageable    \* the record of the envelopes that are also damaged

RecordSeqs(n) == UNION {[1..m -> Record] : m \in 0..n}

EnvelopeOf(records) == <<"open">> \o records \o <<"close", "end", "seal">>

(* Cell i replaced, and a cell put in front of cell i.                     *)
Replaced(b, i, c) == [b EXCEPT ![i] = c]
Inserted(b, i, c) == SubSeq(b, 1, i - 1) \o <<c>> \o SubSeq(b, i, Len(b))

Widened(b) == {Inserted(b, i, c) : i \in DOMAIN b, c \in {"again", "opaque"}}

Damaged(b) ==
    {Replaced(b, i, c) : i \in DOMAIN b, c \in {"junk", "corrupt"}}
    \cup {SubSeq(b, 1, n) : n \in 0..(Len(b) - 1)}
    \cup {Inserted(b, i, "seal") : i \in DOMAIN b}
    \cup {Inserted(b, Len(b), "other")}
    \cup {b \o <<"corrupt">>}

Sealed(cells) == cells \o <<"end", "seal">>

OtherShapes ==
    {Sealed(<<"shape">>), Sealed(<<"shape", "again">>), Sealed(<<"shape", "opaque">>),
     Sealed(<<"other">>), Sealed(<<"other", "opaque">>), Sealed(<<"other", "again">>),
     <<"other", "seal">>}

(* Arrays of an array, and what may or may not follow it.                  *)
Arrays ==
    {Sealed(<<"list">> \o r \o <<"close">>) : r \in RecordSeqs(1)}
    \cup {Sealed(<<"list", "keep", "close", c>>) : c \in {"again", "opaque", "junk"}}
    \cup {<<"list", "keep", "close", "seal">>}

MCBodies == {EnvelopeOf(r) : r \in RecordSeqs(MaxRecords)}
            \cup OtherShapes \cup Arrays
            \cup UNION {Widened(EnvelopeOf(<<r>>)) : r \in Record}
            \cup UNION {Damaged(EnvelopeOf(<<r>>)) : r \in Damageable}
=============================================================================
