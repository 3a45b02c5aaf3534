----------------------------- MODULE MCDecoders -----------------------------
(* Payloads of Decoders: how S3, SNS, SQS and EventBridge (external) wrap  *)
(* what happened in a bucket, and the payloads that were damaged, refused  *)
(* or meant for someone else on the way.                                   *)
EXTENDS Integers, Sequences, SequencesExt

(* S3 form-urlencodes a key.                                               *)
EncodeChar(c) == CASE c = " " -> <<"+">> [] c = "+" -> <<"%", "2", "B">>
                   [] c = "%" -> <<"%", "2", "5">> [] OTHER -> <<c>>

Encode(key) == FlattenSeq([i \in DOMAIN key |-> EncodeChar(key[i])])

Chars == {"a", " ", "+", "%", "2", "B"}
Keys == UNION {[1..n -> Chars] : n \in 1..3}

Happened(name, created, key, size) == [name |-> name, created |-> created, key |-> key, size |-> size]

Put(key) == Happened(<<"ObjectCreated:Put">>, TRUE, key, <<7>>)
Copied(key) == Happened(<<"s3:ObjectCreated:Copy">>, TRUE, key, <<>>)
Unnamed(key) == Happened(<<>>, TRUE, key, <<7>>)
Removed(key) == Happened(<<"ObjectRemoved:Delete">>, FALSE, key, <<>>)

Text(event, records, type, message) ==
    [json |-> TRUE, event |-> event, records |-> records, type |-> type, message |-> message]

NotJson == [Text("", <<>>, <<>>, <<>>) EXCEPT !.json = FALSE]

(* S3's notification of a truth.                                           *)
Raw(ev) == [name |-> ev.name, key |-> Encode(ev.key), size |-> ev.size, whole |-> TRUE]
Notification(truth) == Text("", <<[i \in DOMAIN truth |-> Raw(truth[i])]>>, <<>>, <<>>)

Record(text, truth, damaged) == [text |-> text, truth |-> truth, damaged |-> damaged]

Intact(truth) == Record(Notification(truth), truth, FALSE)

TestEvent == Record(Text("s3:TestEvent", <<>>, <<>>, <<>>), <<>>, FALSE)

K1 == <<"a", "+">>
K2 == <<"%", "2", "B">>

Short == {<<>>, <<Put(K1)>>, <<Copied(K2)>>, <<Unnamed(K1)>>, <<Removed(K1)>>,
          <<Removed(K2), Put(K2)>>, <<Put(K1), Copied(K2)>>}

(* A record without its s3 part next to a good one, a key that is not     *)
(* UTF-8, a document that is someone else's.                               *)
Damaged ==
    {Record(Text("", <<<<Raw(Put(K1)), [Raw(Put(K1)) EXCEPT !.whole = FALSE]>>>>, <<>>, <<>>), <<Put(K1)>>, TRUE),
     Record(Text("", <<<<[Raw(Put(K1)) EXCEPT !.key = <<"%", "F", "F">>]>>>>, <<>>, <<>>), <<>>, TRUE),
     Record(Text("", <<>>, <<>>, <<>>), <<>>, TRUE),
     Record(NotJson, <<Put(K1)>>, TRUE)}

Notices == {Intact(t) : t \in Short} \cup Damaged \cup {TestEvent}

Enveloped(r) == [r EXCEPT !.text = Text("", <<>>, <<"Notification">>, <<r.text>>)]
Confirmation ==
    Record(Text("", <<>>, <<"SubscriptionConfirmation">>, <<NotJson>>), <<>>, TRUE)

Bodies == Notices \cup {Enveloped(r) : r \in Notices} \cup {Confirmation}

Payload(binary, format, outer, records) ==
    [binary |-> binary, format |-> format, outer |-> outer, records |-> records]

WithId(r, id) == [text |-> r.text, truth |-> r.truth, damaged |-> r.damaged, id |-> id]

Bridged(type, version, whole, ev) ==
    [detailType |-> type, version |-> version, whole |-> whole, key |-> ev.key,
     size |-> ev.size, truth |-> <<ev>>, damaged |-> ~whole]

MCPayloads ==
    {Payload("s3", "none", TRUE, <<Intact(<<Put(k)>>)>>) : k \in Keys}
    \cup {Payload("s3", "none", TRUE, <<r>>) : r \in Notices}
    \cup {Payload("sns", "none", TRUE, <<r, s>>) : r, s \in Notices}
    \cup {Payload("sqs", f, TRUE, <<WithId(r, "m1"), WithId(s, "m2")>>) :
            f \in {"auto", "s3", "sns"}, r, s \in Bodies}
    \cup {Payload("eventbridge", "none", TRUE, <<Bridged(t, v, w, Put(k))>>) :
            t \in {"Object Created"}, v \in {"1", "1.0", "2.0", "0", "x", ""},
            w \in BOOLEAN, k \in {<<c, d>> : c, d \in Chars}}
    \cup {Payload("eventbridge", "none", TRUE, <<Bridged("Object Deleted", "1", w, Removed(K1))>>) :
            w \in BOOLEAN}
    \cup {Payload(b, "auto", FALSE, <<>>) : b \in {"s3", "sns", "sqs", "eventbridge"}}
=============================================================================
