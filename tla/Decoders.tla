------------------------------ MODULE Decoders ------------------------------
(***************************************************************************)
(* The four event decoders: an S3 notification sent to the Lambda itself, *)
(* one wrapped by SNS, one (or its SNS envelope) in the body of an SQS     *)
(* message, and an EventBridge event.                                      *)
(*                                                                         *)
(* A payload carries what really happened in the bucket: `truth`, events  *)
(* with the key as it is stored. S3 writes the key form-urlencoded into a *)
(* notification, EventBridge writes it verbatim. A key is a sequence of   *)
(* characters; a JSON text is the record of the fields a decoder looks at, *)
(* an absent one being <<>>.                                               *)
(***************************************************************************)
EXTENDS Integers, Sequences, SequencesExt

CONSTANT Payloads \* The [binary, format, outer, records] of an invocation.

VARIABLES
    payload,  \* What the Lambda was invoked with.
    at,       \* How many records of it are decoded.
    items,    \* The SourceItems decoded so far.
    result    \* "decoding", "ok" or "err".

vars == <<payload, at, items, result>>

-----------------------------------------------------------------------------
(* External: what %XX stands for. "bad" is a byte that is no UTF-8.        *)

HexByte(h, l) ==
    CASE h = "2" /\ l = "B" -> "+"
      [] h = "2" /\ l = "5" -> "%"
      [] h = "2" /\ l = "0" -> " "
      [] OTHER -> "bad"

Hex == {"2", "5", "0", "B", "F"}

(* percent_decode_str: a % without two hex digits stands for itself.       *)
RECURSIVE PercentDecode(_)
PercentDecode(t) ==
    IF t = <<>> THEN <<>>
    ELSE IF t[1] = "%" /\ Len(t) >= 3 /\ t[2] \in Hex /\ t[3] \in Hex
         THEN <<HexByte(t[2], t[3])>> \o PercentDecode(SubSeq(t, 4, Len(t)))
         ELSE <<t[1]>> \o PercentDecode(Tail(t))

PlusToSpace(t) == [i \in DOMAIN t |-> IF t[i] = "+" THEN " " ELSE t[i]]

(* decode_form_urlencoded_key. Mutant: the two steps the other way round. *)
DecodePercentFirst(t) == PlusToSpace(PercentDecode(t))

DecodeFormUrlencodedKey(t) == PercentDecode(PlusToSpace(t))

Utf8(key) == \A i \in DOMAIN key : key[i] # "bad"

-----------------------------------------------------------------------------
(* parse_s3_notification: [ok, objects, skipped].                          *)

Failed == [ok |-> FALSE, objects |-> <<>>, skipped |-> FALSE]

(* The event names of the S3 documentation, with and without "s3:".        *)
Creations == {"ObjectCreated:Put", "s3:ObjectCreated:Copy"}

(* is_object_created: an absent name keeps the record.                     *)
IsObjectCreated(r) == r.name = <<>> \/ r.name[1] \in Creations

ObjectRef(r) == [key |-> DecodeFormUrlencodedKey(r.key), size |-> r.size]

ParseS3Notification(t) ==
    IF ~t.json THEN Failed
    ELSE IF t.event = "s3:TestEvent" THEN [Failed EXCEPT !.ok = TRUE]
    ELSE IF t.records = <<>> \/ \E i \in DOMAIN t.records[1] : ~t.records[1][i].whole THEN Failed
    ELSE LET created == SelectSeq(t.records[1], IsObjectCreated)
             refs == [i \in DOMAIN created |-> ObjectRef(created[i])]
         IN IF \E i \in DOMAIN refs : ~Utf8(refs[i].key) THEN Failed
            ELSE [ok |-> TRUE, objects |-> refs, skipped |-> Len(created) < Len(t.records[1])]

-----------------------------------------------------------------------------
(* The SQS body.                                                           *)

LooksLikeSnsNotification(t) == t.json /\ t.type = <<"Notification">>

(* unwrap_sns, then parse_s3_notification.                                 *)
ParseUnwrapped(t) ==
    IF t.json /\ t.message # <<>> THEN ParseS3Notification(t.message[1]) ELSE Failed

(* decode_body.                                                            *)
DecodeBody(t, format) ==
    IF format = "s3" /\ LooksLikeSnsNotification(t) THEN Failed
    ELSE IF format = "sns" \/ LooksLikeSnsNotification(t) THEN ParseUnwrapped(t)
    ELSE ParseS3Notification(t)

-----------------------------------------------------------------------------
(* The SourceItems. of: the record it was made of.                         *)

Item(of, ack, objects, error) ==
    [of |-> of, ack |-> ack, objects |-> objects, error |-> error]

Undecodable(of, ack) == Item(of, ack, <<>>, TRUE)

(* as_source_item: no item for no objects.                                 *)
AsSourceItem(of, objects) == IF objects = <<>> THEN <<>> ELSE <<Item(of, <<>>, objects, FALSE)>>

Init ==
    /\ payload \in Payloads
    /\ at = 0
    /\ items = <<>>
    /\ result = "decoding"

Ends(r) == result' = r /\ UNCHANGED <<payload, at, items>>

(* The outer document is not JSON or has no Records.                       *)
OuterFails ==
    /\ result = "decoding"
    /\ ~payload.outer
    /\ Ends("err")

Reads(binary) ==
    /\ result = "decoding"
    /\ payload.outer
    /\ payload.binary = binary
    /\ at < Len(payload.records)

Decoded(new) ==
    /\ at' = at + 1
    /\ items' = items \o new
    /\ UNCHANGED <<payload, result>>

(* A failure anywhere is the failure of the whole payload, S3 and SNS.     *)
Propagate(parsed) ==
    IF parsed.ok THEN Decoded(AsSourceItem(at + 1, parsed.objects)) ELSE Ends("err")

(* S3EventDecoder::decode: the payload is the one notification.            *)
DecodeS3 ==
    /\ Reads("s3")
    /\ Propagate(ParseS3Notification(payload.records[at + 1].text))

(* SnsEventDecoder::decode: Records[].Sns.Message.                         *)
DecodeSns ==
    /\ Reads("sns")
    /\ Propagate(ParseS3Notification(payload.records[at + 1].text))

(* One message of SqsEventDecoder::decode: an undecodable one becomes an  *)
(* item of its own, an all-delete one none.                               *)
SqsItems(parsed, id) ==
    IF ~parsed.ok THEN <<Undecodable(at + 1, <<id>>)>>
    ELSE IF parsed.objects = <<>> /\ parsed.skipped THEN <<>>
    ELSE <<Item(at + 1, <<id>>, parsed.objects, FALSE)>>

DecodeSqs ==
    /\ Reads("sqs")
    /\ LET m == payload.records[at + 1] IN
       Decoded(SqsItems(DecodeBody(m.text, payload.format), m.id))

(* event_version_major: the number before the first dot, if it is one.    *)
EventVersionMajor ==
    [v \in {"1", "1.0", "2.0", "0", "x", ""} |->
        CASE v \in {"1", "1.0"} -> <<1>> [] v = "2.0" -> <<2>> [] v = "0" -> <<0>> [] OTHER -> <<>>]

(* EventBridgeDecoder::decode: `detail` is deserialized before the type is *)
(* looked at, and the key is taken as it stands.                           *)
DecodeEventBridge ==
    /\ Reads("eventbridge")
    /\ LET e == payload.records[at + 1] IN
       IF ~e.whole THEN Ends("err")
       ELSE IF e.detailType # "Object Created" THEN Decoded(<<>>)
       ELSE IF EventVersionMajor[e.version] # <<1>> THEN Ends("err")
       ELSE Decoded(<<Item(at + 1, <<>>, <<[key |-> e.key, size |-> e.size]>>, FALSE)>>)

Finish ==
    /\ result = "decoding"
    /\ payload.outer
    /\ at = Len(payload.records)
    /\ Ends("ok")

Next ==
    \/ OuterFails \/ DecodeS3 \/ DecodeSns \/ DecodeSqs \/ DecodeEventBridge
    \/ Finish

Spec == Init /\ [][Next]_vars

-----------------------------------------------------------------------------
(* Properties.                                                             *)

(* What a record reports as created, keys as the bucket stores them.       *)
Created(truth) ==
    LET made == SelectSeq(truth, LAMBDA ev : ev.created) IN
    [i \in DOMAIN made |-> [key |-> made[i].key, size |-> made[i].size]]

ItemsOf(i) == SelectSeq(items, LAMBDA it : it.of = i)

Good(i) == ItemsOf(i) # <<>> /\ ~ItemsOf(i)[1].error

(* Whatever the transport, an item that decodes names exactly the objects *)
(* its event created, under the keys the bucket stores them by and in     *)
(* order: neither S3's encoding nor EventBridge's lack of one shows.       *)
KeysAsStored ==
    \A i \in 1..at : Good(i) => ItemsOf(i)[1].objects = Created(payload.records[i].truth)

(* No decoder loses an event in silence: once a payload has decoded, each *)
(* record of it that created an object has an item, with the objects or,  *)
(* on SQS, with the failure that keeps its message in the queue.           *)
NoEventVanishes ==
    result = "ok" =>
        \A i \in 1..Len(payload.records) :
            LET r == payload.records[i] IN
            Created(r.truth) # <<>> \/ r.damaged =>
                ItemsOf(i) # <<>> /\ (r.damaged => ItemsOf(i)[1].error)

(* SqsEventDecoder: one bad body neither sinks the batch nor costs another *)
(* message its objects; every item carries the id of its own message, so  *)
(* that the message reported as failed is the one that failed.            *)
MessagesIsolated ==
    payload.binary = "sqs" =>
        /\ payload.outer => result # "err"
        /\ \A i \in 1..at :
              LET r == payload.records[i] IN
              /\ ItemsOf(i) # <<>> => ItemsOf(i)[1].ack = <<r.id>>
              /\ ~r.damaged /\ payload.format = "auto" /\ Created(r.truth) # <<>> => Good(i)

(* docs/configuration.md: a body that does not match the declared         *)
(* sqs.body_format fails its message rather than acking with no objects;  *)
(* one that does match decodes as it does under auto.                      *)
FormatsAgree ==
    \A i \in 1..at :
        LET t == payload.records[i].text
            sniffed == DecodeBody(t, "auto")
        IN payload.binary = "sqs" =>
            /\ DecodeBody(t, "s3").ok => DecodeBody(t, "s3") = sniffed
            /\ DecodeBody(t, "sns").ok => DecodeBody(t, "sns") = sniffed
            /\ sniffed.ok => DecodeBody(t, "s3").ok # DecodeBody(t, "sns").ok

(* The four decoders: the objects of an event under the keys the bucket    *)
(* stores, none lost in silence, a bad SQS message on its own, and         *)
(* sqs.body_format no more than a declaration.                             *)
EventsDecoded == KeysAsStored /\ NoEventVanishes /\ MessagesIsolated /\ FormatsAgree
=============================================================================
