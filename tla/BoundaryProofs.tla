--------------------------- MODULE BoundaryProofs ---------------------------
(***************************************************************************)
(* What a container takes in and what it gives out, for all of it: the     *)
(* settings it starts from, whatever the document and the environment say  *)
(* (SettingsDocument), and the bodies that buffer mode compresses in       *)
(* parallel, whatever their length (GzipMembers).                          *)
(*                                                                         *)
(* Both rest on what a recursive function computes.  The prover has no     *)
(* induction over data, but a recursive function is the only solution of   *)
(* its equation, since two solutions would differ at a least position; so  *)
(* its values follow from a closed form that satisfies the equation        *)
(* (FlattenUnique, AppliedUnique).                                         *)
(***************************************************************************)
EXTENDS SettingsDocument, GzipMembers, SequenceTheorems, WellFoundedInduction, TLAPS

-----------------------------------------------------------------------------
(* Lemmas about numbers and sequences.                                     *)

LEMMA QuotientFacts ==
    ASSUME NEW a \in Nat, NEW s \in Nat \ {0}
    PROVE  /\ a \div s \in Nat
           /\ (a \div s) * s <= a
           /\ a < (a \div s) * s + s
OBVIOUS

LEMMA LeastMember ==
    ASSUME NEW T \in SUBSET Nat, T # {}
    PROVE  \E x \in T : \A y \in T : x <= y
<1> DEFINE R == {ss \in Nat \X Nat : ss[1] < ss[2]}
<1>1. IsWellFoundedOn(R, Nat)
  BY NatLessThanWellFounded DEF OpToRel
<1>2. PICK x \in T : \A y \in T : ~ (<<y, x>> \in R)
  BY <1>1, WFMin
<1>3. ASSUME NEW y \in T PROVE x <= y
  <2>1. x \in Nat /\ y \in Nat
    OBVIOUS
  <2>2. <<y, x>> \in Nat \X Nat /\ <<y, x>>[1] = y /\ <<y, x>>[2] = x
    BY <2>1
  <2>3. ~ (y < x)
    BY <1>2, <2>2
  <2> QED BY <2>1, <2>3
<1> QED BY <1>3

(* FlattenSeq is the value at the end of any function that satisfies its   *)
(* equation.                                                               *)
LEMMA FlattenUnique ==
    ASSUME NEW seqs, NEW n \in Nat \ {0}, Len(seqs) = n,
           NEW g,
           \A i \in 1..n : g[i] = IF i = 1 THEN seqs[i] ELSE g[i - 1] \o seqs[i]
    PROVE  FlattenSeq(seqs) = g[n]
<1> DEFINE Solves(f) == f = [i \in 1..n |-> IF i = 1 THEN seqs[i]
                                           ELSE f[i - 1] \o seqs[i]]
           flat == CHOOSE f : Solves(f)
           Differ == {i \in 1..n : flat[i] # g[i]}
<1>1. Solves(flat)
  <2>1. Solves([i \in 1..n |-> g[i]])
    OBVIOUS
  <2> QED BY <2>1, Zenon
<1>2. FlattenSeq(seqs) = flat[n]
  BY Zenon DEF FlattenSeq
<1> HIDE DEF flat
<1>3. Differ = {}
  <2> SUFFICES ASSUME Differ # {} PROVE FALSE
    OBVIOUS
  <2>1. Differ \in SUBSET Nat
    OBVIOUS
  <2>2. PICK x \in Differ : \A y \in Differ : x <= y
    BY <2>1, LeastMember
  <2>3. x \in 1..n /\ flat[x] # g[x]
    OBVIOUS
  <2>4. x # 1
    BY <1>1, <2>3
  <2>5. x - 1 \in 1..n /\ ~ (x <= x - 1)
    BY <2>3, <2>4
  <2>6. flat[x - 1] = g[x - 1]
    BY <2>2, <2>5
  <2>7. flat[x] = flat[x - 1] \o seqs[x] /\ g[x] = g[x - 1] \o seqs[x]
    BY <1>1, <2>3, <2>4
  <2> QED BY <2>3, <2>6, <2>7
<1>4. n \in 1..n
  OBVIOUS
<1> QED BY <1>2, <1>3, <1>4

-----------------------------------------------------------------------------
(* The parts of a body.                                                    *)

(* Ceiling division covers, and its last multiple is needed.               *)
LEMMA CeilDivFacts ==
    ASSUME NEW a \in Nat, NEW s \in Nat \ {0}
    PROVE  /\ CeilDiv(a, s) \in Nat
           /\ a <= CeilDiv(a, s) * s
           /\ CeilDiv(a, s) * s < a + s
<1>1. a + s - 1 \in Nat
  OBVIOUS
<1>2. PICK q \in Nat : q = (a + s - 1) \div s
  BY <1>1, QuotientFacts
<1>3. q * s <= a + s - 1 /\ a + s - 1 < q * s + s
  BY <1>1, <1>2, QuotientFacts
<1>4. q * s \in Nat
  OBVIOUS
<1>5. a <= q * s /\ q * s < a + s
  BY <1>3, <1>4
<1> QED BY <1>2, <1>5 DEF CeilDiv

(* The parts of a body, joined, are the body.                              *)
LEMMA PartsJoin ==
    ASSUME NEW S, NEW b \in Seq(S), NEW n \in Nat \ {0}
    PROVE  /\ Parts(b, n) \in Seq(Seq(S)) /\ Len(Parts(b, n)) \in Nat \ {0}
           /\ FlattenSeq(Parts(b, n)) = b
<1>1. PICK len \in Nat : len = Len(b)
  BY LenProperties
<1>2. PICK size \in Nat \ {0} : size = Clamp(1, CeilDiv(len, n))
  <2>1. PICK q \in Nat : q = CeilDiv(len, n)
    BY CeilDivFacts
  <2> QED BY <2>1 DEF Clamp
<1>3. PICK c \in Nat : c = CeilDiv(len, size)
  BY CeilDivFacts
<1>4. len <= c * size /\ c * size < len + size
  BY <1>3, CeilDivFacts
<1>5. PICK count \in Nat \ {0} : count = Clamp(1, c)
  BY DEF Clamp
<1>6. len <= count * size /\ (count = 1 \/ (count - 1) * size <= len)
  <2>1. CASE c = 0
    <3>1. count = 1 /\ c * size = 0
      BY <1>5, <2>1 DEF Clamp
    <3> QED BY <1>4, <3>1
  <2>2. CASE c # 0
    <3>1. count = c
      BY <1>5, <2>2 DEF Clamp
    <3>2. (c - 1) * size = c * size - size /\ c * size \in Nat
      OBVIOUS
    <3>3. (c - 1) * size <= len
      BY <1>4, <3>2
    <3> QED BY <1>4, <3>1, <3>3
  <2> QED BY <2>1, <2>2
<1> DEFINE end(i) == Lesser(i * size, len)
           p == [i \in 1..count |-> SubSeq(b, (i - 1) * size + 1, end(i))]
           g == [i \in 1..count |-> SubSeq(b, 1, end(i))]
<1>7. Parts(b, n) = p
  BY <1>1, <1>2, <1>3, <1>5, Zenon DEF Parts
<1>8. ASSUME NEW i \in 1..count
      PROVE  /\ (i - 1) * size \in 0..len /\ end(i) \in (i - 1) * size .. len
             /\ i # 1 => end(i - 1) = (i - 1) * size
  <2>1. (i - 1) * size \in Nat /\ i * size \in Nat /\ i * size = (i - 1) * size + size
    OBVIOUS
  <2>2. (i - 1) * size <= len
    <3>1. CASE i = 1
      BY <3>1
    <3>2. CASE i # 1
      <4>1. (i - 1) * size <= (count - 1) * size
        <5>1. i - 1 \in Nat /\ count - 1 \in Nat /\ i - 1 <= count - 1
          OBVIOUS
        <5> QED BY <5>1
      <4>2. count # 1 /\ (count - 1) * size \in Nat
        BY <3>2
      <4> QED BY <1>6, <2>1, <4>1, <4>2
    <3> QED BY <3>1, <3>2
  <2> QED BY <2>1, <2>2 DEF Lesser
<1>9. ASSUME NEW i \in 1..count
      PROVE  p[i] \in Seq(S) /\ g[i] = IF i = 1 THEN p[i] ELSE g[i - 1] \o p[i]
  <2>1. PICK j \in 0..len : j = (i - 1) * size
    BY <1>8
  <2>2. PICK k \in j..len : k = end(i)
    BY <1>8, <2>1
  <2>3. p[i] = SubSeq(b, j + 1, k) /\ g[i] = SubSeq(b, 1, k)
    BY <2>1, <2>2
  <2>4. p[i] \in Seq(S)
    <3>1. \A x \in (j + 1)..k : b[x] \in S
      BY <1>1, ElementOfSeq
    <3>2. SubSeq(b, j + 1, k) \in Seq(S)
      BY <3>1, SubSeqProperties
    <3> QED BY <2>3, <3>2
  <2>5. CASE i = 1
    BY <2>1, <2>3, <2>4, <2>5
  <2>6. CASE i # 1
    <3>1. i - 1 \in 1..count
      BY <2>6
    <3>2. g[i - 1] = SubSeq(b, 1, j)
      BY <1>8, <2>1, <2>6, <3>1
    <3>3. SubSeq(b, 1, j) \o SubSeq(b, j + 1, k) = SubSeq(b, 1, k)
      <4>1. 1 \in 1..(Len(b) + 1) /\ j \in (1 - 1)..Len(b) /\ k \in j..Len(b)
        BY <1>1
      <4> QED BY <4>1, ConcatAdjacentSubSeq
    <3> QED BY <2>3, <2>4, <2>6, <3>2, <3>3
  <2> QED BY <2>5, <2>6
<1>10. p \in Seq(Seq(S)) /\ Len(p) = count
  <2>1. p \in [1..count -> Seq(S)]
    BY <1>9
  <2> HIDE DEF p
  <2>2. p \in Seq(Seq(S))
    BY <2>1, SeqDef
  <2>3. Len(p) = count
    BY <2>1, <2>2, LenProperties
  <2> QED BY <2>2, <2>3
<1>11. \A i \in 1..count : g[i] = IF i = 1 THEN p[i] ELSE g[i - 1] \o p[i]
  BY <1>9
<1>12. g[count] = b
  <2>1. end(count) = len
    <3>1. count * size \in Nat
      OBVIOUS
    <3> QED BY <1>6, <3>1 DEF Lesser
  <2>2. g[count] = SubSeq(b, 1, len)
    BY <2>1
  <2> QED BY <1>1, <2>2, SubSeqFull
<1>13. FlattenSeq(p) = g[count]
  <2> HIDE DEF p, g
  <2> QED BY <1>10, <1>11, FlattenUnique
<1> QED BY <1>7, <1>10, <1>12, <1>13

-----------------------------------------------------------------------------
(***************************************************************************)
(* The inductive invariant: the parts are those of the body, and those     *)
(* joined are the first of them, each whole.                               *)
(***************************************************************************)
TypeInv ==
    /\ body \in {[i \in 1..n |-> i] : n \in 0..MaxLen}
    /\ chunks \in 1..MaxChunks
    /\ members \in [1..Len(Split) -> {"working", "ok", "failed"}]
    /\ joined \in 0..Len(Split)
    /\ result \in {"compressing", "written", "err"}

MembersInv ==
    /\ out = SubSeq(Split, 1, joined)
    /\ result = "compressing" => joined < Len(Split)
    /\ result = "written" => joined = Len(Split)

GzipInv == TypeInv /\ MembersInv

LEMMA SplitFacts ==
    ASSUME body \in {[i \in 1..n |-> i] : n \in 0..MaxLen}, chunks \in 1..MaxChunks
    PROVE  /\ body \in Seq(Nat) /\ Len(body) \in 0..MaxLen
           /\ Split \in Seq(Seq(Nat)) /\ Len(Split) \in Nat \ {0}
           /\ FlattenSeq(Split) = body
<1>1. PICK n \in 0..MaxLen : body = [i \in 1..n |-> i]
  OBVIOUS
<1>2. n \in Nat /\ body \in [1..n -> Nat]
  BY <1>1, GzipAssumption
<1>3. body \in Seq(Nat)
  BY <1>2, SeqDef
<1>4. Len(body) = n
  BY <1>2, <1>3, LenProperties
<1>5. Members(body, chunks) \in Nat \ {0}
  <2>1. PICK q \in Nat : q = Len(body) \div MinChunk
    BY <1>2, <1>4, GzipAssumption, QuotientFacts
  <2>2. chunks \in Nat
    BY GzipAssumption
  <2>3. PICK l \in Nat : l = Lesser(chunks, q)
    BY <2>1, <2>2 DEF Lesser
  <2> QED BY <2>1, <2>3 DEF Members, Clamp
<1> QED BY <1>3, <1>4, <1>5, PartsJoin DEF Split

LEMMA GzipInvInit ==
    ASSUME GzipInit
    PROVE  GzipInv
<1>1. body \in {[i \in 1..n |-> i] : n \in 0..MaxLen} /\ chunks \in 1..MaxChunks
  BY DEF GzipInit
<1>2. Split \in Seq(Seq(Nat)) /\ Len(Split) \in Nat \ {0}
  BY <1>1, SplitFacts
<1>3. TypeInv
  BY <1>1, <1>2 DEF GzipInit, TypeInv
<1>4. SubSeq(Split, 1, 0) = <<>>
  BY SubSeqEmpty
<1>5. MembersInv
  BY <1>2, <1>4 DEF GzipInit, MembersInv
<1> QED BY <1>3, <1>5 DEF GzipInv

LEMMA SplitStays ==
    ASSUME UNCHANGED <<body, chunks>>
    PROVE  Split' = Split
BY DEF Split, Parts, Members

LEMMA GzipInvStep ==
    ASSUME GzipInv, [GzipNext]_gzipVars
    PROVE  GzipInv'
<1>1. UNCHANGED <<body, chunks>>
  BY DEF GzipNext, Compress, Join, gzipVars
<1>2. PICK s : s = Split
  OBVIOUS
<1>3. Split = s /\ Split' = s
  BY <1>1, <1>2, SplitStays
<1>4. s \in Seq(Seq(Nat)) /\ Len(s) \in Nat \ {0}
  BY <1>2, SplitFacts DEF GzipInv, TypeInv
<1>5. /\ members \in [1..Len(s) -> {"working", "ok", "failed"}]
      /\ joined \in 0..Len(s)
      /\ result \in {"compressing", "written", "err"}
      /\ out = SubSeq(s, 1, joined)
      /\ result = "compressing" => joined < Len(s)
      /\ result = "written" => joined = Len(s)
  BY <1>3 DEF GzipInv, TypeInv, MembersInv
<1> SUFFICES /\ members' \in [1..Len(s) -> {"working", "ok", "failed"}]
             /\ joined' \in 0..Len(s)
             /\ result' \in {"compressing", "written", "err"}
             /\ out' = SubSeq(s, 1, joined')
             /\ result' = "compressing" => joined' < Len(s)
             /\ result' = "written" => joined' = Len(s)
  <2>1. body' \in {[i \in 1..n |-> i] : n \in 0..MaxLen} /\ chunks' \in 1..MaxChunks
    BY <1>1 DEF GzipInv, TypeInv
  <2> QED BY <1>3, <2>1 DEF GzipInv, TypeInv, MembersInv
<1>6. ASSUME NEW i \in DOMAIN members, Compress(i)
      PROVE  members' \in [1..Len(s) -> {"working", "ok", "failed"}]
  BY <1>5, <1>6 DEF Compress
<1>7. ASSUME NEW i \in DOMAIN members, Join(i)
      PROVE  /\ members' = members
             /\ joined' \in 0..Len(s)
             /\ result' \in {"compressing", "written", "err"}
             /\ out' = SubSeq(s, 1, joined')
             /\ result' = "compressing" => joined' < Len(s)
             /\ result' = "written" => joined' = Len(s)
  <2>1. members' = members /\ i = joined + 1 /\ result = "compressing" /\ i \in 1..Len(s)
    BY <1>5, <1>7 DEF Join
  <2>2. Len(members) = Len(s)
    BY <1>4, <1>5, LenProperties, SeqDef
  <2>3. CASE members[i] = "ok"
    <3>1. /\ joined' = i /\ out' = Append(out, s[i])
          /\ result' = IF i = Len(s) THEN "written" ELSE "compressing"
      BY <1>3, <1>7, <2>1, <2>2, <2>3 DEF Join, Collect
    <3>2. SubSeq(s, 1, i) = Append(SubSeq(s, 1, joined), s[i])
      <4>1. SubSeq(s, 1, i) = SubSeq(s, 1, i - 1) \o <<s[i]>>
        <5>1. 1 \in 1..Len(s) /\ i \in 1..Len(s)
          BY <1>4, <2>1
        <5> QED BY <1>4, <5>1, SubSeqRecursiveSecond
      <4>2. SubSeq(s, 1, joined) \in Seq(Seq(Nat)) /\ s[i] \in Seq(Nat)
        <5>1. \A x \in 1..Len(s) : s[x] \in Seq(Nat)
          BY <1>4, ElementOfSeq
        <5>2. \A x \in 1..joined : s[x] \in Seq(Nat)
          BY <1>5, <5>1
        <5> QED BY <1>5, <2>1, <5>1, <5>2, SubSeqProperties
      <4>3. Append(SubSeq(s, 1, joined), s[i]) = SubSeq(s, 1, joined) \o <<s[i]>>
        BY <4>2, AppendIsConcat
      <4>4. i - 1 = joined
        BY <1>5, <2>1
      <4> QED BY <4>1, <4>3, <4>4
    <3> QED BY <1>4, <1>5, <2>1, <3>1, <3>2
  <2>4. CASE members[i] = "failed"
    <3>1. result' = "err" /\ joined' = joined /\ out' = out
      BY <1>7, <2>4 DEF Join, Collect
    <3> QED BY <1>5, <2>1, <3>1
  <2> QED BY <1>7, <2>3, <2>4 DEF Join, Collect
<1>8. CASE UNCHANGED gzipVars
  BY <1>5, <1>8 DEF gzipVars
<1>9. CASE GzipNext
  <2>1. PICK i \in DOMAIN members : Compress(i) \/ Join(i)
    BY <1>9 DEF GzipNext
  <2>2. CASE Compress(i)
    BY <1>5, <1>6, <2>2 DEF Compress
  <2>3. CASE Join(i)
    BY <1>5, <1>7, <2>3
  <2> QED BY <2>1, <2>2, <2>3
<1> QED BY <1>8, <1>9

LEMMA GzipInvSuffices ==
    ASSUME GzipInv
    PROVE  BodiesWhole
<1> SUFFICES ASSUME result = "written"
             PROVE  DecompressesToBody /\ CapsNeverTruncate
  BY DEF BodiesWhole, DecompressesToBody, CapsNeverTruncate
<1>1. /\ body \in Seq(Nat) /\ Len(body) \in 0..MaxLen
      /\ Split \in Seq(Seq(Nat)) /\ FlattenSeq(Split) = body
  BY SplitFacts DEF GzipInv, TypeInv
<1>2. out = Split
  BY <1>1, SubSeqFull DEF GzipInv, MembersInv
<1>3. FlattenSeq(out) = body
  BY <1>1, <1>2
<1>4. ASSUME NEW cap \in Caps
      PROVE  /\ Len(Decompressed(out, cap)) <= cap => Decompressed(out, cap) = body
             /\ cap = Word - 1 => Len(Decompressed(out, cap)) <= cap
  <2>1. cap \in 0..(Word - 1) /\ Word \in Nat /\ MaxLen < Word /\ MaxLen \in Nat
    BY GzipAssumption
  <2>2. PICK len \in 0..MaxLen : len = Len(body)
    BY <1>1
  <2>3. PICK k \in 0..len : k = Lesser(len, SaturatingSucc(cap))
    BY <2>1 DEF Lesser, SaturatingSucc
  <2>4. Decompressed(out, cap) = SubSeq(body, 1, k)
    BY <1>3, <2>2, <2>3, Zenon DEF Decompressed
  <2>5. Len(SubSeq(body, 1, k)) = k
    <3>1. \A x \in 1..k : body[x] \in Nat
      BY <1>1, <2>2, ElementOfSeq
    <3> QED BY <3>1, SubSeqProperties
  <2>6. k <= cap => k = len
    BY <2>1, <2>3 DEF Lesser, SaturatingSucc
  <2>7. cap = Word - 1 => k <= cap
    BY <2>1, <2>3 DEF Lesser, SaturatingSucc
  <2>8. SubSeq(body, 1, len) = body
    BY <1>1, <2>2, SubSeqFull
  <2> QED BY <2>4, <2>5, <2>6, <2>7, <2>8
<1> QED BY <1>3, <1>4 DEF DecompressesToBody, CapsNeverTruncate

(* For bodies of every length, in any number of members compressed in any  *)
(* order: what gzip_compress_chunked writes decompresses to the body, and  *)
(* the caps of fetch_with_missing_policy and decompress_capped, up to the  *)
(* largest u64, let it through whole or refuse it.                         *)
THEOREM BodiesComeBackWhole == GzipSpec => []BodiesWhole
<1>1. GzipInit => GzipInv
  BY GzipInvInit
<1>2. GzipInv /\ [GzipNext]_gzipVars => GzipInv'
  BY GzipInvStep
<1>3. GzipInv => BodiesWhole
  BY GzipInvSuffices
<1> QED BY <1>1, <1>2, <1>3, PTL DEF GzipSpec
-----------------------------------------------------------------------------
(***************************************************************************)
(* Settings: the 24 overrides, each of a field of its own.                 *)
(***************************************************************************)
LEMMA OverridesCount == Len(Overrides) = 24
BY DEF Overrides

LEMMA OverridesOnce ==
    \A i, k \in 1..24 : Overrides[i][2] = Overrides[k][2] => i = k
BY DEF Overrides

LEMMA OverridesAreFields == \A i \in 1..24 : Overrides[i][2] \in Fields
BY DEF Overrides, Schema, Fields

LEMMA FieldsHaveOverride == \A f \in Fields : \E i \in 1..24 : Overrides[i][2] = f
BY DEF Overrides, Schema, Fields

(* What environment e says at the kth override, and the override of f.     *)
Said(e, k) == EnvLookup(e, Overrides[k][1])
Place(f) == CHOOSE k \in 1..24 : Overrides[k][2] = f

LEMMA PlaceFacts ==
    ASSUME NEW f \in Fields
    PROVE  /\ Place(f) \in 1..24
           /\ \A k \in 1..24 : Overrides[k][2] = f <=> k = Place(f)
<1>1. \E k \in 1..24 : Overrides[k][2] = f
  BY FieldsHaveOverride
<1>2. Place(f) \in 1..24 /\ Overrides[Place(f)][2] = f
  BY <1>1, Zenon DEF Place
<1> QED BY <1>2, OverridesOnce

(* The document after i overrides, field by field.                         *)
After(v, e, i) ==
    [f \in Fields |-> IF Place(f) <= i /\ Said(e, Place(f)) # "notUnicode"
                      THEN Said(e, Place(f)) ELSE v[f]]

(* apply_env computes what any solution of its equation has at the end.    *)
LEMMA AppliedUnique ==
    ASSUME NEW v, NEW e, NEW g,
           g[0] = v,
           \A i \in 1..24 :
               g[i] = IF Said(e, i) = "notUnicode" THEN g[i - 1]
                      ELSE Apply(g[i - 1], Overrides[i], Said(e, i))
    PROVE  ApplyEnv(v, e) = g[24]
<1> DEFINE Solves(h) ==
               h = [i \in 0..24 |->
                      IF i = 0 THEN v
                      ELSE IF Said(e, i) = "notUnicode" THEN h[i - 1]
                      ELSE Apply(h[i - 1], Overrides[i], Said(e, i))]
           applied == CHOOSE h : Solves(h)
           Differ == {i \in 0..24 : applied[i] # g[i]}
<1>1. Solves(applied)
  <2>1. Solves([i \in 0..24 |-> g[i]])
    <3>1. \A i \in 0..24 : i # 0 => i \in 1..24 /\ i - 1 \in 0..24
      OBVIOUS
    <3> QED BY <3>1
  <2> QED BY <2>1, Zenon
<1>2. ApplyEnv(v, e) = applied[24]
  BY OverridesCount, Zenon DEF ApplyEnv, Said
<1> HIDE DEF applied
<1>3. Differ = {}
  <2> SUFFICES ASSUME Differ # {} PROVE FALSE
    OBVIOUS
  <2>1. Differ \in SUBSET Nat
    OBVIOUS
  <2>2. PICK x \in Differ : \A y \in Differ : x <= y
    BY <2>1, LeastMember
  <2>3. x \in 0..24 /\ applied[x] # g[x]
    OBVIOUS
  <2>4. x # 0
    BY <1>1, <2>3
  <2>5. x \in 1..24 /\ x - 1 \in 0..24 /\ ~ (x <= x - 1)
    BY <2>3, <2>4
  <2>6. applied[x - 1] = g[x - 1]
    BY <2>2, <2>5
  <2>7. applied[x] = IF Said(e, x) = "notUnicode" THEN applied[x - 1]
                     ELSE Apply(applied[x - 1], Overrides[x], Said(e, x))
    BY <1>1, <2>3, <2>4
  <2> QED BY <2>3, <2>5, <2>6, <2>7
<1> QED BY <1>2, <1>3

(* apply_env gives each field its own override and leaves the others.      *)
LEMMA EnvApplied ==
    ASSUME NEW v, v = [f \in Fields |-> v[f]], NEW e
    PROVE  ApplyEnv(v, e) = After(v, e, 24)
<1> DEFINE g == [i \in 0..24 |-> After(v, e, i)]
<1>1. g[0] = v
  <2>1. \A f \in Fields : ~ (Place(f) <= 0)
    BY PlaceFacts
  <2>2. After(v, e, 0) = [f \in Fields |-> v[f]]
    BY <2>1 DEF After
  <2> QED BY <2>2
<1>2. ASSUME NEW i \in 1..24
      PROVE  g[i] = IF Said(e, i) = "notUnicode" THEN g[i - 1]
                    ELSE Apply(g[i - 1], Overrides[i], Said(e, i))
  <2>1. i - 1 \in 0..24 /\ i \in 0..24
    OBVIOUS
  <2>2. g[i] = After(v, e, i) /\ g[i - 1] = After(v, e, i - 1)
    BY <2>1
  <2>3. PICK o \in Fields : o = Overrides[i][2]
    BY OverridesAreFields
  <2>4. Place(o) = i
    BY <2>3, PlaceFacts
  <2>5. \A f \in Fields : f # o => (Place(f) <= i <=> Place(f) <= i - 1)
    <3>1. \A f \in Fields : f # o => Place(f) # i
      BY <2>3, PlaceFacts
    <3>2. \A f \in Fields : Place(f) \in 1..24
      BY PlaceFacts
    <3> QED BY <3>1, <3>2
  <2>6. ~ (Place(o) <= i - 1) /\ Place(o) <= i
    BY <2>4
  <2>7. CASE Said(e, i) = "notUnicode"
    <3>1. After(v, e, i) = After(v, e, i - 1)
      BY <2>4, <2>5, <2>6, <2>7 DEF After
    <3> QED BY <2>2, <2>7, <3>1
  <2>8. CASE Said(e, i) # "notUnicode"
    <3>1. After(v, e, i) = [After(v, e, i - 1) EXCEPT ![o] = Said(e, i)]
      BY <2>4, <2>5, <2>6, <2>8 DEF After
    <3>2. Apply(g[i - 1], Overrides[i], Said(e, i))
            = [After(v, e, i - 1) EXCEPT ![o] = Said(e, i)]
      BY <2>2, <2>3, Zenon DEF Apply
    <3> QED BY <2>2, <2>8, <3>1, <3>2
  <2> QED BY <2>7, <2>8
<1>3. g[24] = After(v, e, 24)
  OBVIOUS
<1> HIDE DEF g
<1> QED BY <1>1, <1>2, <1>3, AppliedUnique
-----------------------------------------------------------------------------
(* The merged document.                                                    *)

(* The document before the overrides, field by field.                      *)
LEMMA ParsedValues ==
    ASSUME NEW d
    PROVE  /\ Parsed(d).values = [f \in Fields |-> Parsed(d).values[f]]
           /\ \A f \in Fields :
                 Parsed(d).values[f] =
                     IF HasFile(d) /\ f \in DOMAIN d.file[1].fields
                     THEN d.file[1].fields[f] ELSE Defaults[f]
<1>1. CASE HasFile(d)
  <2>1. Parsed(d).values
          = [f \in Fields |-> IF f \in DOMAIN d.file[1].fields THEN d.file[1].fields[f]
                              ELSE Defaults[f]]
    BY <1>1 DEF Parsed, FromFile
  <2> QED BY <1>1, <2>1
<1>2. CASE ~ HasFile(d)
  <2>1. Parsed(d).values = Defaults
    BY <1>2 DEF Parsed, NoFile
  <2> QED BY <1>2, <2>1 DEF Defaults
<1> QED BY <1>1, <1>2

LEMMA MergedValues ==
    ASSUME NEW d
    PROVE  Merged(d) = [version |-> Parsed(d).version,
                        values |-> After(Parsed(d).values, d.env, 24)]
<1>1. ApplyEnv(Parsed(d).values, d.env) = After(Parsed(d).values, d.env, 24)
  BY ParsedValues, EnvApplied
<1>2. \E x, y : Parsed(d) = [version |-> x, values |-> y]
  BY Zenon DEF Parsed, FromFile, NoFile
<1>3. PICK x, y : Parsed(d) = [version |-> x, values |-> y]
  BY <1>2
<1>4. Merged(d) = [Parsed(d) EXCEPT !.values = After(Parsed(d).values, d.env, 24)]
  BY <1>1, Zenon DEF Merged
<1> QED BY <1>3, <1>4

(* Each field holds its override, else the file's value, else the default. *)
LEMMA MergedIsEffective ==
    Merged(deployed) = [version |-> Parsed(deployed).version,
                        values |-> [f \in Fields |-> Effective(f)]]
<1>1. ASSUME NEW f \in Fields
      PROVE  After(Parsed(deployed).values, deployed.env, 24)[f] = Effective(f)
  <2> DEFINE e == deployed.env
             set == {i \in 1..Len(Overrides) :
                        /\ Overrides[i][2] = f
                        /\ EnvLookup(e, Overrides[i][1]) # "notUnicode"}
  <2>1. Place(f) \in 1..24 /\ \A k \in 1..24 : Overrides[k][2] = f <=> k = Place(f)
    BY PlaceFacts
  <2>2. After(Parsed(deployed).values, e, 24)[f]
          = IF Said(e, Place(f)) # "notUnicode" THEN Said(e, Place(f))
            ELSE Parsed(deployed).values[f]
    BY <2>1 DEF After
  <2>3. Effective(f) = IF set # {} THEN e[Overrides[CHOOSE i \in set : TRUE][1]]
                       ELSE IF HasFile(deployed) /\ f \in DOMAIN deployed.file[1].fields
                       THEN deployed.file[1].fields[f] ELSE Defaults[f]
    BY Zenon DEF Effective
  <2>4. CASE Said(e, Place(f)) = "notUnicode"
    <3>1. set = {}
      BY <2>1, <2>4, OverridesCount DEF Said
    <3> QED BY <2>2, <2>3, <2>4, <3>1, ParsedValues
  <2>5. CASE Said(e, Place(f)) # "notUnicode"
    <3>1. set = {Place(f)}
      BY <2>1, <2>5, OverridesCount DEF Said
    <3> HIDE DEF set
    <3>2. (CHOOSE i \in set : TRUE) = Place(f)
      BY <3>1
    <3>3. Said(e, Place(f)) = e[Overrides[Place(f)][1]]
      BY <2>5 DEF Said, EnvLookup
    <3> QED BY <2>2, <2>3, <2>5, <3>1, <3>2, <3>3
  <2> QED BY <2>4, <2>5
<1>2. After(Parsed(deployed).values, deployed.env, 24) = [f \in Fields |-> Effective(f)]
  <2>1. After(Parsed(deployed).values, deployed.env, 24)
          = [f \in Fields |-> After(Parsed(deployed).values, deployed.env, 24)[f]]
    BY DEF After
  <2> QED BY <1>1, <2>1
<1> QED BY <1>2, MergedValues

(* The fields whose numbers the first object meets.                        *)
LEMMA NumberFields ==
    /\ "gzip_level" \in Fields /\ Schema["gzip_level"].kind = "number"
    /\ "object_concurrency" \in Fields /\ Schema["object_concurrency"].kind = "number"
    /\ "multipart_part_bytes" \in Fields /\ Schema["multipart_part_bytes"].kind = "number"
    /\ "max_object_bytes" \in Fields /\ Schema["max_object_bytes"].kind = "number"
    /\ "stream_threshold_bytes" \in Fields /\ Schema["stream_threshold_bytes"].kind = "number"
<1>1. \A kind, default : Field(kind, default).kind = kind
  BY DEF Field
<1>2. "gzip_level" \in Fields /\ Schema["gzip_level"] = Field("number", "6")
  BY DEF Fields, Schema
<1>3. "object_concurrency" \in Fields /\ Schema["object_concurrency"] = Field("number", "1")
  BY DEF Fields, Schema
<1>4. "multipart_part_bytes" \in Fields /\ Schema["multipart_part_bytes"] = Field("number", "8")
  BY DEF Fields, Schema
<1>5. "max_object_bytes" \in Fields /\ Schema["max_object_bytes"] = Field("number", "128")
  BY DEF Fields, Schema
<1>6. "stream_threshold_bytes" \in Fields /\ Schema["stream_threshold_bytes"] = Field("number", "8")
  BY DEF Fields, Schema
<1> QED BY <1>1, <1>2, <1>3, <1>4, <1>5, <1>6

(* The numbers of a document that from_parts accepts are numerals.         *)
LEMMA AcceptedNumbers ==
    ASSUME NEW d, FromParts(d), NEW f \in Fields, Schema[f].kind = "number"
    PROVE  Merged(d).values[f] \in DOMAIN Numeral /\ Numeral[Merged(d).values[f]] \in Nat
<1>1. Place(f) \in 1..24 /\ Overrides[Place(f)][2] = f
  BY PlaceFacts
<1>2. Merged(d).values[f] = IF Said(d.env, Place(f)) # "notUnicode"
                            THEN Said(d.env, Place(f)) ELSE Parsed(d).values[f]
  <2>1. Merged(d).values = After(Parsed(d).values, d.env, 24)
    BY MergedValues
  <2> QED BY <1>1, <2>1 DEF After
<1>3. \A text : Parses(f, text) => text \in DOMAIN Numeral
  BY DEF Parses
<1>4. Said(d.env, Place(f)) # "notUnicode" => Said(d.env, Place(f)) \in DOMAIN Numeral
  <2>1. Said(d.env, Place(f)) # "notUnicode" => Parses(f, Said(d.env, Place(f)))
    BY <1>1, OverridesCount DEF FromParts, EnvParses, Said
  <2> QED BY <1>3, <2>1
<1>5. Parsed(d).values[f] \in DOMAIN Numeral
  <2>1. CASE HasFile(d) /\ f \in DOMAIN d.file[1].fields
    <3>1. Parses(f, d.file[1].fields[f])
      BY <2>1, Zenon DEF FromParts, FileParses
    <3> QED BY <1>3, <2>1, <3>1, ParsedValues
  <2>2. CASE ~ (HasFile(d) /\ f \in DOMAIN d.file[1].fields)
    <3>1. Parsed(d).values[f] = Defaults[f]
      BY <2>2, ParsedValues
    <3> QED BY <3>1, NumeralAssumption
  <2> QED BY <2>1, <2>2
<1>6. Merged(d).values[f] \in DOMAIN Numeral
  BY <1>2, <1>4, <1>5
<1> QED BY <1>6, NumeralAssumption

-----------------------------------------------------------------------------
(***************************************************************************)
(* The inductive invariant: a container past Settings::load holds the      *)
(* merged document and from_parts accepted it; one that was refused was    *)
(* refused by from_parts; and INIT went on exactly when the rules.uri of   *)
(* that document names a source.                                           *)
(***************************************************************************)
SettingsInv ==
    /\ Loaded => doc = Merged(deployed) /\ FromParts(deployed)
    /\ pc = "refused" => ~ FromParts(deployed)
    /\ pc \notin {"panic", "stalled", "entityTooSmall", "alwaysTooLarge"}
    /\ pc = "rulesUri" => ~ Resolvable(doc.values["rules_uri"])
    /\ pc \in {"serve", "served"} => Resolvable(doc.values["rules_uri"])

LEMMA DeployedStays ==
    ASSUME UNCHANGED deployed
    PROVE  Merged(deployed)' = Merged(deployed) /\ FromParts(deployed)' = FromParts(deployed)
BY Zenon DEF Merged, FromParts

(* What the first object meets in a document that was accepted.            *)
LEMMA AcceptedServes ==
    ASSUME pc = "serve", doc = Merged(deployed), FromParts(deployed), Serve
    PROVE  pc' = "served"
<1> DEFINE v == doc.values
           n(f) == Numeral[v[f]]
<1>1. /\ n("gzip_level") \in Nat /\ n("object_concurrency") \in Nat
      /\ n("multipart_part_bytes") \in Nat /\ n("max_object_bytes") \in Nat
      /\ n("stream_threshold_bytes") \in Nat
  BY NumberFields, AcceptedNumbers
<1>2. /\ n("gzip_level") <= 9 /\ n("object_concurrency") \in 1..64
      /\ n("max_object_bytes") >= n("stream_threshold_bytes")
      /\ n("multipart_part_bytes") >= 5
  BY DEF FromParts, Validate, MaxGzipLevel, MaxObjectConcurrency, S3MinMultipartPart
<1>3. ~ (PartBytes(v) < 5)
  BY <1>1, <1>2 DEF PartBytes, DefaultMultipartPart
<1>4. /\ ~ (n("gzip_level") > 9) /\ n("object_concurrency") # 0
      /\ ~ (n("max_object_bytes") < n("stream_threshold_bytes"))
  BY <1>1, <1>2
<1> QED BY <1>3, <1>4 DEF Serve, Exit

LEMMA SettingsInvStep ==
    ASSUME SettingsInv, [Next]_vars
    PROVE  SettingsInv'
<1>1. deployed' = deployed
  BY DEF Next, ValidateSettings, ReadRefused, ReadFails, Load, Compose, Serve, Exit, vars
<1>2. Merged(deployed)' = Merged(deployed) /\ FromParts(deployed)' = FromParts(deployed)
  BY <1>1, DeployedStays
<1>3. CASE UNCHANGED <<doc, pc>>
  BY <1>1, <1>2, <1>3 DEF SettingsInv, Loaded
<1>4. CASE ReadRefused \/ ReadFails
  BY <1>4 DEF ReadRefused, ReadFails, Exit, SettingsInv, Loaded
<1>5. CASE Load
  BY <1>2, <1>5 DEF Load, SettingsInv, Loaded
<1>6. CASE Compose
  <2>1. KeyFilterCompiles(doc.values)
    <3>1. Validate(doc)
      BY <1>6 DEF Compose, SettingsInv, Loaded, FromParts
    <3> QED BY <3>1 DEF Validate
  <2>2. /\ doc' = doc /\ pc = "compose"
        /\ pc' = IF Resolvable(doc.values["rules_uri"]) THEN "serve" ELSE "rulesUri"
    BY <1>6, <2>1 DEF Compose, Exit
  <2> QED BY <1>2, <2>2 DEF SettingsInv, Loaded
<1>7. CASE Serve
  <2>1. pc' = "served" /\ doc' = doc /\ pc = "serve"
    BY <1>7, AcceptedServes DEF Serve, Exit, SettingsInv, Loaded
  <2> QED BY <1>2, <2>1 DEF SettingsInv, Loaded
<1>8. CASE ValidateSettings
  BY <1>3, <1>8 DEF ValidateSettings
<1>9. CASE UNCHANGED vars
  BY <1>3, <1>9 DEF vars
<1> QED BY <1>4, <1>5, <1>6, <1>7, <1>8, <1>9 DEF Next

LEMMA SettingsInvSuffices ==
    ASSUME SettingsInv
    PROVE  SettingsInEffect
<1>1. EnvWinsOverFile
  BY MergedIsEffective DEF SettingsInv, EnvWinsOverFile, Loaded
<1>2. RefusedOnMergeOnly
  BY MergedIsEffective DEF SettingsInv, RefusedOnMergeOnly, FromParts
<1>3. "rules_uri" \in Fields
  BY DEF Fields, Schema
<1>4. LoadedSettingsRun
  <2>1. Loaded => doc.values["rules_uri"] = Effective("rules_uri")
    BY <1>1, <1>3 DEF EnvWinsOverFile
  <2> QED BY <2>1 DEF SettingsInv, LoadedSettingsRun, Loaded
<1> QED BY <1>1, <1>2, <1>4 DEF SettingsInEffect

(* For every document, every environment and every numeral: the settings   *)
(* of a container that Settings::load let through are the override, else   *)
(* the file's value, else the default, in each of the 24 fields; load      *)
(* refuses for the merged values only; and of the values load let through  *)
(* INIT fails on the rules.uri in effect, exactly when no source answers   *)
(* to it, and neither INIT nor the first object on any other.              *)
THEOREM SettingsAreInEffect == Spec => []SettingsInEffect
<1>1. Init => SettingsInv
  BY DEF Init, SettingsInv, Loaded
<1>2. SettingsInv /\ [Next]_vars => SettingsInv'
  BY SettingsInvStep
<1>3. SettingsInv => SettingsInEffect
  BY SettingsInvSuffices
<1> QED BY <1>1, <1>2, <1>3, PTL DEF Spec
=============================================================================
