------------------------------- MODULE WireProofs -------------------------------
(* Theorems about Wire: the stream to the client is the frames of the       *)
(* server's messages one after the other, and the stream of a client whose  *)
(* headers are honest is the frames of its requests, so that the reader     *)
(* never loses count of them.                                               *)
EXTENDS Wire, SequenceTheorems, TLAPS

---------------------------------------------------------------------------
(* s is the nodes of the messages ms, numbered from g + 1; the k-th ends at *)
(* off[k].                                                                  *)
Framed(s, ms, g, off) ==
    /\ off[0] = 0 /\ off[Len(ms)] = Len(s)
    /\ \A j, k \in 0..Len(ms) : j <= k => off[j] <= off[k]
    /\ \A k \in 1..Len(ms) :
          /\ off[k] = off[k - 1] + set_body_length(ms[k].text) + 1
          /\ \A i \in 1..(set_body_length(ms[k].text) + 1) :
                s[off[k - 1] + i] = MsgNode(ms[k].id, ms[k].text, g + k)[i]

Offsets(s, ms) == [0..Len(ms) -> 0..Len(s)]

FrameInv == \E off \in Offsets(s2c, said) : Framed(s2c, said, got, off)

(* s is first units of a body, and the frames of the requests rs.           *)
Queued(s, rs, first, off) ==
    /\ off[0] = first /\ off[Len(rs)] = Len(s)
    /\ \A j, k \in 0..Len(rs) : j < k => off[j] < off[k]
    /\ \A k \in 1..Len(rs) :
          /\ s[off[k - 1] + 1].id = rs[k]
          /\ s[off[k - 1] + 1].length <= MAX_LENGTH
          /\ off[k] = off[k - 1] + s[off[k - 1] + 1].length + 1

(* What the reader has not finished is the oldest request.                  *)
RequestInv ==
    honest /\ client = "runs" =>
        /\ reader = "prefix" =>
              \E off \in Offsets(c2s, requests) : Queued(c2s, requests, 0, off)
        /\ reader \in {"body", "handle"} =>
              /\ requests # <<>> /\ Head(requests) = read_msg.id
              /\ \E off \in Offsets(c2s, Tail(requests)) :
                    Queued(c2s, Tail(requests),
                           IF reader = "body" THEN read_msg.length ELSE 0, off)

(* A message that is read or handled has an id that a header can carry.     *)
ReaderInv == reader \in {"body", "handle"} => read_msg.id \in Ids

Inv == TypeOK /\ ReaderInv /\ FrameInv /\ RequestInv /\ AnswersPaired

---------------------------------------------------------------------------
LEMMA Constants ==
    /\ Ids \subseteq Nat /\ RequestIds \subseteq Ids /\ MessageId \subseteq Ids
    /\ -1 \notin Ids
    /\ MAX_LENGTH \in Nat /\ LengthRange \in Nat /\ MAX_LENGTH < LengthRange
<1>1. \A id \in MessageId \cup {UnknownId} : id \in Nat
  BY WireAssumption
<1>2. LoginRequest \in Nat /\ OtherRequest \in Nat /\ UnknownId \in Nat /\ EnumRange \in Nat
  BY <1>1, WireAssumption DEF MessageId
<1>3. Ids \subseteq Nat
  BY <1>1, <1>2 DEF Ids, RequestIds
<1>. QED  BY <1>3, WireAssumption DEF Ids

LEMMA Narrow ==
    ASSUME NEW l \in Nat
    PROVE  /\ l % LengthRange \in 0..(LengthRange - 1)
           /\ l <= MAX_LENGTH => l % LengthRange = l
BY Constants

LEMMA BodyLength ==
    ASSUME NEW l \in Nat
    PROVE  /\ set_body_length(l) \in 0..MAX_LENGTH /\ set_body_length(l) \in Nat
           /\ l <= MAX_LENGTH => set_body_length(l) = l
BY Constants DEF set_body_length

LEMMA Typing ==
    ASSUME NEW id \in Ids, NEW l \in 0..(LengthRange - 1), NEW of \in Nat
    PROVE  /\ Header(id, l, of) \in Unit /\ Byte(of) \in Unit
           /\ Header(id, l, of).id = id /\ Header(id, l, of).length = l
           /\ Header(id, l, of).of = of /\ Byte(of).of = of /\ Byte(of).id = -1
BY Constants DEF Header, Byte, Unit

LEMMA BodyTyped ==
    ASSUME NEW b \in Nat, NEW of \in Nat
    PROVE  /\ Body(b, of) \in Seq(Unit) /\ Len(Body(b, of)) = b
           /\ \A i \in 1..b : Body(b, of)[i] = Byte(of)
<1>1. Byte(of) \in Unit
  BY Constants DEF Byte, Unit
<1>2. PICK e \in Unit : e = Byte(of)
  BY <1>1
<1>3. Body(b, of) = [i \in 1..b |-> e]
  BY <1>2 DEF Body
<1>. QED  BY <1>2, <1>3

(* A frame: its header, and its body.                                       *)
Frame(id, l, b, of) == <<encode_header(id, l, of)>> \o Body(b, of)
IsFrame(f, id, length, b, of) ==
    /\ f \in Seq(Unit) /\ Len(f) = b + 1
    /\ f[1].id = id /\ f[1].length = length
    /\ \A i \in 1..(b + 1) : f[i].of = of

LEMMA FrameUnits ==
    ASSUME NEW id \in Ids, NEW l \in Nat, NEW b \in Nat, NEW of \in Nat
    PROVE  IsFrame(Frame(id, l, b, of), id, l % LengthRange, b, of)
<1>1. PICK k \in 0..(LengthRange - 1) : k = l % LengthRange
  BY Narrow
<1>2. PICK h \in Unit : h = Header(id, k, of) /\ h.id = id /\ h.length = k /\ h.of = of
  BY Typing
<1>3. encode_header(id, l, of) = h
  BY <1>1, <1>2 DEF encode_header
<1>4. PICK s \in Seq(Unit) : s = Body(b, of) /\ Len(s) = b
                             /\ \A i \in 1..b : s[i] = Byte(of)
  BY BodyTyped
<1>5. <<h>> \o s \in Seq(Unit) /\ Len(<<h>> \o s) = b + 1 /\ (<<h>> \o s)[1] = h
      /\ \A i \in 2..(b + 1) : (<<h>> \o s)[i] = s[i - 1]
  BY <1>2, <1>4
<1>6. Byte(of).of = of
  BY DEF Byte
<1>7. \A i \in 1..(b + 1) : (<<h>> \o s)[i].of = of
  BY <1>2, <1>4, <1>5, <1>6
<1>8. Frame(id, l, b, of) = <<h>> \o s
  BY <1>3, <1>4 DEF Frame
<1>. QED  BY <1>1, <1>2, <1>5, <1>7, <1>8 DEF IsFrame

LEMMA NodeUnits ==
    ASSUME NEW id \in Ids, NEW text \in Nat, NEW of \in Nat
    PROVE  IsFrame(MsgNode(id, text, of), id, set_body_length(text),
                   set_body_length(text), of)
<1>1. PICK b \in Nat : b = set_body_length(text) /\ b <= MAX_LENGTH
  BY BodyLength
<1>2. b % LengthRange = b
  BY <1>1, Narrow
<1>3. MsgNode(id, text, of) = Frame(id, b, b, of)
  BY <1>1 DEF MsgNode, Frame
<1>4. IsFrame(Frame(id, b, b, of), id, b % LengthRange, b, of)
  BY <1>1, FrameUnits
<1>. QED  BY <1>1, <1>2, <1>3, <1>4

(* A header that announces no more than MAX_LENGTH is taken as it is.       *)
LEMMA Decoded ==
    ASSUME NEW u, u.id # -1, u.length \in 0..MAX_LENGTH
    PROVE  decode_header(u) = {[ok |-> TRUE, id |-> u.id, length |-> u.length]}
<1>1. u.length \in Nat /\ u.length <= MAX_LENGTH
  BY Constants
<1>2. set_body_length(u.length) = u.length /\ (u.length <= MAX_LENGTH) = TRUE
  BY <1>1, BodyLength
<1>3. decode_header(u) =
        {[ok |-> u.length <= MAX_LENGTH, id |-> u.id, length |-> set_body_length(u.length)]}
  BY DEF decode_header
<1>. QED  BY <1>2, <1>3, Zenon

LEMMA DecodeTyped ==
    ASSUME NEW u \in Unit, NEW h \in decode_header(u)
    PROVE  h.id \in Ids /\ h.length \in 0..MAX_LENGTH
<1>1. ASSUME NEW id \in Ids, NEW l \in Nat,
             h = [ok |-> l <= MAX_LENGTH, id |-> id, length |-> set_body_length(l)]
      PROVE  h.id \in Ids /\ h.length \in 0..MAX_LENGTH
  BY <1>1, BodyLength
<1>2. CASE u.id # -1
  BY <1>1, <1>2 DEF decode_header, Unit
<1>3. CASE u.id = -1
  BY <1>1, <1>3, Constants DEF decode_header
<1>. QED  BY <1>2, <1>3

---------------------------------------------------------------------------
IsJoin(r, s, t) ==
    /\ r \in Seq(Unit) /\ Len(r) = Len(s) + Len(t)
    /\ Len(s) \in Nat /\ Len(t) \in Nat
    /\ \A i \in 1..Len(s) : r[i] = s[i]
    /\ \A i \in 1..Len(t) : r[Len(s) + i] = t[i]

LEMMA Joins ==
    ASSUME NEW s \in Seq(Unit), NEW t \in Seq(Unit)
    PROVE  IsJoin(s \o t, s, t)
BY DEF IsJoin

IsCut(r, s, d) ==
    /\ r \in Seq(Unit) /\ Len(r) = Len(s) - d /\ Len(s) \in Nat
    /\ \A i \in 1..(Len(s) - d) : r[i] = s[d + i]

LEMMA Cuts ==
    ASSUME NEW s \in Seq(Unit), NEW d \in 0..Len(s)
    PROVE  IsCut(SubSeq(s, d + 1, Len(s)), s, d)
<1>1. Len(s) \in Nat /\ d \in Nat
  OBVIOUS
<1>2. \A i \in (d + 1)..Len(s) : s[i] \in Unit
  BY <1>1
<1>3. SubSeq(s, d + 1, Len(s)) \in Seq(Unit)
  BY <1>1, <1>2, SubSeqProperties
<1>4. /\ Len(SubSeq(s, d + 1, Len(s))) = Len(s) - d
      /\ \A i \in 1..(Len(s) - d) : SubSeq(s, d + 1, Len(s))[i] = s[d + i]
  BY <1>1, <1>2, SubSeqProperties
<1>. QED  BY <1>1, <1>3, <1>4 DEF IsCut

LEMMA MoreOf ==
    ASSUME NEW X, NEW s \in Seq(X), NEW x \in X, NEW r, r = Append(s, x)
    PROVE  /\ r \in Seq(X) /\ Len(r) = Len(s) + 1 /\ Len(s) \in Nat
           /\ r[Len(s) + 1] = x /\ \A i \in 1..Len(s) : r[i] = s[i]
OBVIOUS

LEMMA LessOf ==
    ASSUME NEW X, NEW s \in Seq(X), s # <<>>, NEW r, r = Tail(s)
    PROVE  /\ r \in Seq(X) /\ Len(r) = Len(s) - 1 /\ Len(s) \in Nat \ {0}
           /\ Head(s) = s[1] /\ s[1] \in X
           /\ \A i \in 1..(Len(s) - 1) : r[i] = s[i + 1]
OBVIOUS

LEMMA OffsetsAre ==
    ASSUME NEW s, NEW L \in Nat, NEW rs, Len(rs) = L, Len(s) \in Nat, NEW off
    PROVE  off \in Offsets(s, rs) => \A k \in 0..L : off[k] \in Nat /\ off[k] <= Len(s)
BY DEF Offsets

(* A further message, at the end of the stream.                             *)
LEMMA FramedAppend ==
    ASSUME NEW s \in Seq(Unit), NEW ms \in Seq(Message), NEW g \in Nat, NEW m \in Message,
           NEW off \in Offsets(s, ms), Framed(s, ms, g, off),
           NEW t, t = s \o MsgNode(m.id, m.text, g + Len(ms) + 1),
           NEW mt, mt = Append(ms, m)
    PROVE  \E more \in Offsets(t, mt) : Framed(t, mt, g, more)
<1>1. m.id \in Ids /\ m.text \in Nat
  BY DEF Message
<1>2. PICK b \in Nat : b = set_body_length(m.text)
  BY <1>1, BodyLength
<1>3. PICK L \in Nat : L = Len(ms)
  OBVIOUS
<1>4. PICK node : node = MsgNode(m.id, m.text, g + L + 1)
  OBVIOUS
<1>5. node \in Seq(Unit) /\ Len(node) = b + 1
  <2>1. PICK of \in Nat : of = g + L + 1
    BY <1>3
  <2>2. node = MsgNode(m.id, m.text, of)
    BY <1>4, <2>1
  <2>3. IsFrame(node, m.id, b, b, of)
    BY <1>1, <1>2, <2>1, <2>2, NodeUnits
  <2>. QED  BY <2>3 DEF IsFrame
<1>6. t = s \o node
  BY <1>3, <1>4
<1>7. /\ t \in Seq(Unit) /\ Len(t) = Len(s) + (b + 1) /\ Len(s) \in Nat
      /\ \A i \in 1..Len(s) : t[i] = s[i]
      /\ \A i \in 1..(b + 1) : t[Len(s) + i] = node[i]
  <2>1. IsJoin(t, s, node)
    BY <1>5, <1>6, Joins
  <2>. QED  BY <1>5, <2>1 DEF IsJoin
<1>8. mt \in Seq(Message) /\ Len(mt) = L + 1 /\ mt[L + 1] = m
      /\ \A i \in 1..L : mt[i] = ms[i]
  BY <1>3, MoreOf
<1>9. PICK more : more = [k \in 0..(L + 1) |-> IF k <= L THEN off[k] ELSE Len(t)]
  OBVIOUS
<1>10. \A k \in 0..L : off[k] \in Nat /\ off[k] <= Len(s)
  BY <1>3, <1>7, OffsetsAre
<1>11. (\A k \in 0..L : more[k] = off[k]) /\ more[L + 1] = Len(t)
  BY <1>9
<1>12. off[0] = 0 /\ off[L] = Len(s) /\ \A j, k \in 0..L : j <= k => off[j] <= off[k]
  BY <1>3 DEF Framed
<1>13. more \in Offsets(t, mt)
  <2>1. \A k \in 0..(L + 1) : (IF k <= L THEN off[k] ELSE Len(t)) \in 0..Len(t)
    BY <1>7, <1>10
  <2>. QED  BY <1>8, <1>9, <2>1 DEF Offsets
<1>14. more[0] = 0 /\ more[Len(mt)] = Len(t)
  BY <1>8, <1>11, <1>12
<1>15. \A j, k \in 0..Len(mt) : j <= k => more[j] <= more[k]
  <2>. SUFFICES ASSUME NEW j \in 0..(L + 1), NEW k \in 0..(L + 1), j <= k
                PROVE  more[j] <= more[k]
    BY <1>8
  <2>1. CASE k = L + 1
    <3>1. \A i \in 0..L : more[i] <= Len(t)
      <4>. SUFFICES ASSUME NEW i \in 0..L PROVE more[i] <= Len(t)
        OBVIOUS
      <4>1. more[i] \in Nat /\ more[i] <= Len(s)
        BY <1>7, <1>10, <1>11
      <4>. QED  BY <1>2, <1>7, <4>1
    <3>. QED  BY <1>3, <1>7, <1>11, <2>1, <3>1
  <2>2. CASE k \in 0..L
    <3>1. j \in 0..L
      BY <1>3, <2>2
    <3>. QED  BY <1>11, <1>12, <2>2, <3>1
  <2>. QED  BY <1>3, <2>1, <2>2
<1>16. ASSUME NEW k \in 1..Len(mt)
       PROVE  /\ more[k] = more[k - 1] + set_body_length(mt[k].text) + 1
              /\ \A i \in 1..(set_body_length(mt[k].text) + 1) :
                    t[more[k - 1] + i] = MsgNode(mt[k].id, mt[k].text, g + k)[i]
  <2>1. CASE k = L + 1
    <3>1. mt[k] = m /\ more[k] = Len(t) /\ more[k - 1] = Len(s)
      BY <1>8, <1>11, <1>12, <2>1
    <3>2. MsgNode(mt[k].id, mt[k].text, g + k) = node
      BY <1>4, <2>1, <3>1
    <3>3. \A i \in 1..(b + 1) : t[more[k - 1] + i] = MsgNode(mt[k].id, mt[k].text, g + k)[i]
      BY <1>7, <3>1, <3>2
    <3>4. set_body_length(mt[k].text) = b
      BY <1>2, <3>1
    <3>5. more[k] = more[k - 1] + b + 1
      BY <1>2, <1>7, <3>1
    <3>. QED  BY <3>3, <3>4, <3>5
  <2>2. CASE k \in 1..L
    <3>1. k \in 0..L /\ k - 1 \in 0..L
      BY <2>2
    <3>2. mt[k] = ms[k] /\ more[k] = off[k] /\ more[k - 1] = off[k - 1]
          /\ off[k] \in Nat /\ off[k] <= Len(s) /\ off[k - 1] \in Nat
      BY <1>8, <1>10, <1>11, <2>2, <3>1
    <3>3. PICK c \in Nat : c = set_body_length(ms[k].text)
      <4>1. ms[k] \in Message
        BY <1>3, <2>2
      <4>2. ms[k].text \in Nat
        BY <4>1 DEF Message
      <4>. QED  BY <4>2, BodyLength
    <3>4. off[k] = off[k - 1] + c + 1
          /\ \A i \in 1..(c + 1) :
                s[off[k - 1] + i] = MsgNode(ms[k].id, ms[k].text, g + k)[i]
      BY <1>3, <2>2, <3>3 DEF Framed
    <3>5. \A i \in 1..(c + 1) : off[k - 1] + i \in 1..Len(s)
      <4>1. Len(s) \in Nat /\ off[k - 1] \in Nat /\ off[k - 1] + c + 1 <= Len(s)
        BY <1>7, <3>2, <3>4
      <4>. QED  BY <3>3, <4>1, SMTT(30)
    <3>6. \A i \in 1..(c + 1) : t[off[k - 1] + i] = s[off[k - 1] + i]
      BY <1>7, <3>5
    <3>. QED  BY <3>2, <3>3, <3>4, <3>6, ZenonT(60)
  <2>3. k = L + 1 \/ k \in 1..L
    BY <1>8
  <2>. QED  BY <2>1, <2>2, <2>3
<1>17. Framed(t, mt, g, more)
  BY <1>14, <1>15, <1>16 DEF Framed
<1>. QED  BY <1>13, <1>17

(* The oldest message, which ends at d, is taken off the stream.            *)
FirstEnds(off, d) == off[1] = d

LEMMA FramedTail ==
    ASSUME NEW s \in Seq(Unit), NEW ms \in Seq(Message), NEW g \in Nat, ms # <<>>,
           NEW off \in Offsets(s, ms), Framed(s, ms, g, off),
           NEW d \in 0..Len(s), FirstEnds(off, d),
           NEW t, t = SubSeq(s, d + 1, Len(s)), NEW mt, mt = Tail(ms)
    PROVE  \E less \in Offsets(t, mt) : Framed(t, mt, g + 1, less)
<1>1. PICK L \in Nat : L = Len(ms) /\ L >= 1
  OBVIOUS
<1>2. Len(s) \in Nat /\ d \in Nat
  OBVIOUS
<1>3. mt \in Seq(Message) /\ Len(mt) = L - 1 /\ \A i \in 1..(L - 1) : mt[i] = ms[i + 1]
  BY <1>1, LessOf
<1>4. t \in Seq(Unit) /\ Len(t) = Len(s) - d
      /\ \A i \in 1..(Len(s) - d) : t[i] = s[d + i]
  BY Cuts DEF IsCut
<1>5. PICK less : less = [k \in 0..(L - 1) |-> off[k + 1] - d]
  OBVIOUS
<1>6. \A k \in 0..L : off[k] \in Nat /\ off[k] <= Len(s)
  BY <1>1, <1>2, OffsetsAre
<1>7. off[L] = Len(s) /\ \A j, k \in 0..L : j <= k => off[j] <= off[k]
  BY <1>1 DEF Framed
<1>8. ASSUME NEW k \in 0..(L - 1)
      PROVE  /\ less[k] = off[k + 1] - d /\ k + 1 \in 0..L
             /\ off[k + 1] \in Nat /\ off[k + 1] <= Len(s)
             /\ off[k + 1] >= d /\ off[k + 1] - d \in 0..Len(t)
  <2>1. less[k] = off[k + 1] - d
    BY <1>5
  <2>2. k + 1 \in 0..L /\ 1 \in 0..L /\ 1 <= k + 1
    BY <1>1
  <2>3. off[k + 1] \in Nat /\ off[k + 1] <= Len(s) /\ off[k + 1] >= d
    BY <1>6, <1>7, <2>2 DEF FirstEnds
  <2>4. PICK e \in Nat : e = off[k + 1]
    BY <2>3
  <2>5. e - d \in 0..Len(t)
    BY <1>2, <1>4, <2>3, <2>4
  <2>. QED  BY <2>1, <2>2, <2>3, <2>4, <2>5
<1>9. less \in Offsets(t, mt)
  <2>1. \A k \in 0..(L - 1) : off[k + 1] - d \in 0..Len(t)
    BY <1>8
  <2>. QED  BY <1>3, <1>5, <2>1 DEF Offsets
<1>10. less[0] = 0 /\ less[Len(mt)] = Len(t)
  <2>1. 0 \in 0..(L - 1) /\ L - 1 \in 0..(L - 1) /\ (L - 1) + 1 = L
    BY <1>1
  <2>2. less[0] = d - d
    BY <1>8, <2>1 DEF FirstEnds
  <2>3. d - d = 0
    BY <1>2
  <2>4. less[L - 1] = off[L] - d
    BY <1>8, <2>1
  <2>5. less[L - 1] = Len(t)
    BY <1>4, <1>7, <2>4
  <2>. QED  BY <1>3, <2>2, <2>3, <2>5
<1>11. \A j, k \in 0..Len(mt) : j <= k => less[j] <= less[k]
  <2>. SUFFICES ASSUME NEW j \in 0..(L - 1), NEW k \in 0..(L - 1), j <= k
                PROVE  less[j] <= less[k]
    BY <1>3
  <2>1. off[j + 1] <= off[k + 1]
    BY <1>7, <1>8
  <2>2. /\ off[j + 1] \in Nat /\ less[j] = off[j + 1] - d
        /\ off[k + 1] \in Nat /\ less[k] = off[k + 1] - d
    BY <1>8
  <2>. QED  BY <1>2, <2>1, <2>2, SMTT(30)
<1>12. ASSUME NEW k \in 1..Len(mt)
       PROVE  /\ less[k] = less[k - 1] + set_body_length(mt[k].text) + 1
              /\ \A i \in 1..(set_body_length(mt[k].text) + 1) :
                    t[less[k - 1] + i] = MsgNode(mt[k].id, mt[k].text, (g + 1) + k)[i]
  <2>1. k \in 0..(L - 1) /\ k - 1 \in 0..(L - 1) /\ k + 1 \in 1..L /\ (k - 1) + 1 = k
        /\ (k + 1) - 1 = k /\ k \in 1..(L - 1)
    BY <1>1, <1>3
  <2>2. /\ less[k] = off[k + 1] - d /\ less[k - 1] = off[k] - d
        /\ off[k + 1] \in Nat /\ off[k] \in Nat /\ off[k] >= d /\ off[k + 1] <= Len(s)
    <3>1. less[k] = off[k + 1] - d /\ off[k + 1] \in Nat /\ off[k + 1] <= Len(s)
      BY <1>8, <2>1
    <3>2. PICK j \in 0..(L - 1) : j = k - 1 /\ j + 1 = k
      BY <2>1
    <3>3. less[j] = off[j + 1] - d /\ off[j + 1] \in Nat /\ off[j + 1] >= d
      BY <1>8
    <3>. QED  BY <3>1, <3>2, <3>3
  <2>3. mt[k] = ms[k + 1]
    BY <1>3, <2>1
  <2>4. PICK c \in Nat : c = set_body_length(ms[k + 1].text)
    <3>1. ms[k + 1] \in Message
      BY <1>1, <2>1
    <3>2. ms[k + 1].text \in Nat
      BY <3>1 DEF Message
    <3>. QED  BY <3>2, BodyLength
  <2>5. off[k + 1] = off[k] + c + 1
        /\ \A i \in 1..(c + 1) :
              s[off[k] + i] = MsgNode(ms[k + 1].id, ms[k + 1].text, g + (k + 1))[i]
    BY <1>1, <2>1, <2>4 DEF Framed
  <2>6. ASSUME NEW i \in 1..(c + 1)
        PROVE  t[less[k - 1] + i] = s[off[k] + i]
    <3>1. PICK e \in Nat : e = off[k]
      BY <2>2
    <3>2. e \in Nat /\ c \in Nat /\ e >= d /\ e + c + 1 <= Len(s)
      BY <2>2, <2>4, <2>5, <3>1
    <3>3. (e - d) + i \in 1..(Len(s) - d) /\ d + ((e - d) + i) = e + i
      BY <1>2, <3>2
    <3>4. less[k - 1] + i \in 1..(Len(s) - d) /\ d + (less[k - 1] + i) = off[k] + i
      BY <2>2, <3>1, <3>3
    <3>. QED  BY <1>4, <3>4
  <2>7. (g + 1) + k = g + (k + 1)
    BY <2>1
  <2>8. less[k] = less[k - 1] + c + 1
    BY <1>2, <2>2, <2>4, <2>5, SMTT(30)
  <2>9. \A i \in 1..(c + 1) :
           t[less[k - 1] + i] = MsgNode(mt[k].id, mt[k].text, (g + 1) + k)[i]
    BY <2>3, <2>5, <2>6, <2>7
  <2>. QED  BY <2>3, <2>4, <2>8, <2>9
<1>13. Framed(t, mt, g + 1, less)
  BY <1>10, <1>11, <1>12 DEF Framed
<1>. QED  BY <1>9, <1>13

(* The first unit of the stream is the header of the oldest message, and    *)
(* those that it announces belong to the same.                              *)
LEMMA FramedHead ==
    ASSUME NEW s \in Seq(Unit), NEW ms \in Seq(Message), NEW g \in Nat,
           NEW off \in Offsets(s, ms), Framed(s, ms, g, off)
    PROVE  /\ ms = <<>> <=> s = <<>>
           /\ ms # <<>> =>
                 LET b == set_body_length(ms[1].text) IN
                 /\ b \in 0..MAX_LENGTH /\ off[1] = b + 1 /\ b + 1 <= Len(s)
                 /\ decode_header(Head(s)) =
                       {[ok |-> TRUE, id |-> ms[1].id, length |-> b]}
                 /\ \A i \in 1..(b + 1) : s[i].of = g + 1
<1>1. CASE ms = <<>>
  BY <1>1 DEF Framed
<1>2. CASE ms # <<>>
  <2>1. ms[1] \in Message /\ Len(ms) \in Nat /\ Len(ms) >= 1
    BY <1>2
  <2>2. ms[1].id \in Ids /\ ms[1].text \in Nat
    BY <2>1 DEF Message
  <2>3. PICK b \in Nat : b = set_body_length(ms[1].text) /\ b \in 0..MAX_LENGTH
    BY <2>2, BodyLength
  <2>4. 1 \in 1..Len(ms) /\ 1 \in 0..Len(ms) /\ Len(ms) \in 0..Len(ms) /\ 1 - 1 = 0
        /\ g + 1 \in Nat
    BY <2>1
  <2>5. PICK n : n = MsgNode(ms[1].id, ms[1].text, g + 1)
    OBVIOUS
  <2>6. off[1] = b + 1 /\ off[1] <= Len(s) /\ \A i \in 1..(b + 1) : s[i] = n[i]
    <3>1. off[0] = 0 /\ off[Len(ms)] = Len(s) /\ off[1] <= off[Len(ms)]
      BY <2>1, <2>4 DEF Framed
    <3>2. off[1] = off[0] + b + 1 /\ \A i \in 1..(b + 1) : s[off[0] + i] = n[i]
      BY <2>3, <2>4, <2>5 DEF Framed
    <3>. QED  BY <2>3, <3>1, <3>2
  <2>7. n[1].id = ms[1].id /\ n[1].length = b /\ \A i \in 1..(b + 1) : n[i].of = g + 1
    <3>1. PICK of \in Nat : of = g + 1
      BY <2>4
    <3>2. IsFrame(n, ms[1].id, b, b, of)
      BY <2>2, <2>3, <2>5, <3>1, NodeUnits
    <3>. QED  BY <3>1, <3>2 DEF IsFrame
  <2>8. s # <<>> /\ Head(s) = s[1] /\ s[1] = n[1]
    BY <2>3, <2>6
  <2>9. PICK u : u = Head(s)
    OBVIOUS
  <2>10. u.id = ms[1].id /\ u.length = b /\ u.id # -1
    BY <2>2, <2>7, <2>8, <2>9, Constants
  <2>11. decode_header(u) = {[ok |-> TRUE, id |-> u.id, length |-> u.length]}
    BY <2>3, <2>10, Decoded
  <2>12. decode_header(Head(s)) = {[ok |-> TRUE, id |-> ms[1].id, length |-> b]}
    BY <2>9, <2>10, <2>11
  <2>13. \A i \in 1..(b + 1) : s[i].of = g + 1
    BY <2>6, <2>7
  <2>. QED  BY <1>2, <2>3, <2>6, <2>8, <2>12, <2>13
<1>. QED  BY <1>1, <1>2

---------------------------------------------------------------------------
(* A further request, whose header tells the length of its body.            *)
LEMMA QueuedAppend ==
    ASSUME NEW s \in Seq(Unit), NEW rs \in Seq(Ids), NEW first,
           NEW id \in Ids, NEW b \in 0..MAX_LENGTH,
           NEW off \in Offsets(s, rs), Queued(s, rs, first, off),
           NEW t, t = s \o Frame(id, b, b, 0), NEW rt, rt = Append(rs, id)
    PROVE  \E more \in Offsets(t, rt) : Queued(t, rt, first, more)
<1>1. PICK L \in Nat : L = Len(rs)
  OBVIOUS
<1>2. b \in Nat /\ b <= MAX_LENGTH /\ b % LengthRange = b
  BY Constants, Narrow
<1>3. PICK f : f = Frame(id, b, b, 0)
  OBVIOUS
<1>4. f \in Seq(Unit) /\ Len(f) = b + 1 /\ f[1].id = id /\ f[1].length = b
  <2>1. IsFrame(f, id, b % LengthRange, b, 0)
    BY <1>2, <1>3, FrameUnits
  <2>. QED  BY <1>2, <2>1 DEF IsFrame
<1>5. /\ t \in Seq(Unit) /\ Len(t) = Len(s) + (b + 1) /\ Len(s) \in Nat
      /\ \A i \in 1..Len(s) : t[i] = s[i]
      /\ t[Len(s) + 1] = f[1]
  <2>1. IsJoin(t, s, f)
    BY <1>3, <1>4, Joins
  <2>. QED  BY <1>2, <1>4, <2>1 DEF IsJoin
<1>6. rt \in Seq(Ids) /\ Len(rt) = L + 1 /\ rt[L + 1] = id
      /\ \A i \in 1..L : rt[i] = rs[i]
  BY <1>1, MoreOf
<1>7. PICK more : more = [k \in 0..(L + 1) |-> IF k <= L THEN off[k] ELSE Len(t)]
  OBVIOUS
<1>8. \A k \in 0..L : off[k] \in Nat /\ off[k] <= Len(s)
  BY <1>1, <1>5, OffsetsAre
<1>9. (\A k \in 0..L : more[k] = off[k]) /\ more[L + 1] = Len(t)
  BY <1>7
<1>10. off[0] = first /\ off[L] = Len(s) /\ \A j, k \in 0..L : j < k => off[j] < off[k]
  BY <1>1 DEF Queued
<1>11. more \in Offsets(t, rt)
  <2>1. \A k \in 0..(L + 1) : (IF k <= L THEN off[k] ELSE Len(t)) \in 0..Len(t)
    BY <1>2, <1>5, <1>8
  <2>. QED  BY <1>6, <1>7, <2>1 DEF Offsets
<1>12. more[0] = first /\ more[Len(rt)] = Len(t)
  BY <1>6, <1>9, <1>10
<1>13. \A j, k \in 0..Len(rt) : j < k => more[j] < more[k]
  <2>. SUFFICES ASSUME NEW j \in 0..(L + 1), NEW k \in 0..(L + 1), j < k
                PROVE  more[j] < more[k]
    BY <1>6
  <2>1. CASE k = L + 1
    <3>1. \A i \in 0..L : more[i] < Len(t)
      <4>. SUFFICES ASSUME NEW i \in 0..L PROVE more[i] < Len(t)
        OBVIOUS
      <4>1. more[i] \in Nat /\ more[i] <= Len(s)
        BY <1>5, <1>8, <1>9
      <4>. QED  BY <1>2, <1>5, <4>1
    <3>2. j \in 0..L
      BY <1>1, <2>1
    <3>. QED  BY <1>9, <2>1, <3>1, <3>2
  <2>2. CASE k \in 0..L
    <3>1. j \in 0..L
      BY <1>1, <2>2
    <3>. QED  BY <1>9, <1>10, <2>2, <3>1
  <2>. QED  BY <1>1, <2>1, <2>2
<1>14. ASSUME NEW k \in 1..Len(rt)
       PROVE  /\ t[more[k - 1] + 1].id = rt[k]
              /\ t[more[k - 1] + 1].length <= MAX_LENGTH
              /\ more[k] = more[k - 1] + t[more[k - 1] + 1].length + 1
  <2>1. CASE k = L + 1
    <3>1. rt[k] = id /\ more[k] = Len(t) /\ more[k - 1] = Len(s)
      BY <1>6, <1>9, <1>10, <2>1
    <3>2. t[more[k - 1] + 1] = f[1]
      BY <1>5, <3>1
    <3>3. t[more[k - 1] + 1].id = id /\ t[more[k - 1] + 1].length = b
      BY <1>4, <3>2
    <3>4. more[k] = more[k - 1] + b + 1
      BY <1>2, <1>5, <3>1
    <3>. QED  BY <1>2, <3>1, <3>3, <3>4
  <2>2. CASE k \in 1..L
    <3>1. k \in 0..L /\ k - 1 \in 0..L
      BY <2>2
    <3>2. rt[k] = rs[k] /\ more[k] = off[k] /\ more[k - 1] = off[k - 1]
          /\ off[k] \in Nat /\ off[k] <= Len(s) /\ off[k - 1] \in Nat
      BY <1>6, <1>8, <1>9, <2>2, <3>1
    <3>3. /\ s[off[k - 1] + 1].id = rs[k] /\ s[off[k - 1] + 1].length <= MAX_LENGTH
          /\ off[k] = off[k - 1] + s[off[k - 1] + 1].length + 1
      BY <1>1, <2>2 DEF Queued
    <3>4. off[k - 1] + 1 \in 1..Len(s)
      <4>1. off[k - 1] < off[k]
        BY <1>10, <3>1
      <4>. QED  BY <1>5, <3>2, <4>1, SMTT(30)
    <3>5. t[off[k - 1] + 1] = s[off[k - 1] + 1]
      BY <1>5, <3>4
    <3>. QED  BY <3>2, <3>3, <3>5
  <2>3. k = L + 1 \/ k \in 1..L
    BY <1>6
  <2>. QED  BY <2>1, <2>2, <2>3
<1>15. Queued(t, rt, first, more)
  BY <1>12, <1>13, <1>14 DEF Queued
<1>. QED  BY <1>11, <1>15

(* d units are taken off the front, none of them of a request.              *)
LEMMA QueuedCut ==
    ASSUME NEW s \in Seq(Unit), NEW rs \in Seq(Ids), NEW first \in Nat, NEW d \in 0..Len(s),
           d <= first, NEW off \in Offsets(s, rs), Queued(s, rs, first, off),
           NEW t, t = SubSeq(s, d + 1, Len(s))
    PROVE  \E less \in Offsets(t, rs) : Queued(t, rs, first - d, less)
<1>1. PICK L \in Nat : L = Len(rs)
  OBVIOUS
<1>2. Len(s) \in Nat /\ d \in Nat
  OBVIOUS
<1>3. t \in Seq(Unit) /\ Len(t) = Len(s) - d
      /\ \A i \in 1..(Len(s) - d) : t[i] = s[d + i]
  BY Cuts DEF IsCut
<1>4. PICK less : less = [k \in 0..L |-> off[k] - d]
  OBVIOUS
<1>5. \A k \in 0..L : off[k] \in Nat /\ off[k] <= Len(s)
  BY <1>1, <1>2, OffsetsAre
<1>6. off[0] = first /\ off[L] = Len(s) /\ \A j, k \in 0..L : j < k => off[j] < off[k]
  BY <1>1 DEF Queued
<1>7. ASSUME NEW k \in 0..L
      PROVE  /\ less[k] = off[k] - d /\ off[k] \in Nat /\ off[k] <= Len(s) /\ off[k] >= d
             /\ off[k] - d \in 0..Len(t)
  <2>1. less[k] = off[k] - d /\ off[k] \in Nat /\ off[k] <= Len(s)
    BY <1>4, <1>5
  <2>2. off[k] >= first
    <3>1. CASE k = 0
      BY <1>6, <3>1
    <3>2. CASE k # 0
      <4>1. off[0] < off[k]
        BY <1>1, <1>6, <3>2
      <4>. QED  BY <1>6, <2>1, <4>1
    <3>. QED  BY <3>1, <3>2
  <2>3. PICK e \in Nat : e = off[k]
    BY <2>1
  <2>4. e \in Nat /\ e <= Len(s) /\ e >= d
    BY <1>2, <2>1, <2>2, <2>3
  <2>5. e - d \in 0..Len(t)
    BY <1>2, <1>3, <2>4
  <2>. QED  BY <2>1, <2>3, <2>4, <2>5
<1>8. less \in Offsets(t, rs)
  BY <1>1, <1>4, <1>7 DEF Offsets
<1>9. less[0] = first - d /\ less[Len(rs)] = Len(t)
  <2>1. less[0] = off[0] - d /\ less[L] = off[L] - d
    BY <1>1, <1>4
  <2>. QED  BY <1>1, <1>3, <1>6, <2>1
<1>10. \A j, k \in 0..Len(rs) : j < k => less[j] < less[k]
  <2>. SUFFICES ASSUME NEW j \in 0..L, NEW k \in 0..L, j < k
                PROVE  less[j] < less[k]
    BY <1>1
  <2>1. off[j] < off[k]
    BY <1>6
  <2>2. /\ off[j] \in Nat /\ less[j] = off[j] - d
        /\ off[k] \in Nat /\ less[k] = off[k] - d
    BY <1>7
  <2>. QED  BY <1>2, <2>1, <2>2
<1>11. ASSUME NEW k \in 1..Len(rs)
       PROVE  /\ t[less[k - 1] + 1].id = rs[k]
              /\ t[less[k - 1] + 1].length <= MAX_LENGTH
              /\ less[k] = less[k - 1] + t[less[k - 1] + 1].length + 1
  <2>1. PICK j \in 0..L : j = k - 1 /\ j < k /\ k \in 0..L
    BY <1>1
  <2>2. /\ less[k] = off[k] - d /\ less[j] = off[j] - d
        /\ off[k] \in Nat /\ off[j] \in Nat /\ off[j] >= d /\ off[k] <= Len(s)
        /\ off[j] < off[k]
    BY <1>6, <1>7, <2>1
  <2>3. PICK u : u = s[off[j] + 1]
    OBVIOUS
  <2>4. u.id = rs[k] /\ u.length <= MAX_LENGTH /\ off[k] = off[j] + u.length + 1
    BY <2>1, <2>3 DEF Queued
  <2>5. PICK e \in Nat : e = off[j]
    BY <2>2
  <2>6. e \in Nat /\ e >= d /\ e < Len(s)
    BY <1>2, <2>2, <2>5
  <2>7. (e - d) + 1 \in 1..(Len(s) - d) /\ d + ((e - d) + 1) = e + 1
    BY <1>2, <2>6
  <2>8. t[less[j] + 1] = u
    BY <1>3, <2>2, <2>3, <2>5, <2>7
  <2>9. u.length \in Nat
    <3>1. e + 1 \in 1..Len(s)
      BY <1>2, <2>6
    <3>2. u \in Unit
      BY <2>3, <2>5, <3>1
    <3>. QED  BY <3>2, Constants DEF Unit
  <2>10. less[k] = less[j] + u.length + 1
    BY <1>2, <2>2, <2>4, <2>9, SMTT(30)
  <2>. QED  BY <2>1, <2>4, <2>8, <2>10
<1>12. Queued(t, rs, first - d, less)
  BY <1>9, <1>10, <1>11 DEF Queued
<1>. QED  BY <1>8, <1>12

(* The stream begins with the header of the oldest request.                 *)
LEMMA QueuedHead ==
    ASSUME NEW s \in Seq(Unit), NEW rs \in Seq(Ids), s # <<>>,
           NEW off \in Offsets(s, rs), Queued(s, rs, 0, off),
           NEW t, t = Tail(rs)
    PROVE  /\ rs # <<>>
           /\ decode_header(Head(s)) = {[ok |-> TRUE, id |-> rs[1], length |-> Head(s).length]}
           /\ Head(s).length \in 0..MAX_LENGTH /\ Head(s).length + 1 <= Len(s)
           /\ \E less \in Offsets(s, t) : Queued(s, t, Head(s).length + 1, less)
<1>1. PICK L \in Nat : L = Len(rs)
  OBVIOUS
<1>2. Len(s) \in Nat \ {0} /\ Head(s) = s[1] /\ s[1] \in Unit
  OBVIOUS
<1>3. off[0] = 0 /\ off[L] = Len(s) /\ \A j, k \in 0..L : j < k => off[j] < off[k]
  BY <1>1 DEF Queued
<1>4. L # 0
  BY <1>2, <1>3
<1>5. rs # <<>> /\ rs[1] \in Ids
  BY <1>1, <1>4
<1>6. PICK u \in Unit : u = s[1]
  BY <1>2
<1>7. u.id = rs[1] /\ u.length <= MAX_LENGTH /\ off[1] = u.length + 1
      /\ u.length \in 0..MAX_LENGTH /\ u.length \in Nat
  <2>1. 1 \in 1..Len(rs)
    BY <1>1, <1>4
  <2>2. /\ s[off[1 - 1] + 1].id = rs[1] /\ s[off[1 - 1] + 1].length <= MAX_LENGTH
        /\ off[1] = off[1 - 1] + s[off[1 - 1] + 1].length + 1
    BY <2>1 DEF Queued
  <2>3. off[1 - 1] = 0 /\ s[off[1 - 1] + 1] = u
    BY <1>3, <1>6
  <2>4. u.length \in Nat
    BY Constants DEF Unit
  <2>5. u.length <= MAX_LENGTH /\ u.id = rs[1] /\ off[1] = u.length + 1
    BY <2>2, <2>3, <2>4
  <2>. QED  BY <2>4, <2>5, Constants
<1>8. \A k \in 0..L : off[k] \in Nat /\ off[k] <= Len(s)
  BY <1>1, <1>2, OffsetsAre
<1>9. u.length + 1 <= Len(s)
  <2>1. 1 \in 0..L
    BY <1>1, <1>4
  <2>. QED  BY <1>7, <1>8, <2>1
<1>10. decode_header(Head(s)) = {[ok |-> TRUE, id |-> rs[1], length |-> Head(s).length]}
  <2>1. u.id # -1
    BY <1>5, <1>7, Constants
  <2>2. decode_header(u) = {[ok |-> TRUE, id |-> u.id, length |-> u.length]}
    BY <1>7, <2>1, Decoded
  <2>. QED  BY <1>2, <1>6, <1>7, <2>2
<1>11. t \in Seq(Ids) /\ Len(t) = L - 1 /\ \A i \in 1..(L - 1) : t[i] = rs[i + 1]
  BY <1>1, <1>5, LessOf
<1>12. PICK less : less = [k \in 0..(L - 1) |-> off[k + 1]]
  OBVIOUS
<1>13. ASSUME NEW k \in 0..(L - 1)
       PROVE  less[k] = off[k + 1] /\ k + 1 \in 0..L /\ off[k + 1] \in 0..Len(s)
  <2>1. k + 1 \in 0..L
    BY <1>1
  <2>2. off[k + 1] \in Nat /\ off[k + 1] <= Len(s)
    BY <1>8, <2>1
  <2>. QED  BY <1>2, <1>12, <2>1, <2>2
<1>14. less \in Offsets(s, t)
  BY <1>11, <1>12, <1>13 DEF Offsets
<1>15. less[0] = u.length + 1 /\ less[Len(t)] = Len(s)
  <2>1. 0 \in 0..(L - 1) /\ L - 1 \in 0..(L - 1) /\ (L - 1) + 1 = L
    BY <1>1, <1>4
  <2>2. less[0] = off[1]
    BY <1>13, <2>1
  <2>3. less[L - 1] = off[L]
    BY <1>13, <2>1
  <2>. QED  BY <1>3, <1>7, <1>11, <2>2, <2>3
<1>16. \A j, k \in 0..Len(t) : j < k => less[j] < less[k]
  <2>. SUFFICES ASSUME NEW j \in 0..(L - 1), NEW k \in 0..(L - 1), j < k
                PROVE  less[j] < less[k]
    BY <1>11
  <2>1. j + 1 \in 0..L /\ k + 1 \in 0..L /\ j + 1 < k + 1
    BY <1>13
  <2>2. off[j + 1] < off[k + 1]
    BY <1>3, <2>1
  <2>. QED  BY <1>13, <2>2
<1>17. ASSUME NEW k \in 1..Len(t)
       PROVE  /\ s[less[k - 1] + 1].id = t[k]
              /\ s[less[k - 1] + 1].length <= MAX_LENGTH
              /\ less[k] = less[k - 1] + s[less[k - 1] + 1].length + 1
  <2>1. k \in 0..(L - 1) /\ k - 1 \in 0..(L - 1) /\ k + 1 \in 1..L
        /\ (k + 1) - 1 = k /\ (k - 1) + 1 = k /\ k \in 1..(L - 1)
    BY <1>1, <1>11
  <2>2. less[k] = off[k + 1] /\ t[k] = rs[k + 1]
    BY <1>11, <1>13, <2>1
  <2>3. less[k - 1] = off[k]
    BY <1>13, <2>1
  <2>4. /\ s[off[k] + 1].id = rs[k + 1] /\ s[off[k] + 1].length <= MAX_LENGTH
        /\ off[k + 1] = off[k] + s[off[k] + 1].length + 1
    BY <1>1, <2>1 DEF Queued
  <2>. QED  BY <2>2, <2>3, <2>4
<1>18. Queued(s, t, u.length + 1, less)
  BY <1>15, <1>16, <1>17 DEF Queued
<1>. QED  BY <1>2, <1>5, <1>6, <1>7, <1>9, <1>10, <1>14, <1>18

---------------------------------------------------------------------------
(* What the server gives to deliver() is a frame at the end of the stream,  *)
(* or is not sent.                                                          *)
LEMMA DeliverStep ==
    ASSUME TypeOK, FrameInv, NEW id \in Ids, NEW text \in Nat,
           NEW a \in Ids \cup {NoRequest}, NEW ok \in BOOLEAN, Deliver(id, text, a, ok),
           UNCHANGED got
    PROVE  /\ s2c' \in Seq(Unit) /\ said' \in Seq(Message) /\ FrameInv'
           /\ \/ said' = said
              \/ client = "runs"
                 /\ said' = Append(said, [id |-> id, text |-> text, answers |-> a])
<1>1. s2c \in Seq(Unit) /\ said \in Seq(Message) /\ got \in Nat /\ client \in {"runs", "ended"}
  BY DEF TypeOK
<1>2. CASE ~(ok /\ client = "runs")
  BY <1>1, <1>2 DEF Deliver, FrameInv
<1>3. CASE ok /\ client = "runs"
  <2>1. PICK m \in Message : m = [id |-> id, text |-> text, answers |-> a]
    BY DEF Message
  <2>2. m.id = id /\ m.text = text
    BY <2>1
  <2>3. said' = Append(said, m) /\ s2c' = s2c \o MsgNode(id, text, got + Len(said'))
    BY <1>3, <2>1 DEF Deliver
  <2>4. PICK s \in Seq(Unit) : s = s2c
    BY <1>1
  <2>5. PICK ms \in Seq(Message) : ms = said
    BY <1>1
  <2>6. PICK g \in Nat : g = got
    BY <1>1
  <2>7. PICK off \in Offsets(s, ms) : Framed(s, ms, g, off)
    BY <2>4, <2>5, <2>6 DEF FrameInv
  <2>8. PICK mt : mt = Append(ms, m)
    OBVIOUS
  <2>9. PICK t : t = s \o MsgNode(m.id, m.text, g + Len(ms) + 1)
    OBVIOUS
  <2>10. mt \in Seq(Message) /\ Len(mt) = Len(ms) + 1 /\ Len(ms) \in Nat
    BY <2>1, <2>5, <2>8, MoreOf
  <2>11. said' = mt /\ got' = g
    BY <2>3, <2>5, <2>6, <2>8
  <2>12. g + Len(mt) = g + Len(ms) + 1
    BY <2>6, <2>10
  <2>13. s2c' = t
    BY <2>2, <2>3, <2>4, <2>6, <2>9, <2>11, <2>12
  <2>14. \E more \in Offsets(t, mt) : Framed(t, mt, g, more)
    BY <2>1, <2>4, <2>5, <2>6, <2>7, <2>8, <2>9, FramedAppend, ZenonT(60)
  <2>15. t \in Seq(Unit)
    <3>1. PICK of \in Nat : of = g + Len(ms) + 1
      BY <2>6, <2>10
    <3>2. PICK n \in Seq(Unit) : n = MsgNode(id, text, of)
      BY <3>1, NodeUnits DEF IsFrame
    <3>3. t = s \o n
      BY <2>2, <2>9, <3>1, <3>2
    <3>. QED  BY <2>4, <3>2, <3>3
  <2>. QED  BY <1>3, <2>1, <2>3, <2>10, <2>11, <2>13, <2>14, <2>15 DEF FrameInv
<1>. QED  BY <1>1, <1>2, <1>3

PairedWith(id, request) ==
    request # NoRequest /\ id \in {request, get_response_id(enum_cast(request))}

LEMMA PairedSame ==
    ASSUME AnswersPaired, honest' => honest, said' = said
    PROVE  AnswersPaired'
BY DEF AnswersPaired

LEMMA PairedAppend ==
    ASSUME TypeOK, AnswersPaired, UNCHANGED honest, NEW m \in Message,
           said' = Append(said, m), honest => PairedWith(m.id, m.answers)
    PROVE  AnswersPaired'
<1>. SUFFICES ASSUME honest, NEW i \in DOMAIN said'
              PROVE  PairedWith(said'[i].id, said'[i].answers)
  BY DEF AnswersPaired, PairedWith
<1>1. PICK s \in Seq(Message) : s = said
  BY DEF TypeOK
<1>2. PICK r : r = Append(s, m)
  OBVIOUS
<1>3. r \in Seq(Message) /\ Len(r) = Len(s) + 1 /\ Len(s) \in Nat /\ r[Len(s) + 1] = m
      /\ \A j \in 1..Len(s) : r[j] = s[j]
  BY <1>1, <1>2, MoreOf
<1>4. said' = r /\ DOMAIN r = 1..(Len(s) + 1) /\ DOMAIN s = 1..Len(s)
  BY <1>1, <1>2, <1>3
<1>5. i = Len(s) + 1 \/ i \in 1..Len(s)
  BY <1>3, <1>4
<1>6. CASE i = Len(s) + 1
  BY <1>3, <1>4, <1>6
<1>7. CASE i \in 1..Len(s)
  <2>1. said'[i] = said[i] /\ i \in DOMAIN said
    BY <1>1, <1>3, <1>4, <1>7
  <2>. QED  BY <2>1 DEF AnswersPaired, PairedWith
<1>. QED  BY <1>5, <1>6, <1>7

(* A notification.                                                          *)
LEMMA NotifyStep == Inv /\ Notify => Inv'
<1>. SUFFICES ASSUME Inv, Notify PROVE Inv'
  OBVIOUS
<1>1. PICK text \in Texts, ok \in BOOLEAN :
         Deliver(Notification, text, Notification, ok)
  BY DEF Notify
<1>2. Notification \in Ids /\ Notification # NoRequest /\ text \in Nat
  BY <1>1, Constants DEF Texts, Envelope, MessageId, NoRequest
<1>3. notified' = notified + 1
      /\ UNCHANGED <<c2s, socket_, reader, read_msg, is_authenticated_, requests,
                     dropped, client, sends, got, honest>>
  BY DEF Notify, peer
<1>4. /\ s2c' \in Seq(Unit) /\ said' \in Seq(Message) /\ FrameInv'
      /\ \/ said' = said
         \/ client = "runs"
            /\ said' = Append(said, [id |-> Notification, text |-> text,
                                     answers |-> Notification])
  BY <1>1, <1>2, <1>3, DeliverStep DEF Inv
<1>5. TypeOK'
  BY <1>3, <1>4 DEF Inv, TypeOK
<1>6. ReaderInv' /\ RequestInv'
  BY <1>3 DEF Inv, ReaderInv, RequestInv
<1>7. AnswersPaired'
  <2>1. CASE said' = said
    BY <1>3, <2>1, PairedSame DEF Inv
  <2>2. CASE said' # said
    <3>1. PICK m \in Message : m = [id |-> Notification, text |-> text,
                                    answers |-> Notification]
      BY <1>2 DEF Message
    <3>2. PairedWith(m.id, m.answers) /\ said' = Append(said, m)
      BY <1>2, <1>4, <2>2, <3>1 DEF PairedWith
    <3>. QED  BY <1>3, <3>1, <3>2, PairedAppend DEF Inv
  <2>. QED  BY <2>1, <2>2
<1>. QED  BY <1>4, <1>5, <1>6, <1>7 DEF Inv

---------------------------------------------------------------------------
LEMMA NewMessageTyped == NewMessage \in [id : Ids \cup {0}, length : 0..MAX_LENGTH]
BY Constants DEF NewMessage

(* The connection is closed, and nothing is read any more.                  *)
LEMMA StopStep ==
    ASSUME Inv, Stop, UNCHANGED <<answering, is_authenticated_, notified, peer>>
    PROVE  Inv'
<1>1. /\ socket_' = "closed" /\ reader' = "done" /\ read_msg' = NewMessage /\ c2s' = <<>>
      /\ UNCHANGED <<s2c, requests, said, dropped, is_authenticated_, notified, client, sends, got,
                     honest>>
  BY DEF Stop, answering, peer
<1>2. TypeOK'
  BY <1>1, NewMessageTyped DEF Inv, TypeOK
<1>3. ReaderInv' /\ RequestInv' /\ FrameInv'
  BY <1>1 DEF Inv, ReaderInv, RequestInv, FrameInv
<1>4. AnswersPaired'
  BY <1>1, PairedSame DEF Inv
<1>. QED  BY <1>2, <1>3, <1>4 DEF Inv

LEMMA ReadPrefixStep == Inv /\ ReadPrefix => Inv'
<1>. SUFFICES ASSUME Inv, ReadPrefix PROVE Inv'
  OBVIOUS
<1>1. reader = "prefix" /\ c2s # <<>>
      /\ UNCHANGED <<answering, is_authenticated_, notified, peer>>
  BY DEF ReadPrefix
<1>2. PICK header \in decode_header(Head(c2s)) :
         IF ~header.ok THEN Stop
         ELSE /\ c2s' = Tail(c2s)
              /\ read_msg' = [id |-> header.id, length |-> header.length]
              /\ reader' = "body" /\ UNCHANGED socket_
  BY DEF ReadPrefix
<1>3. CASE ~header.ok
  BY <1>1, <1>2, <1>3, StopStep
<1>4. CASE header.ok
  <2>1. /\ UNCHANGED <<s2c, requests, said, dropped, is_authenticated_, notified, client, sends, got,
                       honest, socket_>>
        /\ c2s' = Tail(c2s) /\ reader' = "body"
        /\ read_msg' = [id |-> header.id, length |-> header.length]
    BY <1>1, <1>2, <1>4 DEF answering, peer
  <2>2. PICK s \in Seq(Unit) : s = c2s /\ s # <<>>
    BY <1>1 DEF Inv, TypeOK
  <2>3. PICK t : t = Tail(s)
    OBVIOUS
  <2>4. t \in Seq(Unit) /\ Len(t) = Len(s) - 1 /\ Len(s) \in Nat \ {0} /\ Head(s) = s[1]
        /\ s[1] \in Unit
    BY <2>2, <2>3, LessOf
  <2>5. header.id \in Ids /\ header.length \in 0..MAX_LENGTH
    <3>1. PICK u \in Unit : u = Head(s)
      BY <2>4
    <3>2. PICK h \in decode_header(u) : h = header
      BY <1>2, <2>2, <3>1
    <3>. QED  BY <3>1, <3>2, DecodeTyped
  <2>6. TypeOK'
    <3>1. socket_ = "open"
      BY <1>1 DEF Inv, TypeOK
    <3>2. read_msg' \in [id : Ids \cup {0}, length : 0..MAX_LENGTH]
      BY <2>1, <2>5
    <3>. QED  BY <2>1, <2>2, <2>3, <2>4, <3>1, <3>2 DEF Inv, TypeOK
  <2>7. ReaderInv' /\ FrameInv'
    BY <2>1, <2>5 DEF Inv, ReaderInv, FrameInv
  <2>8. AnswersPaired'
    BY <2>1, PairedSame DEF Inv
  <2>9. RequestInv'
    <3>. SUFFICES ASSUME honest, client = "runs"
                  PROVE  /\ requests # <<>> /\ Head(requests) = header.id
                         /\ \E off \in Offsets(t, Tail(requests)) :
                               Queued(t, Tail(requests), header.length, off)
      BY <2>1, <2>2, <2>3 DEF RequestInv
    <3>1. PICK rs \in Seq(Ids) : rs = requests
      BY DEF Inv, TypeOK
    <3>2. PICK off \in Offsets(s, rs) : Queued(s, rs, 0, off)
      BY <1>1, <2>2, <3>1 DEF Inv, RequestInv
    <3>3. PICK rt : rt = Tail(rs)
      OBVIOUS
    <3>4. /\ rs # <<>>
          /\ decode_header(Head(s))
                = {[ok |-> TRUE, id |-> rs[1], length |-> Head(s).length]}
          /\ Head(s).length \in 0..MAX_LENGTH /\ Head(s).length + 1 <= Len(s)
          /\ \E less \in Offsets(s, rt) : Queued(s, rt, Head(s).length + 1, less)
      BY <2>2, <3>1, <3>2, <3>3, QueuedHead
    <3>5. PICK l \in Nat : l = Head(s).length
      BY <3>4, Constants
    <3>6. header.id = rs[1] /\ header.length = l
      BY <1>2, <2>2, <3>4, <3>5
    <3>7. rt \in Seq(Ids) /\ Head(rs) = rs[1]
      BY <3>1, <3>3, <3>4, LessOf
    <3>8. PICK less \in Offsets(s, rt) : Queued(s, rt, l + 1, less)
      BY <3>4, <3>5
    <3>9. t = SubSeq(s, 1 + 1, Len(s))
      BY <2>2, <2>3, <2>4
    <3>10. \E last \in Offsets(t, rt) : Queued(t, rt, (l + 1) - 1, last)
      <4>1. 1 \in 0..Len(s) /\ l + 1 \in Nat /\ 1 <= l + 1
        BY <2>4, <3>5
      <4>2. PICK f \in Nat : f = l + 1 /\ 1 <= f
        BY <4>1
      <4>3. PICK d \in 0..Len(s) : d = 1
        BY <4>1
      <4>4. \E last \in Offsets(t, rt) : Queued(t, rt, f - d, last)
        BY <2>2, <3>7, <3>8, <3>9, <4>2, <4>3, QueuedCut
      <4>. QED  BY <4>2, <4>3, <4>4
    <3>11. (l + 1) - 1 = l
      BY <3>5
    <3>. QED  BY <3>1, <3>3, <3>4, <3>6, <3>7, <3>10, <3>11
  <2>. QED  BY <2>6, <2>7, <2>8, <2>9 DEF Inv
<1>. QED  BY <1>3, <1>4

LEMMA ReadBodyStep == Inv /\ ReadBody => Inv'
<1>. SUFFICES ASSUME Inv, ReadBody PROVE Inv'
  OBVIOUS
<1>1. /\ reader = "body" /\ Len(c2s) >= read_msg.length /\ reader' = "handle"
      /\ c2s' = SubSeq(c2s, read_msg.length + 1, Len(c2s))
      /\ UNCHANGED <<s2c, requests, said, dropped, is_authenticated_, notified, client, sends, got,
                     honest, socket_, read_msg>>
  BY DEF ReadBody, answering, peer
<1>2. PICK s \in Seq(Unit) : s = c2s
  BY DEF Inv, TypeOK
<1>3. PICK d \in 0..Len(s) : d = read_msg.length
  <2>1. read_msg.length \in Nat /\ Len(s) \in Nat
    BY <1>2, Constants DEF Inv, TypeOK
  <2>. QED  BY <1>1, <1>2, <2>1
<1>4. PICK t : t = SubSeq(s, d + 1, Len(s))
  OBVIOUS
<1>5. c2s' = t /\ t \in Seq(Unit)
  BY <1>1, <1>2, <1>3, <1>4, Cuts DEF IsCut
<1>6. TypeOK'
  BY <1>1, <1>5 DEF Inv, TypeOK
<1>7. ReaderInv' /\ FrameInv'
  BY <1>1 DEF Inv, ReaderInv, FrameInv
<1>8. AnswersPaired'
  BY <1>1, PairedSame DEF Inv
<1>9. RequestInv'
  <2>. SUFFICES ASSUME honest, client = "runs"
                PROVE  /\ requests # <<>> /\ Head(requests) = read_msg.id
                       /\ \E off \in Offsets(t, Tail(requests)) :
                             Queued(t, Tail(requests), 0, off)
    BY <1>1, <1>5 DEF RequestInv
  <2>1. requests # <<>> /\ Head(requests) = read_msg.id
        /\ \E off \in Offsets(c2s, Tail(requests)) :
              Queued(c2s, Tail(requests), read_msg.length, off)
    BY <1>1 DEF Inv, RequestInv
  <2>2. PICK rs \in Seq(Ids) : rs = requests
    BY DEF Inv, TypeOK
  <2>3. PICK rt : rt = Tail(rs)
    OBVIOUS
  <2>4. rt \in Seq(Ids)
    BY <2>1, <2>2, <2>3, LessOf
  <2>5. PICK f \in Nat : f = d
    BY <1>3
  <2>6. f \in Nat /\ d \in 0..Len(s) /\ d <= f
    BY <1>3, <2>5
  <2>7. PICK off \in Offsets(s, rt) : Queued(s, rt, f, off)
    BY <1>2, <1>3, <2>1, <2>2, <2>3, <2>5
  <2>8. \E less \in Offsets(t, rt) : Queued(t, rt, f - d, less)
    BY <1>2, <1>4, <2>4, <2>7, <2>6, QueuedCut
  <2>9. f - d = 0
    BY <2>5
  <2>. QED  BY <2>1, <2>2, <2>3, <2>8, <2>9
<1>. QED  BY <1>6, <1>7, <1>8, <1>9 DEF Inv
---------------------------------------------------------------------------
LEMMA ResponseIds ==
    /\ \A x : get_response_id(x) \in Ids
    /\ get_response_id(LoginRequest) = LoginResponse
    /\ \A x \in Ids : x # NoRequest
<1>1. \A x : get_response_id(x) \in MessageId
  BY DEF get_response_id, MessageId
<1>2. get_response_id(LoginRequest) = LoginResponse
  BY WireAssumption DEF get_response_id
<1>. QED  BY <1>1, <1>2, Constants DEF NoRequest

(* What a reply leaves: a frame more, and a request less to answer.         *)
Replied ==
    /\ s2c' \in Seq(Unit) /\ said' \in Seq(Message) /\ requests' \in Seq(Ids)
    /\ dropped' \in BOOLEAN
    /\ FrameInv' /\ AnswersPaired'
    /\ honest /\ client = "runs" => requests # <<>> /\ requests' = Tail(requests)

(* The request that is handled is the oldest of those not answered.         *)
LEMMA ReplyStep ==
    ASSUME Inv, reader = "handle", NEW id, NEW text \in Nat, NEW ok \in BOOLEAN, Reply(id, text, ok),
           id \in {read_msg.id, get_response_id(enum_cast(read_msg.id))},
           UNCHANGED <<got, client, honest>>
    PROVE  Replied
<1>1. TypeOK /\ FrameInv /\ AnswersPaired /\ requests \in Seq(Ids)
      /\ read_msg.id \in Ids /\ client \in {"runs", "ended"}
  BY DEF Inv, ReaderInv, TypeOK
<1>2. id \in Ids
  BY <1>1, ResponseIds
<1>3. honest /\ client = "runs" => requests # <<>> /\ Head(requests) = read_msg.id
  BY DEF Inv, RequestInv
<1>4. PICK a \in Ids \cup {NoRequest} :
         /\ Deliver(id, text, a, ok)
         /\ honest /\ client = "runs" => a = read_msg.id
         /\ requests' \in Seq(Ids) /\ (requests # <<>> => requests' = Tail(requests))
  <2>1. CASE requests = <<>>
    BY <1>1, <1>3, <2>1 DEF Reply
  <2>2. CASE requests # <<>>
    <3>1. PICK rs \in Seq(Ids) : rs = requests
      BY <1>1
    <3>2. Head(rs) \in Ids /\ Tail(rs) \in Seq(Ids)
      BY <2>2, <3>1
    <3>3. Deliver(id, text, Head(rs), ok) /\ requests' = Tail(rs)
      BY <2>2, <3>1 DEF Reply
    <3>. QED  BY <1>3, <2>2, <3>1, <3>2, <3>3
  <2>. QED  BY <2>1, <2>2
<1>5. /\ s2c' \in Seq(Unit) /\ said' \in Seq(Message) /\ FrameInv'
      /\ \/ said' = said
         \/ client = "runs"
            /\ said' = Append(said, [id |-> id, text |-> text, answers |-> a])
  BY <1>1, <1>2, <1>4, DeliverStep
<1>6. AnswersPaired'
  <2>1. CASE said' = said
    BY <1>1, <2>1, PairedSame
  <2>2. CASE said' # said
    <3>1. PICK m \in Message : m = [id |-> id, text |-> text, answers |-> a]
      BY <1>2, <1>4 DEF Message
    <3>2. client = "runs" /\ said' = Append(said, m) /\ m.id = id /\ m.answers = a
      BY <1>5, <2>2, <3>1
    <3>3. honest => PairedWith(m.id, m.answers)
      BY <1>1, <1>4, <3>2, ResponseIds DEF PairedWith
    <3>. QED  BY <1>1, <3>1, <3>2, <3>3, PairedAppend
  <2>. QED  BY <2>1, <2>2
<1>7. dropped' \in BOOLEAN
  BY Zenon DEF Reply
<1>. QED  BY <1>3, <1>4, <1>5, <1>6, <1>7 DEF Replied

(* After the reply the reader goes on with the next request.                *)
LEMMA GoesOn ==
    ASSUME Inv, reader = "handle", Replied, Continue,
           is_authenticated_' \in BOOLEAN, UNCHANGED <<notified, peer>>
    PROVE  Inv'
<1>1. /\ reader' = "prefix" /\ read_msg' = NewMessage
      /\ UNCHANGED <<c2s, socket_, notified, client, sends, got, honest>>
  BY DEF peer, Continue
<1>2. TypeOK'
  <2>1. socket_ = "open" \/ socket_ # "closed"
    BY DEF Inv, TypeOK
  <2>. QED  BY <1>1, <2>1, NewMessageTyped DEF Inv, TypeOK, Replied
<1>3. ReaderInv'
  BY <1>1 DEF ReaderInv
<1>4. RequestInv'
  BY <1>1 DEF Inv, RequestInv, Replied
<1>. QED  BY <1>2, <1>3, <1>4 DEF Inv, Replied

LEMMA HandleStep == Inv /\ Handler => Inv'
<1>. SUFFICES ASSUME Inv, Handler PROVE Inv'
  OBVIOUS
<1>1. Envelope \in Nat /\ 0 \in Nat /\ \A text \in Texts : text \in Nat
  BY Constants DEF Envelope, Texts
<1>2. is_authenticated_ \in BOOLEAN /\ read_msg.id \in Ids \cup {0}
  BY DEF Inv, TypeOK
<1>3. CASE HandleRefused
  <2>1. /\ reader = "handle"
        /\ UNCHANGED <<is_authenticated_, notified, client, sends, got, honest>>
    BY <1>3 DEF HandleRefused, peer
  <2>2. PICK ok \in BOOLEAN :
           /\ IF ok THEN Stop ELSE Continue
           /\ \/ Reply(read_msg.id, Envelope, ok)
              \/ enum_cast(read_msg.id) = LoginRequest /\ Reply(LoginResponse, Envelope, ok)
    BY <1>3 DEF HandleRefused
  <2>3. PICK id \in {read_msg.id, get_response_id(enum_cast(read_msg.id))} :
           Reply(id, Envelope, ok)
    BY <2>2, ResponseIds
  <2>4. Replied
    BY <1>1, <2>1, <2>3, ReplyStep
  <2>5. CASE ok
    <3>1. socket_' = "closed" /\ reader' = "done" /\ read_msg' = NewMessage /\ c2s' = <<>>
      BY <2>2, <2>5 DEF Stop
    <3>2. TypeOK'
      BY <2>1, <2>4, <3>1, NewMessageTyped DEF Inv, TypeOK, Replied
    <3>3. ReaderInv' /\ RequestInv'
      BY <3>1 DEF ReaderInv, RequestInv
    <3>. QED  BY <2>4, <3>2, <3>3 DEF Inv, Replied
  <2>6. CASE ~ok
    <3>1. Continue /\ UNCHANGED <<notified, peer>> /\ is_authenticated_' \in BOOLEAN
      BY <1>2, <2>1, <2>2, <2>6 DEF peer
    <3>. QED  BY <2>1, <2>4, <3>1, GoesOn
  <2>. QED  BY <2>5, <2>6
<1>4. CASE HandleUnknown
  <2>1. PICK ok \in BOOLEAN : Reply(read_msg.id, 0, ok)
    BY <1>4 DEF HandleUnknown
  <2>2. Replied
    BY <1>1, <1>4, <2>1, ReplyStep DEF HandleUnknown, peer
  <2>. QED  BY <1>2, <1>4, <2>2, GoesOn DEF HandleUnknown
<1>5. CASE HandleRpcFailed
  <2>1. PICK ok \in BOOLEAN : Reply(read_msg.id, Envelope, ok)
    BY <1>5 DEF HandleRpcFailed
  <2>2. Replied
    BY <1>1, <1>5, <2>1, ReplyStep DEF HandleRpcFailed, peer
  <2>. QED  BY <1>2, <1>5, <2>2, GoesOn DEF HandleRpcFailed
<1>6. CASE HandleRequest
  <2>1. PICK text \in Texts, ok \in BOOLEAN :
           Reply(get_response_id(enum_cast(read_msg.id)), text, ok)
    BY <1>6 DEF HandleRequest
  <2>2. Replied
    BY <1>1, <1>6, <2>1, ReplyStep DEF HandleRequest, peer
  <2>3. is_authenticated_' \in BOOLEAN
    BY <1>2, <1>6, Zenon DEF HandleRequest
  <2>. QED  BY <1>6, <2>2, <2>3, GoesOn DEF HandleRequest
<1>. QED  BY <1>3, <1>4, <1>5, <1>6 DEF Handler
---------------------------------------------------------------------------
(* The steps of the client.                                                 *)
LEMMA NoneFramed ==
    /\ \A g : \E off \in Offsets(<<>>, <<>>) : Framed(<<>>, <<>>, g, off)
    /\ \E off \in Offsets(<<>>, <<>>) : Queued(<<>>, <<>>, 0, off)
<1>1. PICK off : off = [k \in 0..0 |-> 0]
  OBVIOUS
<1>2. off \in Offsets(<<>>, <<>>) /\ off[0] = 0
  BY <1>1 DEF Offsets
<1>3. \A g : Framed(<<>>, <<>>, g, off)
  BY <1>2 DEF Framed
<1>4. Queued(<<>>, <<>>, 0, off)
  BY <1>2 DEF Queued
<1>. QED  BY <1>2, <1>3, <1>4

LEMMA SendStep ==
    ASSUME Inv, NEW id \in Ids, NEW l \in Nat, NEW b \in Nat, Send(id, l, b),
           honest' \in BOOLEAN, honest' => honest
    PROVE  /\ TypeOK' /\ ReaderInv' /\ FrameInv' /\ AnswersPaired'
           /\ c2s' = c2s \o Frame(id, l, b, 0)
<1>1. /\ c2s' = c2s \o <<encode_header(id, l, 0)>> \o Body(b, 0) /\ sends' = sends + 1
      /\ requests' = IF honest' THEN Append(requests, id) ELSE <<>>
      /\ UNCHANGED <<s2c, socket_, client, reader, read_msg, is_authenticated_, got, notified,
                     said, dropped>>
  BY DEF Send
<1>2. PICK h \in Unit : h = encode_header(id, l, 0)
  <2>1. PICK k \in 0..(LengthRange - 1) : k = l % LengthRange
    BY Narrow
  <2>. QED  BY <2>1, Typing DEF encode_header
<1>3. PICK s \in Seq(Unit) : s = Body(b, 0)
  BY BodyTyped
<1>4. PICK c \in Seq(Unit) : c = c2s
  BY DEF Inv, TypeOK
<1>5. (c \o <<h>>) \o s = c \o (<<h>> \o s) /\ (c \o <<h>>) \o s \in Seq(Unit)
  BY <1>2, <1>3, <1>4
<1>6. c2s' = c2s \o Frame(id, l, b, 0) /\ c2s' \in Seq(Unit)
  BY <1>1, <1>2, <1>3, <1>4, <1>5 DEF Frame
<1>7. requests' \in Seq(Ids)
  <2>1. PICK rs \in Seq(Ids) : rs = requests
    BY DEF Inv, TypeOK
  <2>. QED  BY <1>1, <2>1
<1>8. TypeOK'
  BY <1>1, <1>6, <1>7 DEF Inv, TypeOK
<1>9. ReaderInv' /\ FrameInv'
  BY <1>1 DEF Inv, ReaderInv, FrameInv
<1>10. AnswersPaired'
  BY <1>1, PairedSame DEF Inv
<1>. QED  BY <1>6, <1>8, <1>9, <1>10

LEMMA AppendTail ==
    ASSUME NEW rs \in Seq(Ids), rs # <<>>, NEW id \in Ids
    PROVE  /\ Append(rs, id) # <<>> /\ Head(Append(rs, id)) = Head(rs)
           /\ Tail(Append(rs, id)) = Append(Tail(rs), id) /\ Tail(rs) \in Seq(Ids)
<1>1. Tail(rs) \in Seq(Ids) /\ Append(rs, id) \in Seq(Ids) /\ Append(rs, id) # <<>>
      /\ Head(Append(rs, id)) = Head(rs)
  OBVIOUS
<1>2. Tail(Append(rs, id)) = Append(Tail(rs), id)
  OBVIOUS
<1>. QED  BY <1>1, <1>2

LEMMA SendMessageStep ==
    ASSUME Inv, NEW id \in RequestIds, NEW l \in 0..MAX_LENGTH, send_message(id, l)
    PROVE  Inv'
<1>1. client = "runs" /\ honest' = honest /\ Send(id, l, l)
  BY DEF send_message, MaySend
<1>2. id \in Ids /\ l \in Nat /\ honest \in BOOLEAN
  BY Constants DEF Inv, TypeOK
<1>3. /\ TypeOK' /\ ReaderInv' /\ FrameInv' /\ AnswersPaired'
      /\ c2s' = c2s \o Frame(id, l, l, 0)
  BY <1>1, <1>2, SendStep
<1>4. RequestInv'
  <2>. SUFFICES ASSUME honest PROVE RequestInv'
    BY <1>1 DEF RequestInv
  <2>1. requests' = Append(requests, id) /\ UNCHANGED <<reader, read_msg, client>>
    BY <1>1 DEF Send
  <2>2. PICK c \in Seq(Unit) : c = c2s
    BY DEF Inv, TypeOK
  <2>3. PICK rs \in Seq(Ids) : rs = requests
    BY DEF Inv, TypeOK
  <2>4. PICK t : t = c \o Frame(id, l, l, 0)
    OBVIOUS
  <2>5. PICK rt : rt = Append(rs, id)
    OBVIOUS
  <2>6. c2s' = t /\ requests' = rt
    BY <1>3, <2>1, <2>2, <2>3, <2>4, <2>5
  <2>7. CASE reader = "prefix"
    <3>1. PICK off \in Offsets(c, rs) : Queued(c, rs, 0, off)
      BY <1>1, <2>2, <2>3, <2>7 DEF Inv, RequestInv
    <3>2. \E more \in Offsets(t, rt) : Queued(t, rt, 0, more)
      BY <1>2, <2>2, <2>3, <2>4, <2>5, <3>1, QueuedAppend
    <3>. QED  BY <2>1, <2>6, <2>7, <3>2 DEF RequestInv
  <2>8. CASE reader \in {"body", "handle"}
    <3>1. PICK first : first = IF reader = "body" THEN read_msg.length ELSE 0
      OBVIOUS
    <3>2. PICK rest : rest = Tail(rs)
      OBVIOUS
    <3>3. rs # <<>> /\ Head(rs) = read_msg.id
          /\ \E off \in Offsets(c, rest) : Queued(c, rest, first, off)
      BY <1>1, <2>2, <2>3, <2>8, <3>1, <3>2 DEF Inv, RequestInv
    <3>4. rest \in Seq(Ids) /\ rt # <<>> /\ Head(rt) = Head(rs)
          /\ Tail(rt) = Append(rest, id)
      BY <1>2, <2>3, <2>5, <3>2, <3>3, AppendTail
    <3>5. PICK off \in Offsets(c, rest) : Queued(c, rest, first, off)
      BY <3>3
    <3>6. PICK longer : longer = Append(rest, id)
      OBVIOUS
    <3>7. \E more \in Offsets(t, longer) : Queued(t, longer, first, more)
      BY <1>2, <2>2, <2>4, <3>4, <3>5, <3>6, QueuedAppend
    <3>. QED  BY <2>1, <2>6, <2>8, <3>1, <3>3, <3>4, <3>6, <3>7 DEF RequestInv
  <2>9. CASE reader = "done"
    BY <2>1, <2>9 DEF RequestInv
  <2>. QED  BY <2>7, <2>8, <2>9 DEF Inv, TypeOK
<1>. QED  BY <1>3, <1>4 DEF Inv

LEMMA MisleadingStep ==
    ASSUME Inv, NEW l \in 0..(MAX_LENGTH + 1), NEW b \in 0..(MAX_LENGTH + 1),
           SendsMisleadingHeader(OtherRequest, l, b)
    PROVE  Inv'
<1>1. honest' = FALSE /\ Send(OtherRequest, l, b) /\ honest
  BY DEF SendsMisleadingHeader
<1>2. OtherRequest \in Ids /\ l \in Nat /\ b \in Nat
  BY Constants DEF MessageId
<1>3. TypeOK' /\ ReaderInv' /\ FrameInv' /\ AnswersPaired'
  BY <1>1, <1>2, SendStep
<1>4. RequestInv'
  BY <1>1 DEF RequestInv
<1>. QED  BY <1>3, <1>4 DEF Inv

LEMMA EndsStep == Inv /\ Ends => Inv'
<1>. SUFFICES ASSUME Inv, Ends PROVE Inv'
  OBVIOUS
<1>1. /\ client' = "ended" /\ s2c' = <<>> /\ said' = <<>> /\ requests' = <<>>
      /\ UNCHANGED <<c2s, socket_, reader, read_msg, is_authenticated_, sends, got,
                     notified, dropped, honest>>
  BY DEF Ends, Leaves
<1>2. TypeOK'
  BY <1>1 DEF Inv, TypeOK
<1>3. ReaderInv' /\ RequestInv'
  BY <1>1 DEF Inv, ReaderInv, RequestInv
<1>4. FrameInv'
  BY <1>1, NoneFramed DEF FrameInv
<1>5. AnswersPaired'
  BY <1>1 DEF AnswersPaired
<1>. QED  BY <1>2, <1>3, <1>4, <1>5 DEF Inv

(* What the client receives is the oldest message.                          *)
LEMMA ReceiveStep == Inv /\ recv_and_print => Inv'
<1>. SUFFICES ASSUME Inv, recv_and_print PROVE Inv'
  OBVIOUS
<1>1. s2c # <<>> /\ UNCHANGED <<c2s, socket_, reader, read_msg, is_authenticated_, sends,
                                notified, dropped, honest>>
  BY DEF recv_and_print
<1>2. PICK s \in Seq(Unit) : s = s2c
  BY DEF Inv, TypeOK
<1>3. PICK ms \in Seq(Message) : ms = said
  BY DEF Inv, TypeOK
<1>4. PICK g \in Nat : g = got
  BY DEF Inv, TypeOK
<1>5. PICK off \in Offsets(s, ms) : Framed(s, ms, g, off)
  BY <1>2, <1>3, <1>4 DEF Inv, FrameInv
<1>6. ms # <<>>
  BY <1>1, <1>2, <1>3, <1>4, <1>5, FramedHead
<1>7. PICK b : b = set_body_length(ms[1].text)
  OBVIOUS
<1>8. /\ b \in 0..MAX_LENGTH /\ off[1] = b + 1 /\ b + 1 <= Len(s)
      /\ decode_header(Head(s)) = {[ok |-> TRUE, id |-> ms[1].id, length |-> b]}
  BY <1>2, <1>3, <1>4, <1>5, <1>6, <1>7, FramedHead
<1>9. /\ s2c' = SubSeq(s, b + 2, Len(s)) /\ said' = Tail(ms) /\ got' = g + 1
      /\ UNCHANGED <<client, requests>>
  <2>1. PICK header \in decode_header(Head(s2c)) :
           \/ ~header.ok /\ Leaves /\ UNCHANGED got
           \/ /\ s2c' = SubSeq(s2c, header.length + 2, Len(s2c))
              /\ said' = Tail(said) /\ got' = got + 1
              /\ UNCHANGED <<client, requests>>
    BY DEF recv_and_print
  <2>2. header = [ok |-> TRUE, id |-> ms[1].id, length |-> b]
    BY <1>2, <1>8, <2>1
  <2>3. header.ok /\ header.length = b
    BY <2>2
  <2>. QED  BY <1>2, <1>3, <1>4, <2>1, <2>3
<1>10. PICK d \in 0..Len(s) : d = b + 1
  BY <1>2, <1>8, Constants
<1>11. FirstEnds(off, d) /\ b + 2 = d + 1
  BY <1>8, <1>10, Constants DEF FirstEnds
<1>12. PICK t : t = SubSeq(s, d + 1, Len(s))
  OBVIOUS
<1>13. PICK mt : mt = Tail(ms)
  OBVIOUS
<1>14. d \in 0..Len(s)
  BY <1>10
<1>15. t \in Seq(Unit) /\ \E less \in Offsets(t, mt) : Framed(t, mt, g + 1, less)
  <2>1. t \in Seq(Unit)
    BY <1>2, <1>12, <1>14, Cuts DEF IsCut
  <2>2. \E less \in Offsets(t, mt) : Framed(t, mt, g + 1, less)
    BY <1>2, <1>3, <1>4, <1>5, <1>6, <1>11, <1>12, <1>13, <1>14, FramedTail
  <2>. QED  BY <2>1, <2>2
<1>16. s2c' = t /\ said' = mt
  BY <1>9, <1>11, <1>12, <1>13
<1>17. mt \in Seq(Message) /\ Len(mt) = Len(ms) - 1 /\ Len(ms) \in Nat \ {0}
       /\ \A i \in 1..(Len(ms) - 1) : mt[i] = ms[i + 1]
  BY <1>3, <1>6, <1>13, LessOf
<1>18. TypeOK'
  <2>1. s2c' \in Seq(Unit)
    BY <1>15, <1>16
  <2>2. said' \in Seq(Message)
    BY <1>16, <1>17
  <2>3. got' \in Nat
    BY <1>4, <1>9
  <2>. QED  BY <1>1, <1>9, <2>1, <2>2, <2>3 DEF Inv, TypeOK
<1>19. ReaderInv' /\ RequestInv'
  BY <1>1, <1>9 DEF Inv, ReaderInv, RequestInv
<1>20. FrameInv'
  BY <1>4, <1>9, <1>15, <1>16 DEF FrameInv
<1>21. AnswersPaired'
  <2>. SUFFICES ASSUME honest, NEW i \in DOMAIN said'
                PROVE  PairedWith(said'[i].id, said'[i].answers)
    BY <1>1 DEF AnswersPaired, PairedWith
  <2>1. i \in 1..(Len(ms) - 1)
    BY <1>16, <1>17
  <2>2. said'[i] = said[i + 1] /\ i + 1 \in DOMAIN said
    BY <1>3, <1>16, <1>17, <2>1
  <2>. QED  BY <2>2 DEF Inv, AnswersPaired, PairedWith
<1>. QED  BY <1>18, <1>19, <1>20, <1>21 DEF Inv

---------------------------------------------------------------------------
LEMMA Initially == Init => Inv
<1>. SUFFICES ASSUME Init PROVE Inv
  OBVIOUS
<1>1. TypeOK
  <2>1. is_authenticated_ \in BOOLEAN /\ honest \in BOOLEAN /\ dropped \in BOOLEAN
    BY Zenon DEF Init
  <2>2. c2s \in Seq(Unit) /\ s2c \in Seq(Unit) /\ requests \in Seq(Ids)
        /\ said \in Seq(Message)
    BY DEF Init
  <2>3. /\ socket_ \in {"open", "closed"} /\ client \in {"runs", "ended"}
        /\ reader \in {"prefix", "body", "handle", "done"}
        /\ reader = "done" <=> socket_ = "closed"
        /\ sends \in Nat /\ got \in Nat /\ notified \in Nat
    BY DEF Init
  <2>4. read_msg \in [id : Ids \cup {0}, length : 0..MAX_LENGTH]
    BY NewMessageTyped DEF Init
  <2>. QED  BY <2>1, <2>2, <2>3, <2>4, Zenon DEF TypeOK
<1>2. ReaderInv /\ AnswersPaired
  BY DEF Init, ReaderInv, AnswersPaired
<1>3. FrameInv /\ RequestInv
  BY NoneFramed DEF Init, FrameInv, RequestInv
<1>. QED  BY <1>1, <1>2, <1>3 DEF Inv

LEMMA Stepwise == Inv /\ [Next]_vars => Inv'
<1>. SUFFICES ASSUME Inv, [Next]_vars PROVE Inv'
  OBVIOUS
<1>1. CASE \E id \in RequestIds, length \in 0..MAX_LENGTH : send_message(id, length)
  BY <1>1, SendMessageStep
<1>2. CASE \E length, bytes \in 0..(MAX_LENGTH + 1) :
              SendsMisleadingHeader(OtherRequest, length, bytes)
  BY <1>2, MisleadingStep
<1>3. CASE recv_and_print
  BY <1>3, ReceiveStep
<1>4. CASE Ends
  BY <1>4, EndsStep
<1>5. CASE Reader
  <2>1. CASE ReadFails
    BY <2>1, StopStep DEF ReadFails
  <2>. QED  BY <1>5, <2>1, ReadPrefixStep, ReadBodyStep DEF Reader
<1>6. CASE Handler
  BY <1>6, HandleStep
<1>7. CASE Notify
  BY <1>7, NotifyStep
<1>8. CASE LoginTimeout
  BY <1>8, StopStep DEF LoginTimeout
<1>9. CASE UNCHANGED vars
  BY <1>9 DEF vars, Inv, TypeOK, ReaderInv, FrameInv, RequestInv, AnswersPaired
<1>. QED
  BY <1>1, <1>2, <1>3, <1>4, <1>5, <1>6, <1>7, <1>8, <1>9 DEF Next

LEMMA Invariance == Spec => []Inv
BY Initially, Stepwise, PTL DEF Spec

(* Type correctness: the length that the reader takes for its next body is  *)
(* at most MAX_LENGTH whatever the header says, so that it never writes     *)
(* past the end of data_ (msg_node.hpp), and the socket is closed exactly   *)
(* when the reader is done.                                                 *)
THEOREM Typed == Spec => []TypeOK
BY Invariance, PTL DEF Inv

(* Whatever the server sends, in any order of answers and notifications,    *)
(* the client reads the messages one by one, each with its own id and body. *)
THEOREM Intact == Spec => []FramesIntact
<1>1. Inv => FramesIntact
  <2>. SUFFICES ASSUME Inv PROVE FramesIntact
    OBVIOUS
  <2>1. PICK s \in Seq(Unit) : s = s2c
    BY DEF Inv, TypeOK
  <2>2. PICK ms \in Seq(Message) : ms = said
    BY DEF Inv, TypeOK
  <2>3. PICK g \in Nat : g = got
    BY DEF Inv, TypeOK
  <2>4. PICK off \in Offsets(s, ms) : Framed(s, ms, g, off)
    BY <2>1, <2>2, <2>3 DEF Inv, FrameInv
  <2>5. said = <<>> <=> s2c = <<>>
    BY <2>1, <2>2, <2>3, <2>4, FramedHead
  <2>6. ASSUME said # <<>>, NEW header \in decode_header(Head(s2c))
        PROVE  /\ header.ok /\ header.length < Len(s2c)
               /\ received(header) = [id |-> Head(said).id, of |-> {got + 1},
                                      length |-> set_body_length(Head(said).text)]
    <3>1. PICK b : b = set_body_length(ms[1].text)
      OBVIOUS
    <3>2. /\ b \in 0..MAX_LENGTH /\ b + 1 <= Len(s)
          /\ decode_header(Head(s)) = {[ok |-> TRUE, id |-> ms[1].id, length |-> b]}
          /\ \A i \in 1..(b + 1) : s[i].of = g + 1
      BY <2>1, <2>2, <2>3, <2>4, <2>6, <3>1, FramedHead
    <3>3. header = [ok |-> TRUE, id |-> ms[1].id, length |-> b]
      BY <2>1, <2>6, <3>2
    <3>4. header.ok /\ header.id = ms[1].id /\ header.length = b
      BY <3>3
    <3>5. header.length < Len(s2c)
      BY <2>1, <3>2, <3>4, Constants
    <3>6. {s2c[i].of : i \in 1..(b + 1)} = {g + 1}
      <4>1. 1 \in 1..(b + 1)
        BY <3>2, Constants
      <4>. QED  BY <2>1, <3>2, <4>1
    <3>7. Head(said) = ms[1]
      BY <2>2, <2>6
    <3>8. received(header) = [id |-> ms[1].id, of |-> {g + 1}, length |-> b]
      BY <3>4, <3>6 DEF received
    <3>. QED  BY <2>3, <3>1, <3>4, <3>5, <3>7, <3>8
  <2>. QED  BY <2>5, <2>6 DEF FramesIntact
<1>. QED  BY <1>1, Invariance, PTL

(* With honest headers the reader, the handlers and the client count the    *)
(* requests alike: whatever their ids, lengths and number, and whichever    *)
(* answers are dropped at a full channel, an answer that reaches the stream *)
(* carries the id of the request it was made for, or of its response.       *)
THEOREM Paired == Spec => []AnswersPaired
BY Invariance, PTL DEF Inv
================================================================================
