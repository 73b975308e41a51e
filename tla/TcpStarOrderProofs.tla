------------------------ MODULE TcpStarOrderProofs -------------------------
(***************************************************************************)
(* Theorems about what the TCP star carries, on top of TcpStarProofs: the  *)
(* way up from a client to the leader (Ups), the order of publications on  *)
(* it (Order), what listeners have heard of the log (Hearing) and how many *)
(* operations there are (Counted). With them streams are whole both ways,  *)
(* a stream keeps the order of its sender, the star implements CastLog,    *)
(* and its state has the types the model states.                           *)
(***************************************************************************)
EXTENDS TcpStarProofs

(* What the leader has read of a message that is not complete yet.         *)
UpPart(s) == IF s.state \in {"none", "helo"} THEN s.in ELSE s.dec

(* The messages of a connection it has yet to read to the end: ids is what *)
(* the client gave the connection to carry.                                *)
UpStill(s, ids) ==
  IF s.state \in {"none", "helo"} THEN <<HELO>> \o ids ELSE Rest(ids, Len(s.took))

(* The rest of the stream: while the client is there it is what the client *)
(* has left to write, and a client whose connection is in progress has     *)
(* written nothing.                                                        *)
UpWay(n, r, s, ids) ==
  \E rest \in Bytes :
    /\ (UpPart(s) \o n.up) \o rest = Frames(UpStill(s, ids))
    /\ n.cgone = FALSE /\ r.st # "CONNECTING" => rest = r.left \o r.out
    /\ n.cgone = FALSE /\ r.st = "CONNECTING" =>
         UpPart(s) = <<>> /\ n.up = <<>> /\ s.state \in {"none", "helo"}

(* What the leader took of a connection is how what it carries begins.     *)
Begun(s, ids) ==
  /\ Len(s.took) <= Len(ids)
  /\ \A i \in 1 .. Len(s.took) : s.took[i] = ids[i]

(* The way up of a connection n of client r with the leader's end s.       *)
Up(n, r, s, ids) ==
  /\ Begun(s, ids)
  /\ n.phase = "unused" => ids = <<>>
  /\ n.phase # "unused" /\ n.cgone = FALSE => ids = r.sent
  /\ n.phase = "up" /\ n.rst = FALSE /\ n.sgone = FALSE => UpWay(n, r, s, ids)

(* The ways up of all connections, with what each was given to carry.      *)
Ups(car) == \A k \in Conns : Up(net[k], cli[net[k].by], slot[k], car[k])

(* The client of a connection it has closed says nothing of it any more.   *)
LEMMA UpOfClosed ==
  ASSUME NEW n, NEW r, NEW t, NEW s, NEW ids, Up(n, r, s, ids),
         n.phase = "unused" \/ n.cgone # FALSE
  PROVE  Up(n, t, s, ids)
BY DEF Up, UpWay

(* A step that leaves the way up as it is.                                 *)
UpSame(n, m, r, t, s, v) ==
  /\ m.phase = n.phase /\ m.up = n.up /\ m.cgone = n.cgone
  /\ m.rst = FALSE => n.rst = FALSE
  /\ m.sgone = FALSE => n.sgone = FALSE
  /\ t.sent = r.sent /\ t.left = r.left /\ t.out = r.out
  /\ (t.st = "CONNECTING") <=> (r.st = "CONNECTING")
  /\ (v.state \in {"none", "helo"}) <=> (s.state \in {"none", "helo"})
  /\ UpPart(v) = UpPart(s) /\ v.took = s.took

(* It leaves what is known of the way up as it is.                         *)
LEMMA UpKept ==
  ASSUME NEW n, NEW m, NEW r, NEW t, NEW s, NEW v, NEW ids,
         Up(n, r, s, ids), UpSame(n, m, r, t, s, v)
  PROVE  Up(m, t, v, ids)
<1>1. Begun(v, ids)
  BY DEF Up, UpSame, Begun
<1>2. UpStill(v, ids) = UpStill(s, ids)
  BY DEF UpSame, UpStill
<1>3. UpWay(n, r, s, ids) => UpWay(m, t, v, ids)
  BY <1>2 DEF UpWay, UpSame
<1> QED BY <1>1, <1>3 DEF Up, UpSame

(* The types of what a connection carries.                                 *)
LEMMA UpTypes ==
  ASSUME NEW n \in WConn, NEW s \in WSlot, NEW ids \in Seq(Int), Begun(s, ids)
  PROVE  /\ UpPart(s) \in Bytes /\ n.up \in Bytes
         /\ UpPart(s) \o n.up \in Bytes
         /\ UpStill(s, ids) \in Seq(Int) /\ Len(s.took) \in 0 .. Len(ids)
<1>1. UpPart(s) \in Bytes /\ n.up \in Bytes
  BY DEF UpPart, WSlot, WConn
<1>2. Len(s.took) \in 0 .. Len(ids)
  <2>1. s.took \in Seq(Int)
    BY DEF WSlot
  <2> QED BY <2>1 DEF Begun
<1>3. UpStill(s, ids) \in Seq(Int)
  <2>1. Rest(ids, Len(s.took)) \in Seq(Int)
    BY <1>2, RestType
  <2>2. <<HELO>> \o ids \in Seq(Int)
    BY DEF HELO
  <2> QED BY <2>1, <2>2 DEF UpStill
<1>4. UpPart(s) \o n.up \in Bytes
  BY <1>1, BytesType
<1> QED BY <1>1, <1>2, <1>3, <1>4

(* More to carry goes to the end of what a client has to write.            *)
UpGrows(r, t, more) ==
  /\ t.st # "CONNECTING" /\ r.st # "CONNECTING"
  /\ t.left \o t.out = (r.left \o r.out) \o Frames(more)

(* The way up then ends with it.                                           *)
LEMMA UpMore ==
  ASSUME NEW n \in WConn, NEW m, NEW r \in WCli, NEW t, NEW s \in WSlot,
         NEW ids \in Seq(Int), NEW more \in Seq(Int),
         Up(n, r, s, ids), UpGrows(r, t, more), t.sent = ids \o more,
         n.phase = "up", n.cgone = FALSE,
         m.phase = "up", m.up = n.up, m.cgone = FALSE, m.rst = n.rst, m.sgone = n.sgone
  PROVE  Up(m, t, s, ids \o more)
<1>1. Begun(s, ids)
  BY DEF Up
<1>2. Begun(s, ids \o more)
  <2>1. Len(s.took) \in 0 .. Len(ids) /\ Len(ids) \in Nat /\ Len(more) \in Nat
    BY <1>1, UpTypes
  <2>2. Len(ids \o more) = Len(ids) + Len(more)
        /\ \A i \in 1 .. Len(ids) : (ids \o more)[i] = ids[i]
    OBVIOUS
  <2> QED BY <1>1, <2>1, <2>2 DEF Begun
<1>3. ASSUME m.rst = FALSE, m.sgone = FALSE
      PROVE  UpWay(m, t, s, ids \o more)
  <2>1. PICK rest \in Bytes : UpWay(n, r, s, ids)!(rest)
    BY <1>3 DEF Up, UpWay
  <2>2. rest = r.left \o r.out
    BY <2>1 DEF UpGrows
  <2> DEFINE a == UpPart(s) \o n.up
             still == UpStill(s, ids)
  <2>3. a \in Bytes /\ still \in Seq(Int)
    BY <1>1, UpTypes
  <2>4. a \o rest = Frames(still)
    BY <2>1
  <2> HIDE DEF a, still
  <2>5. /\ rest \o Frames(more) \in Bytes
        /\ a \o (rest \o Frames(more)) = Frames(still \o more)
    BY <2>3, <2>4, FramesMore
  <2>6. UpStill(s, ids \o more) = still \o more
    <3>1. (<<HELO>> \o ids) \o more = <<HELO>> \o (ids \o more)
      <4>1. <<HELO>> \in Seq(Int)
        BY DEF HELO
      <4> QED BY <4>1, IdsAssoc
    <3>2. Rest(ids \o more, Len(s.took)) = Rest(ids, Len(s.took)) \o more
      <4>1. Len(s.took) \in 0 .. Len(ids)
        BY <1>1, UpTypes
      <4> QED BY <4>1, RestMore
    <3> QED BY <3>1, <3>2 DEF UpStill, still
  <2>7. rest \o Frames(more) = t.left \o t.out
    BY <2>2 DEF UpGrows
  <2>8. (UpPart(s) \o m.up) \o (rest \o Frames(more)) = Frames(UpStill(s, ids \o more))
    BY <2>5, <2>6 DEF a
  <2>9. t.st # "CONNECTING"
    BY DEF UpGrows
  <2> QED BY <2>5, <2>7, <2>8, <2>9 DEF UpWay
<1> QED BY <1>2, <1>3 DEF Up

(* A unit moved from the front of x to the end of b.                       *)
MovedOn(a, b, x) ==
  Tail(x) \in Bytes /\ (a \o Append(b, Head(x))) \o Tail(x) = (a \o b) \o x

(* The stream is the same.                                                 *)
LEMMA SentOn ==
  ASSUME NEW a \in Bytes, NEW b \in Bytes, NEW x \in Bytes, x # <<>>
  PROVE  MovedOn(a, b, x)
BY Sent DEF MovedOn

(* A unit written goes from what is left to what is on the way.            *)
LEMMA UpWritten ==
  ASSUME NEW n \in WConn, NEW m, NEW r \in WCli, NEW t, NEW s \in WSlot, NEW ids \in Seq(Int),
         NEW x \in Bytes, x = r.left \o r.out, x # <<>>,
         Up(n, r, s, ids), UpSent(n, m, Head(x)), n.phase = "up", n.cgone = FALSE,
         t.sent = r.sent, t.left \o t.out = Tail(x),
         t.st # "CONNECTING", r.st # "CONNECTING"
  PROVE  Up(m, t, s, ids)
<1>1. Begun(s, ids) /\ ids = r.sent
  BY DEF Up
<1>2. ASSUME m.rst = FALSE, m.sgone = FALSE
      PROVE  UpWay(m, t, s, ids)
  <2>1. n.rst = FALSE /\ n.sgone = FALSE /\ m.up = Append(n.up, Head(x))
        /\ m.cgone = FALSE
    BY <1>2 DEF UpSent
  <2>2. PICK rest \in Bytes : UpWay(n, r, s, ids)!(rest)
    BY <2>1 DEF Up, UpWay
  <2>3. rest = x
    BY <2>2
  <2> DEFINE a == UpPart(s)
             b == n.up
  <2>4. a \in Bytes /\ b \in Bytes
    BY <1>1, UpTypes
  <2> HIDE DEF a, b
  <2>5. Tail(x) \in Bytes /\ (a \o Append(b, Head(x))) \o Tail(x) = (a \o b) \o x
    <3>1. MovedOn(a, b, x)
      BY <2>4, SentOn
    <3> QED BY <3>1 DEF MovedOn
  <2>6. (UpPart(s) \o m.up) \o Tail(x) = Frames(UpStill(s, ids))
    BY <2>1, <2>2, <2>3, <2>5 DEF a, b
  <2> QED BY <2>5, <2>6 DEF UpWay
<1> QED BY <1>1, <1>2 DEF Up, UpSent

(* A client that closes leaves what it wrote.                              *)
LEMMA UpLeft ==
  ASSUME NEW n, NEW m, NEW r, NEW t, NEW s, NEW ids, Up(n, r, s, ids), Closed(n, m),
         n.phase # "unused"
  PROVE  Up(m, t, s, ids)
BY DEF Up, UpWay, Closed

(* What the leader has cut off it reads no more.                           *)
LEMMA UpCut ==
  ASSUME NEW n, NEW m, NEW r, NEW s, NEW ids \in Seq(Int), Up(n, r, s, ids), Cut(n, m)
  PROVE  Up(m, r, NoSlot, ids)
<1>1. NoSlot.took = <<>> /\ Len(<<>>) = 0
  BY DEF NoSlot
<1>2. Begun(NoSlot, ids)
  <2> DEFINE v == NoSlot
  <2>1. v.took = <<>> /\ Len(v.took) = 0 /\ Len(ids) \in Nat
    BY <1>1
  <2> HIDE DEF v
  <2>2. Begun(v, ids)
    BY <2>1 DEF Begun
  <2> QED BY <2>2 DEF v
<1> QED BY <1>2 DEF Up, Cut

(* A unit on its way up is the next one of what the leader waits for.      *)
LEMMA UpComes ==
  ASSUME NEW n \in WConn, NEW s \in GoodSlot, NEW ids \in Seq(Int), Begun(s, ids),
         NEW rest \in Bytes, (UpPart(s) \o n.up) \o rest = Frames(UpStill(s, ids)),
         n.up # <<>>, s.state # "none"
  PROVE  Comes(UpPart(s), n.up, rest, UpStill(s, ids))
<1> DEFINE part == UpPart(s)
           up == n.up
           still == UpStill(s, ids)
<1>1. s \in WSlot /\ Len(part) < Parts
  BY DEF UpPart, GoodSlot
<1>2. part \in Bytes /\ up \in Bytes /\ still \in Seq(Int)
  BY <1>1, UpTypes
<1>3. still \in Seq(Messages)
  BY <1>2 DEF Messages
<1>4. (part \o up) \o rest = Frames(still) /\ up # <<>>
  OBVIOUS
<1> HIDE DEF part, up, still
<1>5. Comes(part, up, rest, still)
  BY <1>1, <1>2, <1>3, <1>4, FrameComes
<1> QED BY <1>5 DEF part, up, still

(* Before anything is taken everything is still to come.                   *)
LEMMA RestAll ==
  ASSUME NEW ids \in Seq(Int)
  PROVE  Rest(ids, 0) = ids
<1> DEFINE all == Rest(ids, 0)
<1>1. 0 \in 0 .. Len(ids) /\ Len(ids) - 0 = Len(ids)
  OBVIOUS
<1>2. all \in Seq(Int) /\ Len(all) = Len(ids) /\ \A j \in 1 .. Len(ids) : all[j] = ids[0 + j]
  BY <1>1, RestType
<1>3. \A j \in 1 .. Len(ids) : all[j] = ids[j]
  BY <1>2
<1> HIDE DEF all
<1>4. all = ids
  BY <1>2, <1>3, SeqEqual
<1> QED BY <1>4 DEF all

(* The leader reads a unit of the Hello.                                   *)
HeloTaken(n, m, s, v) ==
  LET got == Append(s.in, Head(n.up)) IN
  /\ n.phase = "up" /\ n.up # <<>> /\ s.state = "helo" /\ UpTaken(n, m)
  /\ v.dec = <<>> /\ v.took = <<>>
  /\ \/ Len(got) < Parts /\ v.state = "helo" /\ v.in = got
     \/ got = Packet(HELO) /\ v.state = "wlcm"

(* Behind its last one everything the connection carries is to come.       *)
LEMMA HeloRead ==
  ASSUME NEW n \in WConn, NEW m, NEW r, NEW s \in GoodSlot, NEW v, NEW ids \in Seq(Int),
         Up(n, r, s, ids), HeloTaken(n, m, s, v)
  PROVE  Up(m, r, v, ids)
<1> DEFINE got == Append(s.in, Head(n.up))
<1>1. /\ n.phase = "up" /\ n.up # <<>> /\ s.state = "helo" /\ UpTaken(n, m)
      /\ v.dec = <<>> /\ v.took = <<>>
      /\ \/ Len(got) < Parts /\ v.state = "helo" /\ v.in = got
         \/ got = Packet(HELO) /\ v.state = "wlcm"
  BY DEF HeloTaken
<1> HIDE DEF got
<1>2. /\ m.phase = n.phase /\ m.cgone = n.cgone /\ m.rst = n.rst /\ m.sgone = n.sgone
      /\ m.up = Tail(n.up)
  BY <1>1 DEF UpTaken
<1>3. Begun(s, ids) /\ s.took = <<>>
  BY <1>1 DEF Up, GoodSlot
<1>4. Begun(v, ids)
  BY <1>1, <1>3 DEF Begun
<1>5. ASSUME n.rst = FALSE, n.sgone = FALSE
      PROVE  UpWay(m, r, v, ids)
  <2>1. PICK rest \in Bytes : UpWay(n, r, s, ids)!(rest)
    BY <1>1, <1>5 DEF Up, UpWay
  <2>2. UpPart(s) = s.in /\ UpStill(s, ids) = <<HELO>> \o ids
    BY <1>1 DEF UpPart, UpStill
  <2> DEFINE still == <<HELO>> \o ids
             up == n.up
  <2>3. Comes(s.in, up, rest, still)
    BY <1>1, <1>3, <2>1, <2>2, UpComes
  <2>4. Head(still) = HELO /\ Tail(still) = ids
    BY DEF HELO
  <2> HIDE DEF still
  <2>5. /\ (got \o Tail(up)) \o rest = Frames(still) /\ Tail(up) \in Bytes
        /\ Len(got) = Parts => got = Packet(Head(still)) /\ Tail(up) \o rest = Frames(Tail(still))
    BY <2>3 DEF Comes, got
  <2>6. n.cgone = FALSE => r.st # "CONNECTING" /\ rest = r.left \o r.out
    BY <1>1, <2>1
  <2>7. (UpPart(v) \o m.up) \o rest = Frames(UpStill(v, ids))
    <3>1. CASE Len(got) < Parts /\ v.state = "helo" /\ v.in = got
      <4>1. UpPart(v) = got /\ UpStill(v, ids) = still
        BY <3>1 DEF UpPart, UpStill, still
      <4> QED BY <1>2, <2>5, <4>1
    <3>2. CASE got = Packet(HELO) /\ v.state = "wlcm"
      <4>1. UpPart(v) = <<>> /\ UpStill(v, ids) = ids
        <5>1. UpStill(v, ids) = Rest(ids, 0)
          BY <1>1, <3>2 DEF UpStill
        <5> QED BY <1>1, <3>2, <5>1, RestAll DEF UpPart
      <4>2. Tail(up) \o rest = Frames(ids)
        <5>1. Len(got) = Parts
          BY <3>2, Greetings
        <5> QED BY <2>4, <2>5, <5>1
      <4>3. UpPart(v) \o m.up = Tail(up)
        <5>1. <<>> \o Tail(up) = Tail(up)
          BY <2>5, BytesType
        <5> QED BY <1>2, <4>1, <5>1
      <4> QED BY <4>1, <4>2, <4>3
    <3> QED BY <1>1, <3>1, <3>2
  <2> QED BY <1>2, <2>6, <2>7 DEF UpWay
<1> QED BY <1>1, <1>2, <1>4, <1>5 DEF Up

(* The leader reads a unit of a frame.                                     *)
FrameTaken(n, m, s, v) ==
  LET u == Head(n.up)
      got == Append(s.dec, u) IN
  /\ n.phase = "up" /\ n.up # <<>> /\ s.state = "stream" /\ UpTaken(n, m)
  /\ n.rst = FALSE /\ n.sgone = FALSE
  /\ v.state = "stream"
  /\ v.dec = IF Len(got) = Parts THEN <<>> ELSE got
  /\ v.took = IF Len(got) = Parts THEN Append(s.took, u[1]) ELSE s.took

(* The frame it completes is the next operation of the connection.         *)
FrameCame(n, m, r, s, v, ids) ==
  LET u == Head(n.up)
      got == Append(s.dec, u)
      i == Len(s.took) + 1 IN
  /\ Up(m, r, v, ids)
  /\ Len(got) <= Parts
  /\ Len(got) = Parts => got = Packet(u[1]) /\ i \in 1 .. Len(ids) /\ u[1] = ids[i]

(* So the leader takes the operations of a connection one by one.          *)
LEMMA FrameRead ==
  ASSUME NEW n \in WConn, NEW m, NEW r, NEW s \in GoodSlot, NEW v, NEW ids \in Seq(Int),
         Up(n, r, s, ids), FrameTaken(n, m, s, v)
  PROVE  FrameCame(n, m, r, s, v, ids)
<1> DEFINE u == Head(n.up)
           got == Append(s.dec, u)
           e == Len(s.took)
           i == e + 1
           took == s.took
<1>1. /\ n.phase = "up" /\ n.up # <<>> /\ s.state = "stream" /\ UpTaken(n, m)
      /\ n.rst = FALSE /\ n.sgone = FALSE
      /\ v.state = "stream" /\ v.dec = (IF Len(got) = Parts THEN <<>> ELSE got)
      /\ v.took = IF Len(got) = Parts THEN Append(took, u[1]) ELSE took
  BY DEF FrameTaken
<1>2. /\ m.phase = n.phase /\ m.cgone = n.cgone /\ m.rst = n.rst /\ m.sgone = n.sgone
      /\ m.up = Tail(n.up)
  BY <1>1 DEF UpTaken
<1>3. Begun(s, ids) /\ s \in WSlot
  BY <1>1 DEF Up, GoodSlot
<1>4. PICK rest \in Bytes : UpWay(n, r, s, ids)!(rest)
  BY <1>1 DEF Up, UpWay
<1> DEFINE still == Rest(ids, e)
           up == n.up
<1>5. UpPart(s) = s.dec /\ UpStill(s, ids) = still
  BY <1>1 DEF UpPart, UpStill
<1>6. e \in 0 .. Len(ids) /\ took \in Seq(Int) /\ \A j \in 1 .. e : took[j] = ids[j]
  <2>1. e \in 0 .. Len(ids)
    BY <1>3, UpTypes
  <2> QED BY <1>3, <2>1 DEF WSlot, Begun
<1>7. Comes(s.dec, up, rest, still)
  BY <1>1, <1>3, <1>4, <1>5, UpComes
<1>8. n.cgone = FALSE => r.st # "CONNECTING" /\ rest = r.left \o r.out
  BY <1>1, <1>4
<1> HIDE DEF still
<1>9. /\ (got \o Tail(up)) \o rest = Frames(still) /\ Tail(up) \in Bytes
      /\ still # <<>> /\ u[1] = Head(still) /\ Len(got) <= Parts
      /\ Len(got) = Parts => got = Packet(Head(still)) /\ Tail(up) \o rest = Frames(Tail(still))
  BY <1>7 DEF Comes
<1> HIDE DEF got, u
<1>10. /\ e < Len(ids) /\ i \in 0 .. Len(ids) /\ Head(still) = ids[i]
       /\ Tail(still) = Rest(ids, i)
  <2> HIDE DEF e
  <2> QED BY <1>6, <1>9, RestNext DEF still
<1> HIDE DEF took, e
<1>11. CASE Len(got) # Parts
  <2>1. v.took = took /\ v.dec = got
    BY <1>1, <1>11
  <2>2. Begun(v, ids)
    BY <1>3, <2>1 DEF Begun, took
  <2>3. UpPart(v) = got /\ UpStill(v, ids) = still
    BY <1>1, <2>1 DEF UpPart, UpStill, still, took, e
  <2>4. (UpPart(v) \o m.up) \o rest = Frames(UpStill(v, ids))
    BY <1>2, <1>9, <2>3
  <2>5. UpWay(m, r, v, ids)
    BY <1>2, <1>8, <2>4 DEF UpWay
  <2>6. Up(m, r, v, ids)
    BY <1>1, <1>2, <2>2, <2>5 DEF Up
  <2> QED BY <1>9, <1>11, <2>6 DEF FrameCame, got, u
<1>12. CASE Len(got) = Parts
  <2>1. v.took = Append(took, u[1]) /\ v.dec = <<>> /\ u[1] = ids[i] /\ i \in 1 .. Len(ids)
    BY <1>1, <1>6, <1>9, <1>10, <1>12
  <2>2. Len(v.took) = i /\ \A j \in 1 .. i : v.took[j] = ids[j]
    <3>1. u[1] \in Int
      BY <2>1
    <3>2. /\ Len(v.took) = Len(took) + 1 /\ v.took[Len(took) + 1] = u[1]
          /\ \A j \in 1 .. Len(took) : v.took[j] = took[j]
      BY <1>6, <2>1, <3>1
    <3>3. Len(took) = e /\ e \in Nat
      BY <1>6 DEF e, took
    <3> QED BY <1>6, <2>1, <3>2, <3>3
  <2>3. Begun(v, ids)
    BY <2>1, <2>2 DEF Begun
  <2>4. UpPart(v) = <<>> /\ UpStill(v, ids) = Rest(ids, i)
    BY <1>1, <2>1, <2>2 DEF UpPart, UpStill
  <2>5. (UpPart(v) \o m.up) \o rest = Frames(UpStill(v, ids))
    <3>1. <<>> \o Tail(up) = Tail(up)
      BY <1>9, BytesType
    <3>2. Tail(up) \o rest = Frames(Rest(ids, i))
      BY <1>9, <1>10, <1>12
    <3> QED BY <1>2, <2>4, <3>1, <3>2
  <2>6. UpWay(m, r, v, ids)
    BY <1>2, <1>8, <2>5 DEF UpWay
  <2>7. Up(m, r, v, ids)
    BY <1>1, <1>2, <2>3, <2>6 DEF Up
  <2>8. got = Packet(u[1]) /\ Len(got) <= Parts
    BY <1>9, <1>12
  <2> QED BY <2>1, <2>7, <2>8 DEF FrameCame, got, u, e, took
<1> QED BY <1>11, <1>12

(* What the connections carry.                                             *)
Carrying == [Conns -> Seq(Int)]

(* What is known of the way up of a connection.                            *)
LEMMA AtUp ==
  ASSUME Good, NEW car \in Carrying, Ups(car), NEW k \in Conns
  PROVE  /\ Up(net[k], cli[net[k].by], slot[k], car[k]) /\ car[k] \in Seq(Int)
         /\ net[k] \in GoodConn /\ net[k] \in WConn
         /\ slot[k] \in GoodSlot /\ slot[k] \in WSlot
         /\ net[k].phase # "unused" => net[k].by \in Clients
<1>1. net[k].phase # "unused" => net[k].by \in Clients
  BY Fields DEF GoodConn
<1> QED BY <1>1, Fields DEF Ups, Carrying

(* x is what the connections carry when k is given ids.                    *)
Given(car, k, ids, x) == x = [car EXCEPT ![k] = ids]

(* A step of a client changes the way up of its connection only.           *)
LEMMA ClientUps ==
  ASSUME Good, NEW car \in Carrying, Ups(car), NEW c \in Clients, cli[c].fd # NoFd,
         OthersSame(c, cli[c].fd), slot' = slot, net'[cli[c].fd].by = c,
         NEW ids \in Seq(Int), Up(net'[cli[c].fd], cli'[c], slot[cli[c].fd], ids),
         NEW x, Given(car, cli[c].fd, ids, x)
  PROVE  x \in Carrying /\ Ups(x)'
<1> DEFINE f == cli[c].fd
<1>1. f \in Conns
  BY Fields
<1>2. x \in Carrying /\ x[f] = ids /\ \A k \in Conns : k # f => x[k] = car[k]
  BY <1>1 DEF Carrying, Given
<1>3. ASSUME NEW k \in Conns
      PROVE  Up(net'[k], cli'[net'[k].by], slot'[k], x[k])
  <2>1. CASE k = f
    BY <1>2, <2>1
  <2>2. CASE k # f
    <3>1. /\ net'[k] = net[k] /\ slot'[k] = slot[k] /\ x[k] = car[k]
          /\ Up(net[k], cli[net[k].by], slot[k], car[k])
      BY <1>2, <2>2, AtUp DEF OthersSame
    <3>2. CASE net[k].phase = "unused" \/ net[k].cgone # FALSE
      <4>1. Up(net[k], cli'[net[k].by], slot[k], car[k])
        BY <3>1, <3>2, UpOfClosed
      <4> QED BY <3>1, <4>1
    <3>3. CASE net[k].phase # "unused" /\ net[k].cgone = FALSE
      <4>1. net[k].by \in Clients /\ cli[net[k].by].fd = k
        BY <3>3, AtUp DEF Good, Wired
      <4>2. net[k].by # c
        BY <2>2, <4>1
      <4>3. cli'[net[k].by] = cli[net[k].by]
        BY <4>1, <4>2 DEF OthersSame
      <4> QED BY <3>1, <4>3
    <3> QED BY <3>2, <3>3
  <2> QED BY <2>1, <2>2
<1> QED BY <1>2, <1>3 DEF Ups

(* A client that becomes idle leaves what its connection carries.          *)
LEMMA IdleUps ==
  ASSUME Good, NEW car \in Carrying, Ups(car), NEW c \in Clients, cli[c].fd # NoFd,
         OthersSame(c, cli[c].fd), slot' = slot,
         Closed(net[cli[c].fd], net'[cli[c].fd]), net[cli[c].fd].phase # "unused"
  PROVE  Ups(car)'
<1> DEFINE f == cli[c].fd
           ids == car[f]
<1>1. f \in Conns /\ net[f].by = c /\ net'[f].by = c
  BY Fields DEF Good, Wired, Closed
<1>2. Up(net[f], cli[c], slot[f], ids) /\ ids \in Seq(Int)
  BY <1>1, AtUp
<1>3. Up(net'[f], cli'[c], slot[f], ids)
  BY <1>2, UpLeft
<1>4. PICK x : Given(car, f, ids, x)
  BY DEF Given
<1>5. x = car
  BY <1>1, <1>4 DEF Carrying, Given
<1>6. Ups(x)'
  BY <1>1, <1>2, <1>3, <1>4, ClientUps
<1> QED BY <1>5, <1>6

(* What is known when a client that has a connection takes a step on it.   *)
LEMMA AtClient ==
  ASSUME Good, NEW car \in Carrying, Ups(car), NEW c \in Clients, cli[c].fd # NoFd
  PROVE  LET f == cli[c].fd IN
         /\ f \in Conns /\ net[f].by = c /\ net[f].cgone = FALSE /\ net[f].phase # "unused"
         /\ Up(net[f], cli[c], slot[f], car[f])
         /\ car[f] = cli[c].sent /\ car[f] \in Seq(Int)
         /\ net[f] \in WConn /\ cli[c] \in GoodCli /\ cli[c] \in WCli
         /\ slot[f] \in GoodSlot /\ slot[f] \in WSlot
         /\ cli[c].st # "CONNECTING" => net[f].phase = "up"
<1> DEFINE f == cli[c].fd
<1>1. /\ f \in Conns /\ net[f].by = c /\ net[f].cgone = FALSE /\ net[f].phase # "unused"
      /\ cli[c] \in GoodCli /\ cli[c] \in WCli
      /\ cli[c].st # "CONNECTING" => net[f].phase = "up"
  BY Connected
<1>2. /\ Up(net[f], cli[c], slot[f], car[f]) /\ car[f] \in Seq(Int) /\ net[f] \in WConn
      /\ slot[f] \in GoodSlot /\ slot[f] \in WSlot
  BY <1>1, AtUp
<1>3. car[f] = cli[c].sent
  BY <1>1, <1>2 DEF Up
<1> QED BY <1>1, <1>2, <1>3

(* A step of a client that leaves its way up as it is.                     *)
LEMMA SameUps ==
  ASSUME Good, NEW car \in Carrying, Ups(car), NEW c \in Clients, cli[c].fd # NoFd,
         OthersSame(c, cli[c].fd), slot' = slot, net'[cli[c].fd].by = net[cli[c].fd].by,
         UpSame(net[cli[c].fd], net'[cli[c].fd], cli[c], cli'[c], slot[cli[c].fd], slot[cli[c].fd])
  PROVE  Ups(car)'
<1> DEFINE f == cli[c].fd
           ids == car[f]
<1>1. /\ f \in Conns /\ net'[f].by = c /\ Up(net[f], cli[c], slot[f], ids)
      /\ ids \in Seq(Int)
  BY AtClient
<1>2. Up(net'[f], cli'[c], slot[f], ids)
  BY <1>1, UpKept
<1>3. PICK x : Given(car, f, ids, x)
  BY DEF Given
<1>4. x = car
  BY <1>1, <1>3 DEF Carrying, Given
<1>5. Ups(x)'
  BY <1>1, <1>2, <1>3, ClientUps
<1> QED BY <1>4, <1>5

(* A step of a client that gives its connection more to carry.             *)
LEMMA MoreUps ==
  ASSUME Good, NEW car \in Carrying, Ups(car), NEW c \in Clients, cli[c].fd # NoFd,
         OthersSame(c, cli[c].fd), slot' = slot,
         LET n == net[cli[c].fd]
             m == net'[cli[c].fd] IN
           /\ m.by = n.by /\ m.phase = n.phase /\ m.up = n.up /\ m.cgone = n.cgone
           /\ m.rst = n.rst /\ m.sgone = n.sgone,
         NEW more \in Seq(Int), UpGrows(cli[c], cli'[c], more),
         cli'[c].sent = cli[c].sent \o more,
         NEW x, Given(car, cli[c].fd, cli'[c].sent, x)
  PROVE  x \in Carrying /\ Ups(x)'
<1> DEFINE f == cli[c].fd
           n == net[f]
           m == net'[f]
           r == cli[c]
           t == cli'[c]
           s == slot[f]
           ids == car[f]
           all == ids \o more
<1>1. /\ f \in Conns /\ m.by = c /\ Up(n, r, s, ids) /\ ids \in Seq(Int) /\ ids = r.sent
      /\ n \in WConn /\ r \in WCli /\ s \in WSlot
      /\ n.phase = "up" /\ n.cgone = FALSE
  BY AtClient DEF UpGrows
<1>2. /\ m.phase = "up" /\ m.up = n.up /\ m.cgone = FALSE /\ m.rst = n.rst
      /\ m.sgone = n.sgone /\ UpGrows(r, t, more) /\ t.sent = ids \o more
  BY <1>1
<1>3. Up(m, t, s, all)
  <2> HIDE DEF n, m, r, t, s, ids
  <2> QED BY <1>1, <1>2, UpMore
<1>4. all \in Seq(Int)
  BY <1>1
<1>5. Given(car, f, all, x)
  BY <1>1, <1>2
<1>6. Ups(x)'
  <2>1. /\ Up(net'[cli[c].fd], cli'[c], slot[cli[c].fd], all)
        /\ net'[cli[c].fd].by = c /\ Given(car, cli[c].fd, all, x)
    BY <1>1, <1>3, <1>5
  <2> HIDE DEF all, ids, f, n, m, r, t, s
  <2> QED BY <1>4, <2>1, ClientUps
<1>7. x \in Carrying
  BY <1>1, <1>4, <1>5 DEF Carrying, Given
<1> QED BY <1>6, <1>7

(* A step of a client that gives its connection nothing more to carry.     *)
LEMMA OwnUps ==
  ASSUME Good, NEW car \in Carrying, Ups(car), NEW c \in Clients, cli[c].fd # NoFd,
         OthersSame(c, cli[c].fd), slot' = slot, net'[cli[c].fd].by = net[cli[c].fd].by,
         Up(net'[cli[c].fd], cli'[c], slot[cli[c].fd], car[cli[c].fd])
  PROVE  Ups(car)'
<1> DEFINE f == cli[c].fd
           ids == car[f]
<1>1. f \in Conns /\ net'[f].by = c /\ ids \in Seq(Int)
  BY AtClient
<1>2. PICK x : Given(car, f, ids, x)
  BY DEF Given
<1>3. x = car
  BY <1>1, <1>2 DEF Carrying, Given
<1>4. Ups(x)'
  BY <1>1, <1>2, ClientUps
<1> QED BY <1>3, <1>4

(* A client that gives up leaves what its connection carries.              *)
LEMMA ToIdleUps ==
  ASSUME Good, NEW car \in Carrying, Ups(car), NEW c \in Clients,
         ConnectFails(c) \/ Disconnect(c) \/ HandshakeBreaks(c)
  PROVE  Ups(car)'
<1>1. cli[c].st # "IDLE" /\ ToIdle(c) /\ UNCHANGED <<slot, alive, ops, heard, cast>>
  <2>1. cli[c].cb = "hs" => cli[c].st # "IDLE"
    BY Fields DEF GoodCli
  <2> QED BY <2>1 DEF ConnectFails, Disconnect, HandshakeBreaks
<1>2. /\ OthersSame(c, cli[c].fd) /\ cli[c].fd # NoFd /\ net[cli[c].fd].phase # "unused"
      /\ Closed(net[cli[c].fd], net'[cli[c].fd])
  BY <1>1, ToIdleStep
<1> QED BY <1>1, <1>2, IdleUps

(* The Hello is all that a new connection has to carry.                    *)
LEMMA HelloFirst ==
  ASSUME NEW n, NEW r, NEW s \in GoodSlot, Begun(s, <<>>), s.state \in {"none", "helo"},
         UpPart(s) = <<>>, n.up = <<>>, n.phase # "unused", r.sent = <<>>,
         \/ r.st = "CONNECTING"
         \/ r.left = Packet(HELO) /\ r.out = <<>>
  PROVE  Up(n, r, s, <<>>)
<1> DEFINE rest == Packet(HELO)
<1>1. rest \in Bytes /\ Frames(<<HELO>>) = rest
  BY Greetings, FramesOne
<1>2. UpStill(s, <<>>) = <<HELO>>
  <2>1. <<HELO>> \o <<>> = <<HELO>>
    BY DEF HELO
  <2> QED BY <2>1 DEF UpStill
<1> HIDE DEF rest
<1>3. (UpPart(s) \o n.up) \o rest = rest
  <2>1. <<>> \o <<>> = <<>>
    OBVIOUS
  <2> QED BY <1>1, <2>1, BytesType
<1>4. r.left = rest /\ r.out = <<>> => rest = r.left \o r.out
  BY <1>1, BytesType
<1>5. UpWay(n, r, s, <<>>)
  BY <1>1, <1>2, <1>3, <1>4 DEF UpWay, rest
<1> QED BY <1>5 DEF Up

(* A new connection carries nothing yet.                                   *)
LEMMA ConnectUps ==
  ASSUME Good, NEW car \in Carrying, Ups(car), NEW c \in Clients, NEW k \in Conns,
         NEW async \in Async, Connect(c, k, async)
  PROVE  Ups(car)' /\ car[k] = <<>>
<1> DEFINE j == cli[c].fd
           s == cli'[c]
<1>1. /\ Good' /\ net[k] = NoConn /\ k # j /\ k # NoFd
      /\ \A i \in Conns : net[i].phase # "unused" => i < k
      /\ j # NoFd => j \in Conns /\ Closed(net[j], net'[j]) /\ net[j].phase # "unused"
      /\ \A i \in Conns : i \notin {j, k} => net'[i] = net[i]
      /\ \A d \in Clients : d # c => cli'[d] = cli[d]
      /\ net'[k].phase \in {"syn", "up"} /\ net'[k].by = c
      /\ net'[k].up = <<>> /\ net'[k].down = <<>> /\ net'[k].cgone = FALSE
      /\ net'[k].sgone = FALSE /\ net'[k].rst = FALSE /\ net'[k].base = 0
      /\ s.fd = k /\ s.in = <<>> /\ s.out = <<>> /\ s.dec = <<>> /\ s.sent = <<>>
      /\ s.q = cli[c].q
      /\ \/ s.st = "CONNECTING"
         \/ s.st = "HELO_WR" /\ s.left = Packet(HELO)
  BY ConnectStep
<1>2. slot' = slot
  BY DEF Connect
<1>3. car[k] = <<>> /\ slot[k] = NoSlot
  <2>1. net[k].phase = "unused"
    BY <1>1 DEF NoConn
  <2>2. slot[k].state = "none"
    BY <2>1 DEF Good, Wired
  <2> QED BY <2>1, <2>2, AtUp DEF Up, GoodSlot
<1>4. Up(net'[k], s, slot[k], car[k])
  <2> DEFINE m == net'[k]
             v == slot[k]
  <2>1. /\ v \in GoodSlot /\ v.state = "none" /\ v.in = <<>> /\ v.took = <<>>
    BY <1>3, NoSlotGood DEF NoSlot
  <2>2. UpPart(v) = <<>> /\ Begun(v, <<>>)
    <3> HIDE DEF v
    <3>1. Len(<<>>) = 0
      OBVIOUS
    <3> QED BY <2>1, <3>1 DEF UpPart, Begun
  <2>3. /\ m.up = <<>> /\ m.phase # "unused" /\ s.sent = <<>>
        /\ s.st = "CONNECTING" \/ (s.left = Packet(HELO) /\ s.out = <<>>)
    BY <1>1
  <2> HIDE DEF m, v, s
  <2>4. Up(m, s, v, <<>>)
    BY <2>1, <2>2, <2>3, HelloFirst
  <2> QED BY <1>3, <2>4 DEF m, v
<1>5. ASSUME NEW i \in Conns
      PROVE  Up(net'[i], cli'[net'[i].by], slot'[i], car[i])
  <2>1. CASE i = k
    BY <1>1, <1>2, <1>4, <2>1
  <2>2. CASE i = j /\ i # k
    <3>1. Closed(net[j], net'[j]) /\ net[j].phase # "unused" /\ net'[j].by = c /\ net[j].by = c
      <4>1. j # NoFd
        BY <2>2 DEF Conns, NoFd
      <4> QED BY <1>1, <4>1, Connected DEF Closed
    <3>2. Up(net[j], cli[c], slot[j], car[j])
      BY <2>2, <3>1, AtUp
    <3>3. Up(net'[j], s, slot[j], car[j])
      BY <3>1, <3>2, UpLeft
    <3> QED BY <1>2, <2>2, <3>1, <3>3
  <2>3. CASE i \notin {j, k}
    <3>1. net'[i] = net[i] /\ Up(net[i], cli[net[i].by], slot[i], car[i])
      BY <1>1, <2>3, AtUp
    <3>2. CASE net[i].phase = "unused" \/ net[i].cgone # FALSE
      <4>1. Up(net[i], cli'[net[i].by], slot[i], car[i])
        BY <3>1, <3>2, UpOfClosed
      <4> QED BY <1>2, <3>1, <4>1
    <3>3. CASE net[i].phase # "unused" /\ net[i].cgone = FALSE
      <4>1. net[i].by \in Clients /\ cli[net[i].by].fd = i
        BY <3>3, AtUp DEF Good, Wired
      <4>2. net[i].by # c
        BY <2>3, <4>1
      <4>3. cli'[net[i].by] = cli[net[i].by]
        BY <1>1, <4>1, <4>2
      <4> QED BY <1>2, <3>1, <4>3
    <3> QED BY <3>2, <3>3
  <2> QED BY <2>1, <2>2, <2>3
<1> QED BY <1>3, <1>5 DEF Ups

(* A client that is connected has its Hello to write.                      *)
LEMMA OnConnectUps ==
  ASSUME Good, NEW car \in Carrying, Ups(car), NEW c \in Clients, OnConnect(c)
  PROVE  Ups(car)'
<1> DEFINE k == cli[c].fd
           n == net[k]
           r == cli[c]
           t == cli'[c]
           s == slot[k]
           ids == car[k]
<1>1. /\ Good' /\ OthersSame(c, k) /\ k # NoFd
      /\ r.st \in {"CONNECTING", "HELO_WR"} /\ r.cb = "connect"
      /\ \/ /\ Closed(net[k], net'[k]) /\ net[k].phase # "unused"
            /\ t = IdleClient(r.q)
         \/ /\ net' = net /\ net[k].phase = "up" /\ net[k].rst = FALSE
            /\ t.fd = k /\ t.st = "HELO_WR" /\ t.left = Packet(HELO) /\ t.out = <<>>
            /\ t.in = <<>> /\ t.dec = <<>> /\ t.sent = <<>> /\ t.q = r.q
            /\ t.cb = "connect"
  BY OnConnectStep
<1>2. slot' = slot
  BY DEF OnConnect
<1>3. CASE Closed(net[k], net'[k]) /\ net[k].phase # "unused"
  BY <1>1, <1>2, <1>3, IdleUps
<1>4. CASE /\ net' = net /\ n.phase = "up"
           /\ t.st = "HELO_WR" /\ t.left = Packet(HELO) /\ t.out = <<>> /\ t.sent = <<>>
  <2>1. /\ Up(n, r, s, ids) /\ ids = r.sent /\ n.cgone = FALSE /\ r \in GoodCli
        /\ n \in WConn /\ s \in GoodSlot
    BY <1>1, AtClient
  <2>2. r.sent = <<>> /\ r.out = <<>> /\ (r.st = "HELO_WR" => r.left = Packet(HELO))
    BY <1>1, <2>1 DEF GoodCli
  <2>3. /\ r.st \in {"CONNECTING", "HELO_WR"} /\ n.phase = "up" /\ t.st = "HELO_WR"
        /\ t.left = Packet(HELO) /\ t.out = <<>> /\ t.sent = <<>> /\ ids = <<>>
    BY <1>1, <1>4, <2>1, <2>2
  <2>4. Up(n, t, s, ids)
    <3> HIDE DEF n, r, t, s, ids
    <3>1. CASE r.st = "HELO_WR"
      <4>1. UpSame(n, n, r, t, s, s)
        BY <2>2, <2>3, <3>1 DEF UpSame
      <4> QED BY <2>1, <4>1, UpKept
    <3>2. CASE r.st = "CONNECTING" /\ n.rst = FALSE /\ n.sgone = FALSE
      <4>1. UpWay(n, r, s, ids) /\ Begun(s, ids)
        BY <2>1, <2>3, <3>2 DEF Up
      <4>2. UpPart(s) = <<>> /\ n.up = <<>> /\ s.state \in {"none", "helo"}
        BY <2>1, <3>2, <4>1 DEF UpWay
      <4> QED BY <2>1, <2>3, <4>1, <4>2, HelloFirst
    <3>3. CASE n.rst # FALSE \/ n.sgone # FALSE
      BY <2>1, <2>2, <2>3, <3>3 DEF Up
    <3> QED BY <2>3, <3>1, <3>2, <3>3
  <2> QED BY <1>1, <1>2, <1>4, <2>4, OwnUps
<1> QED BY <1>1, <1>3, <1>4

(* A sequence of units, what is left of it and the frames of operations.   *)
LEMMA SomeBytes ==
  /\ \A x \in Bytes : x \o <<>> = x /\ <<>> \o x = x /\ (x # <<>> => Tail(x) \in Bytes)
  /\ \A ids \in Seq(Int) : Frames(ids) \in Bytes
<1>1. ASSUME NEW x \in Bytes
      PROVE  x \o <<>> = x /\ <<>> \o x = x /\ (x # <<>> => Tail(x) \in Bytes)
  <2>1. x # <<>> => Tail(x) \in Bytes
    BY DEF Bytes
  <2> QED BY <2>1, BytesType
<1>2. ASSUME NEW ids \in Seq(Int)
      PROVE  Frames(ids) \in Bytes
  <2>1. Frames(ids) \in Seq(Unit(Int))
    BY FramesShape
  <2> QED BY <2>1 DEF Bytes, Unit, Messages
<1> QED BY <1>1, <1>2

(* A client that writes a unit leaves what its connection carries.         *)
LEMMA WritingUps ==
  ASSUME Good, NEW car \in Carrying, Ups(car), NEW c \in Clients, cli[c].fd # NoFd,
         OthersSame(c, cli[c].fd), slot' = slot,
         NEW x \in Bytes, x = cli[c].left \o cli[c].out, x # <<>>,
         UpSent(net[cli[c].fd], net'[cli[c].fd], Head(x)),
         cli'[c].left \o cli'[c].out = Tail(x), cli'[c].sent = cli[c].sent,
         cli'[c].st # "CONNECTING", cli[c].st # "CONNECTING"
  PROVE  Ups(car)'
<1> DEFINE f == cli[c].fd
           n == net[f]
           m == net'[f]
           r == cli[c]
           t == cli'[c]
           s == slot[f]
           ids == car[f]
<1>1. /\ n \in WConn /\ r \in WCli /\ s \in WSlot /\ ids \in Seq(Int)
      /\ Up(n, r, s, ids) /\ n.phase = "up" /\ n.cgone = FALSE /\ m.by = n.by
  BY AtClient DEF UpSent
<1>2. /\ UpSent(n, m, Head(x)) /\ t.sent = r.sent /\ t.left \o t.out = Tail(x)
      /\ t.st # "CONNECTING" /\ r.st # "CONNECTING"
  OBVIOUS
<1>3. Up(m, t, s, ids)
  <2> HIDE DEF n, m, r, t, s, ids
  <2>1. x = r.left \o r.out
    BY DEF r
  <2> QED BY <1>1, <1>2, <2>1, UpWritten
<1> QED BY <1>1, <1>3, OwnUps

(* WriteHelo and ClientWrite are such steps.                               *)
LEMMA WriteHeloUps ==
  ASSUME Good, NEW car \in Carrying, Ups(car), NEW c \in Clients, WriteHelo(c)
  PROVE  Ups(car)'
<1> DEFINE k == cli[c].fd
           r == cli[c]
           t == cli'[c]
           x == r.left
<1>1. /\ Good' /\ OthersSame(c, k) /\ k # NoFd
      /\ r.st = "HELO_WR" /\ UpSent(net[k], net'[k], Head(r.left))
      /\ t.st \in {"HELO_WR", "WLCM_RD"} /\ t.left = Tail(r.left) /\ r.left # <<>>
  BY WriteHeloStep
<1>2. slot' = slot
  BY DEF WriteHelo
<1>3. r \in GoodCli /\ r \in WCli /\ t \in GoodCli
  <2>1. Good'
    BY <1>1
  <2>2. t \in GoodCli
    BY <2>1 DEF Good, Records
  <2> QED BY <2>2, Fields
<1>4. /\ r.out = <<>> /\ r.sent = <<>> /\ t.out = <<>> /\ t.sent = <<>>
      /\ x \in Bytes /\ x # <<>>
  BY <1>1, <1>3 DEF GoodCli, WCli
<1>5. x = r.left \o r.out /\ t.left \o t.out = Tail(x) /\ Tail(x) \in Bytes
  <2>1. x \o <<>> = x /\ Tail(x) \in Bytes
    BY <1>4, SomeBytes
  <2>2. Tail(x) \o <<>> = Tail(x)
    BY <2>1, SomeBytes
  <2> QED BY <1>1, <1>4, <2>1, <2>2
<1>6. /\ cli[c].fd # NoFd /\ OthersSame(c, cli[c].fd)
      /\ UpSent(net[cli[c].fd], net'[cli[c].fd], Head(x))
      /\ x = cli[c].left \o cli[c].out /\ cli'[c].left \o cli'[c].out = Tail(x)
      /\ cli'[c].sent = cli[c].sent /\ cli'[c].st # "CONNECTING" /\ cli[c].st # "CONNECTING"
  BY <1>1, <1>4, <1>5
<1> HIDE DEF x, k, r, t
<1> QED BY <1>2, <1>4, <1>6, WritingUps

(* A write on the stream moves a unit on.                                  *)
LEMMA ClientWriteUps ==
  ASSUME Good, NEW car \in Carrying, Ups(car), NEW c \in Clients, ClientWrite(c)
  PROVE  Ups(car)'
<1> DEFINE k == cli[c].fd
           r == cli[c]
           t == cli'[c]
           x == r.out
<1>1. /\ Good' /\ OthersSame(c, k) /\ k # NoFd
      /\ r.st = "STREAM" /\ UpSent(net[k], net'[k], Head(r.out)) /\ r.out # <<>>
      /\ t.st = "STREAM" /\ t.left = <<>> /\ t.out = Tail(r.out) /\ t.sent = r.sent
  BY ClientWriteStep
<1>2. slot' = slot
  BY DEF ClientWrite
<1>3. r \in GoodCli /\ r \in WCli
  BY Fields
<1>4. r.left = <<>> /\ x \in Bytes /\ x # <<>>
  BY <1>1, <1>3 DEF GoodCli, WCli
<1>5. x = r.left \o r.out /\ t.left \o t.out = Tail(x) /\ Tail(x) \in Bytes
  <2>1. <<>> \o x = x /\ Tail(x) \in Bytes
    BY <1>4, SomeBytes
  <2>2. <<>> \o Tail(x) = Tail(x)
    BY <2>1, SomeBytes
  <2> QED BY <1>1, <1>4, <2>1, <2>2
<1>6. /\ cli[c].fd # NoFd /\ OthersSame(c, cli[c].fd)
      /\ UpSent(net[cli[c].fd], net'[cli[c].fd], Head(x))
      /\ x = cli[c].left \o cli[c].out /\ cli'[c].left \o cli'[c].out = Tail(x)
      /\ cli'[c].sent = cli[c].sent /\ cli'[c].st # "CONNECTING" /\ cli[c].st # "CONNECTING"
  BY <1>1, <1>4, <1>5
<1> HIDE DEF x, k, r, t
<1> QED BY <1>2, <1>4, <1>6, WritingUps

(* A client that meets an error or the end of the stream leaves its way up.*)
LEMMA ClientTroubleUps ==
  ASSUME Good, NEW car \in Carrying, Ups(car), NEW c \in Clients, ClientTrouble(c)
  PROVE  Ups(car)'
<1>1. /\ OthersSame(c, cli[c].fd) /\ cli[c].fd # NoFd
      /\ net' = net /\ SameStream(cli[c], cli'[c])
  BY ClientTroubleStep
<1>2. slot' = slot
  BY DEF ClientTrouble
<1>3. UpSame(net[cli[c].fd], net'[cli[c].fd], cli[c], cli'[c], slot[cli[c].fd], slot[cli[c].fd])
  BY <1>1 DEF UpSame, SameStream
<1> QED BY <1>1, <1>2, <1>3, SameUps

(* A client that enters the stream gives its connection what it buffered.  *)
LEMMA ReadWlcmUps ==
  ASSUME Good, NEW car \in Carrying, Ups(car), NEW c \in Clients, ReadWlcm(c)
  PROVE  \/ Ups(car)' /\ cli'[c].q = cli[c].q
         \/ /\ car[cli[c].fd] = <<>> /\ cli'[c].q = <<>> /\ cli[c].fd \in Conns
            /\ net[cli[c].fd].by = c
            /\ \E x \in Carrying : Ups(x)' /\ Given(car, cli[c].fd, cli[c].q, x)
<1> DEFINE k == cli[c].fd
           n == net[k]
           m == net'[k]
           r == cli[c]
           t == cli'[c]
           got == Append(r.in, Head(net[k].down))
<1>1. /\ Good' /\ OthersSame(c, k) /\ k # NoFd /\ r.st = "WLCM_RD"
      /\ \/ /\ DownTaken(n, m)
            /\ t.fd = k /\ t.st = "WLCM_RD" /\ t.left = <<>>
            /\ t.out = <<>> /\ t.sent = <<>> /\ t.q = r.q
         \/ /\ Closed(n, m) /\ n.phase # "unused"
            /\ t = IdleClient(r.q)
         \/ /\ DownTaken(n, m)
            /\ t.st = "STREAM" /\ t.left = <<>>
            /\ t.out = Frames(r.q) /\ t.sent = r.q /\ t.q = <<>>
  BY ReadWlcmStep
<1>2. slot' = slot
  BY DEF ReadWlcm
<1>3. /\ r.left = <<>> /\ r.out = <<>> /\ r.sent = <<>> /\ r.q \in Seq(Int) /\ k \in Conns
      /\ n.by = c /\ car[k] = r.sent
  BY <1>1, AtClient DEF GoodCli, WCli
<1>4. CASE Closed(n, m) /\ n.phase # "unused" /\ t = IdleClient(r.q)
  <2>1. t.q = r.q
    BY <1>4 DEF IdleClient
  <2> QED BY <1>1, <1>2, <1>4, <2>1, IdleUps
<1>5. CASE /\ DownTaken(n, m)
           /\ t.fd = k /\ t.st = "WLCM_RD" /\ t.left = <<>>
           /\ t.out = <<>> /\ t.sent = <<>> /\ t.q = r.q
  <2>1. UpSame(n, m, r, t, slot[k], slot[k]) /\ m.by = n.by
    BY <1>1, <1>3, <1>5 DEF UpSame, DownTaken
  <2> QED BY <1>1, <1>2, <1>5, <2>1, SameUps
<1>6. CASE /\ DownTaken(n, m)
           /\ t.st = "STREAM" /\ t.left = <<>>
           /\ t.out = Frames(r.q) /\ t.sent = r.q /\ t.q = <<>>
  <2> DEFINE more == r.q
  <2>1. UpGrows(r, t, more)
    <3>1. Frames(more) \in Bytes /\ <<>> \in Bytes /\ <<>> \o <<>> = <<>>
      <4>1. more \in Seq(Int) /\ <<>> \in Bytes
        BY <1>3 DEF Bytes
      <4> QED BY <4>1, SomeBytes
    <3>2. <<>> \o Frames(more) = Frames(more)
      BY <3>1, SomeBytes
    <3> QED BY <1>1, <1>3, <1>6, <3>1, <3>2 DEF UpGrows
  <2>2. t.sent = r.sent \o more
    BY <1>3, <1>6
  <2>3. /\ m.by = n.by /\ m.phase = n.phase /\ m.up = n.up /\ m.cgone = n.cgone
        /\ m.rst = n.rst /\ m.sgone = n.sgone
    BY <1>6 DEF DownTaken
  <2>4. PICK x : Given(car, k, t.sent, x)
    BY DEF Given
  <2>5. x \in Carrying /\ Ups(x)'
    <3>1. more \in Seq(Int)
      BY <1>3
    <3> HIDE DEF more
    <3> QED BY <1>1, <1>2, <2>1, <2>2, <2>3, <2>4, <3>1, MoreUps
  <2>6. Given(car, k, r.q, x)
    BY <1>6, <2>4
  <2> QED BY <1>3, <1>6, <2>5, <2>6
<1> QED BY <1>1, <1>4, <1>5, <1>6

(* A client on the stream gives its connection a new operation.            *)
Published1(car, c) ==
  /\ cli[c].st = "STREAM" /\ cli'[c].q = <<>>
  /\ \E x \in Carrying : Ups(x)' /\ Given(car, cli[c].fd, Append(car[cli[c].fd], NewId), x)

(* It goes to the end of what the client has to write.                     *)
LEMMA PublishedUps ==
  ASSUME Good, NEW car \in Carrying, Ups(car), NEW c \in Clients, cli[c].fd # NoFd,
         OthersSame(c, cli[c].fd), slot' = slot,
         LET n == net[cli[c].fd]
             m == net'[cli[c].fd] IN
           /\ m.by = n.by /\ m.phase = n.phase /\ m.up = n.up /\ m.cgone = n.cgone
           /\ m.rst = n.rst /\ m.sgone = n.sgone,
         cli[c].st = "STREAM", cli'[c].st = "STREAM", cli'[c].q = <<>>,
         cli'[c].left = cli[c].left, cli'[c].out = cli[c].out \o Packet(NewId),
         cli'[c].sent = Append(cli[c].sent, NewId)
  PROVE  Published1(car, c)
<1> DEFINE k == cli[c].fd
           r == cli[c]
           t == cli'[c]
           new == NewId
           more == <<new>>
<1>1. new \in Int
  BY DEF NewId, Good, Records
<1>2. /\ r \in WCli /\ car[k] = r.sent /\ k \in Conns
  BY AtClient
<1>3. r.left \in Bytes /\ r.out \in Bytes /\ r.sent \in Seq(Int)
  BY <1>2 DEF WCli
<1>4. Frames(more) = Packet(new) /\ Frames(more) \in Bytes /\ more \in Seq(Int)
  <2> HIDE DEF new
  <2>1. more \in Seq(Int)
    BY <1>1
  <2> QED BY <2>1, FramesOne, SomeBytes
<1>5. t.left \o t.out = (r.left \o r.out) \o Frames(more)
  <2> DEFINE a == r.left
             b == r.out
             f == Frames(more)
  <2>1. a \in Bytes /\ b \in Bytes /\ f \in Bytes
    BY <1>3, <1>4
  <2>2. t.left = a /\ t.out = b \o f
    BY <1>4
  <2> HIDE DEF a, b, f
  <2>3. (a \o b) \o f = a \o (b \o f)
    BY <2>1, BytesAssoc
  <2>4. t.left \o t.out = (a \o b) \o f
    BY <2>2, <2>3
  <2> QED BY <2>4 DEF a, b, f
<1>6. UpGrows(cli[c], cli'[c], more)
  BY <1>5 DEF UpGrows
<1>7. cli'[c].sent = cli[c].sent \o more
  <2> DEFINE old == r.sent
  <2>1. old \in Seq(Int) /\ t.sent = Append(old, new)
    BY <1>3
  <2> HIDE DEF old, new
  <2>2. Append(old, new) = old \o more
    BY <1>1, <2>1
  <2> QED BY <2>1, <2>2 DEF old
<1>8. PICK x : Given(car, cli[c].fd, cli'[c].sent, x)
  BY DEF Given
<1>9. x \in Carrying /\ Ups(x)'
  <2> HIDE DEF more, k, r, t
  <2> QED BY <1>4, <1>6, <1>7, <1>8, MoreUps
<1>10. Given(car, cli[c].fd, Append(car[cli[c].fd], NewId), x)
  BY <1>2, <1>8
<1> QED BY <1>9, <1>10 DEF Published1

(* A client that reads hears, and perhaps answers.                         *)
LEMMA ClientReadUps ==
  ASSUME Good, NEW car \in Carrying, Ups(car), NEW c \in Clients, ClientRead(c)
  PROVE  /\ cli[c].st = "STREAM" /\ cli'[c].q = cli[c].q
         /\ \/ Ups(car)' /\ ops' = ops
            \/ Published1(car, c) /\ ops' = Append(ops, Answer(c))
<1> DEFINE k == cli[c].fd
           r == cli[c]
           t == cli'[c]
           n == net[k]
           m == net'[k]
<1>1. /\ OthersSame(c, k) /\ k # NoFd /\ DownTaken(n, m)
      /\ r.st = "STREAM" /\ t.st = "STREAM" /\ t.left = <<>> /\ t.q = <<>>
      /\ \/ /\ ops' = Append(ops, Answer(c))
            /\ t.out = r.out \o Packet(NewId) /\ t.sent = Append(r.sent, NewId)
         \/ ops' = ops /\ t.out = r.out /\ t.sent = r.sent
  BY ClientReadStep
<1>2. slot' = slot
  BY DEF ClientRead
<1>3. r.left = <<>> /\ r.q = <<>>
  <2>1. r \in GoodCli
    BY Fields
  <2> QED BY <1>1, <2>1 DEF GoodCli
<1>4. /\ m.by = n.by /\ m.phase = n.phase /\ m.up = n.up /\ m.cgone = n.cgone
      /\ m.rst = n.rst /\ m.sgone = n.sgone
  BY <1>1 DEF DownTaken
<1>5. CASE ops' = Append(ops, Answer(c))
           /\ t.out = r.out \o Packet(NewId) /\ t.sent = Append(r.sent, NewId)
  BY <1>1, <1>2, <1>3, <1>4, <1>5, PublishedUps
<1>6. CASE ops' = ops /\ t.out = r.out /\ t.sent = r.sent
  <2>1. UpSame(n, m, r, t, slot[k], slot[k])
    BY <1>1, <1>3, <1>4, <1>6 DEF UpSame
  <2>2. Ups(car)'
    BY <1>1, <1>2, <1>4, <2>1, SameUps
  <2> QED BY <1>1, <1>3, <1>6, <2>2
<1> QED BY <1>1, <1>5, <1>6

(* A client that publishes sends, or buffers, or drops.                    *)
LEMMA ClientPublishUps ==
  ASSUME Good, NEW car \in Carrying, Ups(car), NEW c \in Clients, NEW kind \in DOMAIN MaxOps,
         ClientPublish(c, kind)
  PROVE  \/ Published1(car, c)
         \/ Ups(car)' /\ (cli'[c].q = cli[c].q \/ cli'[c].q = Append(cli[c].q, NewId))
<1> DEFINE r == cli[c]
           t == cli'[c]
           k == r.fd
<1>1. /\ net' = net /\ \A d \in Clients : d # c => cli'[d] = cli[d]
      /\ t.fd = r.fd /\ t.st = r.st /\ t.left = r.left
      /\ \/ /\ r.st = "STREAM" /\ t.q = r.q
            /\ t.out = r.out \o Packet(NewId) /\ t.sent = Append(r.sent, NewId)
         \/ /\ r.st # "STREAM" /\ t.out = r.out /\ t.sent = r.sent
            /\ t.q = r.q \/ t.q = Append(r.q, NewId)
  BY ClientPublishStep
<1>2. slot' = slot
  BY DEF ClientPublish
<1>3. r \in GoodCli
  BY Fields
<1>4. CASE r.st = "STREAM"
  <2>1. /\ k # NoFd /\ t.st = "STREAM" /\ t.q = <<>> /\ OthersSame(c, k)
        /\ t.out = r.out \o Packet(NewId) /\ t.sent = Append(r.sent, NewId)
    BY <1>1, <1>3, <1>4 DEF GoodCli, OthersSame
  <2>2. Published1(car, c)
    BY <1>1, <1>2, <1>4, <2>1, PublishedUps
  <2> QED BY <2>2
<1>5. CASE r.st # "STREAM" /\ k # NoFd
  <2>1. OthersSame(c, k)
    BY <1>1 DEF OthersSame
  <2>2. UpSame(net[k], net'[k], r, t, slot[k], slot[k])
    BY <1>1, <1>5 DEF UpSame
  <2>3. Ups(car)'
    BY <1>1, <1>2, <1>5, <2>1, <2>2, SameUps
  <2> QED BY <1>1, <1>5, <2>3
<1>6. CASE r.st # "STREAM" /\ k = NoFd
  <2>1. ASSUME NEW j \in Conns
        PROVE  Up(net'[j], cli'[net'[j].by], slot'[j], car[j])
    <3>1. Up(net[j], cli[net[j].by], slot[j], car[j]) /\ net'[j] = net[j] /\ slot'[j] = slot[j]
      BY <1>1, <1>2, AtUp
    <3>2. CASE net[j].phase = "unused" \/ net[j].cgone # FALSE
      <4>1. Up(net[j], cli'[net[j].by], slot[j], car[j])
        BY <3>1, <3>2, UpOfClosed
      <4> QED BY <3>1, <4>1
    <3>3. CASE net[j].phase # "unused" /\ net[j].cgone = FALSE
      <4>0. j # NoFd
        BY StarAssumption DEF Conns, NoFd
      <4>1. net[j].by \in Clients /\ cli[net[j].by].fd = j /\ j # NoFd
        BY <3>3, <4>0, AtUp DEF Good, Wired
      <4>2. net[j].by # c
        BY <1>6, <4>1
      <4>3. cli'[net[j].by] = cli[net[j].by]
        BY <1>1, <4>1, <4>2
      <4> QED BY <3>1, <4>3
    <3> QED BY <3>2, <3>3
  <2>2. Ups(car)'
    BY <2>1 DEF Ups
  <2> QED BY <1>1, <1>6, <2>2
<1> QED BY <1>4, <1>5, <1>6

(* A step of the leader, or of the network, on one connection changes the  *)
(* way up of that one only.                                                *)
LEMMA LeaderUps ==
  ASSUME Good, NEW car \in Carrying, Ups(car), NEW k \in Conns, LeaderSame(k),
         net'[k].by = net[k].by, Up(net'[k], cli[net[k].by], slot'[k], car[k])
  PROVE  Ups(car)'
<1>1. ASSUME NEW j \in Conns
      PROVE  Up(net'[j], cli'[net'[j].by], slot'[j], car[j])
  <2>1. CASE j = k
    BY <2>1 DEF LeaderSame
  <2>2. CASE j # k
    BY <2>2, AtUp DEF LeaderSame
  <2> QED BY <2>1, <2>2
<1> QED BY <1>1 DEF Ups

(* A connection that is established, or refused, carried nothing.          *)
LEMMA NetworkUps ==
  ASSUME Good, NEW car \in Carrying, Ups(car), NEW k \in Conns, Establish(k) \/ Refuse(k)
  PROVE  Ups(car)'
<1> DEFINE n == net[k]
           m == net'[k]
           r == cli[n.by]
           s == slot[k]
<1>1. /\ LeaderSame(k) /\ slot' = slot /\ n.phase = "syn" /\ m.phase \in {"up", "refused"}
      /\ m.by = n.by /\ m.cgone = n.cgone /\ m.up = n.up
  BY NetworkStep
<1>2. /\ Up(n, r, s, car[k]) /\ n \in GoodConn /\ n \in WConn /\ s \in GoodSlot
      /\ n.by \in Clients
  BY <1>1, AtUp
<1>3. n.cgone = FALSE /\ n.up = <<>>
  <2>1. ~n.cgone
    BY DEF Establish, Refuse
  <2> QED BY <1>1, <1>2, <2>1 DEF GoodConn, WConn
<1>4. r.fd = k /\ r \in GoodCli
  BY <1>1, <1>2, <1>3, Fields DEF Good, Wired
<1>5. r.st = "CONNECTING"
  <2>1. k # NoFd
    BY StarAssumption DEF Conns, NoFd
  <2> QED BY <1>1, <1>2, <1>4, <2>1 DEF Good, Wired
<1>6. r.sent = <<>> /\ car[k] = <<>>
  BY <1>1, <1>2, <1>3, <1>4, <1>5 DEF GoodCli, Up
<1>7. s.state = "none" /\ UpPart(s) = <<>> /\ Begun(s, <<>>)
  <2>1. s.state = "none"
    BY <1>1 DEF Good, Wired
  <2>2. s.in = <<>>
    BY <1>2, <2>1 DEF GoodSlot, NoSlot
  <2> QED BY <1>2, <1>6, <2>1, <2>2 DEF UpPart, Up
<1>8. m.up = <<>> /\ m.phase # "unused"
  BY <1>1, <1>3
<1>9. Up(m, r, s, <<>>)
  <2> HIDE DEF m, r, s, n
  <2> QED BY <1>2, <1>5, <1>6, <1>7, <1>8, HelloFirst
<1> QED BY <1>1, <1>6, <1>9, LeaderUps

(* The leader cuts a connection off, with what is still on its way up.     *)
LEMMA CutUps ==
  ASSUME Good, NEW car \in Carrying, Ups(car), NEW k \in Conns, LeaderSame(k),
         slot'[k] = NoSlot, Cut(net[k], net'[k])
  PROVE  Ups(car)'
<1>1. Up(net[k], cli[net[k].by], slot[k], car[k]) /\ car[k] \in Seq(Int)
  BY AtUp
<1>2. Up(net'[k], cli[net[k].by], NoSlot, car[k])
  BY <1>1, UpCut
<1> QED BY <1>2, LeaderUps DEF Cut

(* A step of the leader that leaves the way up as it is.                   *)
LEMMA LeaderSameUps ==
  ASSUME Good, NEW car \in Carrying, Ups(car), NEW k \in Conns, LeaderSame(k),
         net'[k].by = net[k].by,
         UpSame(net[k], net'[k], cli[net[k].by], cli[net[k].by], slot[k], slot'[k])
  PROVE  Ups(car)'
<1>1. Up(net[k], cli[net[k].by], slot[k], car[k])
  BY AtUp
<1>2. Up(net'[k], cli[net[k].by], slot'[k], car[k])
  BY <1>1, UpKept
<1> QED BY <1>2, LeaderUps

(* A connection that is accepted still has all to come.                    *)
LEMMA AcceptUps ==
  ASSUME Good, NEW car \in Carrying, Ups(car), NEW k \in Conns, Accept(k)
  PROVE  Ups(car)'
<1> DEFINE n == net[k]
           m == net'[k]
           s == slot[k]
           t == slot'[k]
<1>1. /\ LeaderSame(k) /\ s.state = "none"
      /\ \/ /\ net' = net /\ t.state = "helo" /\ t.in = <<>>
            /\ t.dec = <<>> /\ t.took = <<>> /\ t.out = <<>>
         \/ /\ Cut(n, m) /\ slot' = slot
  BY AcceptStep
<1>2. s = NoSlot
  BY <1>1, Fields DEF GoodSlot
<1>3. CASE Cut(n, m) /\ slot' = slot
  BY <1>1, <1>2, <1>3, CutUps
<1>4. CASE net' = net /\ t.state = "helo" /\ t.in = <<>> /\ t.took = <<>>
  <2>1. s.in = <<>> /\ s.took = <<>>
    BY <1>2 DEF NoSlot
  <2>2. UpPart(s) = <<>> /\ UpPart(t) = <<>>
    BY <1>1, <1>4, <2>1 DEF UpPart
  <2>3. UpSame(n, m, cli[n.by], cli[n.by], s, t)
    BY <1>1, <1>4, <2>1, <2>2 DEF UpSame
  <2> QED BY <1>1, <1>4, <2>3, LeaderSameUps
<1> QED BY <1>1, <1>3, <1>4

(* A connection the leader drops has no way up any more.                   *)
LEMMA ClientLeavesUps ==
  ASSUME Good, NEW car \in Carrying, Ups(car), NEW k \in Conns, ClientLeaves(k)
  PROVE  Ups(car)'
BY ClientLeavesStep, CutUps

(* The leader that reads the Hello takes nothing else.                     *)
LEMMA ReadHeloUps ==
  ASSUME Good, NEW car \in Carrying, Ups(car), NEW k \in Conns, ReadHelo(k)
  PROVE  Ups(car)'
<1> DEFINE n == net[k]
           m == net'[k]
           s == slot[k]
           t == slot'[k]
           got == Append(s.in, Head(n.up))
<1>1. /\ LeaderSame(k) /\ s.state = "helo" /\ n.up # <<>>
      /\ \/ /\ UpTaken(n, m) /\ Len(got) < Parts
            /\ t.state = "helo" /\ t.in = got /\ t.dec = <<>> /\ t.took = <<>>
         \/ Cut(n, m) /\ t = NoSlot
         \/ /\ UpTaken(n, m) /\ got = Packet(HELO)
            /\ t.state = "wlcm" /\ t.dec = <<>> /\ t.took = <<>>
  BY ReadHeloStep
<1>2. CASE Cut(n, m) /\ t = NoSlot
  BY <1>1, <1>2, CutUps
<1>3. CASE ~(Cut(n, m) /\ t = NoSlot)
  <2>1. n.phase = "up"
    BY <1>1 DEF Good, Wired
  <2>2. HeloTaken(n, m, s, t) /\ m.by = n.by
    BY <1>1, <1>3, <2>1 DEF HeloTaken, UpTaken
  <2>3. /\ Up(n, cli[n.by], s, car[k]) /\ car[k] \in Seq(Int) /\ n \in WConn
        /\ s \in GoodSlot
    BY AtUp
  <2> DEFINE r == cli[n.by]
  <2>4. Up(m, r, t, car[k])
    <3> HIDE DEF n, m, s, t, r
    <3>1. Up(n, r, s, car[k])
      BY <2>3 DEF r
    <3> QED BY <2>2, <2>3, <3>1, HeloRead
  <2> QED BY <1>1, <2>2, <2>4, LeaderUps
<1> QED BY <1>2, <1>3

(* Writing the Welcome reads nothing: the client waits for it.             *)
LEMMA WriteWlcmUps ==
  ASSUME Good, NEW car \in Carrying, Ups(car), NEW k \in Conns, WriteWlcm(k)
  PROVE  Ups(car)'
<1>1. /\ LeaderSame(k) /\ slot[k].state = "wlcm"
      /\ DownSent(net[k], net'[k], Head(slot[k].left))
      /\ slot'[k].dec = <<>> /\ slot'[k].took = <<>>
      /\ slot'[k].state \in {"stream", "wlcm"}
  BY WriteWlcmStep
<1>2. slot[k].dec = <<>> /\ slot[k].took = <<>>
  BY <1>1, Fields DEF GoodSlot
<1>3. UpSame(net[k], net'[k], cli[net[k].by], cli[net[k].by], slot[k], slot'[k])
  BY <1>1, <1>2 DEF UpSame, DownSent, UpPart
<1> QED BY <1>1, <1>3, LeaderSameUps DEF DownSent

(* An error at the leader changes what it polls for, not what it has read. *)
LEMMA LeaderTroubleUps ==
  ASSUME Good, NEW car \in Carrying, Ups(car), NEW k \in Conns, LeaderTrouble(k)
  PROVE  Ups(car)'
<1>1. LeaderSame(k) /\ net' = net /\ SameSlot(slot[k], slot'[k])
  BY LeaderTroubleStep
<1>2. UpSame(net[k], net'[k], cli[net[k].by], cli[net[k].by], slot[k], slot'[k])
  BY <1>1 DEF UpSame, UpPart, SameSlot
<1> QED BY <1>1, <1>2, LeaderSameUps

(* A write of the leader leaves the way up as it is.                       *)
LEMMA LeaderWriteUps ==
  ASSUME Good, NEW car \in Carrying, Ups(car), NEW k \in Conns, LeaderWrite(k)
  PROVE  Ups(car)'
<1>1. /\ LeaderSame(k) /\ slot[k].state = "stream"
      /\ DownSent(net[k], net'[k], Head(slot[k].out))
      /\ slot'[k].state = "stream" /\ slot'[k].dec = slot[k].dec
      /\ slot'[k].took = slot[k].took
  BY LeaderWriteStep
<1>2. UpSame(net[k], net'[k], cli[net[k].by], cli[net[k].by], slot[k], slot'[k])
  BY <1>1 DEF UpSame, UpPart, DownSent
<1> QED BY <1>1, <1>2, LeaderSameUps DEF DownSent

(* What the leader broadcasts does not change the ways up.                 *)
LEMMA CastUp ==
  ASSUME Good, NEW car \in Carrying, Ups(car), NEW k \in Conns, NEW more,
         net'[k] = net[k], cli' = cli, CastTo(slot[k], slot'[k], more)
  PROVE  Up(net'[k], cli'[net'[k].by], slot'[k], car[k])
<1>1. Up(net[k], cli[net[k].by], slot[k], car[k])
  BY AtUp
<1>2. UpSame(net[k], net'[k], cli[net[k].by], cli'[net[k].by], slot[k], slot'[k])
  BY DEF UpSame, CastTo, UpPart
<1>3. Up(net'[k], cli'[net[k].by], slot'[k], car[k])
  BY <1>1, <1>2, UpKept
<1> QED BY <1>3

(* A publication of the leader is broadcast, which nothing on the way up   *)
(* notices.                                                                *)
LEMMA LeaderPublishUps ==
  ASSUME Good, NEW car \in Carrying, Ups(car), NEW kind \in DOMAIN MaxOps, LeaderPublish(kind)
  PROVE  Ups(car)'
<1>1. net' = net /\ cli' = cli /\ \A k \in Conns : CastTo(slot[k], slot'[k], <<NewId>>)
  BY LeaderPublishStep
<1>2. ASSUME NEW k \in Conns
      PROVE  Up(net'[k], cli'[net'[k].by], slot'[k], car[k])
  <2>1. PICK more : CastTo(slot[k], slot'[k], more)
    BY <1>1
  <2> QED BY <1>1, <2>1, CastUp
<1> QED BY <1>2 DEF Ups

(* The leader that reads takes the next operation of the connection, whole *)
(* and valid.                                                              *)
LEMMA LeaderReadUps ==
  ASSUME Good, NEW car \in Carrying, Ups(car), NEW k \in Conns, LeaderRead(k)
  PROVE  LET u == Head(net[k].up)
             got == Append(slot[k].dec, u)
             i == Len(slot[k].took) + 1 IN
         /\ Ups(car)' /\ net[k].sgone = FALSE
         /\ Len(got) = Parts => got = Packet(u[1]) /\ i \in 1 .. Len(car[k]) /\ u[1] = car[k][i]
<1> DEFINE n == net[k]
           m == net'[k]
           s == slot[k]
           t == slot'[k]
           u == Head(n.up)
           got == Append(s.dec, u)
           i == Len(s.took) + 1
           ids == car[k]
           r == cli[n.by]
<1>1. /\ cli' = cli /\ s.state = "stream" /\ n.rst = FALSE /\ n.up # <<>>
      /\ UpTaken(n, m) /\ \A j \in Conns : j # k => net'[j] = net[j]
      /\ t.state = "stream"
      /\ t.dec = IF Len(got) = Parts THEN <<>> ELSE got
      /\ t.took = IF Len(got) = Parts THEN Append(s.took, u[1]) ELSE s.took
      /\ \E more \in Seq(Int) : \A j \in Conns : j # k => CastTo(slot[j], slot'[j], more)
  BY LeaderReadStep
<1>2. n.phase = "up" /\ n.sgone = FALSE
  BY <1>1 DEF Good, Wired
<1>3. Up(n, r, s, ids) /\ ids \in Seq(Int) /\ n \in WConn /\ s \in GoodSlot
  BY AtUp
<1>4. FrameTaken(n, m, s, t)
  BY <1>1, <1>2 DEF FrameTaken
<1>5. FrameCame(n, m, r, s, t, ids)
  <2> HIDE DEF n, m, s, t, r, ids
  <2> QED BY <1>3, <1>4, FrameRead
<1>6. /\ Up(m, r, t, ids)
      /\ Len(got) = Parts => got = Packet(u[1]) /\ i \in 1 .. Len(ids) /\ u[1] = ids[i]
  BY <1>5 DEF FrameCame
<1>7. ASSUME NEW j \in Conns
      PROVE  Up(net'[j], cli'[net'[j].by], slot'[j], car[j])
  <2>1. CASE j = k
    BY <1>1, <1>6, <2>1 DEF UpTaken
  <2>2. CASE j # k
    <3>1. PICK more : CastTo(slot[j], slot'[j], more)
      BY <1>1, <2>2
    <3> QED BY <1>1, <2>2, <3>1, CastUp
  <2> QED BY <2>1, <2>2
<1>8. Ups(car)'
  BY <1>7 DEF Ups
<1> QED BY <1>2, <1>6, <1>8

(* The end of the leader cuts every way up.                                *)
LEMMA LeaderQuitsUps ==
  ASSUME Good, NEW car \in Carrying, Ups(car), LeaderQuits
  PROVE  Ups(car)'
<1>1. ASSUME NEW k \in Conns
      PROVE  Up(net'[k], cli'[net'[k].by], slot'[k], car[k])
  <2>1. /\ cli' = cli /\ slot'[k] = NoSlot
        /\ IF net[k].phase = "up" THEN Cut(net[k], net'[k]) ELSE net'[k] = net[k]
    BY LeaderQuitsStep
  <2>2. Up(net[k], cli[net[k].by], slot[k], car[k]) /\ car[k] \in Seq(Int)
    BY AtUp
  <2>3. CASE net[k].phase = "up"
    <3>1. Up(net'[k], cli[net[k].by], NoSlot, car[k])
      BY <2>1, <2>2, <2>3, UpCut
    <3> QED BY <2>1, <2>3, <3>1 DEF Cut
  <2>4. CASE net[k].phase # "up"
    <3>1. slot[k] = NoSlot
      <4>1. slot[k].state = "none"
        BY <2>4 DEF Good, Wired
      <4> QED BY <4>1, Fields DEF GoodSlot
    <3> QED BY <2>1, <2>2, <2>4, <3>1
  <2> QED BY <2>3, <2>4
<1> QED BY <1>1 DEF Ups

-----------------------------------------------------------------------------
(* Operations of one process in the order they were published.             *)
Mine(ids, c, o) ==
  /\ Increasing(ids)
  /\ \A i \in DOMAIN ids : ids[i] \in DOMAIN o /\ o[ids[i]].from = c

(* Those of a were published before those of b.                            *)
Before(a, b) == \A i \in DOMAIN a, j \in DOMAIN b : a[i] < b[j]

(* Those behind place e have not been broadcast.                           *)
Apart(ids, e, ca) == \A i \in DOMAIN ids : i > e => \A a \in DOMAIN ca : ca[a] # ids[i]

(* Everything broadcast was published, and is broadcast once.              *)
Logged(ca, o) ==
  /\ \A a \in DOMAIN ca : ca[a] \in DOMAIN o
  /\ \A a, b \in DOMAIN ca : a # b => ca[a] # ca[b]

(* Everything the leader heard it has broadcast, and it hears it once.     *)
Told(h, ca) ==
  /\ \A i \in DOMAIN h : \E a \in DOMAIN ca : ca[a] = h[i]
  /\ \A i, j \in DOMAIN h : i # j => h[i] # h[j]

(* What the connections carry, the clients buffer and the leader has       *)
(* broadcast: a client's connections follow each other in the order of its *)
(* publications, with the buffer behind them, and nothing is there twice.  *)
Order(car) ==
  /\ \A k \in Conns : Mine(car[k], net[k].by, ops)
  /\ \A j, k \in Conns : j < k /\ net[j].by = net[k].by => Before(car[j], car[k])
  /\ \A c \in Clients : Mine(cli[c].q, c, ops) /\ Apart(cli[c].q, 0, cast)
  /\ \A c \in Clients, k \in Conns : net[k].by = c => Before(car[k], cli[c].q)
  /\ \A k \in Conns : net[k].sgone = FALSE => Apart(car[k], Len(slot[k].took), cast)
  /\ Logged(cast, ops)
  /\ Told(heard[L], cast)

(* Operations published are never withdrawn.                               *)
Grown(o, p) == \A i \in DOMAIN o : i \in DOMAIN p /\ p[i] = o[i]

(* What was published in order stays so.                                   *)
LEMMA MineKept ==
  ASSUME NEW o, NEW p, Grown(o, p)
  PROVE  /\ \A ids, c : Mine(ids, c, o) => Mine(ids, c, p)
         /\ \A ca : Logged(ca, o) => Logged(ca, p)
BY DEF Grown, Mine, Logged

(* There is no order to be broken in what carries nothing.                 *)
LEMMA Nothing ==
  /\ \A c, o : Mine(<<>>, c, o)
  /\ \A a : Before(<<>>, a) /\ Before(a, <<>>)
  /\ \A e, ca : Apart(<<>>, e, ca)
<1> DEFINE none == <<>>
<1>1. DOMAIN none = {}
  OBVIOUS
<1> HIDE DEF none
<1>2. /\ \A c, o : Mine(none, c, o)
      /\ \A a : Before(none, a) /\ Before(a, none)
      /\ \A e, ca : Apart(none, e, ca)
  BY <1>1 DEF Mine, Increasing, Before, Apart
<1> QED BY <1>2 DEF none

(* A step that publishes, sends and takes nothing.                         *)
LEMMA OrderKept ==
  ASSUME NEW car \in Carrying, Order(car), Grown(ops, ops'), cast' = cast,
         heard'[L] = heard[L], \A d \in Clients : cli'[d].q = cli[d].q,
         \A k \in Conns : net'[k].by = net[k].by \/ car[k] = <<>>,
         \A k \in Conns : net'[k].sgone = FALSE =>
           /\ net[k].sgone = FALSE \/ car[k] = <<>>
           /\ slot'[k].took = slot[k].took
  PROVE  Order(car)'
<1>1. ASSUME NEW k \in Conns
      PROVE  Mine(car[k], net'[k].by, ops')
  BY <1>1, MineKept, Nothing DEF Order
<1>2. ASSUME NEW j \in Conns, NEW k \in Conns, j < k, net'[j].by = net'[k].by
      PROVE  Before(car[j], car[k])
  BY <1>2, Nothing DEF Order
<1>3. ASSUME NEW c \in Clients
      PROVE  Mine(cli'[c].q, c, ops') /\ Apart(cli'[c].q, 0, cast')
  BY <1>3, MineKept DEF Order
<1>4. ASSUME NEW c \in Clients, NEW k \in Conns, net'[k].by = c
      PROVE  Before(car[k], cli'[c].q)
  BY <1>4, Nothing DEF Order
<1>5. ASSUME NEW k \in Conns, net'[k].sgone = FALSE
      PROVE  Apart(car[k], Len(slot'[k].took), cast')
  BY <1>5, Nothing DEF Order
<1>6. Logged(cast', ops') /\ Told(heard'[L], cast')
  BY MineKept DEF Order
<1> QED BY <1>1, <1>2, <1>3, <1>4, <1>5, <1>6 DEF Order

(* A step that gives client c another buffer.                              *)
LEMMA BufferOrder ==
  ASSUME NEW car \in Carrying, Order(car), Grown(ops, ops'), cast' = cast,
         heard' = heard, slot' = slot, net' = net, NEW c \in Clients,
         \A d \in Clients : d # c => cli'[d].q = cli[d].q,
         Mine(cli'[c].q, c, ops'), Apart(cli'[c].q, 0, cast),
         \A k \in Conns : net[k].by = c => Before(car[k], cli'[c].q)
  PROVE  Order(car)'
<1>1. ASSUME NEW k \in Conns
      PROVE  Mine(car[k], net'[k].by, ops')
  BY <1>1, MineKept DEF Order
<1>3. ASSUME NEW d \in Clients
      PROVE  Mine(cli'[d].q, d, ops') /\ Apart(cli'[d].q, 0, cast')
  BY <1>3, MineKept DEF Order
<1>4. ASSUME NEW d \in Clients, NEW k \in Conns, net'[k].by = d
      PROVE  Before(car[k], cli'[d].q)
  BY <1>4 DEF Order
<1>5. ASSUME NEW k \in Conns, net'[k].sgone = FALSE
      PROVE  Apart(car[k], Len(slot'[k].took), cast')
  BY <1>5 DEF Order
<1>6. Logged(cast', ops') /\ Told(heard'[L], cast')
  BY MineKept DEF Order
<1>7. ASSUME NEW j \in Conns, NEW k \in Conns, j < k, net'[j].by = net'[k].by
      PROVE  Before(car[j], car[k])
  BY <1>7 DEF Order
<1> QED BY <1>1, <1>3, <1>4, <1>5, <1>6, <1>7 DEF Order

(* A step that gives client c another buffer, and its last connection f    *)
(* ids to carry.                                                           *)
CarryStep(car, c, f, ids) ==
  /\ Grown(ops, ops') /\ cast' = cast /\ heard'[L] = heard[L] /\ slot' = slot
  /\ \A k \in Conns : net'[k].by = net[k].by /\ net'[k].sgone = net[k].sgone
  /\ \A d \in Clients : d # c => cli'[d].q = cli[d].q
  /\ Mine(cli'[c].q, c, ops') /\ Apart(cli'[c].q, 0, cast)
  /\ net[f].by = c /\ \A k \in Conns : net[k].by = c => k <= f
  /\ Mine(ids, c, ops') /\ Before(ids, cli'[c].q)
  /\ net[f].sgone = FALSE => Apart(ids, Len(slot[f].took), cast)
  /\ \A k \in Conns : k # f /\ net[k].by = c =>
       Before(car[k], ids) /\ Before(car[k], cli'[c].q)

(* It keeps the order.                                                     *)
LEMMA CarryOrder ==
  ASSUME NEW car \in Carrying, Order(car), NEW c \in Clients, NEW f \in Conns, NEW ids,
         CarryStep(car, c, f, ids), NEW x, Given(car, f, ids, x)
  PROVE  Order(x)'
<1> USE DEF CarryStep
<1>0. x[f] = ids /\ \A k \in Conns : k # f => x[k] = car[k]
  BY DEF Given, Carrying
<1>1. ASSUME NEW k \in Conns
      PROVE  Mine(x[k], net'[k].by, ops')
  BY <1>0, <1>1, MineKept DEF Order
<1>2. ASSUME NEW j \in Conns, NEW k \in Conns, j < k, net'[j].by = net'[k].by
      PROVE  Before(x[j], x[k])
  <2>1. CASE j # f /\ k # f
    BY <1>0, <1>2, <2>1 DEF Order
  <2>2. CASE k = f
    <3>1. j # f
      BY <1>2, <2>2 DEF Conns
    <3> QED BY <1>0, <1>2, <2>2, <3>1
  <2>3. CASE j = f
    <3>1. k <= f
      BY <1>2, <2>3
    <3> QED BY <1>2, <2>3, <3>1, StarAssumption DEF Conns
  <2> QED BY <2>1, <2>2, <2>3
<1>3. ASSUME NEW d \in Clients
      PROVE  Mine(cli'[d].q, d, ops') /\ Apart(cli'[d].q, 0, cast')
  BY <1>3, MineKept DEF Order
<1>4. ASSUME NEW d \in Clients, NEW k \in Conns, net'[k].by = d
      PROVE  Before(x[k], cli'[d].q)
  BY <1>0, <1>4 DEF Order
<1>5. ASSUME NEW k \in Conns, net'[k].sgone = FALSE
      PROVE  Apart(x[k], Len(slot'[k].took), cast')
  BY <1>0, <1>5 DEF Order
<1>6. Logged(cast', ops') /\ Told(heard'[L], cast')
  BY MineKept DEF Order
<1> QED BY <1>1, <1>2, <1>3, <1>4, <1>5, <1>6 DEF Order

(* What the connections carry, in the order it was published.              *)
Carried == \E car \in Carrying : Ups(car) /\ Order(car)

(* all is ids with the newest operation of c at its end.                   *)
Newest(ids, all, o, p, c, ca) ==
  /\ Mine(all, c, p) /\ Grown(o, p)
  /\ \A a, d : Mine(a, d, o) /\ Before(a, ids) => Before(a, all)
  /\ \A e \in Nat : Apart(ids, e, ca) => Apart(all, e, ca)

(* A new operation at the end of a sequence is the newest there.           *)
LEMMA NewestLast ==
  ASSUME NEW S, NEW ids \in Seq(Int), NEW o \in Seq(S), NEW c, NEW rec \in S, rec.from = c,
         Mine(ids, c, o), NEW ca, Logged(ca, o)
  PROVE  Newest(ids, Append(ids, Len(o) + 1), o, Append(o, rec), c, ca)
<1> DEFINE new == Len(o) + 1
           all == Append(ids, new)
           p == Append(o, rec)
           n == Len(ids)
<1>1. new \in Nat /\ new >= 1 /\ n \in Nat /\ DOMAIN o = 1 .. new - 1 /\ DOMAIN ids = 1 .. n
  OBVIOUS
<1>2. DOMAIN p = 1 .. new /\ p[new] = rec /\ \A i \in 1 .. new - 1 : p[i] = o[i]
  OBVIOUS
<1>3. DOMAIN all = 1 .. n + 1 /\ all[n + 1] = new /\ \A i \in 1 .. n : all[i] = ids[i]
  OBVIOUS
<1> HIDE DEF new, all, p, n
<1>4. Grown(o, p)
  BY <1>1, <1>2 DEF Grown
<1>5. \A i \in 1 .. n : ids[i] \in 1 .. new - 1 /\ o[ids[i]].from = c
  BY <1>1 DEF Mine
<1>6. Mine(all, c, p)
  <2>1. ASSUME NEW i \in DOMAIN all, NEW j \in DOMAIN all, i < j
        PROVE  all[i] < all[j]
    <3>1. i \in 1 .. n /\ i \in DOMAIN ids /\ j \in 1 .. n + 1
      BY <1>1, <1>3, <2>1
    <3>2. CASE j = n + 1
      <4>1. all[j] = new /\ all[i] = ids[i] /\ ids[i] \in 1 .. new - 1
        BY <1>3, <1>5, <3>1, <3>2
      <4> QED BY <1>1, <4>1
    <3>3. CASE j # n + 1
      <4>1. j \in 1 .. n /\ j \in DOMAIN ids
        BY <1>1, <3>1, <3>3
      <4> QED BY <1>3, <2>1, <3>1, <4>1 DEF Mine, Increasing
    <3> QED BY <3>2, <3>3
  <2>2. ASSUME NEW i \in DOMAIN all
        PROVE  all[i] \in DOMAIN p /\ p[all[i]].from = c
    <3>1. CASE i = n + 1
      BY <1>1, <1>2, <1>3, <3>1
    <3>2. CASE i # n + 1
      <4>1. i \in 1 .. n
        BY <1>1, <1>3, <3>2
      <4>2. all[i] \in 1 .. new - 1 /\ o[all[i]].from = c
        BY <1>3, <1>5, <4>1
      <4> QED BY <1>1, <1>2, <4>2
    <3> QED BY <3>1, <3>2
  <2> QED BY <2>1, <2>2 DEF Mine, Increasing
<1>7. ASSUME NEW a, NEW d, Mine(a, d, o), Before(a, ids)
      PROVE  Before(a, all)
  <2>1. ASSUME NEW i \in DOMAIN a, NEW j \in DOMAIN all
        PROVE  a[i] < all[j]
    <3>1. CASE j = n + 1
      <4>1. a[i] \in 1 .. new - 1
        BY <1>1, <1>7 DEF Mine
      <4> QED BY <1>1, <1>3, <3>1, <4>1
    <3>2. CASE j # n + 1
      <4>1. j \in 1 .. n /\ j \in DOMAIN ids
        BY <1>1, <1>3, <3>2
      <4> QED BY <1>3, <1>7, <4>1 DEF Before
    <3> QED BY <3>1, <3>2
  <2> QED BY <2>1 DEF Before
<1>8. ASSUME NEW e \in Nat, Apart(ids, e, ca)
      PROVE  Apart(all, e, ca)
  <2>1. ASSUME NEW i \in DOMAIN all, i > e, NEW a \in DOMAIN ca
        PROVE  ca[a] # all[i]
    <3>1. CASE i = n + 1
      <4>1. ca[a] \in 1 .. new - 1
        BY <1>1 DEF Logged
      <4> QED BY <1>1, <1>3, <3>1, <4>1
    <3>2. CASE i # n + 1
      <4>1. i \in 1 .. n /\ i \in DOMAIN ids
        BY <1>1, <1>3, <3>2
      <4> QED BY <1>3, <1>8, <2>1, <4>1 DEF Apart
    <3> QED BY <3>1, <3>2
  <2> QED BY <2>1 DEF Apart
<1>9. Newest(ids, all, o, p, c, ca)
  BY <1>4, <1>6, <1>7, <1>8 DEF Newest
<1> QED BY <1>9 DEF new, all, p

(* A client on the stream that publishes, or answers, keeps the order.     *)
LEMMA PublishedOrder ==
  ASSUME Good, NEW car \in Carrying, Order(car), NEW c \in Clients,
         Published1(car, c), NEW rec \in [from : Procs, kind : {"line", "command", "answer"}],
         rec.from = c, ops' = Append(ops, rec),
         cast' = cast, heard'[L] = heard[L], slot' = slot,
         \A k \in Conns : net'[k].by = net[k].by /\ net'[k].sgone = net[k].sgone,
         \A d \in Clients : d # c => cli'[d].q = cli[d].q
  PROVE  Carried'
<1> DEFINE f == cli[c].fd
           ids == car[f]
           all == Append(ids, NewId)
<1>1. /\ cli[c] \in GoodCli /\ cli[c].st = "STREAM" /\ cli'[c].q = <<>>
  BY Fields DEF Published1
<1>2. f # NoFd /\ cli[c].q = <<>>
  BY <1>1 DEF GoodCli
<1>3. PICK x \in Carrying : Ups(x)' /\ Given(car, f, all, x)
  BY DEF Published1
<1>4. f \in Conns /\ net[f].by = c /\ \A k \in Conns : net[k].by = c => k <= f
  BY <1>2, Fields DEF Good, Wired
<1>5. Mine(ids, c, ops) /\ Logged(cast, ops) /\ ids \in Seq(Int)
  BY <1>4 DEF Order, Carrying
<1>6. ops \in Seq([from : Procs, kind : {"line", "command", "answer"}])
  BY DEF Good, Records
<1>7. Newest(ids, all, ops, ops', c, cast)
  <2> DEFINE S == [from : Procs, kind : {"line", "command", "answer"}]
  <2>1. ops \in Seq(S) /\ rec \in S
    BY <1>6
  <2> HIDE DEF S, ids
  <2> QED BY <1>5, <2>1, NewestLast DEF NewId
<1>8. /\ Mine(all, c, ops') /\ Grown(ops, ops')
      /\ \A a, d : Mine(a, d, ops) /\ Before(a, ids) => Before(a, all)
      /\ \A e \in Nat : Apart(ids, e, cast) => Apart(all, e, cast)
  BY <1>7 DEF Newest
<1> HIDE DEF all
<1>9. net[f].sgone = FALSE => Apart(all, Len(slot[f].took), cast)
  <2>1. Len(slot[f].took) \in Nat
    BY <1>4, Fields DEF WSlot
  <2> QED BY <1>4, <1>8, <2>1 DEF Order
<1>10. \A k \in Conns : k # f /\ net[k].by = c => Before(car[k], all)
  <2>1. ASSUME NEW k \in Conns, k # f, net[k].by = c
        PROVE  Before(car[k], all)
    <3>1. k < f
      BY <1>4, <2>1, StarAssumption DEF Conns
    <3>2. Before(car[k], ids) /\ Mine(car[k], net[k].by, ops)
      BY <1>4, <2>1, <3>1 DEF Order
    <3> QED BY <1>8, <3>2
  <2> QED BY <2>1
<1>11. Order(x)'
  <2>1. /\ Mine(cli'[c].q, c, ops') /\ Apart(cli'[c].q, 0, cast) /\ Before(all, cli'[c].q)
        /\ \A k \in Conns : Before(car[k], cli'[c].q)
    BY <1>1, Nothing
  <2>2. CarryStep(car, c, f, all)
    BY <1>4, <1>8, <1>9, <1>10, <2>1 DEF CarryStep
  <2> HIDE DEF f, ids
  <2> QED BY <1>3, <1>4, <2>2, CarryOrder
<1> QED BY <1>3, <1>11 DEF Carried

(* A step of a client that publishes nothing keeps the order.              *)
LEMMA QuietClient ==
  ASSUME Good, NEW car \in Carrying, Ups(car)', Order(car), NEW c \in Clients,
         cli[c].fd # NoFd, OthersSame(c, cli[c].fd),
         net'[cli[c].fd].by = net[cli[c].fd].by, net'[cli[c].fd].sgone = net[cli[c].fd].sgone,
         slot' = slot, cast' = cast, heard'[L] = heard[L], ops' = ops,
         cli'[c].q = cli[c].q
  PROVE  Carried'
<1>1. /\ \A k \in Conns : net'[k].by = net[k].by /\ net'[k].sgone = net[k].sgone
      /\ \A d \in Clients : cli'[d].q = cli[d].q
  BY DEF OthersSame
<1>2. Grown(ops, ops')
  BY DEF Grown
<1>3. Order(car)'
  BY <1>1, <1>2, OrderKept
<1> QED BY <1>3 DEF Carried

(* A client that goes to idle keeps its buffer.                            *)
LEMMA ToIdleCarried ==
  ASSUME Good, Carried, NEW c \in Clients, ConnectFails(c) \/ Disconnect(c) \/ HandshakeBreaks(c)
  PROVE  Carried'
<1>1. PICK car \in Carrying : Ups(car) /\ Order(car)
  BY DEF Carried
<1>2. cli[c].st # "IDLE" /\ ToIdle(c) /\ UNCHANGED <<slot, alive, ops, heard, cast>>
  <2>1. cli[c].cb = "hs" => cli[c].st # "IDLE"
    BY Fields DEF GoodCli
  <2> QED BY <2>1 DEF ConnectFails, Disconnect, HandshakeBreaks
<1>3. /\ OthersSame(c, cli[c].fd) /\ cli[c].fd # NoFd
      /\ Closed(net[cli[c].fd], net'[cli[c].fd]) /\ cli'[c] = IdleClient(cli[c].q)
  BY <1>2, ToIdleStep
<1>4. Ups(car)'
  BY <1>1, ToIdleUps
<1>5. cli'[c].q = cli[c].q
  BY <1>3 DEF IdleClient
<1> QED BY <1>1, <1>2, <1>3, <1>4, <1>5, QuietClient DEF Closed

(* A new connection is behind all others of its client and carries nothing *)
(* yet.                                                                    *)
LEMMA ConnectCarried ==
  ASSUME Good, Carried, NEW c \in Clients, NEW k \in Conns, NEW async \in Async,
         Connect(c, k, async)
  PROVE  Carried'
<1>1. PICK car \in Carrying : Ups(car) /\ Order(car)
  BY DEF Carried
<1>2. Ups(car)' /\ car[k] = <<>>
  BY <1>1, ConnectUps
<1> DEFINE j == cli[c].fd
           s == cli'[c]
<1>3. /\ j # NoFd => j \in Conns /\ Closed(net[j], net'[j]) /\ net[j].phase # "unused"
      /\ \A i \in Conns : i \notin {j, k} => net'[i] = net[i]
      /\ \A d \in Clients : d # c => cli'[d] = cli[d]
      /\ s.q = cli[c].q
  <2>1. /\ Good' /\ net[k] = NoConn /\ k # j /\ k # NoFd
        /\ \A i \in Conns : net[i].phase # "unused" => i < k
        /\ j # NoFd => j \in Conns /\ Closed(net[j], net'[j]) /\ net[j].phase # "unused"
        /\ \A i \in Conns : i \notin {j, k} => net'[i] = net[i]
        /\ \A d \in Clients : d # c => cli'[d] = cli[d]
        /\ net'[k].phase \in {"syn", "up"} /\ net'[k].by = c
        /\ net'[k].up = <<>> /\ net'[k].down = <<>> /\ net'[k].cgone = FALSE
        /\ net'[k].sgone = FALSE /\ net'[k].rst = FALSE /\ net'[k].base = 0
        /\ s.fd = k /\ s.in = <<>> /\ s.out = <<>> /\ s.dec = <<>> /\ s.sent = <<>>
        /\ s.q = cli[c].q
        /\ \/ s.st = "CONNECTING"
           \/ s.st = "HELO_WR" /\ s.left = Packet(HELO)
    BY ConnectStep
  <2> QED BY <2>1
<1>4. slot' = slot /\ cast' = cast /\ heard' = heard /\ ops' = ops
  BY DEF Connect
<1>5. ASSUME NEW i \in Conns
      PROVE  (net'[i].by = net[i].by /\ net'[i].sgone = net[i].sgone) \/ car[i] = <<>>
  <2>1. CASE i = k
    BY <1>2, <2>1
  <2>2. CASE i # k /\ i = j
    <3>1. j # NoFd
      BY <2>2, StarAssumption DEF Conns, NoFd
    <3> QED BY <1>3, <2>2, <3>1 DEF Closed
  <2>3. CASE i \notin {j, k}
    BY <1>3, <2>3
  <2> QED BY <2>1, <2>2, <2>3
<1>6. \A d \in Clients : cli'[d].q = cli[d].q
  BY <1>3
<1>7. Grown(ops, ops')
  BY <1>4 DEF Grown
<1>8. /\ \A i \in Conns : net'[i].by = net[i].by \/ car[i] = <<>>
      /\ \A i \in Conns : net'[i].sgone = FALSE =>
           (net[i].sgone = FALSE \/ car[i] = <<>>) /\ slot'[i].took = slot[i].took
  BY <1>4, <1>5
<1>9. Order(car)'
  <2> HIDE DEF j, s
  <2> QED BY <1>1, <1>4, <1>6, <1>7, <1>8, OrderKept
<1> QED BY <1>2, <1>9 DEF Carried

(* The end of a connection attempt carries nothing more.                   *)
LEMMA OnConnectCarried ==
  ASSUME Good, Carried, NEW c \in Clients, OnConnect(c)
  PROVE  Carried'
<1>1. PICK car \in Carrying : Ups(car) /\ Order(car)
  BY DEF Carried
<1>2. Ups(car)'
  BY <1>1, OnConnectUps
<1>3. /\ OthersSame(c, cli[c].fd) /\ cli[c].fd # NoFd
      /\ \/ /\ Closed(net[cli[c].fd], net'[cli[c].fd])
            /\ cli'[c] = IdleClient(cli[c].q)
         \/ net' = net /\ cli'[c].q = cli[c].q
  BY OnConnectStep
<1>4. slot' = slot /\ cast' = cast /\ heard' = heard /\ ops' = ops
  BY DEF OnConnect
<1>5. cli'[c].q = cli[c].q /\ net'[cli[c].fd].by = net[cli[c].fd].by
      /\ net'[cli[c].fd].sgone = net[cli[c].fd].sgone
  BY <1>3 DEF Closed, IdleClient
<1> QED BY <1>1, <1>2, <1>3, <1>4, <1>5, QuietClient

(* Neither does the Hello.                                                 *)
LEMMA WriteHeloCarried ==
  ASSUME Good, Carried, NEW c \in Clients, WriteHelo(c)
  PROVE  Carried'
<1>1. PICK car \in Carrying : Ups(car) /\ Order(car)
  BY DEF Carried
<1>2. Ups(car)'
  BY <1>1, WriteHeloUps
<1>3. /\ OthersSame(c, cli[c].fd) /\ cli[c].fd # NoFd
      /\ UpSent(net[cli[c].fd], net'[cli[c].fd], Head(cli[c].left))
      /\ cli'[c].q = cli[c].q
  BY WriteHeloStep
<1>4. slot' = slot /\ cast' = cast /\ heard' = heard /\ ops' = ops
  BY DEF WriteHelo
<1> QED BY <1>1, <1>2, <1>3, <1>4, QuietClient DEF UpSent

(* An error on the stream of a client loses nothing that was carried.      *)
LEMMA ClientTroubleCarried ==
  ASSUME Good, Carried, NEW c \in Clients, ClientTrouble(c)
  PROVE  Carried'
<1>1. PICK car \in Carrying : Ups(car) /\ Order(car)
  BY DEF Carried
<1>2. Ups(car)'
  BY <1>1, ClientTroubleUps
<1>3. /\ OthersSame(c, cli[c].fd) /\ cli[c].fd # NoFd /\ net' = net
      /\ cli'[c].q = cli[c].q
  BY ClientTroubleStep DEF SameStream
<1>4. slot' = slot /\ cast' = cast /\ heard' = heard /\ ops' = ops
  BY DEF ClientTrouble
<1> QED BY <1>1, <1>2, <1>3, <1>4, QuietClient

(* A write of the client moves what is carried along.                      *)
LEMMA ClientWriteCarried ==
  ASSUME Good, Carried, NEW c \in Clients, ClientWrite(c)
  PROVE  Carried'
<1>1. PICK car \in Carrying : Ups(car) /\ Order(car)
  BY DEF Carried
<1>2. Ups(car)'
  BY <1>1, ClientWriteUps
<1>3. /\ OthersSame(c, cli[c].fd) /\ cli[c].fd # NoFd /\ cli[c].st = "STREAM"
      /\ UpSent(net[cli[c].fd], net'[cli[c].fd], Head(cli[c].out))
      /\ cli'[c].q = <<>>
  BY ClientWriteStep
<1>4. slot' = slot /\ cast' = cast /\ heard' = heard /\ ops' = ops
  BY DEF ClientWrite
<1>5. cli[c].q = <<>>
  BY <1>3, Fields DEF GoodCli
<1> QED BY <1>1, <1>2, <1>3, <1>4, <1>5, QuietClient DEF UpSent

(* The buffer that is flushed follows everything the client has sent.      *)
LEMMA ReadWlcmCarried ==
  ASSUME Good, Carried, NEW c \in Clients, ReadWlcm(c)
  PROVE  Carried'
<1> DEFINE f == cli[c].fd
           ids == cli[c].q
<1>1. PICK car \in Carrying : Ups(car) /\ Order(car)
  BY DEF Carried
<1>2. /\ OthersSame(c, f) /\ f # NoFd
      /\ net'[f].by = net[f].by /\ net'[f].sgone = net[f].sgone
  BY ReadWlcmStep DEF DownTaken, Closed
<1>3. slot' = slot /\ cast' = cast /\ heard' = heard /\ ops' = ops
  BY DEF ReadWlcm
<1>4. CASE Ups(car)' /\ cli'[c].q = cli[c].q
  BY <1>1, <1>2, <1>3, <1>4, QuietClient
<1>5. CASE /\ car[f] = <<>> /\ cli'[c].q = <<>> /\ f \in Conns
           /\ net[f].by = c
           /\ \E x \in Carrying : Ups(x)' /\ Given(car, f, ids, x)
  <2>1. PICK x \in Carrying : Ups(x)' /\ Given(car, f, ids, x)
    BY <1>5
  <2>2. \A k \in Conns : net[k].by = c => k <= f
    BY <1>2 DEF Good, Wired
  <2>3. /\ Mine(ids, c, ops) /\ Apart(ids, 0, cast)
        /\ \A k \in Conns : net[k].by = c => Before(car[k], ids)
    BY <1>1 DEF Order
  <2>4. Apart(ids, Len(slot[f].took), cast)
    <3>1. Len(slot[f].took) \in Nat /\ DOMAIN ids \in SUBSET Nat
      <4>1. slot[f].took \in Seq(Int) /\ ids \in Seq(Int)
        BY <1>5, Fields DEF WSlot, WCli
      <4> QED BY <4>1
    <3>2. \A i \in DOMAIN ids : i > Len(slot[f].took) => i > 0
      BY <3>1
    <3> QED BY <2>3, <3>2 DEF Apart
  <2>5. /\ Mine(cli'[c].q, c, ops) /\ Apart(cli'[c].q, 0, cast)
        /\ \A a : Before(a, cli'[c].q)
    BY <1>5, Nothing
  <2>6. Grown(ops, ops')
    BY <1>3 DEF Grown
  <2>7. /\ \A k \in Conns : net'[k].by = net[k].by /\ net'[k].sgone = net[k].sgone
        /\ \A d \in Clients : d # c => cli'[d].q = cli[d].q
    BY <1>2 DEF OthersSame
  <2>8. CarryStep(car, c, f, ids)
    <3> HIDE DEF f, ids
    <3> QED BY <1>3, <1>5, <2>2, <2>3, <2>4, <2>5, <2>6, <2>7 DEF CarryStep
  <2>9. Order(x)'
    <3> HIDE DEF f, ids
    <3> QED BY <1>1, <1>5, <2>1, <2>8, CarryOrder
  <2> QED BY <2>1, <2>9 DEF Carried
<1>6. \/ Ups(car)' /\ cli'[c].q = cli[c].q
      \/ /\ car[f] = <<>> /\ cli'[c].q = <<>> /\ f \in Conns
         /\ net[f].by = c
         /\ \E x \in Carrying : Ups(x)' /\ Given(car, f, ids, x)
  BY <1>1, ReadWlcmUps
<1> QED BY <1>4, <1>5, <1>6

(* The answer a client gives is the last of what its connection carries.   *)
LEMMA ClientReadCarried ==
  ASSUME Good, Carried, NEW c \in Clients, ClientRead(c)
  PROVE  Carried'
<1> DEFINE f == cli[c].fd
<1>1. PICK car \in Carrying : Ups(car) /\ Order(car)
  BY DEF Carried
<1>2. /\ OthersSame(c, f) /\ f # NoFd
      /\ net'[f].by = net[f].by /\ net'[f].sgone = net[f].sgone
      /\ heard'[L] = heard[L]
  <2>1. OthersSame(c, f) /\ f # NoFd /\ DownTaken(net[f], net'[f])
    BY ClientReadStep
  <2>2. (\E id : heard' = [heard EXCEPT ![c] = Append(@, id)]) \/ heard' = heard
    BY DEF ClientRead
  <2>3. heard'[L] = heard[L]
    BY <2>2, StarAssumption DEF Good, Records, Procs
  <2> QED BY <2>1, <2>3 DEF DownTaken
<1>3. slot' = slot /\ cast' = cast
  BY DEF ClientRead
<1>4. cli'[c].q = cli[c].q
  BY <1>1, ClientReadUps
<1>5. CASE Ups(car)' /\ ops' = ops
  BY <1>1, <1>2, <1>3, <1>4, <1>5, QuietClient
<1>6. CASE Published1(car, c) /\ ops' = Append(ops, Answer(c))
  <2>1. Answer(c) \in [from : Procs, kind : {"line", "command", "answer"}] /\ Answer(c).from = c
    BY DEF Answer, Procs
  <2>2. /\ \A k \in Conns : net'[k].by = net[k].by /\ net'[k].sgone = net[k].sgone
        /\ \A d \in Clients : d # c => cli'[d].q = cli[d].q
    BY <1>2 DEF OthersSame
  <2> DEFINE rec == Answer(c)
  <2>3. /\ rec \in [from : Procs, kind : {"line", "command", "answer"}] /\ rec.from = c
        /\ ops' = Append(ops, rec)
    BY <1>6, <2>1
  <2> HIDE DEF rec
  <2> QED BY <1>1, <1>2, <1>3, <1>6, <2>2, <2>3, PublishedOrder
<1> QED BY <1>1, <1>5, <1>6, ClientReadUps

(* A publication goes behind what the connection carries, or behind the    *)
(* buffer.                                                                 *)
LEMMA ClientPublishCarried ==
  ASSUME Good, Carried, NEW c \in Clients, NEW kind \in DOMAIN MaxOps, ClientPublish(c, kind)
  PROVE  Carried'
<1> DEFINE rec == [from |-> c, kind |-> kind]
           S == [from : Procs, kind : {"line", "command", "answer"}]
<1>1. PICK car \in Carrying : Ups(car) /\ Order(car)
  BY DEF Carried
<1>2. rec \in S /\ rec.from = c
  BY StarAssumption DEF Procs
<1>3. /\ net' = net /\ ops' = Append(ops, rec) /\ slot' = slot /\ cast' = cast /\ heard' = heard
      /\ \A d \in Clients : d # c => cli'[d].q = cli[d].q
  <2>1. net' = net /\ ops' = Append(ops, rec) /\ \A d \in Clients : d # c => cli'[d] = cli[d]
    BY ClientPublishStep
  <2> QED BY <2>1 DEF ClientPublish
<1>4. CASE Published1(car, c)
  <2> HIDE DEF rec
  <2> QED BY <1>1, <1>2, <1>3, <1>4, PublishedOrder
<1>5. CASE Ups(car)' /\ (cli'[c].q = cli[c].q \/ cli'[c].q = Append(cli[c].q, NewId))
  <2> DEFINE ids == cli[c].q
             t == cli'[c]
             all == Append(ids, NewId)
  <2>1. /\ Mine(ids, c, ops) /\ Apart(ids, 0, cast) /\ Logged(cast, ops)
        /\ \A k \in Conns : net[k].by = c => Mine(car[k], c, ops) /\ Before(car[k], ids)
    BY <1>1 DEF Order
  <2>2. Newest(ids, all, ops, ops', c, cast)
    <3>1. ids \in Seq(Int) /\ ops \in Seq(S)
      BY Fields DEF WCli, Good, Records
    <3> HIDE DEF S, ids, rec
    <3> QED BY <1>2, <1>3, <2>1, <3>1, NewestLast DEF NewId
  <2>3. /\ Mine(all, c, ops') /\ Grown(ops, ops') /\ Apart(all, 0, cast)
        /\ \A k \in Conns : net[k].by = c => Before(car[k], all)
    <3> HIDE DEF all, ids
    <3> QED BY <2>1, <2>2 DEF Newest
  <2>4. Mine(ids, c, ops')
    BY <2>1, <2>3, MineKept
  <2>5. /\ Mine(t.q, c, ops') /\ Apart(t.q, 0, cast)
        /\ \A k \in Conns : net[k].by = c => Before(car[k], t.q)
    <3>1. t.q = ids \/ t.q = all
      BY <1>5
    <3> HIDE DEF all, ids, t
    <3> QED BY <2>1, <2>3, <2>4, <3>1
  <2>6. Order(car)'
    <3> HIDE DEF rec, all, ids
    <3> QED BY <1>1, <1>3, <2>3, <2>5, BufferOrder
  <2> QED BY <1>5, <2>6 DEF Carried
<1> QED BY <1>1, <1>4, <1>5, ClientPublishUps

(* Where the elements of two sequences are when they are put together.     *)
LEMMA Together ==
  ASSUME NEW a \in Seq(Int), NEW b \in Seq(Int)
  PROVE  /\ \A i \in DOMAIN (a \o b) :
              \/ i \in DOMAIN a /\ (a \o b)[i] = a[i]
              \/ i - Len(a) \in DOMAIN b /\ (a \o b)[i] = b[i - Len(a)]
         /\ \A i \in DOMAIN a : i \in DOMAIN (a \o b) /\ (a \o b)[i] = a[i]
         /\ \A i \in DOMAIN b : i + Len(a) \in DOMAIN (a \o b) /\ (a \o b)[i + Len(a)] = b[i]
         /\ DOMAIN a \in SUBSET Int /\ DOMAIN b \in SUBSET Int /\ Len(a) \in Int
         /\ DOMAIN (a \o b) \in SUBSET Int
<1> DEFINE n == Len(a)
           m == Len(b)
           all == a \o b
<1>1. n \in Nat /\ m \in Nat /\ DOMAIN a = 1 .. n /\ DOMAIN b = 1 .. m /\ DOMAIN all = 1 .. n + m
  OBVIOUS
<1>2. /\ \A i \in 1 .. n : all[i] = a[i]
      /\ \A i \in 1 .. m : all[i + n] = b[i]
  OBVIOUS
<1> HIDE DEF n, m, all
<1>3. ASSUME NEW i \in 1 .. n + m
      PROVE  \/ i \in 1 .. n /\ all[i] = a[i]
             \/ i - n \in 1 .. m /\ all[i] = b[i - n]
  <2>1. CASE i <= n
    BY <1>1, <1>2, <2>1
  <2>2. CASE ~(i <= n)
    <3>1. i - n \in 1 .. m /\ (i - n) + n = i
      BY <1>1, <2>2
    <3>2. all[(i - n) + n] = b[i - n]
      BY <1>2, <3>1
    <3> QED BY <3>1, <3>2
  <2> QED BY <2>1, <2>2
<1>4. /\ \A i \in DOMAIN a : i \in DOMAIN all /\ all[i] = a[i]
      /\ \A i \in DOMAIN b : i + n \in DOMAIN all /\ all[i + n] = b[i]
  BY <1>1, <1>2
<1>5. DOMAIN a \in SUBSET Int /\ DOMAIN b \in SUBSET Int /\ n \in Int /\ DOMAIN all \in SUBSET Int
  BY <1>1
<1> QED BY <1>1, <1>3, <1>4, <1>5 DEF n, m, all

(* Two sequences without a common element.                                 *)
Disjoint(a, b) == \A i \in DOMAIN a, j \in DOMAIN b : a[i] # b[j]

(* More that is broadcast, once and for the first time, is logged.         *)
LEMMA LoggedMore ==
  ASSUME NEW ca \in Seq(Int), NEW more \in Seq(Int), NEW o, Logged(ca, o), Logged(more, o),
         Disjoint(ca, more)
  PROVE  Logged(ca \o more, o)
<1> DEFINE all == ca \o more
           n == Len(ca)
<1>1. /\ \A i \in DOMAIN all :
           \/ i \in DOMAIN ca /\ all[i] = ca[i]
           \/ i - n \in DOMAIN more /\ all[i] = more[i - n]
      /\ DOMAIN all \in SUBSET Int /\ n \in Int
  BY Together
<1> HIDE DEF all, n
<1>2. \A a \in DOMAIN all : all[a] \in DOMAIN o
  BY <1>1 DEF Logged
<1>3. ASSUME NEW a \in DOMAIN all, NEW b \in DOMAIN all, a # b
      PROVE  all[a] # all[b]
  <2>1. CASE (a \in DOMAIN ca /\ all[a] = ca[a]) /\ (b \in DOMAIN ca /\ all[b] = ca[b])
    BY <1>3, <2>1 DEF Logged
  <2>2. CASE /\ a - n \in DOMAIN more /\ all[a] = more[a - n]
             /\ b - n \in DOMAIN more /\ all[b] = more[b - n]
    <3>1. a - n # b - n
      BY <1>1, <1>3
    <3> QED BY <2>2, <3>1 DEF Logged
  <2>3. CASE (a \in DOMAIN ca /\ all[a] = ca[a]) /\ (b - n \in DOMAIN more /\ all[b] = more[b - n])
    BY <2>3 DEF Disjoint
  <2>4. CASE (b \in DOMAIN ca /\ all[b] = ca[b]) /\ (a - n \in DOMAIN more /\ all[a] = more[a - n])
    <3>1. ca[b] # more[a - n]
      BY <2>4 DEF Disjoint
    <3> QED BY <2>4, <3>1
  <2> QED BY <1>1, <2>1, <2>2, <2>3, <2>4
<1>4. Logged(all, o)
  BY <1>2, <1>3 DEF Logged
<1> QED BY <1>4 DEF all

(* What is not among the one nor the other is not among both.              *)
LEMMA ApartMore ==
  ASSUME NEW ca \in Seq(Int), NEW more \in Seq(Int), NEW ids, NEW e,
         Apart(ids, e, ca), Apart(ids, e, more)
  PROVE  Apart(ids, e, ca \o more)
<1> DEFINE all == ca \o more
           n == Len(ca)
<1>1. \A i \in DOMAIN all :
        \/ i \in DOMAIN ca /\ all[i] = ca[i]
        \/ i - n \in DOMAIN more /\ all[i] = more[i - n]
  BY Together
<1> HIDE DEF all, n
<1>2. Apart(ids, e, all)
  BY <1>1 DEF Apart
<1> QED BY <1>2 DEF all

(* What the leader hears of what it broadcasts for the first time.         *)
LEMMA ToldMore ==
  ASSUME NEW h \in Seq(Int), NEW told \in Seq(Int), NEW ca \in Seq(Int), NEW more \in Seq(Int),
         Told(h, ca), Told(told, more), Disjoint(ca, more)
  PROVE  Told(h \o told, ca \o more)
<1> DEFINE all == ca \o more
           g == h \o told
           n == Len(ca)
           m == Len(h)
<1>1. /\ \A i \in DOMAIN ca : i \in DOMAIN all /\ all[i] = ca[i]
      /\ \A i \in DOMAIN more : i + n \in DOMAIN all /\ all[i + n] = more[i]
  BY Together
<1>2. /\ \A i \in DOMAIN g :
           \/ i \in DOMAIN h /\ g[i] = h[i]
           \/ i - m \in DOMAIN told /\ g[i] = told[i - m]
      /\ DOMAIN g \in SUBSET Int /\ m \in Int
  BY Together
<1> HIDE DEF all, g, n, m
<1>3. ASSUME NEW i \in DOMAIN g
      PROVE  \E a \in DOMAIN all : all[a] = g[i]
  <2>1. CASE i \in DOMAIN h /\ g[i] = h[i]
    <3>1. PICK a \in DOMAIN ca : ca[a] = h[i]
      BY <2>1 DEF Told
    <3> QED BY <1>1, <2>1, <3>1
  <2>2. CASE i - m \in DOMAIN told /\ g[i] = told[i - m]
    <3>1. PICK a \in DOMAIN more : more[a] = told[i - m]
      BY <2>2 DEF Told
    <3> QED BY <1>1, <2>2, <3>1
  <2> QED BY <1>2, <2>1, <2>2
<1>4. Disjoint(h, told)
  <2>1. ASSUME NEW i \in DOMAIN h, NEW j \in DOMAIN told
        PROVE  h[i] # told[j]
    <3>1. PICK a \in DOMAIN ca : ca[a] = h[i]
      BY DEF Told
    <3>2. PICK b \in DOMAIN more : more[b] = told[j]
      BY DEF Told
    <3> QED BY <3>1, <3>2 DEF Disjoint
  <2> QED BY <2>1 DEF Disjoint
<1>5. ASSUME NEW a \in DOMAIN g, NEW b \in DOMAIN g, a # b
      PROVE  g[a] # g[b]
  <2>1. CASE (a \in DOMAIN h /\ g[a] = h[a]) /\ (b \in DOMAIN h /\ g[b] = h[b])
    BY <1>5, <2>1 DEF Told
  <2>2. CASE /\ a - m \in DOMAIN told /\ g[a] = told[a - m]
             /\ b - m \in DOMAIN told /\ g[b] = told[b - m]
    <3>1. a - m # b - m
      BY <1>2, <1>5
    <3> QED BY <2>2, <3>1 DEF Told
  <2>3. CASE (a \in DOMAIN h /\ g[a] = h[a]) /\ (b - m \in DOMAIN told /\ g[b] = told[b - m])
    BY <1>4, <2>3 DEF Disjoint
  <2>4. CASE (b \in DOMAIN h /\ g[b] = h[b]) /\ (a - m \in DOMAIN told /\ g[a] = told[a - m])
    <3>1. h[b] # told[a - m]
      BY <1>4, <2>4 DEF Disjoint
    <3> QED BY <2>4, <3>1
  <2> QED BY <1>2, <2>1, <2>2, <2>3, <2>4
<1>6. Told(g, all)
  BY <1>3, <1>5 DEF Told
<1> QED BY <1>6 DEF g, all

(* A broadcast of operations that were not broadcast before and that no    *)
(* connection, and no buffer, still has to bring.                          *)
CastsOnce(car, more) ==
  /\ Grown(ops, ops') /\ cast' = cast \o more
  /\ \A k \in Conns : net'[k].by = net[k].by /\ net'[k].sgone = net[k].sgone
  /\ \A k \in Conns : Len(slot'[k].took) >= Len(slot[k].took)
  /\ \A d \in Clients : cli'[d].q = cli[d].q
  /\ Logged(more, ops') /\ Disjoint(cast, more)
  /\ \A k \in Conns : net[k].sgone = FALSE => Apart(car[k], Len(slot'[k].took), more)
  /\ \A d \in Clients : Apart(cli[d].q, 0, more)
  /\ \E told \in Seq(Int) : heard'[L] = heard[L] \o told /\ Told(told, more)

(* It keeps the order.                                                     *)
LEMMA CastOrder ==
  ASSUME Good, Good', NEW car \in Carrying, Order(car), NEW more \in Seq(Int), CastsOnce(car, more)
  PROVE  Order(car)'
<1>0. cast \in Seq(Int) /\ heard[L] \in Seq(Int)
  BY DEF Good, Records, Procs
<1>1. ASSUME NEW k \in Conns
      PROVE  Mine(car[k], net'[k].by, ops')
  BY <1>1, MineKept DEF Order, CastsOnce
<1>2. ASSUME NEW j \in Conns, NEW k \in Conns, j < k, net'[j].by = net'[k].by
      PROVE  Before(car[j], car[k])
  BY <1>2 DEF Order, CastsOnce
<1>3. ASSUME NEW c \in Clients
      PROVE  Mine(cli'[c].q, c, ops') /\ Apart(cli'[c].q, 0, cast')
  <2>1. Mine(cli[c].q, c, ops') /\ cli'[c].q = cli[c].q
    BY <1>3, MineKept DEF Order, CastsOnce
  <2>2. Apart(cli[c].q, 0, cast \o more)
    BY <1>0, ApartMore DEF Order, CastsOnce
  <2> QED BY <2>1, <2>2 DEF CastsOnce
<1>4. ASSUME NEW c \in Clients, NEW k \in Conns, net'[k].by = c
      PROVE  Before(car[k], cli'[c].q)
  BY <1>4 DEF Order, CastsOnce
<1>5. ASSUME NEW k \in Conns, net'[k].sgone = FALSE
      PROVE  Apart(car[k], Len(slot'[k].took), cast')
  <2> DEFINE e == Len(slot[k].took)
             f == Len(slot'[k].took)
  <2>1. /\ Apart(car[k], e, cast) /\ Apart(car[k], f, more) /\ f >= e
    BY <1>5 DEF Order, CastsOnce
  <2>2. e \in Nat /\ f \in Nat /\ DOMAIN car[k] \in SUBSET Nat
    <3>1. slot[k].took \in Seq(Int) /\ slot'[k].took \in Seq(Int) /\ car[k] \in Seq(Int)
      <4>1. slot[k].took \in Seq(Int)
        BY Fields DEF WSlot
      <4>2. slot'[k] \in GoodSlot
        BY DEF Good, Records
      <4> QED BY <4>1, <4>2 DEF GoodSlot, WSlot, Carrying
    <3> QED BY <3>1
  <2> HIDE DEF e, f
  <2>3. Apart(car[k], f, cast)
    <3>1. \A i \in DOMAIN car[k] : i > f => i > e
      BY <2>1, <2>2
    <3> QED BY <2>1, <3>1 DEF Apart
  <2>4. Apart(car[k], f, cast \o more)
    BY <1>0, <2>1, <2>3, ApartMore
  <2> QED BY <2>4 DEF CastsOnce, f
<1>6. Logged(cast', ops')
  <2>1. Logged(cast, ops')
    BY MineKept DEF Order, CastsOnce
  <2>2. Logged(more, ops') /\ Disjoint(cast, more) /\ cast' = cast \o more
    BY DEF CastsOnce
  <2>3. PICK o : o = ops'
    OBVIOUS
  <2>4. Logged(cast \o more, o)
    BY <1>0, <2>1, <2>2, <2>3, LoggedMore
  <2> QED BY <2>2, <2>3, <2>4
<1>7. Told(heard'[L], cast')
  <2>1. PICK told \in Seq(Int) : heard'[L] = heard[L] \o told /\ Told(told, more)
    BY DEF CastsOnce
  <2>2. Told(heard[L], cast) /\ Disjoint(cast, more) /\ cast' = cast \o more
    BY DEF CastsOnce, Order
  <2>3. Told(heard[L] \o told, cast \o more)
    BY <1>0, <2>1, <2>2, ToldMore
  <2> QED BY <2>1, <2>2, <2>3
<1> QED BY <1>1, <1>2, <1>3, <1>4, <1>5, <1>6, <1>7 DEF Order

(* A step of the leader that broadcasts nothing keeps the order.           *)
LEMMA QuietLeader ==
  ASSUME NEW car \in Carrying, Ups(car)', Order(car), NEW k \in Conns, LeaderSame(k),
         net'[k].by = net[k].by,
         net'[k].sgone = FALSE => net[k].sgone = FALSE /\ slot'[k].took = slot[k].took,
         ops' = ops, cast' = cast, heard' = heard
  PROVE  Carried'
<1>1. /\ \A j \in Conns : net'[j].by = net[j].by
      /\ \A j \in Conns : net'[j].sgone = FALSE =>
           net[j].sgone = FALSE /\ slot'[j].took = slot[j].took
      /\ \A d \in Clients : cli'[d].q = cli[d].q
  BY DEF LeaderSame
<1>2. Grown(ops, ops')
  BY DEF Grown
<1>3. Order(car)'
  BY <1>1, <1>2, OrderKept
<1> QED BY <1>3 DEF Carried

(* The network has its connections carry what they did.                    *)
LEMMA NetworkCarried ==
  ASSUME Good, Carried, NEW k \in Conns, Establish(k) \/ Refuse(k)
  PROVE  Carried'
<1>1. PICK car \in Carrying : Ups(car) /\ Order(car)
  BY DEF Carried
<1>2. Ups(car)'
  BY <1>1, NetworkUps
<1>3. LeaderSame(k) /\ slot' = slot /\ net'[k].by = net[k].by /\ net'[k].sgone = net[k].sgone
  BY NetworkStep
<1>4. ops' = ops /\ cast' = cast /\ heard' = heard
  BY DEF Establish, Refuse
<1> QED BY <1>1, <1>2, <1>3, <1>4, QuietLeader

(* The leader accepts a connection, of which it has taken nothing, or cuts *)
(* it.                                                                     *)
LEMMA AcceptCarried ==
  ASSUME Good, Carried, NEW k \in Conns, Accept(k)
  PROVE  Carried'
<1>1. PICK car \in Carrying : Ups(car) /\ Order(car)
  BY DEF Carried
<1>2. Ups(car)'
  BY <1>1, AcceptUps
<1>3. /\ LeaderSame(k) /\ slot[k].state = "none"
      /\ \/ net' = net /\ slot'[k].took = <<>>
         \/ Cut(net[k], net'[k])
  BY AcceptStep
<1>4. slot[k].took = <<>>
  <2>1. slot[k].state # "stream"
    BY <1>3
  <2> QED BY <2>1, Fields DEF GoodSlot
<1>5. ops' = ops /\ cast' = cast /\ heard' = heard
  BY DEF Accept
<1>6. /\ net'[k].by = net[k].by
      /\ net'[k].sgone = FALSE => net[k].sgone = FALSE /\ slot'[k].took = slot[k].took
  BY <1>3, <1>4 DEF Cut
<1> QED BY <1>1, <1>2, <1>3, <1>5, <1>6, QuietLeader

(* It drops one, and takes no more of it.                                  *)
LEMMA ClientLeavesCarried ==
  ASSUME Good, Carried, NEW k \in Conns, ClientLeaves(k)
  PROVE  Carried'
<1>1. PICK car \in Carrying : Ups(car) /\ Order(car)
  BY DEF Carried
<1>2. Ups(car)'
  BY <1>1, ClientLeavesUps
<1>3. LeaderSame(k) /\ Cut(net[k], net'[k])
  BY ClientLeavesStep
<1>4. ops' = ops /\ cast' = cast /\ heard' = heard
  BY DEF ClientLeaves
<1> QED BY <1>1, <1>2, <1>3, <1>4, QuietLeader DEF Cut

(* The Hello comes before what is carried.                                 *)
LEMMA ReadHeloCarried ==
  ASSUME Good, Carried, NEW k \in Conns, ReadHelo(k)
  PROVE  Carried'
<1> DEFINE s == slot[k]
           t == slot'[k]
           got == Append(s.in, Head(net[k].up))
<1>1. PICK car \in Carrying : Ups(car) /\ Order(car)
  BY DEF Carried
<1>2. Ups(car)'
  BY <1>1, ReadHeloUps
<1>3. /\ LeaderSame(k) /\ s.state = "helo"
      /\ \/ /\ UpTaken(net[k], net'[k]) /\ Len(got) < Parts
            /\ t.state = "helo" /\ t.in = got /\ t.dec = <<>> /\ t.took = <<>>
         \/ Cut(net[k], net'[k]) /\ t = NoSlot
         \/ /\ UpTaken(net[k], net'[k]) /\ got = Packet(HELO)
            /\ t.state = "wlcm" /\ t.dec = <<>> /\ t.took = <<>>
  BY ReadHeloStep
<1>4. s.took = <<>>
  BY <1>3, Fields DEF GoodSlot
<1>5. ops' = ops /\ cast' = cast /\ heard' = heard
  BY DEF ReadHelo
<1>6. /\ net'[k].by = net[k].by
      /\ net'[k].sgone = FALSE => net[k].sgone = FALSE /\ t.took = s.took
  BY <1>3, <1>4 DEF Cut, UpTaken
<1> QED BY <1>1, <1>2, <1>3, <1>5, <1>6, QuietLeader

(* The Welcome takes nothing from the way up.                              *)
LEMMA WriteWlcmCarried ==
  ASSUME Good, Carried, NEW k \in Conns, WriteWlcm(k)
  PROVE  Carried'
<1>1. PICK car \in Carrying : Ups(car) /\ Order(car)
  BY DEF Carried
<1>2. Ups(car)'
  BY <1>1, WriteWlcmUps
<1>3. /\ LeaderSame(k) /\ slot[k].state = "wlcm"
      /\ DownSent(net[k], net'[k], Head(slot[k].left)) /\ slot'[k].took = <<>>
  BY WriteWlcmStep
<1>4. slot[k].took = <<>>
  BY <1>3, Fields DEF GoodSlot
<1>5. ops' = ops /\ cast' = cast /\ heard' = heard
  BY DEF WriteWlcm
<1>6. net'[k].by = net[k].by /\ net'[k].sgone = net[k].sgone /\ slot'[k].took = slot[k].took
  BY <1>3, <1>4 DEF DownSent
<1> QED BY <1>1, <1>2, <1>3, <1>5, <1>6, QuietLeader

(* Neither does an error on a stream of the leader,                        *)
LEMMA LeaderTroubleCarried ==
  ASSUME Good, Carried, NEW k \in Conns, LeaderTrouble(k)
  PROVE  Carried'
<1>1. PICK car \in Carrying : Ups(car) /\ Order(car)
  BY DEF Carried
<1>2. Ups(car)'
  BY <1>1, LeaderTroubleUps
<1>3. LeaderSame(k) /\ net' = net /\ slot'[k].took = slot[k].took
  BY LeaderTroubleStep DEF SameSlot
<1>4. ops' = ops /\ cast' = cast /\ heard' = heard
  BY DEF LeaderTrouble
<1> QED BY <1>1, <1>2, <1>3, <1>4, QuietLeader

(* nor a write of it.                                                      *)
LEMMA LeaderWriteCarried ==
  ASSUME Good, Carried, NEW k \in Conns, LeaderWrite(k)
  PROVE  Carried'
<1>1. PICK car \in Carrying : Ups(car) /\ Order(car)
  BY DEF Carried
<1>2. Ups(car)'
  BY <1>1, LeaderWriteUps
<1>3. /\ LeaderSame(k) /\ DownSent(net[k], net'[k], Head(slot[k].out))
      /\ slot'[k].took = slot[k].took
  BY LeaderWriteStep
<1>4. ops' = ops /\ cast' = cast /\ heard' = heard
  BY DEF LeaderWrite
<1>5. net'[k].by = net[k].by /\ net'[k].sgone = net[k].sgone
  BY <1>3 DEF DownSent
<1> QED BY <1>1, <1>2, <1>3, <1>4, <1>5, QuietLeader

(* When the leader ends it takes nothing more of any connection.           *)
LEMMA LeaderQuitsCarried ==
  ASSUME Good, Carried, LeaderQuits
  PROVE  Carried'
<1>1. PICK car \in Carrying : Ups(car) /\ Order(car)
  BY DEF Carried
<1>2. Ups(car)'
  BY <1>1, LeaderQuitsUps
<1>3. ASSUME NEW k \in Conns
      PROVE  /\ net'[k].by = net[k].by
             /\ net'[k].sgone = FALSE => net[k].sgone = FALSE /\ slot'[k].took = slot[k].took
  <2>1. /\ slot'[k] = NoSlot
        /\ IF net[k].phase = "up" THEN Cut(net[k], net'[k]) ELSE net'[k] = net[k]
    BY LeaderQuitsStep
  <2>2. CASE net[k].phase = "up"
    BY <2>1, <2>2 DEF Cut
  <2>3. CASE net[k].phase # "up"
    <3>1. slot[k] = NoSlot
      <4>1. slot[k].state = "none"
        BY <2>3 DEF Good, Wired
      <4> QED BY <4>1, Fields DEF GoodSlot
    <3> QED BY <2>1, <2>3, <3>1
  <2> QED BY <2>2, <2>3
<1>4. cli' = cli /\ ops' = ops /\ cast' = cast /\ heard' = heard
  BY DEF LeaderQuits
<1>5. Grown(ops, ops')
  BY <1>4 DEF Grown
<1>6. Order(car)'
  BY <1>1, <1>3, <1>4, <1>5, OrderKept
<1> QED BY <1>2, <1>6 DEF Carried

(* The places of one operation, and of two.                                *)
LEMMA Singles ==
  /\ \A a : DOMAIN <<a>> = {1} /\ <<a>>[1] = a
  /\ \A a, b : DOMAIN <<a, b>> = {1, 2} /\ <<a, b>>[1] = a /\ <<a, b>>[2] = b
OBVIOUS

(* A new operation is none of those published before.                      *)
LEMMA NewFirst ==
  ASSUME Good, NEW rec \in [from : Procs, kind : {"line", "command", "answer"}],
         ops' = Append(ops, rec)
  PROVE  /\ Grown(ops, ops') /\ NewId \in DOMAIN ops' /\ NewId \notin DOMAIN ops /\ NewId \in Int
         /\ \A ids, c, e : Mine(ids, c, ops) => Apart(ids, e, <<NewId>>)
         /\ \A ca : Logged(ca, ops) => Disjoint(ca, <<NewId>>)
<1> DEFINE S == [from : Procs, kind : {"line", "command", "answer"}]
<1>1. ops \in Seq(S) /\ rec \in S
  BY DEF Good, Records
<1> HIDE DEF S
<1>2. /\ DOMAIN ops = 1 .. Len(ops) /\ Len(ops) \in Nat
      /\ DOMAIN Append(ops, rec) = 1 .. Len(ops) + 1
      /\ \A i \in 1 .. Len(ops) : Append(ops, rec)[i] = ops[i]
  BY <1>1
<1>3. /\ Grown(ops, ops') /\ NewId \in DOMAIN ops' /\ NewId \notin DOMAIN ops /\ NewId \in Int
  BY <1>2 DEF Grown, NewId
<1> DEFINE new == NewId
           one == <<new>>
<1>4. DOMAIN one = {1} /\ one[1] = new /\ new \notin DOMAIN ops
  BY <1>3, Singles
<1> HIDE DEF new, one
<1>5. ASSUME NEW ids, NEW c, NEW e, Mine(ids, c, ops)
      PROVE  Apart(ids, e, one)
  BY <1>4, <1>5 DEF Apart, Mine
<1>6. ASSUME NEW ca, Logged(ca, ops)
      PROVE  Disjoint(ca, one)
  BY <1>4, <1>6 DEF Disjoint, Logged
<1> QED BY <1>3, <1>5, <1>6 DEF new, one

(* What the leader publishes it broadcasts at once.                        *)
LEMMA LeaderPublishCarried ==
  ASSUME Good, Carried, NEW kind \in DOMAIN MaxOps, LeaderPublish(kind)
  PROVE  Carried'
<1> DEFINE rec == [from |-> L, kind |-> kind]
           new == NewId
           more == <<new>>
<1>1. PICK car \in Carrying : Ups(car) /\ Order(car)
  BY DEF Carried
<1>2. Ups(car)'
  BY <1>1, LeaderPublishUps
<1>3. rec \in [from : Procs, kind : {"line", "command", "answer"}]
  BY StarAssumption DEF Procs
<1>4. /\ Good' /\ net' = net /\ cli' = cli /\ ops' = Append(ops, rec)
      /\ heard' = [heard EXCEPT ![L] = Append(@, new)] /\ cast' = cast \o more /\ new \in Int
      /\ \A k \in Conns : CastTo(slot[k], slot'[k], more)
  BY LeaderPublishStep
<1>5. heard'[L] = heard[L] \o more /\ heard[L] \in Seq(Int)
  <2>1. heard[L] \in Seq(Int) /\ heard \in [Procs -> Seq(Int)] /\ L \in Procs
    BY DEF Good, Records, Procs
  <2>2. heard'[L] = Append(heard[L], new)
    BY <1>4, <2>1
  <2> DEFINE h == heard[L]
  <2>3. Append(h, new) = h \o more
    <3>1. h \in Seq(Int) /\ new \in Int
      BY <1>4, <2>1
    <3> HIDE DEF h, new
    <3> QED BY <3>1
  <2> QED BY <2>1, <2>2, <2>3
<1>6. /\ Grown(ops, ops') /\ new \in DOMAIN ops'
      /\ \A ids, c, e : Mine(ids, c, ops) => Apart(ids, e, more)
      /\ \A ca : Logged(ca, ops) => Disjoint(ca, more)
  <2> HIDE DEF rec
  <2> QED BY <1>3, <1>4, NewFirst
<1> HIDE DEF new, rec
<1>7. DOMAIN more = {1} /\ more[1] = new /\ more \in Seq(Int)
  BY <1>4, Singles
<1> HIDE DEF more
<1>8. Logged(more, ops') /\ Told(more, more)
  BY <1>6, <1>7 DEF Logged, Told
<1>9. CastsOnce(car, more)
  <2>1. \A k \in Conns : slot'[k].took = slot[k].took /\ Len(slot[k].took) \in Int
    BY <1>4, Fields DEF CastTo, WSlot
  <2>2. /\ \A k \in Conns : \A e : Apart(car[k], e, more)
        /\ \A d \in Clients : Apart(cli[d].q, 0, more)
        /\ Disjoint(cast, more)
    BY <1>1, <1>6 DEF Order
  <2>3. \A k \in Conns : Len(slot'[k].took) >= Len(slot[k].took)
    BY <2>1
  <2> QED BY <1>4, <1>5, <1>6, <1>7, <1>8, <2>2, <2>3 DEF CastsOnce
<1>10. Order(car)'
  BY <1>1, <1>4, <1>7, <1>9, CastOrder
<1> QED BY <1>2, <1>10 DEF Carried

(* The operation id that comes next on connection k: it was not broadcast, *)
(* and once it is taken no connection and no buffer brings it again.       *)
Due(car, k, e, id) ==
  /\ id \in DOMAIN ops /\ id \in Int
  /\ \A a \in DOMAIN cast : cast[a] # id
  /\ \A j \in Conns : j # k => \A i \in DOMAIN car[j] : car[j][i] # id
  /\ \A i \in DOMAIN car[k] : i > e + 1 => car[k][i] # id
  /\ \A d \in Clients : \A i \in DOMAIN cli[d].q : cli[d].q[i] # id

(* The first operation the leader has not taken of a connection is due.    *)
LEMMA NextIsDue ==
  ASSUME Good, NEW car \in Carrying, Order(car), NEW k \in Conns, net[k].sgone = FALSE,
         NEW e \in Nat, e = Len(slot[k].took), e + 1 \in DOMAIN car[k]
  PROVE  Due(car, k, e, car[k][e + 1])
<1> DEFINE id == car[k][e + 1]
<1>1. id \in DOMAIN ops /\ ops[id].from = net[k].by /\ id \in Int
  <2>1. Mine(car[k], net[k].by, ops)
    BY DEF Order
  <2>2. car[k] \in Seq(Int)
    BY DEF Carrying
  <2> QED BY <2>1, <2>2 DEF Mine
<1>2. \A a \in DOMAIN cast : cast[a] # id
  <2>1. Apart(car[k], e, cast) /\ e + 1 > e
    BY DEF Order
  <2> QED BY <2>1 DEF Apart
<1>3. ASSUME NEW j \in Conns, j # k, NEW i \in DOMAIN car[j]
      PROVE  car[j][i] # id
  <2>1. Mine(car[j], net[j].by, ops)
    BY DEF Order
  <2>2. ops[car[j][i]].from = net[j].by
    BY <2>1 DEF Mine
  <2>3. CASE net[j].by # net[k].by
    BY <1>1, <2>2, <2>3
  <2>4. CASE net[j].by = net[k].by /\ j < k
    <3>1. Before(car[j], car[k])
      BY <2>4 DEF Order
    <3>2. car[j][i] < id
      BY <3>1 DEF Before
    <3>3. car[j][i] \in Int
      BY DEF Carrying
    <3> QED BY <1>1, <3>2, <3>3
  <2>5. CASE net[j].by = net[k].by /\ k < j
    <3>1. Before(car[k], car[j])
      BY <2>5 DEF Order
    <3>2. id < car[j][i]
      BY <3>1 DEF Before
    <3>3. car[j][i] \in Int
      BY DEF Carrying
    <3> QED BY <1>1, <3>2, <3>3
  <2>6. j < k \/ k < j
    BY <1>3, StarAssumption DEF Conns
  <2> QED BY <2>3, <2>4, <2>5, <2>6
<1>4. ASSUME NEW i \in DOMAIN car[k], i > e + 1
      PROVE  car[k][i] # id
  <2>1. Increasing(car[k])
    BY DEF Order, Mine
  <2>2. id < car[k][i]
    BY <1>4, <2>1 DEF Increasing
  <2>3. car[k][i] \in Int
    BY DEF Carrying
  <2> QED BY <1>1, <2>2, <2>3
<1>5. ASSUME NEW d \in Clients, NEW i \in DOMAIN cli[d].q
      PROVE  cli[d].q[i] # id
  <2>1. Mine(cli[d].q, d, ops)
    BY DEF Order
  <2>2. CASE net[k].by # d
    BY <1>1, <2>1, <2>2 DEF Mine
  <2>3. CASE net[k].by = d
    <3>1. Before(car[k], cli[d].q)
      BY <2>3 DEF Order
    <3>2. id < cli[d].q[i]
      BY <3>1 DEF Before
    <3>3. cli[d].q \in Seq(Int)
      BY Fields DEF WCli
    <3>4. cli[d].q[i] \in Int
      BY <3>3
    <3> QED BY <1>1, <3>2, <3>4
  <2> QED BY <2>2, <2>3
<1>6. Due(car, k, e, id)
  BY <1>1, <1>2, <1>3, <1>4, <1>5 DEF Due
<1> QED BY <1>6

(* So the leader may broadcast it, alone or behind its answer to it.       *)
LEMMA DueApart ==
  ASSUME NEW car, NEW k \in Conns, NEW e, NEW id, Due(car, k, e, id)
  PROVE  /\ \A j \in Conns : \A f : (j = k => f = e + 1) => Apart(car[j], f, <<id>>)
         /\ \A d \in Clients : Apart(cli[d].q, 0, <<id>>)
         /\ Disjoint(cast, <<id>>) /\ Logged(<<id>>, ops)
<1> DEFINE one == <<id>>
<1>1. DOMAIN one = {1} /\ one[1] = id
  BY Singles
<1> HIDE DEF one
<1>2. ASSUME NEW j \in Conns, NEW f, j = k => f = e + 1
      PROVE  Apart(car[j], f, one)
  BY <1>1, <1>2 DEF Apart, Due
<1>3. \A d \in Clients : Apart(cli[d].q, 0, one)
  BY <1>1 DEF Apart, Due
<1>4. Disjoint(cast, one)
  BY <1>1 DEF Disjoint, Due
<1>5. Logged(one, ops)
  BY <1>1 DEF Logged, Due
<1> QED BY <1>2, <1>3, <1>4, <1>5 DEF one

(* The parts of a pair.                                                    *)
LEMMA PairParts ==
  ASSUME NEW a \in Int, NEW b \in Int
  PROVE  /\ \A ids, e : Apart(ids, e, <<a>>) /\ Apart(ids, e, <<b>>) => Apart(ids, e, <<a, b>>)
         /\ \A ca : Disjoint(ca, <<a>>) /\ Disjoint(ca, <<b>>) => Disjoint(ca, <<a, b>>)
         /\ \A o : a # b /\ Logged(<<a>>, o) /\ Logged(<<b>>, o) => Logged(<<a, b>>, o)
         /\ a # b => Told(<<b, a>>, <<a, b>>)
         /\ Told(<<a>>, <<a>>)
<1> DEFINE x == <<a>>
           y == <<b>>
           z == <<a, b>>
           w == <<b, a>>
<1>1. /\ DOMAIN x = {1} /\ x[1] = a /\ DOMAIN y = {1} /\ y[1] = b
      /\ DOMAIN z = {1, 2} /\ z[1] = a /\ z[2] = b
      /\ DOMAIN w = {1, 2} /\ w[1] = b /\ w[2] = a
  BY Singles
<1> HIDE DEF x, y, z, w
<1>2. ASSUME NEW ids, NEW e, Apart(ids, e, x), Apart(ids, e, y)
      PROVE  Apart(ids, e, z)
  BY <1>1, <1>2 DEF Apart
<1>3. ASSUME NEW ca, Disjoint(ca, x), Disjoint(ca, y)
      PROVE  Disjoint(ca, z)
  BY <1>1, <1>3 DEF Disjoint
<1>4. ASSUME NEW o, a # b, Logged(x, o), Logged(y, o)
      PROVE  Logged(z, o)
  BY <1>1, <1>4 DEF Logged
<1>5. a # b => Told(w, z)
  BY <1>1 DEF Told
<1>6. Told(x, x)
  BY <1>1 DEF Told
<1> QED BY <1>2, <1>3, <1>4, <1>5, <1>6 DEF x, y, z, w

(* What the leader reads it broadcasts once, an answer before it.          *)
LEMMA LeaderReadCarried ==
  ASSUME Good, Carried, NEW k \in Conns, LeaderRead(k)
  PROVE  Carried'
<1> DEFINE s == slot[k]
           t == slot'[k]
           u == Head(net[k].up)
           id == u[1]
           got == Append(s.dec, u)
           e == Len(s.took)
           new == NewId
<1>1. PICK car \in Carrying : Ups(car) /\ Order(car)
  BY DEF Carried
<1>2. /\ Ups(car)' /\ net[k].sgone = FALSE
      /\ Len(got) = Parts => got = Packet(id) /\ e + 1 \in 1 .. Len(car[k]) /\ id = car[k][e + 1]
  BY <1>1, LeaderReadUps
<1>3. /\ Good' /\ cli' = cli /\ u \in Messages \X (1 .. Parts)
      /\ UpTaken(net[k], net'[k]) /\ \A j \in Conns : j # k => net'[j] = net[j]
      /\ t.took = IF Len(got) = Parts THEN Append(s.took, id) ELSE s.took
  BY LeaderReadStep
<1>4. PICK more \in Seq(Int) :
        /\ cast' = cast \o more
        /\ \A j \in Conns : j # k => CastTo(slot[j], slot'[j], more)
        /\ IF Len(got) = Parts /\ got = Packet(id)
           THEN \/ /\ Answers(L, id) /\ ops' = Append(ops, Answer(L))
                   /\ more = <<new, id>>
                   /\ heard' = [heard EXCEPT ![L] = @ \o <<id, new>>]
                \/ /\ ~Answers(L, id) /\ ops' = ops
                   /\ more = <<id>>
                   /\ heard' = [heard EXCEPT ![L] = Append(@, id)]
           ELSE ops' = ops /\ more = <<>> /\ heard' = heard
  BY LeaderReadStep
<1>5. /\ \A j \in Conns : net'[j].by = net[j].by /\ net'[j].sgone = net[j].sgone
      /\ \A j \in Conns : j # k => slot'[j].took = slot[j].took
      /\ \A d \in Clients : cli'[d].q = cli[d].q
  BY <1>3, <1>4 DEF UpTaken, CastTo
<1>6. /\ cast \in Seq(Int) /\ heard \in [Procs -> Seq(Int)] /\ L \in Procs /\ e \in Nat
      /\ s.took \in Seq(Int) /\ car[k] \in Seq(Int)
      /\ \A j \in Conns : Len(slot[j].took) \in Nat
  <2>1. \A j \in Conns : slot[j].took \in Seq(Int)
    BY Fields DEF WSlot
  <2> QED BY <2>1 DEF Good, Records, Procs, Carrying
<1>7. CASE Len(got) # Parts
  <2>1. ops' = ops /\ more = <<>> /\ heard' = heard /\ t.took = s.took
    BY <1>3, <1>4, <1>7
  <2>2. cast' = cast
    BY <1>4, <1>6, <2>1
  <2>3. Grown(ops, ops')
    BY <2>1 DEF Grown
  <2>4. \A j \in Conns : slot'[j].took = slot[j].took
    BY <1>5, <2>1
  <2>5. Order(car)'
    <3> HIDE DEF s, t, u, id, got, e, new
    <3> QED BY <1>1, <1>5, <2>1, <2>2, <2>3, <2>4, OrderKept
  <2> QED BY <1>2, <2>5 DEF Carried
<1>8. CASE Len(got) = Parts
  <2>1. got = Packet(id) /\ e + 1 \in DOMAIN car[k] /\ id = car[k][e + 1]
    BY <1>2, <1>6, <1>8
  <2>2. Due(car, k, e, id)
    <3>1. Due(car, k, e, car[k][e + 1])
      <4>1. e = Len(slot[k].took) /\ e + 1 \in DOMAIN car[k]
        BY <2>1
      <4> HIDE DEF e, id
      <4> QED BY <1>1, <1>2, <1>6, <4>1, NextIsDue
    <3> QED BY <2>1, <3>1
  <2>3. Len(t.took) = e + 1 /\ \A j \in Conns : Len(slot'[j].took) >= Len(slot[j].took)
    <3>1. id \in Int
      BY <1>3 DEF Messages
    <3>2. Len(t.took) = e + 1
      <4> DEFINE took == s.took
                 x == id
      <4>1. took \in Seq(Int) /\ x \in Int /\ t.took = Append(took, x)
        BY <1>3, <1>6, <1>8, <3>1
      <4> HIDE DEF took, x, t
      <4>2. Len(t.took) = Len(took) + 1
        BY <4>1
      <4> QED BY <4>2 DEF took, t
    <3>3. ASSUME NEW j \in Conns
          PROVE  Len(slot'[j].took) >= Len(slot[j].took)
      <4>1. CASE j = k
        <5>1. Len(slot'[k].took) = e + 1 /\ Len(slot[k].took) = e
          BY <3>2
        <5> HIDE DEF e
        <5> QED BY <1>6, <4>1, <5>1
      <4>2. CASE j # k
        <5>1. Len(slot'[j].took) = Len(slot[j].took) /\ Len(slot[j].took) \in Nat
          BY <1>5, <1>6, <4>2
        <5> QED BY <5>1
      <4> QED BY <4>1, <4>2
    <3> QED BY <3>2, <3>3
  <2> DEFINE one == <<id>>
  <2>4. /\ \A j \in Conns : Apart(car[j], Len(slot'[j].took), one)
        /\ \A d \in Clients : Apart(cli[d].q, 0, one)
        /\ Disjoint(cast, one) /\ Logged(one, ops)
    <3>1. /\ \A j \in Conns : \A f : (j = k => f = e + 1) => Apart(car[j], f, <<id>>)
          /\ \A d \in Clients : Apart(cli[d].q, 0, <<id>>)
          /\ Disjoint(cast, <<id>>) /\ Logged(<<id>>, ops)
      <4> HIDE DEF e, id
      <4> QED BY <2>2, DueApart
    <3> QED BY <2>3, <3>1
  <2>5. id \in Int /\ id \in DOMAIN ops
    BY <2>2 DEF Due
  <2>6. CASE ~Answers(L, id) /\ ops' = ops /\ more = <<id>>
             /\ heard' = [heard EXCEPT ![L] = Append(@, id)]
    <3>1. heard'[L] = heard[L] \o one /\ Told(one, more) /\ one \in Seq(Int)
      <4> DEFINE h == heard[L]
      <4>1. h \in Seq(Int) /\ heard'[L] = Append(h, id) /\ more = one
        BY <1>6, <2>6
      <4>2. Append(h, id) = h \o one
        <5>1. h \in Seq(Int) /\ id \in Int
          BY <2>5, <4>1
        <5> HIDE DEF h, id
        <5> QED BY <5>1
      <4>3. Told(one, one)
        BY <2>5, PairParts
      <4> QED BY <2>5, <4>1, <4>2, <4>3
    <3>2. Grown(ops, ops') /\ Logged(more, ops')
      BY <2>4, <2>6 DEF Grown
    <3>3. CastsOnce(car, more)
      <4> HIDE DEF one, id, e, s, t, u, got, new
      <4>1. more = one
        BY <2>6 DEF one
      <4> QED BY <1>4, <1>5, <2>3, <2>4, <3>1, <3>2, <4>1 DEF CastsOnce
    <3>4. Order(car)'
      BY <1>1, <1>3, <3>3, CastOrder
    <3> QED BY <1>2, <3>4 DEF Carried
  <2>7. CASE Answers(L, id) /\ ops' = Append(ops, Answer(L)) /\ more = <<new, id>>
             /\ heard' = [heard EXCEPT ![L] = @ \o <<id, new>>]
    <3>1. Answer(L) \in [from : Procs, kind : {"line", "command", "answer"}]
      BY DEF Answer, Procs
    <3>2. /\ Grown(ops, ops') /\ new \in DOMAIN ops' /\ new \notin DOMAIN ops /\ new \in Int
          /\ \A ids, c, f : Mine(ids, c, ops) => Apart(ids, f, <<new>>)
          /\ \A ca : Logged(ca, ops) => Disjoint(ca, <<new>>)
      <4> DEFINE rec == Answer(L)
      <4>1. rec \in [from : Procs, kind : {"line", "command", "answer"}] /\ ops' = Append(ops, rec)
        BY <2>7, <3>1
      <4> HIDE DEF rec
      <4> QED BY <4>1, NewFirst
    <3>3. new # id
      BY <2>5, <3>2
    <3> HIDE DEF id, new, e, s, t, u, got
    <3> DEFINE two == <<new, id>>
               told == <<id, new>>
    <3>4. /\ \A j \in Conns : Apart(car[j], Len(slot'[j].took), two)
          /\ \A d \in Clients : Apart(cli[d].q, 0, two)
          /\ Disjoint(cast, two)
      <4>1. /\ \A j \in Conns : Mine(car[j], net[j].by, ops)
            /\ \A d \in Clients : Mine(cli[d].q, d, ops)
            /\ Logged(cast, ops)
        BY <1>1 DEF Order
      <4>2. /\ \A ids, f : Apart(ids, f, <<new>>) /\ Apart(ids, f, <<id>>) => Apart(ids, f, two)
            /\ \A ca : Disjoint(ca, <<new>>) /\ Disjoint(ca, <<id>>) => Disjoint(ca, two)
        BY <2>5, <3>2, PairParts
      <4> HIDE DEF two
      <4> QED BY <2>4, <3>2, <4>1, <4>2
    <3>5. Logged(two, ops')
      <4>1. Logged(<<id>>, ops')
        BY <2>4, <3>2, MineKept
      <4>2. Logged(<<new>>, ops')
        <5> DEFINE nw == <<new>>
        <5>1. DOMAIN nw = {1} /\ nw[1] = new
          BY Singles
        <5> HIDE DEF nw
        <5>2. Logged(nw, ops')
          BY <3>2, <5>1 DEF Logged
        <5> QED BY <5>2 DEF nw
      <4>3. PICK o : o = ops'
        OBVIOUS
      <4>4. Logged(two, o)
        BY <2>5, <3>2, <3>3, <4>1, <4>2, <4>3, PairParts
      <4> QED BY <4>3, <4>4
    <3>6. heard'[L] = heard[L] \o told /\ Told(told, two) /\ told \in Seq(Int)
      <4>1. Told(told, two)
        BY <2>5, <3>2, <3>3, PairParts
      <4> QED BY <1>6, <2>5, <2>7, <3>2, <4>1
    <3>7. CastsOnce(car, more)
      <4>1. more = two
        BY <2>7
      <4> HIDE DEF two, told
      <4> QED BY <1>4, <1>5, <2>3, <3>2, <3>4, <3>5, <3>6, <4>1 DEF CastsOnce
    <3>8. Order(car)'
      BY <1>1, <1>3, <3>7, CastOrder
    <3> QED BY <1>2, <3>8 DEF Carried
  <2>8. \/ ~Answers(L, id) /\ ops' = ops /\ more = <<id>>
             /\ heard' = [heard EXCEPT ![L] = Append(@, id)]
        \/ Answers(L, id) /\ ops' = Append(ops, Answer(L)) /\ more = <<new, id>>
             /\ heard' = [heard EXCEPT ![L] = @ \o <<id, new>>]
    BY <1>4, <1>8, <2>1
  <2> QED BY <2>6, <2>7, <2>8
<1> QED BY <1>7, <1>8

(* Nothing is carried, buffered or broadcast at first.                     *)
LEMMA InitCarried ==
  ASSUME Init
  PROVE  Carried
<1> DEFINE car == [k \in Conns |-> <<>>]
<1>1. car \in Carrying /\ \A k \in Conns : car[k] = <<>>
  BY DEF Carrying
<1>2. /\ \A k \in Conns : net[k].phase = "unused" /\ slot[k].took = <<>>
      /\ \A c \in Clients : cli[c].q = <<>>
      /\ cast = <<>> /\ heard[L] = <<>> /\ ops = <<>>
  <2>1. \A k \in Conns : net[k] = NoConn /\ slot[k] = NoSlot
    BY DEF Init
  <2>2. NoConn.phase = "unused" /\ NoSlot.took = <<>>
    BY DEF NoConn, NoSlot
  <2>3. \A c \in Clients : cli[c].q = <<>>
    BY DEF Init, IdleClient
  <2> QED BY <2>1, <2>2, <2>3 DEF Init, Procs
<1> HIDE DEF car
<1> DEFINE none == <<>>
<1>3. DOMAIN none = {} /\ Len(none) = 0
  OBVIOUS
<1>4. Ups(car)
  <2> SUFFICES ASSUME NEW k \in Conns
               PROVE  Up(net[k], cli[net[k].by], slot[k], car[k])
    BY DEF Ups
  <2> DEFINE n == net[k]
             s == slot[k]
             ids == car[k]
  <2>1. n.phase = "unused" /\ s.took = none /\ ids = none
    BY <1>1, <1>2
  <2> HIDE DEF none, n, s, ids
  <2>2. Begun(s, ids)
    BY <1>3, <2>1 DEF Begun
  <2>3. Up(n, cli[net[k].by], s, ids)
    BY <2>1, <2>2 DEF Up, none
  <2> QED BY <2>3 DEF n, s, ids
<1>5. Order(car)
  <2>1. /\ \A k \in Conns : car[k] = none
        /\ \A c \in Clients : cli[c].q = none
        /\ cast = none /\ heard[L] = none
    BY <1>1, <1>2
  <2>2. /\ \A c, o : Mine(none, c, o)
        /\ \A a : Before(none, a) /\ Before(a, none)
        /\ \A e, ca : Apart(none, e, ca)
    BY Nothing
  <2> HIDE DEF none
  <2>3. Logged(none, ops) /\ Told(none, none)
    BY <1>3 DEF Logged, Told
  <2> QED BY <2>1, <2>2, <2>3 DEF Order
<1> QED BY <1>1, <1>4, <1>5 DEF Carried

(* Every step keeps what goes up whole and in order.                       *)
LEMMA NextCarried ==
  ASSUME Good, Carried, [Next]_vars
  PROVE  Carried'
<1>1. CASE UNCHANGED vars
  BY <1>1 DEF vars, Carried, Ups, Order
<1>2. ASSUME NEW c \in Clients,
             \/ ConnectFails(c)
             \/ \E k \in Conns, async \in Async : Connect(c, k, async)
             \/ Disconnect(c)
             \/ \E kind \in DOMAIN MaxOps : ClientPublish(c, kind)
      PROVE  Carried'
  BY <1>2, ToIdleCarried, ConnectCarried, ClientPublishCarried
<1>3. ASSUME NEW c \in Clients, ClientTick(c)
      PROVE  Carried'
  BY <1>3, OnConnectCarried, ToIdleCarried, WriteHeloCarried, ReadWlcmCarried,
     ClientTroubleCarried, ClientWriteCarried, ClientReadCarried DEF ClientTick
<1>4. ASSUME NEW k \in Conns, LeaderTick(k) \/ Establish(k) \/ Refuse(k)
      PROVE  Carried'
  BY <1>4, NetworkCarried, AcceptCarried, ClientLeavesCarried, ReadHeloCarried,
     WriteWlcmCarried, LeaderTroubleCarried, LeaderWriteCarried, LeaderReadCarried
     DEF LeaderTick
<1>5. ASSUME NEW kind \in DOMAIN MaxOps, LeaderPublish(kind)
      PROVE  Carried'
  BY <1>5, LeaderPublishCarried
<1>6. CASE LeaderQuits
  BY <1>6, LeaderQuitsCarried
<1> QED BY <1>1, <1>2, <1>3, <1>4, <1>5, <1>6 DEF Next, User

(* It stays so as long as the program runs.                                *)
THEOREM StaysCarried == Spec => []Carried
<1>1. Init => Good /\ Carried
  BY InitGood, InitCarried
<1>2. Good /\ Carried /\ [Next]_vars => (Good /\ Carried)'
  BY NextGood, NextCarried
<1> QED BY <1>1, <1>2, PTL DEF Spec

(* Six pieces of a stream put together in another order of steps.          *)
RegroupUp(w, f, d, e, l, o) ==
  ((((w \o f) \o d) \o e) \o l) \o o = w \o (f \o ((d \o e) \o (l \o o)))

(* The order does not matter.                                              *)
LEMMA BytesChainUp ==
  ASSUME NEW w \in Bytes, NEW f \in Bytes, NEW d \in Bytes, NEW e \in Bytes,
         NEW l \in Bytes, NEW o \in Bytes
  PROVE  RegroupUp(w, f, d, e, l, o)
<1> DEFINE lo == l \o o
           wfd == (w \o f) \o d
           wfde == wfd \o e
<1>1. lo \in Bytes /\ wfd \in Bytes
  <2>1. w \o f \in Bytes
    BY BytesType
  <2> QED BY <2>1, BytesType
<1>2. wfd = w \o (f \o d)
  BY BytesAssoc
<1>3. Regroup(w, f, d, e, lo)
  <2> HIDE DEF lo
  <2> QED BY <1>1, BytesChain
<1>4. ((w \o (f \o d)) \o e) \o lo = w \o (f \o ((d \o e) \o lo))
  BY <1>3 DEF Regroup
<1> HIDE DEF lo, wfd
<1>5. wfde \in Bytes
  BY <1>1, BytesType
<1>6. (wfde \o l) \o o = wfde \o lo
  <2> HIDE DEF wfde
  <2>1. (wfde \o l) \o o = wfde \o (l \o o)
    BY <1>5, BytesAssoc
  <2> QED BY <2>1 DEF lo
<1>7. wfde \o lo = w \o (f \o ((d \o e) \o lo))
  BY <1>2, <1>4
<1> QED BY <1>6, <1>7 DEF lo, wfd, RegroupUp

(* What was taken and what is still to come is all.                        *)
LEMMA TakenThenRest ==
  ASSUME NEW s \in WSlot, NEW ids \in Seq(Int), Begun(s, ids)
  PROVE  /\ Rest(ids, Len(s.took)) \in Seq(Int) /\ s.took \in Seq(Int)
         /\ s.took \o Rest(ids, Len(s.took)) = ids
<1> DEFINE l == s.took
           e == Len(l)
           m == Rest(ids, e)
           n == Len(ids)
<1>1. l \in Seq(Int)
  BY DEF WSlot
<1>2. e \in Nat /\ n \in Nat /\ e <= n /\ \A i \in 1 .. e : l[i] = ids[i]
  BY <1>1 DEF Begun
<1>3. m \in Seq(Int) /\ Len(m) = n - e /\ \A j \in 1 .. n - e : m[j] = ids[e + j]
  <2>1. e \in 0 .. Len(ids)
    BY <1>2
  <2> HIDE DEF e
  <2> QED BY <2>1, RestType
<1>4. PartsOf(l, m, ids)
  <2> HIDE DEF m
  <2>1. Len(ids) = Len(l) + Len(m)
    BY <1>2, <1>3
  <2>2. \A i \in 1 .. Len(m) : m[i] = ids[Len(l) + i]
    BY <1>2, <1>3
  <2> QED BY <1>2, <2>1, <2>2 DEF PartsOf
<1>5. l \o m = ids
  <2> HIDE DEF l, m
  <2> QED BY <1>1, <1>3, <1>4, JoinsTo
<1> QED BY <1>1, <1>3, <1>5

(* So the whole stream of a client is its Hello and what it sent.          *)
LEMMA UpsWhole ==
  ASSUME Good, Carried
  PROVE  UpStream
<1> SUFFICES ASSUME NEW c \in Clients, NEW k \in Conns, Joined(c, k), cli[c].st # "CONNECTING"
             PROVE  LET r == cli[c]
                        s == slot[k]
                        came == s.in \o Frames(s.took) \o s.dec
                    IN  came \o net[k].up \o r.left \o r.out = Packet(HELO) \o Frames(r.sent)
  BY DEF UpStream
<1> DEFINE n == net[k]
           r == cli[c]
           s == slot[k]
           ids == r.sent
           w == Packet(HELO)
<1>1. PICK car \in Carrying : Ups(car)
  BY DEF Carried
<1>2. /\ cli[c].fd = k /\ k # NoFd /\ s.state # "none" /\ n.phase = "up" /\ n.sgone = FALSE
      /\ n.rst = FALSE
  <2>1. cli[c].fd = k /\ s.state # "none" /\ ~n.rst
    BY DEF Joined
  <2>2. n.phase = "up" /\ n.sgone = FALSE /\ n.rst \in BOOLEAN
    BY <2>1, Fields DEF Good, Wired, WConn
  <2>3. k # NoFd
    BY StarAssumption DEF Conns, NoFd
  <2> QED BY <2>1, <2>2, <2>3
<1>3. /\ n.by = c /\ n.cgone = FALSE /\ Up(n, r, s, ids) /\ ids \in Seq(Int)
      /\ n \in WConn /\ r \in WCli /\ s \in GoodSlot /\ s \in WSlot
  BY <1>1, <1>2, AtClient
<1>4. PICK rest \in Bytes : UpWay(n, r, s, ids)!(rest)
  BY <1>2, <1>3 DEF Up, UpWay
<1>5. Begun(s, ids)
  BY <1>3 DEF Up
<1>6. /\ (UpPart(s) \o n.up) \o (r.left \o r.out) = Frames(UpStill(s, ids))
  BY <1>2, <1>3, <1>4
<1>7. /\ s.in \in Bytes /\ s.dec \in Bytes /\ n.up \in Bytes /\ r.left \in Bytes /\ r.out \in Bytes
      /\ s.took \in Seq(Int) /\ Frames(s.took) \in Bytes /\ w \in Bytes
  BY <1>3, SomeBytes, Greetings DEF WSlot, WConn, WCli
<1> SUFFICES ((((s.in \o Frames(s.took)) \o s.dec) \o n.up) \o r.left) \o r.out = w \o Frames(ids)
  OBVIOUS
<1> HIDE DEF n, r, s, ids, w
<1>8. RegroupUp(s.in, Frames(s.took), s.dec, n.up, r.left, r.out)
  BY <1>7, BytesChainUp
<1>9. s.in \o (Frames(s.took) \o ((s.dec \o n.up) \o (r.left \o r.out))) = w \o Frames(ids)
  <2>1. CASE s.state = "helo"
    <3>1. s.took = <<>> /\ s.dec = <<>> /\ UpPart(s) = s.in /\ UpStill(s, ids) = <<HELO>> \o ids
      BY <1>3, <2>1 DEF GoodSlot, UpPart, UpStill
    <3>2. Frames(s.took) = <<>> /\ s.dec \o n.up = n.up
      BY <1>7, <3>1, FramesEmpty, SomeBytes
    <3> DEFINE lo == r.left \o r.out
               up == n.up
               e == s.in
    <3>3. lo \in Bytes /\ up \in Bytes /\ e \in Bytes
      BY <1>7, BytesType
    <3>4. (e \o up) \o lo = Frames(<<HELO>> \o ids)
      BY <1>6, <3>1
    <3>5. Frames(<<HELO>> \o ids) = w \o Frames(ids)
      BY <1>3, Greetings, FramesFirst DEF w, Messages
    <3>6. Frames(s.took) \o ((s.dec \o n.up) \o (r.left \o r.out)) = up \o lo
      <4>1. up \o lo \in Bytes
        BY <3>3, BytesType
      <4>2. <<>> \o (up \o lo) = up \o lo
        BY <4>1, SomeBytes
      <4> QED BY <3>2, <4>2
    <3> HIDE DEF lo, up, e
    <3>7. (e \o up) \o lo = e \o (up \o lo)
      BY <3>3, BytesAssoc
    <3> QED BY <3>4, <3>5, <3>6, <3>7 DEF e
  <2>2. CASE s.state # "helo"
    <3> DEFINE y == Rest(ids, Len(s.took))
               l == s.took
    <3>1. s.state \in {"wlcm", "stream"} /\ s.in = w
      BY <1>2, <1>3, <2>2 DEF GoodSlot, WSlot, w
    <3>2. UpPart(s) = s.dec /\ UpStill(s, ids) = y
      BY <3>1 DEF UpPart, UpStill
    <3>3. y \in Seq(Int) /\ l \in Seq(Int) /\ l \o y = ids
      BY <1>3, <1>5, TakenThenRest
    <3>4. (s.dec \o n.up) \o (r.left \o r.out) = Frames(y)
      BY <1>6, <3>2
    <3> HIDE DEF y, l
    <3>5. Frames(l \o y) = Frames(l) \o Frames(y)
      BY <3>3, FramesConcat
    <3> QED BY <3>1, <3>3, <3>4, <3>5 DEF l
  <2> QED BY <2>1, <2>2
<1> QED BY <1>8, <1>9 DEF RegroupUp

(* A stream is whole in both directions.                                   *)
THEOREM StreamsStayWhole == Spec => []StreamsWhole
<1>1. Good /\ Downs /\ Carried => StreamsWhole
  BY DownsWhole, UpsWhole DEF StreamsWhole
<1> QED BY <1>1, StaysGood, StaysDown, StaysCarried, PTL

-----------------------------------------------------------------------------
(* The step seen in the log: nothing of it moves,                          *)
LogStays == cast' = cast /\ heard' = heard /\ \A d \in Clients : Pos(d)' = Pos(d)

(* or only the place of client c.                                          *)
OthersStay(c) == cast' = cast /\ \A d \in Clients : d # c => Pos(d)' = Pos(d)

(* Client c comes to the log, at a place behind all it has heard,          *)
Joins(c) ==
  /\ OthersStay(c) /\ heard' = heard
  /\ Pos(c) = -1 /\ Pos(c)' \in 0 .. Len(cast) /\ Within(heard[c], cast, Pos(c)')

(* or hears the next operation,                                            *)
Hears(c) ==
  /\ OthersStay(c)
  /\ Pos(c) \in 0 .. Len(cast) - 1 /\ Pos(c)' = Pos(c) + 1
  /\ heard' = [heard EXCEPT ![c] = Append(@, cast[Pos(c) + 1])]

(* or goes.                                                                *)
Leaves(c) ==
  /\ OthersStay(c) /\ heard' = heard
  /\ Pos(c) \in Nat /\ Pos(c)' = -1

(* The leader makes the log longer by an operation,                        *)
CastsOne(id) ==
  /\ cast' = cast \o <<id>> /\ heard' = [heard EXCEPT ![L] = Append(@, id)]
  /\ \A d \in Clients : Pos(d)' = Pos(d)

(* or by a command with the answer given to it in the leader's listener.   *)
CastsTwo(id, answer) ==
  /\ cast' = cast \o <<answer, id>>
  /\ heard' = [heard EXCEPT ![L] = @ \o <<id, answer>>]
  /\ \A d \in Clients : Pos(d)' = Pos(d)

(* No step does anything else.                                             *)
LogStep ==
  \/ LogStays
  \/ \E c \in Clients : Joins(c) \/ Hears(c) \/ Leaves(c)
  \/ \E id \in Int : CastsOne(id) \/ \E answer \in Int : CastsTwo(id, answer)

(* A client on the stream has a place in the log.                          *)
LEMMA PosType ==
  ASSUME Good, Downs, NEW c \in Clients
  PROVE  /\ cli[c].st = "STREAM" =>
              /\ Pos(c) = Place(net[cli[c].fd], cli[c], heard[c])
              /\ Pos(c) \in 0 .. Len(cast)
         /\ cli[c].st # "STREAM" => Pos(c) = -1
<1>1. CASE cli[c].st # "STREAM"
  BY <1>1 DEF Pos
<1>2. CASE cli[c].st = "STREAM"
  <2>1. Pos(c) = Place(net[cli[c].fd], cli[c], heard[c])
    BY <1>2 DEF Pos, Place
  <2>2. cli[c] \in GoodCli
    BY Fields
  <2>3. cli[c].fd # NoFd
    BY <1>2, <2>2 DEF GoodCli
  <2> DEFINE k == cli[c].fd
  <2>4. k \in Conns
    BY <2>3, Fields
  <2>5. /\ Down(net[k], cli[c], slot[k], heard[c], cast) /\ net[k] \in WConn
        /\ cli[c] \in WCli /\ heard[c] \in Seq(Int) /\ cast \in Seq(Int) /\ net[k].phase = "up"
    BY <1>2, <2>4, AtConn
  <2>6. net[k].base <= Len(cast) /\ InStep(net[k], cli[c], heard[c], cast)
    BY <1>2, <2>5 DEF Down
  <2>7. Place(net[k], cli[c], heard[c]) \in 0 .. Len(cast)
    BY <1>2, <2>5, <2>6, StillType
  <2> QED BY <1>2, <2>1, <2>7
<1> QED BY <1>1, <1>2

(* A place in the log stays when nothing of the client or its connection   *)
(* changes that it is counted from.                                        *)
LEMMA PosStays ==
  ASSUME NEW c \in Clients,
         cli'[c].st = cli[c].st,
         cli[c].st = "STREAM" => /\ cli'[c].fd = cli[c].fd /\ cli'[c].base = cli[c].base
                                 /\ net'[cli[c].fd].base = net[cli[c].fd].base
                                 /\ heard'[c] = heard[c]
  PROVE  Pos(c)' = Pos(c)
<1>1. CASE cli[c].st = "STREAM"
  BY <1>1 DEF Pos
<1>2. CASE cli[c].st # "STREAM"
  BY <1>2 DEF Pos
<1> QED BY <1>1, <1>2

(* What the step does to the other clients' connections.                   *)
OthersBase(c) ==
  \A d \in Clients : d # c =>
    /\ cli'[d] = cli[d] /\ heard'[d] = heard[d]
    /\ cli[d].fd # NoFd => net'[cli[d].fd].base = net[cli[d].fd].base

(* It leaves their places in the log as they are.                          *)
LEMMA OthersPos ==
  ASSUME Good, NEW c \in Clients, OthersBase(c), cast' = cast
  PROVE  OthersStay(c)
<1>1. ASSUME NEW d \in Clients, d # c
      PROVE  Pos(d)' = Pos(d)
  <2>1. cli'[d] = cli[d] /\ heard'[d] = heard[d]
        /\ (cli[d].fd # NoFd => net'[cli[d].fd].base = net[cli[d].fd].base)
    BY <1>1 DEF OthersBase
  <2>2. cli[d].st = "STREAM" => cli[d].fd # NoFd
    BY Fields DEF GoodCli
  <2> QED BY <2>1, <2>2, PosStays
<1> QED BY <1>1 DEF OthersStay

(* A step of one client at its own connection leaves those of the others.  *)
LEMMA OthersBaseOwn ==
  ASSUME Good, NEW c \in Clients, cli[c].fd # NoFd, OthersSame(c, cli[c].fd), heard' = heard
  PROVE  OthersBase(c)
<1>1. /\ \A d \in Clients : d # c => cli'[d] = cli[d]
      /\ \A j \in Conns : net[j].by \in Clients \ {c} => net'[j] = net[j]
  BY OthersBy
<1>2. ASSUME NEW d \in Clients, d # c, cli[d].fd # NoFd
      PROVE  net'[cli[d].fd] = net[cli[d].fd]
  <2>1. cli[d].fd \in Conns /\ net[cli[d].fd].by = d
    BY <1>2, Connected
  <2> QED BY <1>1, <1>2, <2>1
<1> QED BY <1>1, <1>2 DEF OthersBase

(* A client that is not on the stream after a step has left the log or was *)
(* not there.                                                              *)
LEMMA OffLog ==
  ASSUME Good, Downs, NEW c \in Clients, OthersBase(c), cast' = cast, heard' = heard,
         cli'[c].st # "STREAM"
  PROVE  LogStep
<1>1. Pos(c)' = -1
  BY DEF Pos
<1>2. OthersStay(c)
  BY OthersPos
<1>3. CASE cli[c].st = "STREAM"
  <2>1. Pos(c) \in Nat
    BY <1>3, PosType DEF Good, Records
  <2> QED BY <1>1, <1>2, <2>1 DEF LogStep, Leaves
<1>4. CASE cli[c].st # "STREAM"
  <2>1. Pos(c) = -1
    BY <1>4, PosType
  <2> QED BY <1>1, <1>2, <2>1 DEF LogStep, LogStays, OthersStay
<1> QED BY <1>3, <1>4

(* One that keeps its place leaves the log as it is.                       *)
LEMMA OnLog ==
  ASSUME Good, NEW c \in Clients, OthersBase(c), cast' = cast, heard' = heard,
         cli'[c].st = cli[c].st,
         cli[c].st = "STREAM" => /\ cli'[c].fd = cli[c].fd /\ cli'[c].base = cli[c].base
                                 /\ net'[cli[c].fd].base = net[cli[c].fd].base
  PROVE  LogStep
<1>1. OthersStay(c)
  BY OthersPos
<1>2. Pos(c)' = Pos(c)
  BY PosStays
<1> QED BY <1>1, <1>2 DEF LogStep, LogStays, OthersStay

(* The client's steps that take it off its connection.                     *)
LEMMA ToIdleLog ==
  ASSUME Good, Downs, NEW c \in Clients, ConnectFails(c) \/ Disconnect(c) \/ HandshakeBreaks(c)
  PROVE  LogStep
<1>1. ToIdle(c) /\ UNCHANGED <<slot, alive, ops, heard, cast>> /\ cli[c].st # "IDLE"
  <2>1. cli[c] \in GoodCli
    BY Fields
  <2> QED BY <2>1 DEF ConnectFails, Disconnect, HandshakeBreaks, GoodCli
<1>2. /\ OthersSame(c, cli[c].fd) /\ cli[c].fd # NoFd
      /\ cli'[c] = IdleClient(cli[c].q)
  BY <1>1, ToIdleStep
<1>3. heard' = heard /\ cast' = cast
  BY <1>1
<1>4. cli'[c].st # "STREAM"
  BY <1>2 DEF IdleClient
<1> QED BY <1>2, <1>3, <1>4, OthersBaseOwn, OffLog

(* A new connection is not on the stream yet.                              *)
LEMMA ConnectLog ==
  ASSUME Good, Downs, NEW c \in Clients, NEW k \in Conns, NEW async \in Async,
         Connect(c, k, async)
  PROVE  LogStep
<1> DEFINE j == cli[c].fd
           s == cli'[c]
<1>1. /\ Good' /\ net[k] = NoConn /\ k # j /\ k # NoFd
      /\ \A i \in Conns : net[i].phase # "unused" => i < k
      /\ j # NoFd => j \in Conns /\ Closed(net[j], net'[j]) /\ net[j].phase # "unused"
      /\ \A i \in Conns : i \notin {j, k} => net'[i] = net[i]
      /\ \A d \in Clients : d # c => cli'[d] = cli[d]
      /\ net'[k].phase \in {"syn", "up"} /\ net'[k].by = c
      /\ net'[k].up = <<>> /\ net'[k].down = <<>> /\ net'[k].cgone = FALSE
      /\ net'[k].sgone = FALSE /\ net'[k].rst = FALSE /\ net'[k].base = 0
      /\ s.fd = k /\ s.in = <<>> /\ s.out = <<>> /\ s.dec = <<>> /\ s.sent = <<>>
      /\ s.q = cli[c].q
      /\ \/ s.st = "CONNECTING"
         \/ s.st = "HELO_WR" /\ s.left = Packet(HELO)
  BY ConnectStep
<1>2. heard' = heard /\ cast' = cast
  BY DEF Connect
<1>3. ASSUME NEW d \in Clients, d # c, cli[d].fd # NoFd
      PROVE  net'[cli[d].fd] = net[cli[d].fd]
  <2>1. cli[d].fd \in Conns /\ net[cli[d].fd].by = d /\ net[cli[d].fd].phase # "unused"
    BY <1>3, Connected
  <2>2. cli[d].fd # k
    BY <1>1, <2>1 DEF NoConn
  <2>3. cli[d].fd # j
    <3>1. CASE j = NoFd
      BY <1>3, <3>1
    <3>2. CASE j # NoFd
      <4>1. net[j].by = c
        BY <3>2, Connected
      <4> QED BY <1>3, <2>1, <4>1
    <3> QED BY <3>1, <3>2
  <2> QED BY <1>1, <2>1, <2>2, <2>3
<1>4. OthersBase(c)
  <2>1. \A d \in Clients : d # c => cli'[d] = cli[d]
    BY <1>1
  <2> QED BY <1>2, <1>3, <2>1 DEF OthersBase
<1>5. cli'[c].st # "STREAM"
  BY <1>1
<1> QED BY <1>2, <1>4, <1>5, OffLog

(* What a connection in progress becomes is not the stream.                *)
LEMMA OnConnectLog ==
  ASSUME Good, Downs, NEW c \in Clients, OnConnect(c)
  PROVE  LogStep
<1> DEFINE k == cli[c].fd
           r == cli[c]
           s == cli'[c]
<1>1. /\ OthersSame(c, k) /\ k # NoFd
      /\ \/ s = IdleClient(r.q)
         \/ s.st = "HELO_WR"
  BY OnConnectStep
<1>2. heard' = heard /\ cast' = cast
  BY DEF OnConnect
<1>3. s.st # "STREAM"
  BY <1>1 DEF IdleClient
<1> QED BY <1>1, <1>2, <1>3, OthersBaseOwn, OffLog

(* Writing the Hello is not, either.                                       *)
LEMMA WriteHeloLog ==
  ASSUME Good, Downs, NEW c \in Clients, WriteHelo(c)
  PROVE  LogStep
<1> DEFINE k == cli[c].fd
           s == cli'[c]
<1>1. /\ OthersSame(c, k) /\ k # NoFd /\ s.st \in {"HELO_WR", "WLCM_RD"}
  BY WriteHeloStep
<1>2. heard' = heard /\ cast' = cast
  BY DEF WriteHelo
<1>3. s.st # "STREAM"
  BY <1>1
<1> QED BY <1>1, <1>2, <1>3, OthersBaseOwn, OffLog

(* The client that has read the Welcome joins.                             *)
LEMMA ReadWlcmLog ==
  ASSUME Good, Downs, NEW c \in Clients, ReadWlcm(c)
  PROVE  LogStep
<1> DEFINE k == cli[c].fd
           r == cli[c]
           s == cli'[c]
<1>1. OthersSame(c, k) /\ k # NoFd /\ r.st = "WLCM_RD"
  BY ReadWlcmStep
<1>2. heard' = heard /\ cast' = cast
  BY DEF ReadWlcm
<1>3. OthersBase(c)
  BY <1>1, <1>2, OthersBaseOwn
<1>4. CASE s.st # "STREAM"
  BY <1>2, <1>3, <1>4, OffLog
<1>5. CASE s.st = "STREAM"
  <2>1. /\ Within(heard[c], cast, net[k].base) /\ net[k].base \in 0 .. Len(cast)
        /\ Place(net'[k], s, heard[c]) = net[k].base
    BY <1>5, ReadWlcmDowns
  <2>2. s.fd = k
    <3>1. \/ s.fd = k
          \/ s = IdleClient(r.q)
      BY ReadWlcmStep
    <3> QED BY <1>5, <3>1 DEF IdleClient
  <2>3. Pos(c)' = Place(net'[k], s, heard[c])
    BY <1>2, <1>5, <2>2 DEF Pos, Place
  <2>4. Pos(c) = -1
    BY <1>1 DEF Pos
  <2>5. OthersStay(c)
    BY <1>2, <1>3, OthersPos
  <2>6. Joins(c)
    BY <1>2, <2>1, <2>3, <2>4, <2>5 DEF Joins
  <2> QED BY <2>6 DEF LogStep
<1> QED BY <1>4, <1>5

(* Trouble leaves the client where it is.                                  *)
LEMMA ClientTroubleLog ==
  ASSUME Good, Downs, NEW c \in Clients, ClientTrouble(c)
  PROVE  LogStep
<1>1. /\ OthersSame(c, cli[c].fd) /\ cli[c].fd # NoFd
      /\ net' = net /\ SameStream(cli[c], cli'[c])
  BY ClientTroubleStep
<1>2. heard' = heard /\ cast' = cast
  BY DEF ClientTrouble
<1>3. OthersBase(c)
  BY <1>1, <1>2, OthersBaseOwn
<1>4. cli'[c].st = cli[c].st /\ cli'[c].fd = cli[c].fd /\ cli'[c].base = cli[c].base
  BY <1>1 DEF SameStream
<1> QED BY <1>1, <1>2, <1>3, <1>4, OnLog

(* Writing does, too.                                                      *)
LEMMA ClientWriteLog ==
  ASSUME Good, Downs, NEW c \in Clients, ClientWrite(c)
  PROVE  LogStep
<1> DEFINE k == cli[c].fd
           s == cli'[c]
<1>1. /\ OthersSame(c, k) /\ k # NoFd /\ cli[c].st = "STREAM"
      /\ UpSent(net[k], net'[k], Head(cli[c].out))
      /\ s.fd = k /\ s.st = "STREAM" /\ s.base = cli[c].base
  BY ClientWriteStep
<1>2. heard' = heard /\ cast' = cast
  BY DEF ClientWrite
<1>3. OthersBase(c)
  BY <1>1, <1>2, OthersBaseOwn
<1>4. net'[k].base = net[k].base
  BY <1>1 DEF UpSent
<1> QED BY <1>1, <1>2, <1>3, <1>4, OnLog

(* Publishing does.                                                        *)
LEMMA ClientPublishLog ==
  ASSUME Good, Downs, NEW c \in Clients, NEW kind \in DOMAIN MaxOps, ClientPublish(c, kind)
  PROVE  LogStep
<1> DEFINE s == cli'[c]
<1>1. /\ net' = net /\ \A d \in Clients : d # c => cli'[d] = cli[d]
      /\ s.fd = cli[c].fd /\ s.st = cli[c].st /\ s.base = cli[c].base
  BY ClientPublishStep
<1>2. heard' = heard /\ cast' = cast
  BY DEF ClientPublish
<1>3. OthersBase(c)
  BY <1>1, <1>2 DEF OthersBase
<1> QED BY <1>1, <1>2, <1>3, OnLog

(* The unit that completes a frame is the client's next step in the log.   *)
LEMMA ClientReadLog ==
  ASSUME Good, Downs, NEW c \in Clients, ClientRead(c)
  PROVE  LogStep
<1> DEFINE r == cli[c]
           k == r.fd
           n == net[k]
           p == Place(n, r, heard[c])
           got == Append(r.dec, Head(n.down))
<1>1. /\ cli'[c].st = "STREAM" /\ cli'[c].fd = k /\ cli'[c].base = r.base
      /\ net'[k].base = n.base
      /\ IF Len(got) = Parts
         THEN /\ p \in 0 .. Len(cast) - 1
              /\ heard' = [heard EXCEPT ![c] = Append(@, cast[p + 1])]
         ELSE heard' = heard
  BY ClientReadDowns
<1>2. OthersSame(c, k) /\ k # NoFd /\ r.st = "STREAM"
  BY ClientReadStep
<1>3. cast' = cast
  BY DEF ClientRead
<1>4. CASE Len(got) # Parts
  <2>1. heard' = heard
    BY <1>1, <1>4
  <2>2. OthersBase(c)
    BY <1>2, <2>1, OthersBaseOwn
  <2> QED BY <1>1, <1>2, <1>3, <2>1, <2>2, OnLog
<1>5. CASE Len(got) = Parts
  <2>1. p \in 0 .. Len(cast) - 1 /\ heard' = [heard EXCEPT ![c] = Append(@, cast[p + 1])]
    BY <1>1, <1>5
  <2>2. /\ heard \in [Procs -> Seq(Int)] /\ c \in Procs /\ cast \in Seq(Int)
        /\ heard[c] \in Seq(Int)
    BY DEF Good, Records, Procs
  <2>3. heard'[c] = Append(heard[c], cast[p + 1])
        /\ \A d \in Clients : d # c => heard'[d] = heard[d]
    BY <2>1, <2>2 DEF Procs
  <2>4. OthersBase(c)
    <3>1. \A d \in Clients : d # c => cli'[d] = cli[d]
      BY <1>2 DEF OthersSame
    <3>2. ASSUME NEW d \in Clients, d # c, cli[d].fd # NoFd
          PROVE  net'[cli[d].fd] = net[cli[d].fd]
      <4>1. cli[d].fd \in Conns /\ net[cli[d].fd].by = d
        BY <3>2, Connected
      <4>2. net[k].by = c
        BY <1>2, Connected
      <4> QED BY <1>2, <3>2, <4>1, <4>2 DEF OthersSame
    <3> QED BY <2>3, <3>1, <3>2 DEF OthersBase
  <2>5. OthersStay(c)
    BY <1>3, <2>4, OthersPos
  <2>6. Pos(c) = p
    BY <1>2, PosType
  <2>7. Pos(c)' = p + 1
    <3> DEFINE b == n.base
               e == r.base
               l == Len(heard[c])
    <3>1. b \in Nat /\ e \in Nat /\ l \in Nat
      <4>1. n \in WConn /\ r \in WCli
        BY <1>2, Connected
      <4> QED BY <2>2, <4>1 DEF WConn, WCli
    <3>2. Len(heard'[c]) = l + 1
      <4>1. cast[p + 1] \in Int
        BY <2>1, <2>2
      <4> QED BY <2>2, <2>3, <4>1
    <3>3. Pos(c)' = b + ((l + 1) - e)
      BY <1>1, <3>2 DEF Pos
    <3>4. p = b + (l - e)
      BY DEF Place
    <3> HIDE DEF b, e, l, p
    <3> QED BY <3>1, <3>3, <3>4
  <2>8. Hears(c)
    BY <2>1, <2>5, <2>6, <2>7 DEF Hears
  <2> QED BY <2>8 DEF LogStep
<1> QED BY <1>4, <1>5

(* A step of the leader or the network that casts nothing leaves the log.  *)
LEMMA QuietLog ==
  ASSUME Good, cli' = cli, heard' = heard, cast' = cast,
         \A d \in Clients : cli[d].st = "STREAM" => net'[cli[d].fd].base = net[cli[d].fd].base
  PROVE  LogStep
<1>1. ASSUME NEW d \in Clients
      PROVE  Pos(d)' = Pos(d)
  BY PosStays
<1> QED BY <1>1 DEF LogStep, LogStays

(* So does one at a connection that keeps its base.                        *)
LEMMA SameBaseLog ==
  ASSUME Good, NEW k \in Conns, LeaderSame(k), net'[k].base = net[k].base,
         heard' = heard, cast' = cast
  PROVE  LogStep
<1>1. cli' = cli
  BY DEF LeaderSame
<1>2. ASSUME NEW d \in Clients, cli[d].st = "STREAM"
      PROVE  net'[cli[d].fd].base = net[cli[d].fd].base
  <2>1. cli[d].fd \in Conns
    BY <1>2, Fields DEF GoodCli
  <2> QED BY <2>1 DEF LeaderSame
<1> QED BY <1>1, <1>2, QuietLog

(* The steps of the leader that cast nothing.                              *)
LEMMA LeaderLog ==
  ASSUME Good, Downs, NEW k \in Conns,
         \/ Establish(k) \/ Refuse(k) \/ Accept(k) \/ ClientLeaves(k)
         \/ ReadHelo(k) \/ LeaderTrouble(k) \/ LeaderWrite(k)
  PROVE  LogStep
<1>1. heard' = heard /\ cast' = cast
  BY DEF Establish, Refuse, Accept, ClientLeaves, ReadHelo, LeaderTrouble, LeaderWrite
<1>2. CASE Establish(k) \/ Refuse(k)
  <2>1. LeaderSame(k) /\ net'[k].base = net[k].base
    BY <1>2, NetworkStep
  <2> QED BY <1>1, <2>1, SameBaseLog
<1>3. CASE Accept(k)
  <2>1. LeaderSame(k) /\ (net' = net \/ Cut(net[k], net'[k]))
    BY <1>3, AcceptStep
  <2>2. net'[k].base = net[k].base
    BY <2>1 DEF Cut
  <2> QED BY <1>1, <2>1, <2>2, SameBaseLog
<1>4. CASE ClientLeaves(k)
  <2>1. LeaderSame(k) /\ Cut(net[k], net'[k])
    BY <1>4, ClientLeavesStep
  <2>2. net'[k].base = net[k].base
    BY <2>1 DEF Cut
  <2> QED BY <1>1, <2>1, <2>2, SameBaseLog
<1>5. CASE ReadHelo(k)
  <2>1. LeaderSame(k) /\ (UpTaken(net[k], net'[k]) \/ Cut(net[k], net'[k]))
    BY <1>5, ReadHeloStep
  <2>2. net'[k].base = net[k].base
    BY <2>1 DEF Cut, UpTaken
  <2> QED BY <1>1, <2>1, <2>2, SameBaseLog
<1>6. CASE LeaderTrouble(k)
  <2>1. LeaderSame(k) /\ net' = net
    BY <1>6, LeaderTroubleStep
  <2> QED BY <1>1, <2>1, SameBaseLog
<1>7. CASE LeaderWrite(k)
  <2>1. LeaderSame(k) /\ net'[k].base = net[k].base
    BY <1>7, LeaderWriteStep
  <2> QED BY <1>1, <2>1, SameBaseLog
<1> QED BY <1>2, <1>3, <1>4, <1>5, <1>6, <1>7

(* The base of a connection is set before its client is on the stream.     *)
LEMMA WriteWlcmLog ==
  ASSUME Good, Downs, NEW k \in Conns, WriteWlcm(k)
  PROVE  LogStep
<1>1. LeaderSame(k) /\ slot[k].state = "wlcm" /\ net[k].rst = FALSE
  BY WriteWlcmStep
<1>2. heard' = heard /\ cast' = cast
  BY DEF WriteWlcm
<1>3. ASSUME NEW d \in Clients, cli[d].st = "STREAM"
      PROVE  net'[cli[d].fd].base = net[cli[d].fd].base
  <2>1. cli[d].fd \in Conns
    BY <1>3, Fields DEF GoodCli
  <2>2. cli[d].fd # k
    <3>1. SUFFICES ASSUME cli[d].fd = k PROVE FALSE
      OBVIOUS
    <3>2. Down(net[k], cli[d], slot[k], heard[d], cast) /\ net[k].phase = "up"
      BY <1>3, <3>1, AtConn
    <3>3. OnTheWay(net[k], cli[d], slot[k], heard[d], cast)
      BY <1>1, <3>2 DEF Down
    <3> QED BY <1>1, <1>3, <3>3 DEF OnTheWay
  <2> QED BY <1>1, <2>1, <2>2 DEF LeaderSame
<1> QED BY <1>1, <1>2, <1>3, QuietLog DEF LeaderSame

(* The leader's end leaves the log to its clients as it is.                *)
LEMMA LeaderQuitsLog ==
  ASSUME Good, Downs, LeaderQuits
  PROVE  LogStep
<1>1. cli' = cli
  BY LeaderQuitsStep
<1>2. heard' = heard /\ cast' = cast
  BY DEF LeaderQuits
<1>3. ASSUME NEW d \in Clients, cli[d].st = "STREAM"
      PROVE  net'[cli[d].fd].base = net[cli[d].fd].base
  <2>1. cli[d].fd \in Conns
    BY <1>3, Fields DEF GoodCli
  <2> DEFINE k == cli[d].fd
  <2>2. IF net[k].phase = "up" THEN Cut(net[k], net'[k]) ELSE net'[k] = net[k]
    BY <2>1, LeaderQuitsStep
  <2> HIDE DEF k
  <2>3. net'[k].base = net[k].base
    BY <2>2 DEF Cut
  <2> QED BY <2>3 DEF k
<1> QED BY <1>1, <1>2, <1>3, QuietLog

(* Places in the log stay when the leader casts.                           *)
LEMMA PlacesStay ==
  ASSUME cli' = cli, Good, \A d \in Clients : heard'[d] = heard[d],
         \A j \in Conns : net'[j].base = net[j].base
  PROVE  \A d \in Clients : Pos(d)' = Pos(d)
<1>1. ASSUME NEW d \in Clients
      PROVE  Pos(d)' = Pos(d)
  <2>1. cli[d].st = "STREAM" => cli[d].fd \in Conns
    BY Fields DEF GoodCli
  <2> QED BY <2>1, PosStays
<1> QED BY <1>1

(* What the leader publishes is cast.                                      *)
LEMMA LeaderPublishLog ==
  ASSUME Good, NEW kind \in DOMAIN MaxOps, LeaderPublish(kind)
  PROVE  LogStep
<1>1. /\ net' = net /\ cli' = cli
      /\ heard' = [heard EXCEPT ![L] = Append(@, NewId)]
      /\ cast' = cast \o <<NewId>> /\ NewId \in Int
  BY LeaderPublishStep
<1>2. \A d \in Clients : heard'[d] = heard[d]
  BY <1>1, StarAssumption DEF Good, Records, Procs
<1>3. \A d \in Clients : Pos(d)' = Pos(d)
  BY <1>1, <1>2, PlacesStay
<1>4. CastsOne(NewId)
  BY <1>1, <1>3 DEF CastsOne
<1> QED BY <1>1, <1>4 DEF LogStep

(* So is what it reads, behind the answer it gives.                        *)
LEMMA LeaderReadLog ==
  ASSUME Good, NEW k \in Conns, LeaderRead(k)
  PROVE  LogStep
<1> DEFINE s == slot[k]
           t == slot'[k]
           u == Head(net[k].up)
           got == Append(s.dec, u)
<1>1. /\ cli' = cli /\ u \in Messages \X (1 .. Parts)
      /\ UpTaken(net[k], net'[k]) /\ \A j \in Conns : j # k => net'[j] = net[j]
      /\ \A c \in Clients : heard'[c] = heard[c]
      /\ \E more \in Seq(Int) :
           /\ cast' = cast \o more
           /\ t.out = s.out \o Frames(more)
           /\ \A j \in Conns : j # k => CastTo(slot[j], slot'[j], more)
           /\ IF Len(got) = Parts /\ got = Packet(u[1])
              THEN \/ /\ Answers(L, u[1]) /\ ops' = Append(ops, Answer(L))
                      /\ more = <<NewId, u[1]>>
                      /\ heard' = [heard EXCEPT ![L] = @ \o <<u[1], NewId>>]
                   \/ /\ ~Answers(L, u[1]) /\ ops' = ops
                      /\ more = <<u[1]>>
                      /\ heard' = [heard EXCEPT ![L] = Append(@, u[1])]
              ELSE ops' = ops /\ more = <<>> /\ heard' = heard
  BY LeaderReadStep
<1>2. \A j \in Conns : net'[j].base = net[j].base
  BY <1>1 DEF UpTaken
<1>3. \A d \in Clients : Pos(d)' = Pos(d)
  BY <1>1, <1>2, PlacesStay
<1>4. u[1] \in Int /\ NewId \in Int /\ cast \in Seq(Int)
  BY <1>1 DEF NewId, Messages, Good, Records
<1>5. \/ cast' = cast \o <<NewId, u[1]>> /\ heard' = [heard EXCEPT ![L] = @ \o <<u[1], NewId>>]
      \/ cast' = cast \o <<u[1]>> /\ heard' = [heard EXCEPT ![L] = Append(@, u[1])]
      \/ cast' = cast \o <<>> /\ heard' = heard
  BY <1>1
<1>6. cast \o <<>> = cast
  BY <1>4
<1> HIDE DEF u, got, s, t
<1>7. CASE cast' = cast \o <<NewId, u[1]>> /\ heard' = [heard EXCEPT ![L] = @ \o <<u[1], NewId>>]
  <2>1. CastsTwo(u[1], NewId)
    BY <1>3, <1>7 DEF CastsTwo
  <2> QED BY <1>4, <2>1 DEF LogStep
<1>8. CASE cast' = cast \o <<u[1]>> /\ heard' = [heard EXCEPT ![L] = Append(@, u[1])]
  <2>1. CastsOne(u[1])
    BY <1>3, <1>8 DEF CastsOne
  <2> QED BY <1>4, <2>1 DEF LogStep
<1>9. CASE cast' = cast \o <<>> /\ heard' = heard
  BY <1>3, <1>6, <1>9 DEF LogStep, LogStays
<1> QED BY <1>5, <1>7, <1>8, <1>9

(* Every step of the star is a step in the log, or none.                   *)
LEMMA StarStepsInLog ==
  ASSUME Good, Downs, [Next]_vars
  PROVE  LogStep
<1>1. CASE UNCHANGED vars
  BY <1>1 DEF vars, LogStep, LogStays, Pos
<1>2. ASSUME NEW c \in Clients,
             \/ ConnectFails(c)
             \/ \E k \in Conns, async \in Async : Connect(c, k, async)
             \/ Disconnect(c)
             \/ \E kind \in DOMAIN MaxOps : ClientPublish(c, kind)
      PROVE  LogStep
  BY <1>2, ToIdleLog, ConnectLog, ClientPublishLog
<1>3. ASSUME NEW c \in Clients, ClientTick(c)
      PROVE  LogStep
  BY <1>3, OnConnectLog, ToIdleLog, WriteHeloLog, ReadWlcmLog, ClientTroubleLog,
     ClientWriteLog, ClientReadLog DEF ClientTick
<1>4. ASSUME NEW k \in Conns, LeaderTick(k) \/ Establish(k) \/ Refuse(k)
      PROVE  LogStep
  BY <1>4, LeaderLog, WriteWlcmLog, LeaderReadLog DEF LeaderTick
<1>5. ASSUME NEW kind \in DOMAIN MaxOps, LeaderPublish(kind)
      PROVE  LogStep
  BY <1>5, LeaderPublishLog
<1>6. CASE LeaderQuits
  BY <1>6, LeaderQuitsLog
<1> QED BY <1>1, <1>2, <1>3, <1>4, <1>5, <1>6 DEF Next, User

-----------------------------------------------------------------------------
(* Nothing is there twice.                                                 *)
Distinct(h) == \A i, j \in DOMAIN h : i # j => h[i] # h[j]

(* No client hears anything twice: what one on the stream has heard is     *)
(* before its place in the log.                                            *)
Hearing ==
  \A c \in Clients :
    /\ Distinct(heard[c])
    /\ Pos(c) # -1 => Within(heard[c], cast, Pos(c))

(* The next operation of the log is not among those before it.             *)
LEMMA HeardOn ==
  ASSUME NEW h \in Seq(Int), NEW ca \in Seq(Int), NEW p \in 0 .. Len(ca) - 1,
         Distinct(h), Distinct(ca), Within(h, ca, p)
  PROVE  /\ Distinct(Append(h, ca[p + 1]))
         /\ Within(Append(h, ca[p + 1]), ca, p + 1)
<1> DEFINE g == Append(h, ca[p + 1])
           n == Len(h)
<1>1. ca[p + 1] \in Int /\ n \in Nat /\ p \in Nat /\ p + 1 \in DOMAIN ca
  OBVIOUS
<1>2. /\ DOMAIN g = 1 .. n + 1 /\ DOMAIN h = 1 .. n
      /\ \A i \in 1 .. n : g[i] = h[i]
      /\ g[n + 1] = ca[p + 1]
  BY <1>1
<1>3. ASSUME NEW i \in 1 .. n
      PROVE  \E a \in 1 .. p : ca[a] = g[i] /\ a \in DOMAIN ca
  <2>1. PICK a \in 1 .. p : ca[a] = h[i]
    BY <1>2 DEF Within
  <2>2. a \in DOMAIN ca
    OBVIOUS
  <2> QED BY <1>2, <2>1, <2>2
<1>4. \A i \in 1 .. n : g[i] # g[n + 1]
  BY <1>1, <1>2, <1>3 DEF Distinct
<1> HIDE DEF g, n
<1>5. Distinct(g)
  <2>1. ASSUME NEW i \in DOMAIN g, NEW j \in DOMAIN g, i # j
        PROVE  g[i] # g[j]
    <3>1. CASE i \in 1 .. n /\ j \in 1 .. n
      BY <1>2, <2>1, <3>1 DEF Distinct
    <3>2. CASE i = n + 1
      <4>1. j \in 1 .. n
        BY <1>1, <1>2, <2>1, <3>2
      <4> QED BY <1>4, <3>2, <4>1
    <3>3. CASE j = n + 1
      <4>1. i \in 1 .. n
        BY <1>1, <1>2, <2>1, <3>3
      <4> QED BY <1>4, <3>3, <4>1
    <3> QED BY <1>1, <1>2, <3>1, <3>2, <3>3
  <2> QED BY <2>1 DEF Distinct
<1>6. Within(g, ca, p + 1)
  <2>1. ASSUME NEW i \in DOMAIN g
        PROVE  \E a \in 1 .. p + 1 : ca[a] = g[i]
    <3>1. CASE i \in 1 .. n
      <4>1. PICK a \in 1 .. p : ca[a] = g[i]
        BY <1>3, <3>1
      <4>2. a \in 1 .. p + 1
        BY <1>1
      <4> QED BY <4>1, <4>2
    <3>2. CASE i = n + 1
      <4>1. p + 1 \in 1 .. p + 1
        BY <1>1
      <4> QED BY <1>2, <3>2, <4>1
    <3> QED BY <1>1, <1>2, <3>1, <3>2
  <2> QED BY <2>1 DEF Within
<1> QED BY <1>5, <1>6 DEF g

(* The log holds nothing twice.                                            *)
LEMMA CastDistinct ==
  ASSUME Carried
  PROVE  Distinct(cast) /\ \A a \in DOMAIN cast : cast[a] \in DOMAIN ops
BY DEF Carried, Order, Logged, Distinct

(* What has been heard is heard of a longer log, too.                      *)
LEMMA HearingMore ==
  ASSUME Good, Downs, Hearing, NEW more \in Seq(Int), cast' = cast \o more,
         \A d \in Clients : heard'[d] = heard[d] /\ Pos(d)' = Pos(d)
  PROVE  Hearing'
<1>1. ASSUME NEW c \in Clients
      PROVE  /\ Distinct(heard'[c])
             /\ Pos(c) # -1 => Within(heard'[c], cast', Pos(c))
  <2>1. Distinct(heard[c]) /\ (Pos(c) # -1 => Within(heard[c], cast, Pos(c)))
    BY DEF Hearing
  <2>2. ASSUME Pos(c) # -1
        PROVE  Within(heard[c], cast \o more, Pos(c))
    <3>1. Pos(c) \in 0 .. Len(cast) /\ cast \in Seq(Int)
      BY <2>2, PosType DEF Good, Records
    <3>2. Pos(c) \in Nat /\ Pos(c) <= Len(cast)
      BY <3>1
    <3>3. Within(heard[c], cast, Pos(c))
      BY <2>1, <2>2
    <3> HIDE DEF Pos
    <3> QED BY <3>1, <3>2, <3>3, WithinMore
  <2> QED BY <2>1, <2>2
<1> QED BY <1>1 DEF Hearing

(* Every step in the log keeps it so.                                      *)
LEMMA NextHearing ==
  ASSUME Good, Downs, Carried, Hearing, LogStep
  PROVE  Hearing'
<1>0. heard \in [Procs -> Seq(Int)] /\ cast \in Seq(Int) /\ Distinct(cast)
      /\ \A d \in Clients : d \in Procs /\ d # L
  BY CastDistinct, StarAssumption DEF Good, Records, Procs
<1>1. CASE LogStays
  BY <1>1 DEF LogStays, Hearing
<1>2. ASSUME NEW c \in Clients, Joins(c)
      PROVE  Hearing'
  BY <1>2 DEF Joins, OthersStay, Hearing
<1>3. ASSUME NEW c \in Clients, Leaves(c)
      PROVE  Hearing'
  BY <1>3 DEF Leaves, OthersStay, Hearing
<1>4. ASSUME NEW c \in Clients, Hears(c)
      PROVE  Hearing'
  <2> DEFINE p == Pos(c)
  <2>1. /\ cast' = cast /\ \A d \in Clients : d # c => Pos(d)' = Pos(d)
        /\ p \in 0 .. Len(cast) - 1 /\ Pos(c)' = p + 1
        /\ heard' = [heard EXCEPT ![c] = Append(@, cast[p + 1])]
    BY <1>4 DEF Hears, OthersStay
  <2>2. heard'[c] = Append(heard[c], cast[p + 1]) /\ heard[c] \in Seq(Int)
        /\ \A d \in Clients : d # c => heard'[d] = heard[d]
    BY <1>0, <2>1
  <2>3. Distinct(heard[c]) /\ Within(heard[c], cast, p)
    BY <2>1 DEF Hearing
  <2> HIDE DEF p
  <2>4. Distinct(heard'[c]) /\ Within(heard'[c], cast, p + 1)
    BY <1>0, <2>1, <2>2, <2>3, HeardOn
  <2> QED BY <2>1, <2>2, <2>4 DEF Hearing
<1>5. ASSUME NEW id \in Int, CastsOne(id)
      PROVE  Hearing'
  <2> DEFINE more == <<id>>
  <2>1. more \in Seq(Int) /\ cast' = cast \o more
        /\ \A d \in Clients : heard'[d] = heard[d] /\ Pos(d)' = Pos(d)
    BY <1>0, <1>5 DEF CastsOne
  <2> HIDE DEF more
  <2> QED BY <2>1, HearingMore
<1>6. ASSUME NEW id \in Int, NEW answer \in Int, CastsTwo(id, answer)
      PROVE  Hearing'
  <2> DEFINE more == <<answer, id>>
  <2>1. more \in Seq(Int) /\ cast' = cast \o more
        /\ \A d \in Clients : heard'[d] = heard[d] /\ Pos(d)' = Pos(d)
    BY <1>0, <1>6 DEF CastsTwo
  <2> HIDE DEF more
  <2> QED BY <2>1, HearingMore
<1> QED BY <1>1, <1>2, <1>3, <1>4, <1>5, <1>6 DEF LogStep

(* Nothing has been heard at the start.                                    *)
LEMMA InitHearing ==
  ASSUME Init
  PROVE  Hearing
<1>1. ASSUME NEW c \in Clients
      PROVE  Distinct(heard[c]) /\ Pos(c) = -1
  <2>1. heard[c] = <<>> /\ cli[c].st = "IDLE"
    BY DEF Init, Procs, IdleClient
  <2>2. DOMAIN heard[c] = {}
    BY <2>1
  <2> QED BY <2>1, <2>2 DEF Distinct, Pos
<1> QED BY <1>1 DEF Hearing

(* No listener of a client is called with the same operation again.        *)
THEOREM StaysHearing == Spec => []Hearing
<1>1. Init => Good /\ Downs /\ Carried /\ Hearing
  BY InitGood, InitDowns, InitCarried, InitHearing
<1>2. Good /\ Downs /\ Carried /\ Hearing /\ [Next]_vars
        => (Good /\ Downs /\ Carried /\ Hearing)'
  BY NextGood, NextDowns, NextCarried, StarStepsInLog, NextHearing
<1> QED BY <1>1, <1>2, PTL DEF Spec

-----------------------------------------------------------------------------
(* What has been heard earlier is earlier in the log.                      *)
InCastOrder(h, ca) ==
  \A i, j \in DOMAIN h : i < j =>
    \E a, b \in DOMAIN ca : a < b /\ ca[a] = h[i] /\ ca[b] = h[j]

HeardInOrder == \A c \in Clients : InCastOrder(heard[c], cast)

(* The next operation of the log is later than all before it.              *)
LEMMA OrderOn ==
  ASSUME NEW h \in Seq(Int), NEW ca \in Seq(Int), NEW p \in 0 .. Len(ca) - 1,
         InCastOrder(h, ca), Within(h, ca, p)
  PROVE  InCastOrder(Append(h, ca[p + 1]), ca)
<1> DEFINE g == Append(h, ca[p + 1])
           n == Len(h)
<1>1. /\ n \in Nat /\ DOMAIN h = 1 .. n /\ DOMAIN g = 1 .. n + 1
      /\ \A i \in 1 .. n : g[i] = h[i]
      /\ g[n + 1] = ca[p + 1] /\ p + 1 \in DOMAIN ca
      /\ \A a \in 1 .. p : a \in DOMAIN ca /\ a < p + 1
  OBVIOUS
<1> HIDE DEF g, n
<1>2. ASSUME NEW i \in DOMAIN g, NEW j \in DOMAIN g, i < j
      PROVE  \E a, b \in DOMAIN ca : a < b /\ ca[a] = g[i] /\ ca[b] = g[j]
  <2>1. i \in 1 .. n
    BY <1>1, <1>2
  <2>2. CASE j \in 1 .. n
    BY <1>1, <1>2, <2>1, <2>2 DEF InCastOrder
  <2>3. CASE j = n + 1
    <3>1. PICK a \in 1 .. p : ca[a] = h[i]
      BY <1>1, <2>1 DEF Within
    <3> QED BY <1>1, <2>1, <2>3, <3>1
  <2> QED BY <1>1, <2>2, <2>3
<1> QED BY <1>2 DEF InCastOrder, g

(* A longer log has the same order.                                        *)
LEMMA OrderMore ==
  ASSUME NEW h, NEW ca \in Seq(Int), NEW more \in Seq(Int), InCastOrder(h, ca)
  PROVE  InCastOrder(h, ca \o more)
<1> DEFINE g == ca \o more
<1>1. \A a \in DOMAIN ca : a \in DOMAIN g /\ g[a] = ca[a]
  OBVIOUS
<1> HIDE DEF g
<1> QED BY <1>1 DEF InCastOrder, g

(* Every step in the log keeps the order.                                  *)
LEMMA NextHeardInOrder ==
  ASSUME Good, Hearing, HeardInOrder, LogStep
  PROVE  HeardInOrder'
<1>0. heard \in [Procs -> Seq(Int)] /\ cast \in Seq(Int)
      /\ \A d \in Clients : d \in Procs /\ d # L
  BY StarAssumption DEF Good, Records, Procs
<1>1. ASSUME heard' = heard, cast' = cast
      PROVE  HeardInOrder'
  BY <1>1 DEF HeardInOrder
<1>2. ASSUME NEW c \in Clients, Hears(c)
      PROVE  HeardInOrder'
  <2> DEFINE p == Pos(c)
  <2>1. /\ cast' = cast /\ p \in 0 .. Len(cast) - 1
        /\ heard' = [heard EXCEPT ![c] = Append(@, cast[p + 1])]
    BY <1>2 DEF Hears, OthersStay
  <2>2. heard'[c] = Append(heard[c], cast[p + 1]) /\ heard[c] \in Seq(Int)
        /\ \A d \in Clients : d # c => heard'[d] = heard[d]
    BY <1>0, <2>1
  <2>3. InCastOrder(heard[c], cast) /\ Within(heard[c], cast, p)
    BY <2>1 DEF Hearing, HeardInOrder
  <2> HIDE DEF p
  <2>4. InCastOrder(heard'[c], cast)
    BY <1>0, <2>1, <2>2, <2>3, OrderOn
  <2> QED BY <2>1, <2>2, <2>4 DEF HeardInOrder
<1>3. ASSUME NEW more \in Seq(Int), cast' = cast \o more,
             \A d \in Clients : heard'[d] = heard[d]
      PROVE  HeardInOrder'
  <2>1. ASSUME NEW c \in Clients
        PROVE  InCastOrder(heard'[c], cast')
    <3>1. InCastOrder(heard[c], cast)
      BY DEF HeardInOrder
    <3>2. InCastOrder(heard[c], cast \o more)
      BY <1>0, <3>1, OrderMore
    <3> QED BY <1>3, <3>2
  <2> QED BY <2>1 DEF HeardInOrder
<1>4. ASSUME NEW id \in Int, CastsOne(id)
      PROVE  HeardInOrder'
  <2> DEFINE more == <<id>>
  <2>1. more \in Seq(Int) /\ cast' = cast \o more
        /\ \A d \in Clients : heard'[d] = heard[d]
    BY <1>0, <1>4 DEF CastsOne
  <2> HIDE DEF more
  <2> QED BY <1>3, <2>1
<1>5. ASSUME NEW id \in Int, NEW answer \in Int, CastsTwo(id, answer)
      PROVE  HeardInOrder'
  <2> DEFINE more == <<answer, id>>
  <2>1. more \in Seq(Int) /\ cast' = cast \o more
        /\ \A d \in Clients : heard'[d] = heard[d]
    BY <1>0, <1>5 DEF CastsTwo
  <2> HIDE DEF more
  <2> QED BY <1>3, <2>1
<1>6. CASE LogStays
  BY <1>1, <1>6 DEF LogStays
<1>7. ASSUME NEW c \in Clients, Joins(c) \/ Leaves(c)
      PROVE  HeardInOrder'
  <2>1. heard' = heard /\ cast' = cast
    BY <1>7 DEF Joins, Leaves, OthersStay
  <2> QED BY <1>1, <2>1
<1> QED BY <1>2, <1>4, <1>5, <1>6, <1>7 DEF LogStep

(* Two listeners that hear in the order of a log without repetitions hear  *)
(* what both of them hear in the same order.                               *)
LEMMA SameLogSameOrder ==
  ASSUME NEW g \in Seq(Int), NEW h \in Seq(Int), NEW ca \in Seq(Int), Distinct(ca),
         InCastOrder(g, ca), InCastOrder(h, ca),
         NEW i \in DOMAIN g, NEW j \in DOMAIN g, NEW m \in DOMAIN h, NEW n \in DOMAIN h,
         i < j, g[i] = h[m], g[j] = h[n]
  PROVE  m < n
<1>1. PICK a \in DOMAIN ca, b \in DOMAIN ca : a < b /\ ca[a] = g[i] /\ ca[b] = g[j]
  BY DEF InCastOrder
<1>2. a \in Int /\ b \in Int /\ m \in Int /\ n \in Int
  OBVIOUS
<1>3. m # n
  BY <1>1, <1>2 DEF Distinct
<1>4. ASSUME n < m PROVE FALSE
  <2>1. PICK x \in DOMAIN ca, y \in DOMAIN ca : x < y /\ ca[x] = h[n] /\ ca[y] = h[m]
    BY <1>4 DEF InCastOrder
  <2>2. x = b /\ y = a
    BY <1>1, <2>1 DEF Distinct
  <2> QED BY <1>1, <1>2, <2>1, <2>2
<1> QED BY <1>2, <1>3, <1>4

(* Two clients of the star never hear two operations in different orders,  *)
(* for any number of clients and operations and however often they leave   *)
(* and join (leader_tcp.c:115-116).                                        *)
THEOREM StarKeepsOrder == Spec => []Log!ClientsAgree
<1>1. Init => HeardInOrder
  <2>1. ASSUME Init, NEW c \in Clients
        PROVE  InCastOrder(heard[c], cast)
    <3>1. heard[c] = <<>>
      BY <2>1 DEF Init, Procs
    <3> QED BY <3>1 DEF InCastOrder
  <2> QED BY <2>1 DEF HeardInOrder
<1>2. Good /\ Downs /\ Hearing /\ HeardInOrder /\ [Next]_vars => HeardInOrder'
  BY StarStepsInLog, NextHeardInOrder
<1>3. Good /\ Carried /\ HeardInOrder => Log!ClientsAgree
  <2> SUFFICES ASSUME Good, Carried, HeardInOrder,
                      NEW c \in Clients, NEW d \in Clients,
                      NEW i \in DOMAIN heard[c], NEW j \in DOMAIN heard[c],
                      NEW m \in DOMAIN heard[d], NEW n \in DOMAIN heard[d],
                      i < j, heard[c][i] = heard[d][m], heard[c][j] = heard[d][n]
               PROVE  m < n
    BY DEF Log!ClientsAgree
  <2>1. heard[c] \in Seq(Int) /\ heard[d] \in Seq(Int) /\ cast \in Seq(Int)
    BY DEF Good, Records, Procs
  <2>2. InCastOrder(heard[c], cast) /\ InCastOrder(heard[d], cast) /\ Distinct(cast)
    BY CastDistinct DEF HeardInOrder
  <2> QED BY <2>1, <2>2, SameLogSameOrder
<1> QED BY <1>1, <1>2, <1>3, StaysGood, StaysDown, StaysCarried, StaysHearing, PTL DEF Spec

-----------------------------------------------------------------------------
(* One after the other, in the order they were published.                  *)
LEMMA OneAfterOther ==
  ASSUME NEW a \in Seq(Int), NEW b \in Seq(Int), Increasing(a), Increasing(b), Before(a, b)
  PROVE  Increasing(a \o b)
<1> DEFINE ab == a \o b
           n == Len(a)
           m == Len(b)
<1>1. /\ n \in Nat /\ m \in Nat /\ DOMAIN a = 1 .. n /\ DOMAIN b = 1 .. m
      /\ DOMAIN ab = 1 .. n + m
      /\ \A i \in 1 .. n : ab[i] = a[i]
      /\ \A i \in n + 1 .. n + m : ab[i] = b[i - n] /\ i - n \in 1 .. m
  OBVIOUS
<1> HIDE DEF ab, n, m
<1>2. ASSUME NEW i \in 1 .. n + m, NEW j \in 1 .. n + m, i < j
      PROVE  ab[i] < ab[j]
  <2>1. CASE i \in 1 .. n /\ j \in 1 .. n
    BY <1>1, <1>2, <2>1 DEF Increasing
  <2>2. CASE i \in 1 .. n /\ j \in n + 1 .. n + m
    BY <1>1, <2>2 DEF Before
  <2>3. CASE i \in n + 1 .. n + m /\ j \in n + 1 .. n + m
    <3>1. i - n < j - n
      BY <1>1, <1>2, <2>3
    <3> QED BY <1>1, <2>3, <3>1 DEF Increasing
  <2> QED BY <1>1, <1>2, <2>1, <2>2, <2>3
<1>3. Increasing(ab)
  BY <1>1, <1>2 DEF Increasing
<1> QED BY <1>3 DEF ab

(* What a client has sent and buffered is in order.                        *)
LEMMA ClientOrder ==
  ASSUME Good, Carried, NEW c \in Clients
  PROVE  Increasing(cli[c].sent \o cli[c].q)
<1>1. PICK car \in Carrying : Ups(car) /\ Order(car)
  BY DEF Carried
<1>2. Increasing(cli[c].q) /\ cli[c].sent \in Seq(Int) /\ cli[c].q \in Seq(Int)
  <2>1. Increasing(cli[c].q)
    BY <1>1 DEF Order, Mine
  <2>2. cli[c] \in WCli
    BY Fields
  <2> QED BY <2>1, <2>2 DEF WCli
<1>3. CASE cli[c].fd = NoFd
  <2>1. cli[c].sent = <<>>
    <3>1. cli[c] \in GoodCli
      BY Fields
    <3> QED BY <1>3, <3>1 DEF GoodCli
  <2>2. cli[c].sent \o cli[c].q = cli[c].q
    BY <1>2, <2>1
  <2> QED BY <1>2, <2>2
<1>4. CASE cli[c].fd # NoFd
  <2> DEFINE k == cli[c].fd
  <2>1. k \in Conns /\ net[k].by = c /\ net[k].cgone = FALSE /\ net[k].phase # "unused"
    BY <1>4, Connected
  <2>2. car[k] = cli[c].sent
    BY <1>1, <2>1 DEF Ups, Up
  <2>3. Increasing(car[k]) /\ Before(car[k], cli[c].q)
    BY <1>1, <2>1 DEF Order, Mine
  <2> QED BY <1>2, <2>2, <2>3, OneAfterOther
<1> QED BY <1>3, <1>4

(* So is what the leader took of a connection.                             *)
LEMMA TookOrder ==
  ASSUME Good, Carried, NEW k \in Conns
  PROVE  Increasing(slot[k].took)
<1>1. PICK car \in Carrying : Ups(car) /\ Order(car)
  BY DEF Carried
<1>2. Increasing(car[k]) /\ Begun(slot[k], car[k])
  BY <1>1 DEF Order, Mine, Ups, Up
<1>3. slot[k].took \in Seq(Int) /\ car[k] \in Seq(Int)
  <2>1. slot[k] \in WSlot
    BY Fields
  <2> QED BY <2>1 DEF WSlot, Carrying
<1> DEFINE t == slot[k].took
           s == car[k]
<1>4. t \in Seq(Int) /\ s \in Seq(Int) /\ Increasing(s) /\ Len(t) <= Len(s)
      /\ \A i \in 1 .. Len(t) : t[i] = s[i]
  BY <1>2, <1>3 DEF Begun
<1> HIDE DEF t, s
<1>5. DOMAIN t = 1 .. Len(t) /\ \A i \in DOMAIN t : i \in DOMAIN s
  BY <1>4
<1>6. Increasing(t)
  BY <1>4, <1>5 DEF Increasing
<1> QED BY <1>6 DEF t

(* So a stream carries what its client published in order, and no listener *)
(* is told of an operation twice.                                          *)
THEOREM StaysInOrder == Spec => []SenderOrder
<1>1. Good /\ Carried /\ Hearing => SenderOrder
  <2> SUFFICES ASSUME Good, Carried, Hearing
               PROVE  SenderOrder
    OBVIOUS
  <2>1. ASSUME NEW p \in Procs
        PROVE  \A i, j \in DOMAIN heard[p] : i # j => heard[p][i] # heard[p][j]
    <3>1. CASE p \in Clients
      BY <3>1 DEF Hearing, Distinct
    <3>2. CASE p = L
      BY <3>2 DEF Carried, Order, Told
    <3> QED BY <3>1, <3>2 DEF Procs
  <2> QED BY <2>1, ClientOrder, TookOrder DEF SenderOrder
<1> QED BY <1>1, StaysGood, StaysCarried, StaysHearing, PTL

-----------------------------------------------------------------------------
(* No listener is called with an operation again.                          *)
OneEach == \A p \in Procs : Distinct(heard[p])

(* That is what the order in the log and the clients' places in it say.    *)
LEMMA HeardOnce ==
  ASSUME Carried, Hearing
  PROVE  OneEach
<1>1. ASSUME NEW p \in Procs
      PROVE  Distinct(heard[p])
  <2>1. CASE p \in Clients
    BY <2>1 DEF Hearing
  <2>2. CASE p = L
    BY <2>2 DEF Carried, Order, Told, Distinct
  <2> QED BY <2>1, <2>2 DEF Procs
<1> QED BY <1>1 DEF OneEach

(* Operation id is there.                                                  *)
Has(h, id) == \E a \in DOMAIN h : h[a] = id

(* Listeners forget nothing.                                               *)
HeardMore == \A p \in Procs : \A id : Has(heard[p], id) => Has(heard'[p], id)

(* The answer of p to command id, which it has heard now.                  *)
AnswersNow(p, id) ==
  /\ Answers(p, id) /\ id \in DOMAIN ops
  /\ ops' = Append(ops, Answer(p))
  /\ Has(heard'[p], id) /\ ~Has(heard[p], id)

(* What a step publishes: nothing, what a user asks for, or an answer.     *)
OpsStep ==
  /\ HeardMore
  /\ \/ ops' = ops
     \/ \E kind \in DOMAIN MaxOps, p \in Procs :
          Published(kind) < MaxOps[kind] /\ ops' = Append(ops, [from |-> p, kind |-> kind])
     \/ \E p \in Procs, id \in Int : AnswersNow(p, id)

(* A step that publishes and delivers nothing.                             *)
LEMMA QuietOps ==
  ASSUME ops' = ops, heard' = heard
  PROVE  OpsStep
BY DEF OpsStep, HeardMore

(* What is put behind what was heard leaves it there; an operation it      *)
(* begins with is there, and was not there before.                         *)
LEMMA HasMore ==
  ASSUME NEW h \in Seq(Int), NEW t \in Seq(Int), Distinct(h \o t)
  PROVE  /\ \A id : Has(h, id) => Has(h \o t, id)
         /\ t # <<>> => Has(h \o t, t[1]) /\ ~Has(h, t[1])
<1> DEFINE g == h \o t
           n == Len(h)
           m == Len(t)
<1>1. /\ n \in Nat /\ m \in Nat /\ DOMAIN h = 1 .. n /\ DOMAIN g = 1 .. n + m
      /\ \A i \in 1 .. n : g[i] = h[i]
      /\ m >= 1 => g[n + 1] = t[1]
      /\ t # <<>> => m >= 1
  OBVIOUS
<1>2. Distinct(g)
  OBVIOUS
<1> HIDE DEF g, n, m
<1>3. \A id : Has(h, id) => Has(g, id)
  BY <1>1 DEF Has
<1>4. ASSUME t # <<>>
      PROVE  Has(g, t[1]) /\ ~Has(h, t[1])
  <2>1. n + 1 \in DOMAIN g /\ g[n + 1] = t[1]
    BY <1>1, <1>4
  <2>2. Has(g, t[1])
    BY <2>1 DEF Has
  <2>3. ASSUME NEW a \in DOMAIN h
        PROVE  h[a] # t[1]
    <3>1. a \in DOMAIN g /\ a # n + 1 /\ g[a] = h[a]
      BY <1>1
    <3> QED BY <1>2, <2>1, <3>1 DEF Distinct
  <2> QED BY <2>2, <2>3 DEF Has
<1> QED BY <1>3, <1>4 DEF g

(* One operation put behind others.                                        *)
LEMMA OneMore ==
  ASSUME NEW h \in Seq(Int), NEW x \in Int
  PROVE  /\ <<x>> \in Seq(Int) /\ <<x>> # <<>> /\ <<x>>[1] = x
         /\ h \o <<x>> = Append(h, x)
OBVIOUS

(* So it is when a listener is called.                                     *)
LEMMA CalledOps ==
  ASSUME Good, OneEach', NEW p \in Procs, NEW told \in Seq(Int),
         heard' = [heard EXCEPT ![p] = @ \o told]
  PROVE  /\ HeardMore
         /\ told # <<>> => Has(heard'[p], told[1]) /\ ~Has(heard[p], told[1])
<1>1. heard \in [Procs -> Seq(Int)]
  BY DEF Good, Records
<1>2. heard'[p] = heard[p] \o told /\ heard[p] \in Seq(Int)
      /\ \A q \in Procs : q # p => heard'[q] = heard[q]
  BY <1>1
<1> DEFINE h == heard[p]
<1>3. Distinct(h \o told) /\ h \in Seq(Int)
  BY <1>2 DEF OneEach
<1> HIDE DEF h
<1>4. /\ \A id : Has(h, id) => Has(h \o told, id)
      /\ told # <<>> => Has(h \o told, told[1]) /\ ~Has(h, told[1])
  BY <1>3, HasMore
<1>5. ASSUME NEW q \in Procs, NEW id, Has(heard[q], id)
      PROVE  Has(heard'[q], id)
  <2>1. CASE q = p
    BY <1>2, <1>4, <1>5, <2>1 DEF h
  <2>2. CASE q # p
    BY <1>2, <1>5, <2>2
  <2> QED BY <2>1, <2>2
<1>6. HeardMore
  BY <1>5 DEF HeardMore
<1> QED BY <1>2, <1>4, <1>6 DEF h

(* A client publishes.                                                     *)
LEMMA ClientPublishOps ==
  ASSUME Good, NEW c \in Clients, NEW kind \in DOMAIN MaxOps, ClientPublish(c, kind)
  PROVE  OpsStep
<1>1. Published(kind) < MaxOps[kind] /\ ops' = Append(ops, [from |-> c, kind |-> kind])
      /\ heard' = heard
  BY DEF ClientPublish
<1> HIDE DEF Published
<1>2. HeardMore /\ c \in Procs
  BY <1>1 DEF HeardMore, Procs
<1> QED BY <1>1, <1>2 DEF OpsStep

(* The leader publishes, and is told of it.                                *)
LEMMA LeaderPublishOps ==
  ASSUME Good, OneEach', NEW kind \in DOMAIN MaxOps, LeaderPublish(kind)
  PROVE  OpsStep
<1>1. Published(kind) < MaxOps[kind] /\ ops' = Append(ops, [from |-> L, kind |-> kind])
      /\ heard' = [heard EXCEPT ![L] = Append(@, NewId)] /\ NewId \in Int
  BY LeaderPublishStep DEF LeaderPublish
<1> DEFINE told == <<NewId>>
<1>2. told \in Seq(Int) /\ heard' = [heard EXCEPT ![L] = @ \o told] /\ L \in Procs
  <2>1. heard[L] \in Seq(Int) /\ L \in Procs
    BY DEF Good, Records, Procs
  <2>2. told \in Seq(Int) /\ heard[L] \o told = Append(heard[L], NewId)
    BY <1>1, <2>1, OneMore
  <2> HIDE DEF told
  <2> QED BY <1>1, <2>1, <2>2
<1> HIDE DEF told
<1>3. HeardMore
  BY <1>2, CalledOps
<1> QED BY <1>1, <1>2, <1>3 DEF OpsStep

(* A client hears the next operation, and may answer it.                   *)
LEMMA ClientReadOps ==
  ASSUME Good, Downs, Carried, OneEach', NEW c \in Clients, ClientRead(c)
  PROVE  OpsStep
<1> DEFINE r == cli[c]
           n == net[r.fd]
           u == Head(n.down)
           got == Append(r.dec, u)
           p == Place(n, r, heard[c])
<1>1. IF Len(got) = Parts /\ got = Packet(u[1])
      THEN /\ heard' = [heard EXCEPT ![c] = Append(@, u[1])]
           /\ \/ Answers(c, u[1]) /\ ops' = Append(ops, Answer(c))
              \/ ops' = ops
      ELSE heard' = heard /\ ops' = ops
  BY ClientReadStep
<1>2. Len(got) = Parts => p \in 0 .. Len(cast) - 1 /\ u[1] = cast[p + 1]
  BY ClientReadDowns
<1>3. CASE ~(Len(got) = Parts /\ got = Packet(u[1]))
  BY <1>1, <1>3, QuietOps
<1>4. CASE Len(got) = Parts /\ got = Packet(u[1])
  <2> DEFINE id == u[1]
             told == <<id>>
  <2>1. id \in Int /\ id \in DOMAIN ops
    <3>1. cast \in Seq(Int) /\ ops \in Seq([from : Procs, kind : {"line", "command", "answer"}])
      BY DEF Good, Records
    <3>2. p \in 0 .. Len(cast) - 1 /\ id = cast[p + 1]
      BY <1>2, <1>4
    <3> HIDE DEF p, id
    <3>3. p + 1 \in DOMAIN cast /\ cast[p + 1] \in Int
      BY <3>1, <3>2
    <3> QED BY <3>2, <3>3, CastDistinct
  <2>2. /\ heard' = [heard EXCEPT ![c] = Append(@, id)]
        /\ \/ Answers(c, id) /\ ops' = Append(ops, Answer(c))
           \/ ops' = ops
    BY <1>1, <1>4
  <2> HIDE DEF id, u, got, p, n
  <2>3. told \in Seq(Int) /\ heard' = [heard EXCEPT ![c] = @ \o told] /\ c \in Procs
        /\ told # <<>> /\ told[1] = id
    <3>1. heard[c] \in Seq(Int) /\ c \in Procs
      BY DEF Good, Records, Procs
    <3>2. told \in Seq(Int) /\ told # <<>> /\ told[1] = id
          /\ heard[c] \o told = Append(heard[c], id)
      BY <2>1, <3>1, OneMore
    <3> HIDE DEF told
    <3> QED BY <2>2, <3>1, <3>2
  <2> HIDE DEF told
  <2>4. HeardMore /\ Has(heard'[c], id) /\ ~Has(heard[c], id)
    BY <2>3, CalledOps
  <2>5. CASE ops' = ops
    BY <2>4, <2>5 DEF OpsStep
  <2>6. CASE Answers(c, id) /\ ops' = Append(ops, Answer(c))
    <3>1. AnswersNow(c, id)
      BY <2>1, <2>4, <2>6 DEF AnswersNow
    <3> QED BY <2>1, <2>3, <2>4, <3>1 DEF OpsStep
  <2> QED BY <2>2, <2>5, <2>6
<1> QED BY <1>3, <1>4

(* The leader is told of what it reads, and of the answer it gives.        *)
LEMMA LeaderReadOps ==
  ASSUME Good, Carried', OneEach', NEW k \in Conns, LeaderRead(k)
  PROVE  OpsStep
<1> DEFINE s == slot[k]
           t == slot'[k]
           u == Head(net[k].up)
           got == Append(s.dec, u)
<1>1. /\ u \in Messages \X (1 .. Parts)
      /\ \E more \in Seq(Int) :
           /\ cast' = cast \o more
           /\ t.out = s.out \o Frames(more)
           /\ \A j \in Conns : j # k => CastTo(slot[j], slot'[j], more)
           /\ IF Len(got) = Parts /\ got = Packet(u[1])
              THEN \/ /\ Answers(L, u[1]) /\ ops' = Append(ops, Answer(L))
                      /\ more = <<NewId, u[1]>>
                      /\ heard' = [heard EXCEPT ![L] = @ \o <<u[1], NewId>>]
                   \/ /\ ~Answers(L, u[1]) /\ ops' = ops
                      /\ more = <<u[1]>>
                      /\ heard' = [heard EXCEPT ![L] = Append(@, u[1])]
              ELSE ops' = ops /\ more = <<>> /\ heard' = heard
  BY LeaderReadStep
<1>2. u[1] \in Int /\ NewId \in Int /\ cast \in Seq(Int) /\ heard[L] \in Seq(Int) /\ L \in Procs
      /\ ops \in Seq([from : Procs, kind : {"line", "command", "answer"}])
  BY <1>1 DEF NewId, Messages, Good, Records, Procs
<1>3. \/ /\ cast' = cast \o <<NewId, u[1]>> /\ heard' = [heard EXCEPT ![L] = @ \o <<u[1], NewId>>]
         /\ Answers(L, u[1]) /\ ops' = Append(ops, Answer(L))
      \/ heard' = [heard EXCEPT ![L] = Append(@, u[1])] /\ ops' = ops
      \/ heard' = heard /\ ops' = ops
  BY <1>1
<1> DEFINE id == u[1]
<1>4. id \in Int
  BY <1>2
<1>5. \/ /\ cast' = cast \o <<NewId, id>> /\ heard' = [heard EXCEPT ![L] = @ \o <<id, NewId>>]
         /\ Answers(L, id) /\ ops' = Append(ops, Answer(L))
      \/ heard' = [heard EXCEPT ![L] = Append(@, id)] /\ ops' = ops
      \/ heard' = heard /\ ops' = ops
  BY <1>3
<1> HIDE DEF id, u, got, s, t
<1>6. CASE heard' = heard /\ ops' = ops
  BY <1>6, QuietOps
<1>7. CASE heard' = [heard EXCEPT ![L] = Append(@, id)] /\ ops' = ops
  <2> DEFINE told == <<id>>
  <2>1. told \in Seq(Int) /\ heard' = [heard EXCEPT ![L] = @ \o told]
    <3>1. told \in Seq(Int) /\ heard[L] \o told = Append(heard[L], id)
      BY <1>2, <1>4, OneMore
    <3> HIDE DEF told
    <3> QED BY <1>7, <3>1
  <2> HIDE DEF told
  <2>2. HeardMore
    BY <1>2, <2>1, CalledOps
  <2> QED BY <1>7, <2>2 DEF OpsStep
<1>8. CASE /\ cast' = cast \o <<NewId, id>> /\ heard' = [heard EXCEPT ![L] = @ \o <<id, NewId>>]
           /\ Answers(L, id) /\ ops' = Append(ops, Answer(L))
  <2> DEFINE told == <<id, NewId>>
  <2>1. told \in Seq(Int) /\ heard' = [heard EXCEPT ![L] = @ \o told]
        /\ told # <<>> /\ told[1] = id
    BY <1>2, <1>4, <1>8
  <2> HIDE DEF told
  <2>2. HeardMore /\ Has(heard'[L], id) /\ ~Has(heard[L], id)
    BY <1>2, <2>1, CalledOps
  <2>3. id \in DOMAIN ops
    <3> DEFINE n == Len(cast)
    <3>1. Distinct(cast') /\ \A a \in DOMAIN cast' : cast'[a] \in DOMAIN ops'
      BY DEF Carried, Order, Logged, Distinct
    <3>2. n + 1 \in DOMAIN cast' /\ n + 2 \in DOMAIN cast' /\ n + 1 # n + 2
          /\ cast'[n + 1] = NewId /\ cast'[n + 2] = id
      BY <1>2, <1>4, <1>8
    <3> HIDE DEF n
    <3>3. id # NewId /\ id \in DOMAIN ops'
      BY <3>1, <3>2 DEF Distinct
    <3>4. DOMAIN ops' = 1 .. Len(ops) + 1 /\ DOMAIN ops = 1 .. Len(ops) /\ Len(ops) \in Nat
      <4>1. Answer(L) \in [from : Procs, kind : {"line", "command", "answer"}]
        BY <1>2 DEF Answer
      <4> QED BY <1>2, <1>8, <4>1
    <3> QED BY <1>4, <3>3, <3>4 DEF NewId
  <2>4. AnswersNow(L, id)
    BY <1>8, <2>2, <2>3 DEF AnswersNow
  <2> QED BY <1>2, <1>4, <2>2, <2>4 DEF OpsStep
<1> QED BY <1>5, <1>6, <1>7, <1>8

(* No step publishes anything else.                                        *)
LEMMA StarPublishes ==
  ASSUME Good, Downs, Carried, Carried', OneEach', [Next]_vars
  PROVE  OpsStep
<1>1. CASE UNCHANGED vars
  BY <1>1, QuietOps DEF vars
<1>2. ASSUME NEW c \in Clients,
             \/ ConnectFails(c)
             \/ \E k \in Conns, async \in Async : Connect(c, k, async)
             \/ Disconnect(c)
      PROVE  OpsStep
  <2>1. ops' = ops /\ heard' = heard
    BY <1>2 DEF ConnectFails, Connect, Disconnect
  <2> QED BY <2>1, QuietOps
<1>3. ASSUME NEW c \in Clients, NEW kind \in DOMAIN MaxOps, ClientPublish(c, kind)
      PROVE  OpsStep
  BY <1>3, ClientPublishOps
<1>4. ASSUME NEW c \in Clients, ClientTick(c)
      PROVE  OpsStep
  <2>1. CASE ClientRead(c)
    BY <2>1, ClientReadOps
  <2>2. CASE ~ClientRead(c)
    <3>1. ops' = ops /\ heard' = heard
      BY <1>4, <2>2 DEF ClientTick, OnConnect, HandshakeBreaks, WriteHelo, ReadWlcm,
         ClientTrouble, ClientWrite
    <3> QED BY <3>1, QuietOps
  <2> QED BY <2>1, <2>2
<1>5. ASSUME NEW k \in Conns, LeaderTick(k) \/ Establish(k) \/ Refuse(k)
      PROVE  OpsStep
  <2>1. CASE LeaderRead(k)
    BY <2>1, LeaderReadOps
  <2>2. CASE ~LeaderRead(k)
    <3>1. ops' = ops /\ heard' = heard
      BY <1>5, <2>2 DEF LeaderTick, Establish, Refuse, Accept, ClientLeaves, ReadHelo,
         WriteWlcm, LeaderTrouble, LeaderWrite
    <3> QED BY <3>1, QuietOps
  <2> QED BY <2>1, <2>2
<1>6. ASSUME NEW kind \in DOMAIN MaxOps, LeaderPublish(kind)
      PROVE  OpsStep
  BY <1>6, LeaderPublishOps
<1>7. CASE LeaderQuits
  <2>1. ops' = ops /\ heard' = heard
    BY <1>7 DEF LeaderQuits
  <2> QED BY <2>1, QuietOps
<1> QED BY <1>1, <1>2, <1>3, <1>4, <1>5, <1>6, <1>7 DEF Next, User

-----------------------------------------------------------------------------
(* The records of the operations published.                                *)
OpRecords == [from : Procs, kind : {"line", "command", "answer"}]

(* The operations of a kind.                                               *)
OfKind(o, kind) == {i \in DOMAIN o : o[i].kind = kind}

(* g tells of each answer which command it was given to: one of somebody   *)
(* else's which its publisher has heard; nobody answers a command twice.   *)
AnswersOf(g, o, h) ==
  /\ \A i \in OfKind(o, "answer") :
       /\ g[i] \in OfKind(o, "command") /\ o[g[i]].from # o[i].from
       /\ Has(h[o[i].from], g[i])
  /\ \A i, j \in OfKind(o, "answer") :
       i # j /\ o[i].from = o[j].from => g[i] # g[j]

(* The users stay within the bound, and every answer is given to a command *)
(* of its own.                                                             *)
Counted ==
  /\ \A kind \in DOMAIN MaxOps : Published(kind) <= MaxOps[kind]
  /\ \E g \in [DOMAIN ops -> Int] : AnswersOf(g, ops, heard)

(* One operation more is one more of its kind.                             *)
LEMMA KindCount ==
  ASSUME NEW o \in Seq(OpRecords), NEW rec \in OpRecords, NEW kind
  PROVE  /\ IsFiniteSet(OfKind(o, kind)) /\ Cardinality(OfKind(o, kind)) \in Nat
         /\ Cardinality(OfKind(Append(o, rec), kind)) =
              IF rec.kind = kind THEN Cardinality(OfKind(o, kind)) + 1
              ELSE Cardinality(OfKind(o, kind))
<1> DEFINE n == Len(o)
           S == OfKind(o, kind)
           T == OfKind(Append(o, rec), kind)
<1>1. n \in Nat /\ DOMAIN o = 1 .. n /\ DOMAIN Append(o, rec) = 1 .. n + 1
      /\ \A i \in 1 .. n : Append(o, rec)[i] = o[i]
      /\ Append(o, rec)[n + 1] = rec
  OBVIOUS
<1>2. IsFiniteSet(S) /\ Cardinality(S) \in Nat
  <2>1. IsFiniteSet(1 .. n)
    BY <1>1, FS_Interval
  <2>2. S \in SUBSET (1 .. n)
    BY <1>1 DEF OfKind
  <2>3. IsFiniteSet(S)
    BY <2>1, <2>2, FS_Subset
  <2> QED BY <2>3, FS_CardinalityType
<1>3. n + 1 \notin S
  BY <1>1 DEF OfKind
<1>4. T = IF rec.kind = kind THEN S \cup {n + 1} ELSE S
  BY <1>1 DEF OfKind
<1>5. Cardinality(S \cup {n + 1}) = Cardinality(S) + 1
  BY <1>2, <1>3, FS_AddElement
<1> QED BY <1>2, <1>4, <1>5

(* The answers known are known when listeners have heard more.             *)
LEMMA AnswersKept ==
  ASSUME NEW g, NEW o \in Seq(OpRecords), NEW h, NEW h2, AnswersOf(g, o, h),
         \A p \in Procs : \A id : Has(h[p], id) => Has(h2[p], id)
  PROVE  AnswersOf(g, o, h2)
<1>1. ASSUME NEW i \in OfKind(o, "answer")
      PROVE  o[i].from \in Procs
  <2>1. i \in DOMAIN o
    BY DEF OfKind
  <2>2. o[i] \in OpRecords
    BY <2>1
  <2> QED BY <2>2 DEF OpRecords
<1> QED BY <1>1 DEF AnswersOf

(* An operation more: it is no answer, or one to a command that its        *)
(* publisher had not heard before.                                         *)
AnswersNew(o, rec, h, h2, id) ==
  /\ \A p \in Procs : \A x : Has(h[p], x) => Has(h2[p], x)
  /\ rec.kind = "answer" =>
       /\ id \in OfKind(o, "command") /\ o[id].from # rec.from
       /\ Has(h2[rec.from], id) /\ ~Has(h[rec.from], id)

(* Then the answers are still told apart.                                  *)
LEMMA AnswersMore ==
  ASSUME NEW o \in Seq(OpRecords), NEW g \in [DOMAIN o -> Int], NEW h, NEW h2,
         NEW rec \in OpRecords, NEW id \in Int,
         AnswersOf(g, o, h), AnswersNew(o, rec, h, h2, id)
  PROVE  \E f \in [DOMAIN Append(o, rec) -> Int] : AnswersOf(f, Append(o, rec), h2)
<1> DEFINE n == Len(o)
           p == Append(o, rec)
           f == [i \in DOMAIN p |-> IF i = n + 1 THEN id ELSE g[i]]
<1>1. /\ n \in Nat /\ DOMAIN o = 1 .. n /\ DOMAIN p = 1 .. n + 1
      /\ \A i \in 1 .. n : p[i] = o[i] /\ i # n + 1
      /\ p[n + 1] = rec
  OBVIOUS
<1>2. f \in [DOMAIN p -> Int] /\ \A i \in 1 .. n : f[i] = g[i]
  BY <1>1
<1>3. f[n + 1] = id
  BY <1>1
<1>4. /\ \A kind : OfKind(o, kind) \subseteq 1 .. n
      /\ \A kind : OfKind(o, kind) \subseteq OfKind(p, kind)
      /\ \A kind : \A i \in OfKind(p, kind) :
           i \in OfKind(o, kind) \/ (i = n + 1 /\ rec.kind = kind)
  BY <1>1 DEF OfKind
<1>5. AnswersOf(g, o, h2)
  BY AnswersKept DEF AnswersNew
<1>6. \A i \in OfKind(o, "answer") : o[i].from \in Procs
  <2>1. ASSUME NEW i \in OfKind(o, "answer")
        PROVE  o[i].from \in Procs
    <3>1. i \in DOMAIN o
      BY DEF OfKind
    <3>2. o[i] \in OpRecords
      BY <3>1
    <3> QED BY <3>2 DEF OpRecords
  <2> QED BY <2>1
<1> HIDE DEF f, p, n
<1>7. ASSUME NEW i \in OfKind(p, "answer")
      PROVE  /\ f[i] \in OfKind(p, "command") /\ p[f[i]].from # p[i].from
             /\ Has(h2[p[i].from], f[i])
  <2>1. CASE i \in OfKind(o, "answer")
    <3>1. f[i] = g[i] /\ p[i] = o[i] /\ g[i] \in OfKind(o, "command")
          /\ o[g[i]].from # o[i].from /\ Has(h2[o[i].from], g[i])
      BY <1>1, <1>2, <1>4, <1>5, <2>1 DEF AnswersOf
    <3>2. p[g[i]] = o[g[i]] /\ g[i] \in OfKind(p, "command")
      BY <1>1, <1>4, <3>1
    <3> QED BY <3>1, <3>2
  <2>2. CASE i = n + 1 /\ rec.kind = "answer"
    <3>1. id \in OfKind(o, "command") /\ o[id].from # rec.from /\ Has(h2[rec.from], id)
      BY <2>2 DEF AnswersNew
    <3>2. p[id] = o[id] /\ id \in OfKind(p, "command")
      BY <1>1, <1>4, <3>1
    <3> QED BY <1>1, <1>3, <2>2, <3>1, <3>2
  <2> QED BY <1>4, <2>1, <2>2
<1>8. ASSUME NEW i \in OfKind(o, "answer"), rec.kind = "answer", o[i].from = rec.from
      PROVE  g[i] # id
  <2>1. Has(h[o[i].from], g[i])
    BY DEF AnswersOf
  <2>2. ~Has(h[rec.from], id)
    BY <1>8 DEF AnswersNew
  <2> QED BY <1>8, <2>1, <2>2
<1>9. ASSUME NEW i \in OfKind(p, "answer"), NEW j \in OfKind(p, "answer"),
             i # j, p[i].from = p[j].from
      PROVE  f[i] # f[j]
  <2>1. CASE i \in OfKind(o, "answer") /\ j \in OfKind(o, "answer")
    <3>1. f[i] = g[i] /\ f[j] = g[j] /\ p[i] = o[i] /\ p[j] = o[j]
      BY <1>1, <1>2, <1>4, <2>1
    <3> QED BY <1>9, <2>1, <3>1 DEF AnswersOf
  <2>2. CASE i \in OfKind(o, "answer") /\ j = n + 1 /\ rec.kind = "answer"
    <3>1. f[i] = g[i] /\ p[i] = o[i]
      BY <1>1, <1>2, <1>4, <2>2
    <3> QED BY <1>1, <1>3, <1>8, <1>9, <2>2, <3>1
  <2>3. CASE j \in OfKind(o, "answer") /\ i = n + 1 /\ rec.kind = "answer"
    <3>1. f[j] = g[j] /\ p[j] = o[j]
      BY <1>1, <1>2, <1>4, <2>3
    <3> QED BY <1>1, <1>3, <1>8, <1>9, <2>3, <3>1
  <2> QED BY <1>4, <1>9, <2>1, <2>2, <2>3
<1>10. AnswersOf(f, p, h2)
  BY <1>7, <1>9 DEF AnswersOf
<1> QED BY <1>2, <1>10 DEF p

(* Every step keeps the count.                                             *)
LEMMA NextCounted ==
  ASSUME Good, Counted, OpsStep
  PROVE  Counted'
<1>1. ops \in Seq(OpRecords) /\ MaxOps \in [{"line", "command"} -> Nat]
  BY StarAssumption DEF Good, Records, OpRecords
<1>2. PICK g \in [DOMAIN ops -> Int] : AnswersOf(g, ops, heard)
  BY DEF Counted
<1>3. \A p \in Procs : \A x : Has(heard[p], x) => Has(heard'[p], x)
  BY DEF OpsStep, HeardMore
<1>4. \A kind \in DOMAIN MaxOps : Cardinality(OfKind(ops, kind)) <= MaxOps[kind]
  BY DEF Counted, Published, OfKind
<1>5. CASE ops' = ops
  <2>1. AnswersOf(g, ops, heard')
    BY <1>1, <1>2, <1>3, AnswersKept
  <2>2. \A kind \in DOMAIN MaxOps : Published(kind)' <= MaxOps[kind]
    BY <1>4, <1>5 DEF Published, OfKind
  <2> QED BY <1>5, <2>1, <2>2 DEF Counted
<1>6. ASSUME NEW rec \in OpRecords, ops' = Append(ops, rec), NEW id \in Int,
             AnswersNew(ops, rec, heard, heard', id),
             rec.kind \in DOMAIN MaxOps =>
               Cardinality(OfKind(ops, rec.kind)) < MaxOps[rec.kind]
      PROVE  Counted'
  <2>1. \E f \in [DOMAIN ops' -> Int] : AnswersOf(f, ops', heard')
    <3>1. \E f \in [DOMAIN Append(ops, rec) -> Int] : AnswersOf(f, Append(ops, rec), heard')
      BY <1>1, <1>2, <1>6, AnswersMore
    <3> QED BY <1>6, <3>1
  <2>2. ASSUME NEW kind \in DOMAIN MaxOps
        PROVE  Published(kind)' <= MaxOps[kind]
    <3> DEFINE a == Cardinality(OfKind(ops, kind))
               b == Cardinality(OfKind(Append(ops, rec), kind))
               m == MaxOps[kind]
    <3>1. a \in Nat /\ b = IF rec.kind = kind THEN a + 1 ELSE a
      BY <1>1, KindCount
    <3>2. m \in Nat /\ a <= m /\ (rec.kind = kind => a < m)
      BY <1>1, <1>4, <1>6
    <3>3. Published(kind)' = b
      BY <1>6 DEF Published, OfKind
    <3> HIDE DEF a, b, m
    <3>4. b <= m
      BY <3>1, <3>2
    <3> QED BY <3>3, <3>4 DEF m
  <2> QED BY <2>1, <2>2 DEF Counted
<1>7. ASSUME NEW kind \in DOMAIN MaxOps, NEW p \in Procs,
             Published(kind) < MaxOps[kind], ops' = Append(ops, [from |-> p, kind |-> kind])
      PROVE  Counted'
  <2> DEFINE rec == [from |-> p, kind |-> kind]
  <2>1. kind \in {"line", "command"}
    BY <1>1
  <2>2. rec \in OpRecords /\ rec.kind = kind /\ rec.kind # "answer"
    BY <2>1 DEF OpRecords
  <2>3. ops' = Append(ops, rec) /\ Cardinality(OfKind(ops, kind)) < MaxOps[kind]
    BY <1>7 DEF Published, OfKind
  <2> HIDE DEF rec
  <2>4. AnswersNew(ops, rec, heard, heard', 0)
    BY <1>3, <2>2 DEF AnswersNew
  <2> QED BY <1>6, <2>2, <2>3, <2>4
<1>8. ASSUME NEW p \in Procs, NEW id \in Int, AnswersNow(p, id)
      PROVE  Counted'
  <2> DEFINE rec == Answer(p)
  <2>1. rec \in OpRecords /\ rec.from = p /\ rec.kind = "answer"
    BY DEF OpRecords, Answer
  <2>2. ops' = Append(ops, rec) /\ id \in OfKind(ops, "command") /\ ops[id].from # p
        /\ Has(heard'[p], id) /\ ~Has(heard[p], id)
    BY <1>8 DEF AnswersNow, Answers, OfKind
  <2> HIDE DEF rec
  <2>3. AnswersNew(ops, rec, heard, heard', id)
    BY <1>3, <2>1, <2>2 DEF AnswersNew
  <2>4. rec.kind \notin DOMAIN MaxOps
    BY <1>1, <2>1
  <2> QED BY <1>6, <2>1, <2>2, <2>3, <2>4
<1> QED BY <1>5, <1>7, <1>8 DEF OpsStep

(* Nothing is published at the start.                                      *)
LEMMA InitCounted ==
  ASSUME Init
  PROVE  Counted
<1> DEFINE none == <<>>
<1>1. ops = none /\ DOMAIN none = {}
  BY DEF Init
<1> HIDE DEF none
<1>2. \A kind : OfKind(ops, kind) = {}
  BY <1>1 DEF OfKind
<1>3. ASSUME NEW kind \in DOMAIN MaxOps
      PROVE  Published(kind) <= MaxOps[kind]
  <2>1. Published(kind) = 0
    BY <1>2, FS_EmptySet DEF Published, OfKind
  <2>2. MaxOps[kind] \in Nat
    BY StarAssumption
  <2> QED BY <2>1, <2>2
<1>4. \E g \in [DOMAIN ops -> Int] : AnswersOf(g, ops, heard)
  <2> DEFINE g == [i \in DOMAIN ops |-> 0]
  <2>1. g \in [DOMAIN ops -> Int]
    OBVIOUS
  <2>2. AnswersOf(g, ops, heard)
    BY <1>2 DEF AnswersOf
  <2> QED BY <2>1, <2>2
<1> QED BY <1>3, <1>4 DEF Counted

(* As long as the program runs the users stay within the bound and every   *)
(* answer is given to a command of its own.                                *)
THEOREM StaysCounted == Spec => []Counted
<1>1. Init => Good /\ Downs /\ Carried /\ Hearing /\ Counted
  BY InitGood, InitDowns, InitCarried, InitHearing, InitCounted
<1>2. Good /\ Downs /\ Carried /\ Hearing /\ Counted /\ [Next]_vars
        => (Good /\ Downs /\ Carried /\ Hearing /\ Counted)'
  <2> SUFFICES ASSUME Good, Downs, Carried, Hearing, Counted, [Next]_vars
               PROVE  (Good /\ Downs /\ Carried /\ Hearing /\ Counted)'
    OBVIOUS
  <2>1. Good' /\ Downs' /\ Carried' /\ Hearing'
    BY NextGood, NextDowns, NextCarried, StarStepsInLog, NextHearing
  <2>2. Carried /\ Hearing => OneEach
    BY HeardOnce
  <2>3. OneEach'
    BY <2>1, <2>2, HeardOnce, PTL
  <2>4. Counted'
    BY <2>1, <2>3, StarPublishes, NextCounted
  <2> QED BY <2>1, <2>4
<1> QED BY <1>1, <1>2, PTL DEF Spec

(* So there are no more operations than the model has room for: a line and *)
(* a command each as often as the bound says, and an answer of each        *)
(* process to a command.                                                   *)
LEMMA OpsBounded ==
  ASSUME Good, Counted
  PROVE  Len(ops) <= Cardinality(Ids) /\ DOMAIN ops \subseteq Ids
<1> DEFINE n == Len(ops)
           A == OfKind(ops, "line")
           C == OfKind(ops, "command")
           D == OfKind(ops, "command") \cup OfKind(ops, "answer")
           a == MaxOps["line"]
           b == MaxOps["command"]
           m == Cardinality(Clients)
<1>1. /\ ops \in Seq(OpRecords) /\ n \in Nat /\ DOMAIN ops = 1 .. n
      /\ a \in Nat /\ b \in Nat
      /\ IsFiniteSet(Clients) /\ L \notin Clients
      /\ "line" \in DOMAIN MaxOps /\ "command" \in DOMAIN MaxOps
  BY StarAssumption DEF Good, Records, OpRecords
<1>2. /\ IsFiniteSet(A) /\ Cardinality(A) \in Nat /\ Cardinality(A) <= a
      /\ IsFiniteSet(C) /\ Cardinality(C) \in Nat /\ Cardinality(C) <= b
  <2>1. Cardinality(A) <= a /\ Cardinality(C) <= b
    BY <1>1 DEF Counted, Published, OfKind
  <2>2. \E rec \in OpRecords : TRUE
    <3>1. [from |-> L, kind |-> "line"] \in OpRecords
      BY DEF OpRecords, Procs
    <3> QED BY <3>1
  <2> QED BY <1>1, <2>1, <2>2, KindCount
<1>3. m \in Nat /\ IsFiniteSet(Procs) /\ Cardinality(Procs) = m + 1
  <2>1. m \in Nat
    BY <1>1, FS_CardinalityType
  <2> QED BY <1>1, <2>1, FS_AddElement DEF Procs
<1>4. IsFiniteSet(D) /\ Cardinality(D) \in Nat /\ Cardinality(D) <= Cardinality(C) * (m + 1)
  <2>1. PICK g \in [DOMAIN ops -> Int] : AnswersOf(g, ops, heard)
    BY DEF Counted
  <2> DEFINE f == [i \in D |-> IF ops[i].kind = "command" THEN <<i, ops[i].from>>
                               ELSE <<g[i], ops[i].from>>]
  <2>2. ASSUME NEW i \in D
        PROVE  /\ ops[i].from \in Procs
               /\ i \in C => ops[i].kind = "command"
               /\ i \notin C => i \in OfKind(ops, "answer") /\ ops[i].kind # "command"
    <3>1. i \in DOMAIN ops
      BY DEF OfKind
    <3>2. ops[i] \in OpRecords
      BY <1>1, <3>1
    <3> QED BY <3>2 DEF OfKind, OpRecords
  <2>3. ASSUME NEW i \in D, i \notin C
        PROVE  g[i] \in C /\ ops[g[i]].from # ops[i].from
    BY <2>1, <2>2, <2>3 DEF AnswersOf
  <2>4. ASSUME NEW i \in D, NEW j \in D, i # j, i \notin C, j \notin C,
               ops[i].from = ops[j].from
        PROVE  g[i] # g[j]
    BY <2>1, <2>2, <2>4 DEF AnswersOf
  <2>5. /\ \A i \in D : i \in C => f[i] = <<i, ops[i].from>>
        /\ \A i \in D : i \notin C => f[i] = <<g[i], ops[i].from>>
    BY <2>2
  <2>6. f = [i \in D |-> f[i]]
    OBVIOUS
  <2> HIDE DEF f, D, C
  <2>7. ASSUME NEW i \in D
        PROVE  f[i] \in C \X Procs
    <3>1. ops[i].from \in Procs
      BY <2>2
    <3>2. CASE i \in C
      BY <2>5, <3>1, <3>2
    <3>3. CASE i \notin C
      <4>1. f[i] = <<g[i], ops[i].from>> /\ g[i] \in C
        BY <2>3, <2>5, <3>3
      <4> QED BY <3>1, <4>1
    <3> QED BY <3>2, <3>3
  <2>8. ASSUME NEW i \in D, NEW j \in D, f[i] = f[j]
        PROVE  i = j
    <3>1. CASE i \in C /\ j \in C
      BY <2>5, <2>8, <3>1
    <3>2. CASE i \in C /\ j \notin C
      <4>1. i = g[j] /\ ops[i].from = ops[j].from
        BY <2>5, <2>8, <3>2
      <4> QED BY <2>3, <3>2, <4>1
    <3>3. CASE i \notin C /\ j \in C
      <4>1. j = g[i] /\ ops[i].from = ops[j].from
        BY <2>5, <2>8, <3>3
      <4> QED BY <2>3, <3>3, <4>1
    <3>4. CASE i \notin C /\ j \notin C
      <4>1. g[i] = g[j] /\ ops[i].from = ops[j].from
        BY <2>5, <2>8, <3>4
      <4> QED BY <2>4, <3>4, <4>1
    <3> QED BY <3>1, <3>2, <3>3, <3>4
  <2>9. f \in [D -> C \X Procs]
    BY <2>6, <2>7
  <2>10. f \in Injection(D, C \X Procs)
    BY <2>8, <2>9 DEF Injection, IsInjective
  <2>11. IsFiniteSet(C \X Procs) /\ Cardinality(C \X Procs) = Cardinality(C) * (m + 1)
    <3>1. IsFiniteSet(C)
      BY <1>2
    <3> HIDE DEF m
    <3> QED BY <1>3, <3>1, FS_Product
  <2>12. IsFiniteSet(D) /\ Cardinality(D) <= Cardinality(C \X Procs)
    BY <2>10, <2>11, FS_Injection
  <2> QED BY <2>11, <2>12, FS_CardinalityType
<1>5. DOMAIN ops \subseteq A \cup D
  <2>1. ASSUME NEW i \in DOMAIN ops
        PROVE  i \in A \cup D
    <3>1. ops[i] \in OpRecords
      BY <1>1
    <3> QED BY <3>1 DEF OfKind, OpRecords
  <2> QED BY <2>1
<1> HIDE DEF A, C, D, m, a, b, n
<1>6. n <= Cardinality(A) + Cardinality(D)
  <2>1. IsFiniteSet(A \cup D) /\ Cardinality(A \cup D) =
          Cardinality(A) + Cardinality(D) - Cardinality(A \cap D)
    BY <1>2, <1>4, FS_Union
  <2>2. IsFiniteSet(A \cap D) /\ Cardinality(A \cap D) \in Nat
    BY <1>2, FS_Intersection, FS_CardinalityType
  <2>3. Cardinality(1 .. n) = n
    BY <1>1, FS_Interval
  <2>4. (1 .. n) \in SUBSET (A \cup D)
    BY <1>1, <1>5
  <2>5. Cardinality(1 .. n) <= Cardinality(A \cup D)
    BY <2>1, <2>4, FS_Subset
  <2> DEFINE x == Cardinality(A)
             y == Cardinality(D)
             z == Cardinality(A \cap D)
             w == Cardinality(A \cup D)
  <2>6. x \in Nat /\ y \in Nat /\ z \in Nat /\ w = x + (y - z) /\ n <= w /\ n \in Nat
    BY <1>1, <1>2, <1>4, <2>1, <2>2, <2>3, <2>5
  <2> HIDE DEF x, y, z, w
  <2>7. n <= x + y
    BY <2>6
  <2> QED BY <2>7 DEF x, y
<1>7. n <= a + b * (m + 1)
  <2> DEFINE x == Cardinality(A)
             y == Cardinality(D)
             z == Cardinality(C)
  <2>1. x \in Nat /\ y \in Nat /\ z \in Nat /\ x <= a /\ z <= b /\ n <= x + y /\ y <= z * (m + 1)
        /\ a \in Nat /\ b \in Nat /\ m + 1 \in Nat /\ n \in Nat
    BY <1>1, <1>2, <1>3, <1>4, <1>6
  <2> HIDE DEF x, y, z
  <2>2. ASSUME NEW i \in Nat, NEW j \in Nat, NEW k \in Nat, i <= j
        PROVE  i * k <= j * k
    BY <2>2
  <2>3. z * (m + 1) <= b * (m + 1)
    BY <2>1, <2>2
  <2>4. z * (m + 1) \in Int /\ b * (m + 1) \in Int
    BY <2>1
  <2> DEFINE v == z * (m + 1)
             w == b * (m + 1)
  <2>5. v <= w /\ v \in Int /\ w \in Int /\ y <= v
    BY <2>1, <2>3, <2>4
  <2> HIDE DEF v, w
  <2>6. n <= a + w
    BY <2>1, <2>5
  <2> QED BY <2>6 DEF w
<1>8. Ids = 1 .. a + b * (m + 1) /\ a + b * (m + 1) \in Nat
  BY <1>1, <1>3 DEF Ids, a, b, m
<1> DEFINE t == a + b * (m + 1)
<1>9. n \in Nat /\ n <= t /\ Ids = 1 .. t /\ t \in Nat
  BY <1>1, <1>7, <1>8
<1> HIDE DEF t
<1>10. Cardinality(Ids) = t
  BY <1>9, FS_Interval
<1> QED BY <1>1, <1>9, <1>10 DEF n

-----------------------------------------------------------------------------
(* What is in the log are operations, each once.                           *)
LogHolds == Distinct(cast) /\ \A a \in DOMAIN cast : cast[a] \in Ids

(* The place of every client.                                              *)
Places == [c \in Clients |-> Pos(c)]

(* The place of one client moves.                                          *)
LEMMA OneMoves ==
  ASSUME NEW c \in Clients, OthersStay(c), Pos(c)' # Pos(c)
  PROVE  Places' = [Places EXCEPT ![c] = Pos(c)'] /\ Places' # Places
BY DEF OthersStay, Places

(* The places of two sequences in the one they make.                       *)
LEMMA JoinParts ==
  ASSUME NEW ca \in Seq(Int), NEW more \in Seq(Int)
  PROVE  /\ Len(ca) \in Nat /\ Len(more) \in Nat
         /\ Len(ca \o more) = Len(ca) + Len(more)
         /\ DOMAIN (ca \o more) = 1 .. Len(ca) + Len(more)
         /\ \A i \in 1 .. Len(more) : (ca \o more)[Len(ca) + i] = more[i]
OBVIOUS

(* An operation put at the end of the log is none that is there.           *)
LEMMA CastIsNew ==
  ASSUME NEW ca \in Seq(Int), NEW more \in Seq(Int), Distinct(ca \o more),
         \A a \in DOMAIN (ca \o more) : (ca \o more)[a] \in Ids
  PROVE  \A i \in 1 .. Len(more) :
           more[i] \in Ids /\ \A a \in 1 .. Len(ca) : ca[a] # more[i]
<1> DEFINE g == ca \o more
           n == Len(ca)
           m == Len(more)
<1>1. /\ n \in Nat /\ m \in Nat /\ DOMAIN g = 1 .. n + m
      /\ \A a \in 1 .. n : g[a] = ca[a]
      /\ \A i \in 1 .. m : g[n + i] = more[i]
  OBVIOUS
<1>2. Distinct(g) /\ \A a \in DOMAIN g : g[a] \in Ids
  OBVIOUS
<1> HIDE DEF g, n, m
<1>3. ASSUME NEW i \in 1 .. m
      PROVE  more[i] \in Ids /\ \A a \in 1 .. n : ca[a] # more[i]
  <2>1. n + i \in DOMAIN g /\ g[n + i] = more[i]
    BY <1>1
  <2>2. ASSUME NEW a \in 1 .. n
        PROVE  ca[a] # more[i]
    <3>1. a \in DOMAIN g /\ a # n + i /\ g[a] = ca[a]
      BY <1>1
    <3> QED BY <1>2, <2>1, <3>1 DEF Distinct
  <2> QED BY <1>2, <2>1, <2>2
<1> QED BY <1>3 DEF n, m

(* Each step of the star in the log is one the log may take.               *)
LEMMA LogStepAllowed ==
  ASSUME Good, LogHolds', LogStep
  PROVE  [Log!Next]_(Log!vars)
<1>1. cast \in Seq(Int) /\ heard \in [Procs -> Seq(Int)] /\ L \in Procs
  BY DEF Good, Records, Procs
<1>2. CASE LogStays
  BY <1>2 DEF LogStays, Log!vars
<1>3. ASSUME NEW c \in Clients, Joins(c)
      PROVE  Log!Next
  <2> DEFINE n == Pos(c)'
  <2>1. /\ n \in 0 .. Len(cast) /\ Pos(c) = -1 /\ Within(heard[c], cast, n)
        /\ OthersStay(c) /\ cast' = cast /\ heard' = heard
    BY <1>3 DEF Joins, OthersStay
  <2>2. n # Pos(c)
    BY <2>1
  <2>3. Places' = [Places EXCEPT ![c] = n] /\ Places' # Places
    BY <2>1, <2>2, OneMoves
  <2>4. \A i \in DOMAIN heard[c] : heard[c][i] \in Log!Logged(n)
    BY <2>1 DEF Within, Log!Logged
  <2>5. Places[c] = -1
    BY <2>1 DEF Places
  <2> HIDE DEF n
  <2>6. Log!Join(c)
    BY <2>1, <2>3, <2>4, <2>5 DEF Log!Join, Log!Off, Places
  <2> QED BY <2>3, <2>6 DEF Log!Next, Places
<1>4. ASSUME NEW c \in Clients, Hears(c)
      PROVE  Log!Next
  <2>1. /\ Pos(c) \in 0 .. Len(cast) - 1 /\ Pos(c)' = Pos(c) + 1
        /\ heard' = [heard EXCEPT ![c] = Append(@, cast[Pos(c) + 1])]
        /\ OthersStay(c) /\ cast' = cast
    BY <1>4 DEF Hears, OthersStay
  <2> DEFINE p == Pos(c)
             q == Pos(c)'
             n == Len(cast)
  <2>2. n \in Nat /\ p \in 0 .. n - 1 /\ q = p + 1
    BY <1>1, <2>1
  <2> HIDE DEF p, q, n
  <2>3. q # p /\ p # -1 /\ p < n
    BY <2>2
  <2>4. Places' = [Places EXCEPT ![c] = q] /\ Places' # Places
    BY <2>1, <2>3, OneMoves DEF p, q
  <2>5. Places[c] = p
    BY DEF Places, p
  <2>6. Log!Hear(c)
    <3>1. Places[c] # -1 /\ Places[c] < Len(cast)
      BY <2>3, <2>5 DEF n
    <3>2. Places' = [Places EXCEPT ![c] = @ + 1]
      BY <2>2, <2>4, <2>5
    <3>3. heard' = [heard EXCEPT ![c] = Append(@, cast[Places[c] + 1])]
      BY <2>1, <2>5 DEF p
    <3> QED BY <2>1, <3>1, <3>2, <3>3 DEF Log!Hear, Log!Off, Places
  <2> QED BY <2>4, <2>6 DEF Log!Next, Places
<1>5. ASSUME NEW c \in Clients, Leaves(c)
      PROVE  Log!Next
  <2>1. /\ Pos(c) # -1 /\ Pos(c)' = -1 /\ OthersStay(c) /\ cast' = cast /\ heard' = heard
    BY <1>5 DEF Leaves, OthersStay
  <2>2. Places' = [Places EXCEPT ![c] = -1] /\ Places' # Places
    BY <2>1, OneMoves
  <2>3. Places[c] # -1
    BY <2>1 DEF Places
  <2>4. Log!Leave(c)
    BY <2>1, <2>2, <2>3 DEF Log!Leave, Log!Off, Places
  <2> QED BY <2>2, <2>4 DEF Log!Next, Places
<1>6. ASSUME NEW id \in Int, CastsOne(id)
      PROVE  Log!Next
  <2> DEFINE more == <<id>>
  <2>1. /\ cast' = cast \o more /\ heard' = [heard EXCEPT ![L] = Append(@, id)]
        /\ \A d \in Clients : Pos(d)' = Pos(d)
    BY <1>6 DEF CastsOne
  <2>2. more \in Seq(Int) /\ cast \o more = Append(cast, id) /\ Len(more) = 1 /\ more[1] = id
    BY <1>1, OneMore
  <2> HIDE DEF more
  <2>3. Distinct(cast \o more) /\ \A a \in DOMAIN (cast \o more) : (cast \o more)[a] \in Ids
    BY <2>1 DEF LogHolds
  <2>4. \A i \in 1 .. Len(more) :
          more[i] \in Ids /\ \A a \in 1 .. Len(cast) : cast[a] # more[i]
    BY <1>1, <2>2, <2>3, CastIsNew
  <2>5. id \in Log!New
    BY <2>2, <2>4 DEF Log!New, Log!Logged
  <2>6. Log!CastOne(id)
    BY <2>1, <2>2 DEF Log!CastOne
  <2>7. cast' # cast
    <3>1. Len(Append(cast, id)) # Len(cast)
      BY <1>1
    <3> QED BY <2>1, <2>2, <3>1
  <2> QED BY <2>5, <2>6, <2>7 DEF Log!Next
<1>7. ASSUME NEW id \in Int, NEW answer \in Int, CastsTwo(id, answer)
      PROVE  Log!Next
  <2> DEFINE more == <<answer, id>>
  <2>1. /\ cast' = cast \o more /\ heard' = [heard EXCEPT ![L] = @ \o <<id, answer>>]
        /\ \A d \in Clients : Pos(d)' = Pos(d)
    BY <1>7 DEF CastsTwo
  <2>2. more \in Seq(Int) /\ Len(more) = 2 /\ more[1] = answer /\ more[2] = id
    OBVIOUS
  <2>3. cast' = cast \o <<answer, id>>
    BY <2>1
  <2> HIDE DEF more
  <2>4. Distinct(cast \o more) /\ \A a \in DOMAIN (cast \o more) : (cast \o more)[a] \in Ids
    BY <2>1 DEF LogHolds
  <2>5. \A i \in 1 .. Len(more) :
          more[i] \in Ids /\ \A a \in 1 .. Len(cast) : cast[a] # more[i]
    BY <1>1, <2>2, <2>4, CastIsNew
  <2>6. id \in Log!New /\ answer \in Log!New
    BY <2>2, <2>5 DEF Log!New, Log!Logged
  <2>7. id # answer /\ cast' # cast
    <3> DEFINE g == cast \o more
               n == Len(cast)
    <3>1. /\ n \in Nat /\ Len(g) = n + 2 /\ n + 1 \in DOMAIN g /\ n + 2 \in DOMAIN g
          /\ g[n + 1] = answer /\ g[n + 2] = id
      <4> DEFINE m == Len(more)
      <4>1. /\ n \in Nat /\ m \in Nat /\ Len(g) = n + m /\ DOMAIN g = 1 .. n + m
            /\ \A i \in 1 .. m : g[n + i] = more[i]
        BY <1>1, <2>2, JoinParts
      <4>2. m = 2 /\ more[1] = answer /\ more[2] = id
        BY <2>2
      <4> HIDE DEF g, n, m
      <4> QED BY <4>1, <4>2
    <3>2. Distinct(g)
      BY <2>4
    <3> HIDE DEF g, n
    <3>3. n + 1 # n + 2 /\ n + 2 # n
      BY <3>1
    <3>4. id # answer
      BY <3>1, <3>2, <3>3 DEF Distinct
    <3>5. cast' # cast
      BY <2>1, <3>1, <3>3 DEF g, n
    <3> QED BY <3>4, <3>5
  <2>8. Log!CastAnswered(id, answer)
    BY <2>1, <2>3, <2>7 DEF Log!CastAnswered
  <2> QED BY <2>6, <2>7, <2>8 DEF Log!Next
<1> QED BY <1>2, <1>3, <1>4, <1>5, <1>6, <1>7 DEF LogStep

(* Through partial reads and writes, handshakes, full tables, lost and new *)
(* connections, the listeners hear what the log lets them hear.            *)
THEOREM StarImplementsLog == Spec => KeepsLog
<1>1. Init => Log!Init
  <2> SUFFICES ASSUME Init
               PROVE  Log!Init
    OBVIOUS
  <2>1. cast = <<>> /\ heard = [p \in Clients \cup {L} |-> <<>>]
    BY DEF Init, Procs
  <2>2. \A c \in Clients : Pos(c) = -1
    BY DEF Init, IdleClient, Pos
  <2> QED BY <2>1, <2>2 DEF Log!Init, Log!Off
<1>2. Good /\ Carried /\ Counted => LogHolds
  BY CastDistinct, OpsBounded DEF LogHolds
<1>3. Good /\ Downs /\ LogHolds' /\ [Next]_vars => [Log!Next]_(Log!vars)
  BY StarStepsInLog, LogStepAllowed
<1> QED BY <1>1, <1>2, <1>3, StaysGood, StaysDown, StaysCarried, StaysCounted, PTL
        DEF Spec, KeepsLog, Log!Spec

-----------------------------------------------------------------------------
(* A set of bytes with units U, the handshake's among them, that reading,  *)
(* writing and putting packets together do not lead out of.                *)
ByteSet(B, U) ==
  /\ <<>> \in B /\ Packet(HELO) \in B /\ Packet(WLCM) \in B
  /\ \A x \in B : x # <<>> => Tail(x) \in B /\ Head(x) \in U
  /\ \A x \in B, u \in U : Append(x, u) \in B
  /\ \A x, y \in B : x \o y \in B

(* The units a connection holds are of B,                                  *)
ConnIn(n, B) == n.up \in B /\ n.down \in B

(* and those an end of one has to write or has read.                       *)
EndIn(r, B) == r.left \in B /\ r.in \in B /\ r.out \in B /\ r.dec \in B

(* All units there are are of B.                                           *)
AllIn(B) ==
  /\ \A k \in Conns : ConnIn(net[k], B) /\ EndIn(slot[k], B)
  /\ \A c \in Clients : EndIn(cli[c], B)

(* The units of the handshake and of what has been published.              *)
KnownUnits == Unit(DOMAIN ops \cup {HELO, WLCM})

(* No other are there.                                                     *)
AllKnown == AllIn(Seq(KnownUnits))

(* The sequences of a set of units are such a set of bytes.                *)
LEMMA SeqByteSet ==
  ASSUME NEW M, HELO \in M, WLCM \in M
  PROVE  /\ ByteSet(Seq(Unit(M)), Unit(M))
         /\ \A ids \in Seq(M) : Frames(ids) \in Seq(Unit(M))
         /\ \A m \in M : Packet(m) \in Seq(Unit(M))
<1>1. \A m \in M : Packet(m) \in Seq(Unit(M))
  BY PacketShape
<1>2. \A ids \in Seq(M) : Frames(ids) \in Seq(Unit(M))
  BY FramesShape
<1> DEFINE U == Unit(M)
<1>3. Packet(HELO) \in Seq(U) /\ Packet(WLCM) \in Seq(U)
  BY <1>1
<1> HIDE DEF U
<1>4. <<>> \in Seq(U)
  OBVIOUS
<1>5. ASSUME NEW x \in Seq(U), x # <<>>
      PROVE  Tail(x) \in Seq(U) /\ Head(x) \in U
  BY <1>5
<1>6. ASSUME NEW x \in Seq(U), NEW u \in U
      PROVE  Append(x, u) \in Seq(U)
  OBVIOUS
<1>7. ASSUME NEW x \in Seq(U), NEW y \in Seq(U)
      PROVE  x \o y \in Seq(U)
  OBVIOUS
<1>8. ByteSet(Seq(U), U)
  BY <1>3, <1>4, <1>5, <1>6, <1>7 DEF ByteSet
<1> QED BY <1>1, <1>2, <1>8 DEF U

(* What may happen to a connection puts no other units on it.              *)
LEMMA ConnStays ==
  ASSUME NEW B, NEW U, ByteSet(B, U), NEW n, NEW m, ConnIn(n, B),
         \/ m = n
         \/ Closed(n, m)
         \/ Cut(n, m)
         \/ n.down # <<>> /\ DownTaken(n, m)
         \/ n.up # <<>> /\ UpTaken(n, m)
         \/ \E u \in U : UpSent(n, m, u) \/ DownSent(n, m, u)
  PROVE  ConnIn(m, B)
<1>1. CASE m = n
  BY <1>1
<1>2. CASE Closed(n, m)
  BY <1>2 DEF Closed, ConnIn, ByteSet
<1>3. CASE Cut(n, m)
  BY <1>3 DEF Cut, ConnIn, ByteSet
<1>4. CASE n.down # <<>> /\ DownTaken(n, m)
  BY <1>4 DEF DownTaken, ConnIn, ByteSet
<1>5. CASE n.up # <<>> /\ UpTaken(n, m)
  BY <1>5 DEF UpTaken, ConnIn, ByteSet
<1>6. ASSUME NEW u \in U, UpSent(n, m, u)
      PROVE  ConnIn(m, B)
  <2>1. m.down = n.down /\ (m.up = n.up \/ m.up = Append(n.up, u))
    BY <1>6 DEF UpSent
  <2>2. Append(n.up, u) \in B
    BY DEF ConnIn, ByteSet
  <2> QED BY <2>1, <2>2 DEF ConnIn
<1>7. ASSUME NEW u \in U, DownSent(n, m, u)
      PROVE  ConnIn(m, B)
  <2>1. m.up = n.up /\ (m.down = n.down \/ m.down = Append(n.down, u))
    BY <1>7 DEF DownSent
  <2>2. Append(n.down, u) \in B
    BY DEF ConnIn, ByteSet
  <2> QED BY <2>1, <2>2 DEF ConnIn
<1> QED BY <1>1, <1>2, <1>3, <1>4, <1>5, <1>6, <1>7

(* A client's step at its own connection.                                  *)
LEMMA ClientIn ==
  ASSUME Good, NEW B, AllIn(B), NEW c \in Clients, cli[c].fd # NoFd,
         OthersSame(c, cli[c].fd), slot' = slot,
         ConnIn(net'[cli[c].fd], B), EndIn(cli'[c], B)
  PROVE  AllIn(B)'
<1>1. ASSUME NEW k \in Conns
      PROVE  ConnIn(net'[k], B) /\ EndIn(slot'[k], B)
  BY DEF AllIn, OthersSame
<1>2. ASSUME NEW d \in Clients
      PROVE  EndIn(cli'[d], B)
  BY DEF AllIn, OthersSame
<1> QED BY <1>1, <1>2 DEF AllIn

(* The leader's at one of its connections.                                 *)
LEMMA LeaderIn ==
  ASSUME NEW B, AllIn(B), NEW k \in Conns, LeaderSame(k),
         ConnIn(net'[k], B), EndIn(slot'[k], B)
  PROVE  AllIn(B)'
<1>1. ASSUME NEW j \in Conns
      PROVE  ConnIn(net'[j], B) /\ EndIn(slot'[j], B)
  BY DEF AllIn, LeaderSame
<1>2. ASSUME NEW d \in Clients
      PROVE  EndIn(cli'[d], B)
  BY DEF AllIn, LeaderSame
<1> QED BY <1>1, <1>2 DEF AllIn

(* A client at idle and a place that is not taken hold nothing.            *)
LEMMA EmptyEnds ==
  ASSUME NEW B, NEW U, ByteSet(B, U)
  PROVE  EndIn(NoSlot, B) /\ \A q : EndIn(IdleClient(q), B)
BY DEF NoSlot, IdleClient, EndIn, ByteSet

(* What the records of a client and its connection say of the units.       *)
LEMMA ClientAt ==
  ASSUME Good, NEW B, NEW U, ByteSet(B, U), AllIn(B), NEW c \in Clients, cli[c].fd # NoFd
  PROVE  /\ ConnIn(net[cli[c].fd], B) /\ EndIn(cli[c], B)
         /\ cli[c].left # <<>> => Tail(cli[c].left) \in B /\ Head(cli[c].left) \in U
         /\ cli[c].out # <<>> => Tail(cli[c].out) \in B /\ Head(cli[c].out) \in U
         /\ net[cli[c].fd].down # <<>> =>
              /\ Append(cli[c].in, Head(net[cli[c].fd].down)) \in B
              /\ Append(cli[c].dec, Head(net[cli[c].fd].down)) \in B
<1>1. cli[c].fd \in Conns
  BY Fields
<1>2. ConnIn(net[cli[c].fd], B) /\ EndIn(cli[c], B)
  BY <1>1 DEF AllIn
<1> DEFINE n == net[cli[c].fd]
           r == cli[c]
<1> HIDE DEF n, r
<1>3. ConnIn(n, B) /\ EndIn(r, B)
  BY <1>2 DEF n, r
<1>4. /\ r.left # <<>> => Tail(r.left) \in B /\ Head(r.left) \in U
      /\ r.out # <<>> => Tail(r.out) \in B /\ Head(r.out) \in U
  BY <1>3 DEF EndIn, ByteSet
<1>5. ASSUME n.down # <<>>
      PROVE  Append(r.in, Head(n.down)) \in B /\ Append(r.dec, Head(n.down)) \in B
  <2>1. Head(n.down) \in U
    BY <1>3, <1>5 DEF ConnIn, ByteSet
  <2> QED BY <1>3, <2>1 DEF EndIn, ByteSet
<1> QED BY <1>3, <1>4, <1>5 DEF n, r

(* The same of the leader's end.                                           *)
LEMMA LeaderAt ==
  ASSUME NEW B, NEW U, ByteSet(B, U), AllIn(B), NEW k \in Conns
  PROVE  /\ ConnIn(net[k], B) /\ EndIn(slot[k], B)
         /\ slot[k].left # <<>> => Tail(slot[k].left) \in B /\ Head(slot[k].left) \in U
         /\ slot[k].out # <<>> => Tail(slot[k].out) \in B /\ Head(slot[k].out) \in U
         /\ net[k].up # <<>> =>
              /\ Append(slot[k].in, Head(net[k].up)) \in B
              /\ Append(slot[k].dec, Head(net[k].up)) \in B
<1> DEFINE n == net[k]
           s == slot[k]
<1>1. ConnIn(n, B) /\ EndIn(s, B)
  BY DEF AllIn
<1> HIDE DEF n, s
<1>2. /\ s.left # <<>> => Tail(s.left) \in B /\ Head(s.left) \in U
      /\ s.out # <<>> => Tail(s.out) \in B /\ Head(s.out) \in U
  BY <1>1 DEF EndIn, ByteSet
<1>3. ASSUME n.up # <<>>
      PROVE  Append(s.in, Head(n.up)) \in B /\ Append(s.dec, Head(n.up)) \in B
  <2>1. Head(n.up) \in U
    BY <1>1, <1>3 DEF ConnIn, ByteSet
  <2> QED BY <1>1, <2>1 DEF EndIn, ByteSet
<1> QED BY <1>1, <1>2, <1>3 DEF n, s

(* A client that goes back to idle keeps no units.                         *)
LEMMA IdleIn ==
  ASSUME Good, NEW B, NEW U, ByteSet(B, U), AllIn(B), NEW c \in Clients, cli[c].fd # NoFd,
         OthersSame(c, cli[c].fd), slot' = slot,
         Closed(net[cli[c].fd], net'[cli[c].fd]), cli'[c] = IdleClient(cli[c].q)
  PROVE  AllIn(B)'
<1>1. ConnIn(net[cli[c].fd], B)
  BY ClientAt
<1>2. ConnIn(net'[cli[c].fd], B)
  BY <1>1, ConnStays
<1>3. EndIn(cli'[c], B)
  BY EmptyEnds
<1> QED BY <1>2, <1>3, ClientIn

(* So it is when the user or an error makes it idle,                       *)
LEMMA ToIdleIn ==
  ASSUME Good, NEW B, NEW U, ByteSet(B, U), AllIn(B), NEW c \in Clients,
         ConnectFails(c) \/ Disconnect(c) \/ HandshakeBreaks(c)
  PROVE  AllIn(B)'
<1>1. cli[c].st # "IDLE" /\ ToIdle(c) /\ UNCHANGED <<slot, alive, ops, heard, cast>>
  BY Fields DEF ConnectFails, Disconnect, HandshakeBreaks, GoodCli
<1>2. /\ OthersSame(c, cli[c].fd) /\ cli[c].fd # NoFd
      /\ Closed(net[cli[c].fd], net'[cli[c].fd]) /\ cli'[c] = IdleClient(cli[c].q)
  BY <1>1, ToIdleStep
<1>3. slot' = slot
  BY <1>1
<1> QED BY <1>2, <1>3, IdleIn

(* and a new connection starts empty, with the Hello to write.             *)
LEMMA ConnectIn ==
  ASSUME Good, NEW B, NEW U, ByteSet(B, U), AllIn(B), NEW c \in Clients, NEW k \in Conns,
         NEW async \in Async, Connect(c, k, async)
  PROVE  AllIn(B)'
<1> DEFINE j == cli[c].fd
           s == cli'[c]
<1>1. /\ Good' /\ net[k] = NoConn /\ k # j /\ k # NoFd
      /\ \A i \in Conns : net[i].phase # "unused" => i < k
      /\ j # NoFd => j \in Conns /\ Closed(net[j], net'[j]) /\ net[j].phase # "unused"
      /\ \A i \in Conns : i \notin {j, k} => net'[i] = net[i]
      /\ \A d \in Clients : d # c => cli'[d] = cli[d]
      /\ net'[k].phase \in {"syn", "up"} /\ net'[k].by = c
      /\ net'[k].up = <<>> /\ net'[k].down = <<>> /\ net'[k].cgone = FALSE
      /\ net'[k].sgone = FALSE /\ net'[k].rst = FALSE /\ net'[k].base = 0
      /\ s.fd = k /\ s.in = <<>> /\ s.out = <<>> /\ s.dec = <<>> /\ s.sent = <<>>
      /\ s.q = cli[c].q
      /\ \/ s.st = "CONNECTING"
         \/ s.st = "HELO_WR" /\ s.left = Packet(HELO)
  BY ConnectStep
<1>2. slot' = slot
  BY DEF Connect
<1>3. s.left = <<>> \/ s.left = Packet(HELO)
  <2>1. s \in GoodCli
    BY <1>1 DEF Good, Records
  <2> QED BY <1>1, <2>1 DEF GoodCli
<1>4. EndIn(s, B)
  BY <1>1, <1>3 DEF EndIn, ByteSet
<1>5. \A d \in Clients : EndIn(cli'[d], B)
  BY <1>1, <1>4 DEF AllIn
<1>6. ConnIn(net'[k], B)
  BY <1>1 DEF ConnIn, ByteSet
<1>7. ASSUME j # NoFd
      PROVE  ConnIn(net'[j], B)
  <2>1. ConnIn(net[j], B) /\ Closed(net[j], net'[j])
    BY <1>1, <1>7 DEF AllIn
  <2> HIDE DEF j
  <2> QED BY <2>1, ConnStays
<1>8. ASSUME NEW i \in Conns
      PROVE  ConnIn(net'[i], B) /\ EndIn(slot'[i], B)
  <2>1. EndIn(slot'[i], B) /\ ConnIn(net[i], B)
    BY <1>2 DEF AllIn
  <2>2. i # NoFd
    BY StarAssumption DEF Conns, NoFd
  <2>3. CASE i \notin {j, k}
    BY <1>1, <2>1, <2>3
  <2> QED BY <1>6, <1>7, <2>1, <2>2, <2>3
<1> QED BY <1>5, <1>8 DEF AllIn

(* The end of a connection attempt.                                        *)
LEMMA OnConnectIn ==
  ASSUME Good, NEW B, NEW U, ByteSet(B, U), AllIn(B), NEW c \in Clients, OnConnect(c)
  PROVE  AllIn(B)'
<1> DEFINE k == cli[c].fd
           s == cli'[c]
<1>1. /\ OthersSame(c, k) /\ k # NoFd
      /\ \/ Closed(net[k], net'[k]) /\ s = IdleClient(cli[c].q)
         \/ /\ net' = net /\ s.left = Packet(HELO) /\ s.out = <<>>
            /\ s.in = <<>> /\ s.dec = <<>>
  BY OnConnectStep
<1>2. slot' = slot
  BY DEF OnConnect
<1>3. CASE Closed(net[k], net'[k]) /\ s = IdleClient(cli[c].q)
  BY <1>1, <1>2, <1>3, IdleIn
<1>4. CASE /\ net' = net /\ s.left = Packet(HELO) /\ s.out = <<>>
           /\ s.in = <<>> /\ s.dec = <<>>
  <2>1. EndIn(s, B)
    BY <1>4 DEF EndIn, ByteSet
  <2>2. ConnIn(net'[k], B)
    BY <1>1, <1>4, ClientAt
  <2> QED BY <1>1, <1>2, <2>1, <2>2, ClientIn
<1> QED BY <1>1, <1>3, <1>4

(* A unit of the Hello goes from the client to its connection,             *)
LEMMA WriteHeloIn ==
  ASSUME Good, NEW B, NEW U, ByteSet(B, U), AllIn(B), NEW c \in Clients, WriteHelo(c)
  PROVE  AllIn(B)'
<1> DEFINE k == cli[c].fd
           r == cli[c]
           s == cli'[c]
<1>1. /\ Good' /\ OthersSame(c, k) /\ k # NoFd
      /\ UpSent(net[k], net'[k], Head(r.left))
      /\ s.st \in {"HELO_WR", "WLCM_RD"} /\ s.left = Tail(r.left)
      /\ s.in = <<>> /\ r.left # <<>>
  BY WriteHeloStep
<1>2. slot' = slot
  BY DEF WriteHelo
<1>3. ConnIn(net[k], B) /\ Tail(r.left) \in B /\ Head(r.left) \in U
  BY <1>1, ClientAt
<1>4. s.out = <<>> /\ s.dec = <<>>
  <2>1. s \in GoodCli
    BY <1>1 DEF Good, Records
  <2> QED BY <1>1, <2>1 DEF GoodCli
<1>5. EndIn(s, B)
  BY <1>1, <1>3, <1>4 DEF EndIn, ByteSet
<1>6. ConnIn(net'[k], B)
  <2>1. \E u \in U : UpSent(net[k], net'[k], u) \/ DownSent(net[k], net'[k], u)
    BY <1>1, <1>3
  <2> DEFINE n == net[k]
             m == net'[k]
  <2> HIDE DEF n, m
  <2> QED BY <1>3, <2>1, ConnStays DEF n, m
<1> QED BY <1>1, <1>2, <1>5, <1>6, ClientIn

(* and on a stream one of its operations.                                  *)
LEMMA ClientWriteIn ==
  ASSUME Good, NEW B, NEW U, ByteSet(B, U), AllIn(B), NEW c \in Clients, ClientWrite(c)
  PROVE  AllIn(B)'
<1> DEFINE k == cli[c].fd
           r == cli[c]
           s == cli'[c]
<1>1. /\ OthersSame(c, k) /\ k # NoFd
      /\ UpSent(net[k], net'[k], Head(r.out)) /\ r.out # <<>>
      /\ s.left = <<>> /\ s.out = Tail(r.out) /\ s.in = r.in /\ s.dec = r.dec
  BY ClientWriteStep
<1>2. slot' = slot
  BY DEF ClientWrite
<1>3. ConnIn(net[k], B) /\ EndIn(r, B) /\ Tail(r.out) \in B /\ Head(r.out) \in U
  BY <1>1, ClientAt
<1>4. EndIn(s, B)
  BY <1>1, <1>3 DEF EndIn, ByteSet
<1>5. ConnIn(net'[k], B)
  <2>1. \E u \in U : UpSent(net[k], net'[k], u) \/ DownSent(net[k], net'[k], u)
    BY <1>1, <1>3
  <2> DEFINE n == net[k]
             m == net'[k]
  <2> HIDE DEF n, m
  <2> QED BY <1>3, <2>1, ConnStays DEF n, m
<1> QED BY <1>1, <1>2, <1>4, <1>5, ClientIn

(* An error on the stream changes no units.                                *)
LEMMA ClientTroubleIn ==
  ASSUME Good, NEW B, NEW U, ByteSet(B, U), AllIn(B), NEW c \in Clients, ClientTrouble(c)
  PROVE  AllIn(B)'
<1>1. /\ OthersSame(c, cli[c].fd) /\ cli[c].fd # NoFd
      /\ net' = net /\ SameStream(cli[c], cli'[c])
  BY ClientTroubleStep
<1>2. slot' = slot
  BY DEF ClientTrouble
<1>3. ConnIn(net[cli[c].fd], B) /\ EndIn(cli[c], B)
  BY <1>1, ClientAt
<1>4. EndIn(cli'[c], B)
  BY <1>1, <1>3 DEF EndIn, SameStream
<1> QED BY <1>1, <1>2, <1>3, <1>4, ClientIn

(* The Welcome is read from the connection, and the buffer is framed.      *)
LEMMA ReadWlcmIn ==
  ASSUME Good, NEW B, NEW U, ByteSet(B, U), AllIn(B), NEW c \in Clients, ReadWlcm(c),
         Frames(cli[c].q) \in B
  PROVE  AllIn(B)'
<1> DEFINE k == cli[c].fd
           r == cli[c]
           s == cli'[c]
           got == Append(r.in, Head(net[k].down))
<1>1. /\ OthersSame(c, k) /\ k # NoFd /\ net[k].down # <<>>
      /\ \/ /\ DownTaken(net[k], net'[k])
            /\ s.in = got /\ s.left = <<>> /\ s.out = <<>> /\ s.dec = <<>>
         \/ Closed(net[k], net'[k]) /\ s = IdleClient(r.q)
         \/ /\ DownTaken(net[k], net'[k])
            /\ s.in = got /\ s.left = <<>> /\ s.out = Frames(r.q) /\ s.dec = <<>>
  BY ReadWlcmStep
<1>2. slot' = slot
  BY DEF ReadWlcm
<1>3. CASE Closed(net[k], net'[k]) /\ s = IdleClient(r.q)
  BY <1>1, <1>2, <1>3, IdleIn
<1>4. CASE /\ DownTaken(net[k], net'[k])
           /\ s.in = got /\ s.left = <<>> /\ s.dec = <<>>
           /\ s.out = <<>> \/ s.out = Frames(r.q)
  <2>1. ConnIn(net[k], B) /\ got \in B
    BY <1>1, ClientAt
  <2>2. EndIn(s, B)
    <3> HIDE DEF got
    <3> QED BY <1>4, <2>1 DEF EndIn, ByteSet
  <2>3. ConnIn(net'[k], B)
    BY <1>1, <1>4, <2>1, ConnStays
  <2> QED BY <1>1, <1>2, <2>2, <2>3, ClientIn
<1> QED BY <1>1, <1>3, <1>4

(* A read on the stream: the answer to a command is framed.                *)
LEMMA ClientReadIn ==
  ASSUME Good, NEW B, NEW U, ByteSet(B, U), AllIn(B), NEW c \in Clients, ClientRead(c),
         ops' # ops => Packet(NewId) \in B
  PROVE  AllIn(B)'
<1> DEFINE k == cli[c].fd
           r == cli[c]
           s == cli'[c]
           u == Head(net[k].down)
           got == Append(r.dec, u)
<1>1. /\ OthersSame(c, k) /\ k # NoFd
      /\ net[k].down # <<>> /\ DownTaken(net[k], net'[k])
      /\ s.left = <<>> /\ s.in = r.in
      /\ s.dec = IF Len(got) = Parts THEN <<>> ELSE got
      /\ \/ ops' = Append(ops, Answer(c)) /\ s.out = r.out \o Packet(NewId)
         \/ s.out = r.out
  BY ClientReadStep
<1>2. slot' = slot
  BY DEF ClientRead
<1>3. ConnIn(net[k], B) /\ EndIn(r, B) /\ got \in B
  BY <1>1, ClientAt
<1>4. ops' = Append(ops, Answer(c)) => ops' # ops
  <2>1. ops \in Seq(OpRecords) /\ Answer(c) \in OpRecords
    BY DEF Good, Records, OpRecords, Answer, Procs
  <2> DEFINE a == Answer(c)
  <2>2. Len(Append(ops, a)) = Len(ops) + 1 /\ Len(ops) \in Nat
    BY <2>1
  <2> HIDE DEF a
  <2>3. Append(ops, a) # ops
    BY <2>2
  <2> QED BY <2>3 DEF a
<1>5. s.out \in B
  <2>1. CASE s.out = r.out
    BY <1>3, <2>1 DEF EndIn
  <2>2. CASE ops' = Append(ops, Answer(c)) /\ s.out = r.out \o Packet(NewId)
    <3>1. Packet(NewId) \in B /\ r.out \in B
      BY <1>3, <1>4, <2>2 DEF EndIn
    <3> QED BY <2>2, <3>1 DEF ByteSet
  <2> QED BY <1>1, <2>1, <2>2
<1>6. EndIn(s, B)
  <2>1. s.dec \in B
    <3> HIDE DEF got
    <3> QED BY <1>1, <1>3 DEF ByteSet
  <2> QED BY <1>1, <1>3, <1>5, <2>1 DEF EndIn, ByteSet
<1>7. ConnIn(net'[k], B)
  BY <1>1, <1>3, ConnStays
<1> QED BY <1>1, <1>2, <1>6, <1>7, ClientIn

(* A publication of a client.                                              *)
LEMMA ClientPublishIn ==
  ASSUME Good, NEW B, NEW U, ByteSet(B, U), AllIn(B), NEW c \in Clients,
         NEW kind \in DOMAIN MaxOps, ClientPublish(c, kind), Packet(NewId) \in B
  PROVE  AllIn(B)'
<1> DEFINE r == cli[c]
           s == cli'[c]
<1>1. /\ net' = net /\ \A d \in Clients : d # c => cli'[d] = cli[d]
      /\ s.left = r.left /\ s.in = r.in /\ s.dec = r.dec
      /\ s.out = r.out \o Packet(NewId) \/ s.out = r.out
  BY ClientPublishStep
<1>2. slot' = slot
  BY DEF ClientPublish
<1>3. EndIn(r, B)
  BY DEF AllIn
<1>4. EndIn(s, B)
  <2>1. r.out \o Packet(NewId) \in B
    BY <1>3 DEF EndIn, ByteSet
  <2> QED BY <1>1, <1>3, <2>1 DEF EndIn
<1> QED BY <1>1, <1>2, <1>4 DEF AllIn

(* What the network and the accepting leader do.                           *)
LEMMA AcceptIn ==
  ASSUME Good, NEW B, NEW U, ByteSet(B, U), AllIn(B), NEW k \in Conns,
         Establish(k) \/ Refuse(k) \/ Accept(k) \/ ClientLeaves(k)
  PROVE  AllIn(B)'
<1>1. ConnIn(net[k], B) /\ EndIn(slot[k], B)
  BY LeaderAt
<1>2. CASE Establish(k) \/ Refuse(k)
  <2>1. /\ LeaderSame(k) /\ slot' = slot
        /\ net'[k].up = net[k].up /\ net'[k].down = net[k].down
    BY <1>2, NetworkStep
  <2>2. ConnIn(net'[k], B) /\ EndIn(slot'[k], B)
    BY <1>1, <2>1 DEF ConnIn
  <2> QED BY <2>1, <2>2, LeaderIn
<1>3. CASE Accept(k)
  <2>1. /\ Good' /\ LeaderSame(k)
        /\ \/ /\ net' = net /\ slot'[k].state = "helo" /\ slot'[k].in = <<>>
              /\ slot'[k].dec = <<>> /\ slot'[k].out = <<>>
           \/ /\ Cut(net[k], net'[k]) /\ slot' = slot
    BY <1>3, AcceptStep
  <2>2. CASE Cut(net[k], net'[k]) /\ slot' = slot
    BY <1>1, <2>1, <2>2, ConnStays, LeaderIn
  <2>3. CASE /\ net' = net /\ slot'[k].state = "helo" /\ slot'[k].in = <<>>
             /\ slot'[k].dec = <<>> /\ slot'[k].out = <<>>
    <3>1. slot'[k].left = <<>>
      <4>1. slot'[k] \in GoodSlot
        BY <2>1 DEF Good, Records
      <4> QED BY <2>3, <4>1 DEF GoodSlot
    <3>2. EndIn(slot'[k], B)
      BY <2>3, <3>1 DEF EndIn, ByteSet
    <3>3. ConnIn(net'[k], B)
      BY <1>1, <2>3
    <3> QED BY <2>1, <3>2, <3>3, LeaderIn
  <2> QED BY <2>1, <2>2, <2>3
<1>4. CASE ClientLeaves(k)
  <2>1. LeaderSame(k) /\ slot'[k] = NoSlot /\ Cut(net[k], net'[k])
    BY <1>4, ClientLeavesStep
  <2>2. ConnIn(net'[k], B) /\ EndIn(slot'[k], B)
    BY <1>1, <2>1, ConnStays, EmptyEnds
  <2> QED BY <2>1, <2>2, LeaderIn
<1> QED BY <1>2, <1>3, <1>4

(* The Hello is read.                                                      *)
LEMMA ReadHeloIn ==
  ASSUME Good, NEW B, NEW U, ByteSet(B, U), AllIn(B), NEW k \in Conns, ReadHelo(k)
  PROVE  AllIn(B)'
<1> DEFINE s == slot[k]
           t == slot'[k]
           got == Append(s.in, Head(net[k].up))
<1>1. /\ Good' /\ LeaderSame(k) /\ net[k].up # <<>>
      /\ \/ /\ UpTaken(net[k], net'[k])
            /\ t.state = "helo" /\ t.in = got /\ t.dec = <<>> /\ t.out = <<>>
         \/ Cut(net[k], net'[k]) /\ t = NoSlot
         \/ /\ UpTaken(net[k], net'[k]) /\ got = Packet(HELO)
            /\ t.state = "wlcm" /\ t.left = Packet(WLCM) /\ t.dec = <<>> /\ t.out = <<>>
  BY ReadHeloStep
<1>2. ConnIn(net[k], B) /\ got \in B
  BY <1>1, LeaderAt
<1>3. t \in GoodSlot
  BY <1>1 DEF Good, Records
<1>4. ConnIn(net'[k], B)
  BY <1>1, <1>2, ConnStays
<1>5. EndIn(t, B)
  <2>1. CASE t = NoSlot
    BY <2>1, EmptyEnds
  <2>2. CASE t.state = "helo" /\ t.in = got /\ t.dec = <<>> /\ t.out = <<>>
    <3>1. t.left = <<>>
      BY <1>3, <2>2 DEF GoodSlot
    <3> HIDE DEF got, t
    <3> QED BY <1>2, <2>2, <3>1 DEF EndIn, ByteSet
  <2>3. CASE t.state = "wlcm" /\ t.left = Packet(WLCM) /\ t.dec = <<>> /\ t.out = <<>>
    <3>1. t.in = Packet(HELO)
      BY <1>3, <2>3 DEF GoodSlot
    <3> HIDE DEF got, t
    <3> QED BY <2>3, <3>1 DEF EndIn, ByteSet
  <2> QED BY <1>1, <2>1, <2>2, <2>3
<1> QED BY <1>1, <1>4, <1>5, LeaderIn

(* The Welcome is written.                                                 *)
LEMMA WriteWlcmIn ==
  ASSUME Good, NEW B, NEW U, ByteSet(B, U), AllIn(B), NEW k \in Conns, WriteWlcm(k)
  PROVE  AllIn(B)'
<1> DEFINE s == slot[k]
           t == slot'[k]
<1>1. /\ Good' /\ LeaderSame(k) /\ s.left # <<>>
      /\ DownSent(net[k], net'[k], Head(s.left))
      /\ t.left = Tail(s.left) /\ t.dec = <<>> /\ t.out = <<>>
      /\ t.state = IF Tail(s.left) = <<>> THEN "stream" ELSE "wlcm"
  BY WriteWlcmStep
<1>2. ConnIn(net[k], B) /\ Tail(s.left) \in B /\ Head(s.left) \in U
  BY <1>1, LeaderAt
<1>3. t.in = Packet(HELO)
  <2>1. t \in GoodSlot
    BY <1>1 DEF Good, Records
  <2> QED BY <1>1, <2>1 DEF GoodSlot
<1>4. EndIn(t, B)
  BY <1>1, <1>2, <1>3 DEF EndIn, ByteSet
<1>5. ConnIn(net'[k], B)
  <2>1. \E u \in U : UpSent(net[k], net'[k], u) \/ DownSent(net[k], net'[k], u)
    BY <1>1, <1>2
  <2> DEFINE n == net[k]
             m == net'[k]
  <2> HIDE DEF n, m
  <2> QED BY <1>2, <2>1, ConnStays DEF n, m
<1> QED BY <1>1, <1>4, <1>5, LeaderIn

(* A unit of the leader's stream is written, or its stream has an error.   *)
LEMMA LeaderWriteIn ==
  ASSUME Good, NEW B, NEW U, ByteSet(B, U), AllIn(B), NEW k \in Conns,
         LeaderWrite(k) \/ LeaderTrouble(k)
  PROVE  AllIn(B)'
<1> DEFINE s == slot[k]
           t == slot'[k]
<1>1. ConnIn(net[k], B) /\ EndIn(s, B)
  BY LeaderAt
<1>2. CASE LeaderTrouble(k)
  <2>1. LeaderSame(k) /\ net' = net /\ SameSlot(s, t)
    BY <1>2, LeaderTroubleStep
  <2>2. ConnIn(net'[k], B) /\ EndIn(t, B)
    BY <1>1, <2>1 DEF SameSlot, EndIn
  <2> QED BY <2>1, <2>2, LeaderIn
<1>3. CASE LeaderWrite(k)
  <2>1. /\ LeaderSame(k) /\ s.out # <<>> /\ DownSent(net[k], net'[k], Head(s.out))
        /\ t.left = s.left /\ t.in = s.in /\ t.dec = s.dec /\ t.out = Tail(s.out)
    BY <1>3, LeaderWriteStep
  <2>2. Tail(s.out) \in B /\ Head(s.out) \in U
    BY <2>1, LeaderAt
  <2>3. EndIn(t, B)
    BY <1>1, <2>1, <2>2 DEF EndIn
  <2>4. ConnIn(net'[k], B)
    <3>1. \E u \in U : UpSent(net[k], net'[k], u) \/ DownSent(net[k], net'[k], u)
      BY <2>1, <2>2
    <3> DEFINE n == net[k]
               m == net'[k]
    <3> HIDE DEF n, m
    <3> QED BY <1>1, <3>1, ConnStays DEF n, m
  <2> QED BY <2>1, <2>3, <2>4, LeaderIn
<1> QED BY <1>2, <1>3

(* Frames of messages whose packets are of B are of B.                     *)
LEMMA FramesIn ==
  ASSUME NEW B, NEW U, ByteSet(B, U), NEW a \in Int, NEW b \in Int
  PROVE  /\ Packet(a) \in B => Frames(<<a>>) \in B
         /\ Packet(a) \in B /\ Packet(b) \in B => Frames(<<a, b>>) \in B
<1>1. Frames(<<a>>) = Packet(a) /\ Frames(<<b>>) = Packet(b)
  BY FramesOne
<1>2. Frames(<<a, b>>) = Packet(a) \o Packet(b)
  <2> DEFINE x == <<a>>
             y == <<b>>
  <2>1. x \in Seq(Int) /\ y \in Seq(Int)
    OBVIOUS
  <2> HIDE DEF x, y
  <2>2. Frames(x \o y) = Frames(x) \o Frames(y)
    BY <2>1, FramesConcat
  <2> QED BY <1>1, <2>2, Pair DEF x, y
<1> QED BY <1>1, <1>2 DEF ByteSet

(* A broadcast of such frames.                                             *)
LEMMA CastIn ==
  ASSUME NEW B, NEW U, ByteSet(B, U), NEW s, NEW t, NEW more,
         EndIn(s, B), CastTo(s, t, more), Frames(more) \in B
  PROVE  EndIn(t, B)
<1>1. s.out \o Frames(more) \in B
  BY DEF EndIn, ByteSet
<1> QED BY <1>1 DEF EndIn, CastTo

(* A publication of the leader.                                            *)
LEMMA LeaderPublishIn ==
  ASSUME Good, NEW B, NEW U, ByteSet(B, U), AllIn(B), NEW kind \in DOMAIN MaxOps,
         LeaderPublish(kind), Packet(NewId) \in B
  PROVE  AllIn(B)'
<1>1. /\ net' = net /\ cli' = cli /\ NewId \in Int
      /\ \A k \in Conns : CastTo(slot[k], slot'[k], <<NewId>>)
  BY LeaderPublishStep
<1>2. Frames(<<NewId>>) \in B
  BY <1>1, FramesIn
<1>3. ASSUME NEW k \in Conns
      PROVE  EndIn(slot'[k], B)
  <2>1. EndIn(slot[k], B)
    BY DEF AllIn
  <2> QED BY <1>1, <1>2, <2>1, CastIn
<1> QED BY <1>1, <1>3 DEF AllIn

(* A read of the leader, which broadcasts what it reads and its answer.    *)
LEMMA LeaderReadIn ==
  ASSUME Good, NEW B, NEW U, ByteSet(B, U), AllIn(B), NEW k \in Conns, LeaderRead(k),
         ops' # ops => Packet(NewId) \in B
  PROVE  AllIn(B)'
<1> DEFINE s == slot[k]
           t == slot'[k]
           u == Head(net[k].up)
           got == Append(s.dec, u)
<1>1. /\ cli' = cli /\ net[k].up # <<>> /\ u \in Messages \X (1 .. Parts)
      /\ UpTaken(net[k], net'[k]) /\ \A j \in Conns : j # k => net'[j] = net[j]
      /\ t.left = s.left /\ t.in = s.in
      /\ t.dec = IF Len(got) = Parts THEN <<>> ELSE got
  BY LeaderReadStep
<1>2. PICK more \in Seq(Int) :
        /\ t.out = s.out \o Frames(more)
        /\ \A j \in Conns : j # k => CastTo(slot[j], slot'[j], more)
        /\ IF Len(got) = Parts /\ got = Packet(u[1])
           THEN \/ ops' = Append(ops, Answer(L)) /\ more = <<NewId, u[1]>>
                \/ more = <<u[1]>>
           ELSE more = <<>>
  BY LeaderReadStep
<1>3. ConnIn(net[k], B) /\ EndIn(s, B) /\ got \in B
  BY <1>1, LeaderAt
<1>4. u[1] \in Int /\ NewId \in Int
  BY <1>1 DEF Messages, NewId, Good, Records
<1>5. ops' = Append(ops, Answer(L)) => ops' # ops
  <2>1. ops \in Seq(OpRecords) /\ Answer(L) \in OpRecords
    BY DEF Good, Records, OpRecords, Answer, Procs
  <2> DEFINE a == Answer(L)
  <2>2. Len(Append(ops, a)) = Len(ops) + 1 /\ Len(ops) \in Nat
    BY <2>1
  <2> HIDE DEF a
  <2>3. Append(ops, a) # ops
    BY <2>2
  <2> QED BY <2>3 DEF a
<1>6. Frames(more) \in B
  <2>1. CASE more = <<>>
    BY <2>1, FramesEmpty DEF ByteSet
  <2>2. CASE more = <<u[1]>> /\ got = Packet(u[1])
    <3> DEFINE x == u[1]
    <3>1. x \in Int /\ more = <<x>> /\ Packet(x) \in B
      BY <1>3, <1>4, <2>2
    <3> HIDE DEF x
    <3> QED BY <3>1, FramesIn
  <2>3. CASE ops' = Append(ops, Answer(L)) /\ more = <<NewId, u[1]>> /\ got = Packet(u[1])
    <3> DEFINE x == u[1]
               a == NewId
    <3>1. /\ x \in Int /\ a \in Int /\ more = <<a, x>>
          /\ Packet(x) \in B /\ Packet(a) \in B
      BY <1>3, <1>4, <1>5, <2>3
    <3> HIDE DEF x, a
    <3> QED BY <3>1, FramesIn
  <2> QED BY <1>2, <2>1, <2>2, <2>3
<1>7. EndIn(t, B)
  <2>1. t.dec \in B
    <3> HIDE DEF got
    <3> QED BY <1>1, <1>3 DEF ByteSet
  <2>2. s.out \o Frames(more) \in B
    BY <1>3, <1>6 DEF EndIn, ByteSet
  <2> QED BY <1>1, <1>2, <1>3, <2>1, <2>2 DEF EndIn
<1>8. ConnIn(net'[k], B)
  BY <1>1, <1>3, ConnStays
<1>9. ASSUME NEW j \in Conns, j # k
      PROVE  ConnIn(net'[j], B) /\ EndIn(slot'[j], B)
  <2>1. ConnIn(net[j], B) /\ EndIn(slot[j], B)
    BY DEF AllIn
  <2>2. EndIn(slot'[j], B)
    BY <1>2, <1>6, <1>9, <2>1, CastIn
  <2> QED BY <1>1, <1>9, <2>1, <2>2
<1>10. \A c \in Clients : EndIn(cli'[c], B)
  BY <1>1 DEF AllIn
<1>11. \A j \in Conns : ConnIn(net'[j], B) /\ EndIn(slot'[j], B)
  <2> HIDE DEF s, t, u, got
  <2>1. EndIn(slot'[k], B)
    BY <1>7 DEF t
  <2> QED BY <1>8, <1>9, <2>1
<1> QED BY <1>10, <1>11 DEF AllIn

(* The leader's end leaves nothing of its own.                             *)
LEMMA LeaderQuitsIn ==
  ASSUME Good, NEW B, NEW U, ByteSet(B, U), AllIn(B), LeaderQuits
  PROVE  AllIn(B)'
<1>1. /\ cli' = cli
      /\ \A k \in Conns :
           /\ slot'[k] = NoSlot
           /\ IF net[k].phase = "up" THEN Cut(net[k], net'[k]) ELSE net'[k] = net[k]
  BY LeaderQuitsStep
<1>2. ASSUME NEW k \in Conns
      PROVE  ConnIn(net'[k], B) /\ EndIn(slot'[k], B)
  <2>1. ConnIn(net[k], B)
    BY DEF AllIn
  <2>2. Cut(net[k], net'[k]) \/ net'[k] = net[k]
    BY <1>1
  <2>3. ConnIn(net'[k], B)
    BY <2>1, <2>2, ConnStays
  <2> QED BY <1>1, <2>3, EmptyEnds
<1> QED BY <1>1, <1>2 DEF AllIn

(* Every step: what is put on a connection was there, or is what is        *)
(* published now.                                                          *)
LEMMA NextIn ==
  ASSUME Good, NEW B, NEW U, ByteSet(B, U), AllIn(B), [Next]_vars,
         ops' # ops => Packet(NewId) \in B, \A c \in Clients : Frames(cli[c].q) \in B
  PROVE  AllIn(B)'
<1>1. CASE UNCHANGED vars
  BY <1>1 DEF vars, AllIn
<1>2. ASSUME NEW rec \in OpRecords, ops' = Append(ops, rec)
      PROVE  Packet(NewId) \in B
  <2>1. ops \in Seq(OpRecords)
    BY DEF Good, Records, OpRecords
  <2>2. Len(Append(ops, rec)) = Len(ops) + 1 /\ Len(ops) \in Nat
    BY <2>1
  <2>3. ops' # ops
    BY <1>2, <2>2
  <2> QED BY <2>3
<1>3. ASSUME NEW c \in Clients, NEW kind \in DOMAIN MaxOps, ClientPublish(c, kind)
      PROVE  AllIn(B)'
  <2> DEFINE rec == [from |-> c, kind |-> kind]
  <2>1. rec \in OpRecords
    BY StarAssumption DEF OpRecords, Procs
  <2>2. ops' = Append(ops, rec)
    BY <1>3 DEF ClientPublish
  <2> HIDE DEF rec
  <2>3. Packet(NewId) \in B
    BY <1>2, <2>1, <2>2
  <2> QED BY <1>3, <2>3, ClientPublishIn
<1>4. ASSUME NEW kind \in DOMAIN MaxOps, LeaderPublish(kind)
      PROVE  AllIn(B)'
  <2> DEFINE rec == [from |-> L, kind |-> kind]
  <2>1. rec \in OpRecords
    BY StarAssumption DEF OpRecords, Procs
  <2>2. ops' = Append(ops, rec)
    BY <1>4 DEF LeaderPublish
  <2> HIDE DEF rec
  <2>3. Packet(NewId) \in B
    BY <1>2, <2>1, <2>2
  <2> QED BY <1>4, <2>3, LeaderPublishIn
<1>5. ASSUME NEW c \in Clients,
             \/ ConnectFails(c)
             \/ \E k \in Conns, async \in Async : Connect(c, k, async)
             \/ Disconnect(c)
             \/ \E kind \in DOMAIN MaxOps : ClientPublish(c, kind)
      PROVE  AllIn(B)'
  BY <1>3, <1>5, ToIdleIn, ConnectIn
<1>6. ASSUME NEW c \in Clients, ClientTick(c)
      PROVE  AllIn(B)'
  <2>1. CASE ReadWlcm(c)
    BY <2>1, ReadWlcmIn
  <2>2. CASE ClientRead(c)
    BY <2>2, ClientReadIn
  <2> QED BY <1>6, <2>1, <2>2, OnConnectIn, ToIdleIn, WriteHeloIn, ClientTroubleIn,
             ClientWriteIn DEF ClientTick
<1>7. ASSUME NEW k \in Conns, LeaderTick(k) \/ Establish(k) \/ Refuse(k)
      PROVE  AllIn(B)'
  <2>1. CASE LeaderRead(k)
    BY <2>1, LeaderReadIn
  <2> QED BY <1>7, <2>1, AcceptIn, ReadHeloIn, WriteWlcmIn, LeaderWriteIn DEF LeaderTick
<1>8. CASE LeaderQuits
  BY <1>8, LeaderQuitsIn
<1> QED BY <1>1, <1>4, <1>5, <1>6, <1>7, <1>8 DEF Next, User

(* So the units are those of the handshake and of what was published.      *)
LEMMA NextKnown ==
  ASSUME Good, Carried, OpsStep, AllKnown, [Next]_vars
  PROVE  AllKnown'
<1> DEFINE M == (DOMAIN ops \cup {HELO, WLCM})'
<1>1. DOMAIN ops \subseteq DOMAIN ops' /\ (ops' # ops => NewId \in DOMAIN ops')
  <2>1. CASE ops' = ops
    BY <2>1
  <2>2. ASSUME NEW rec \in OpRecords, ops' = Append(ops, rec)
        PROVE  DOMAIN ops \subseteq DOMAIN ops' /\ NewId \in DOMAIN ops'
    <3>1. ops \in Seq(OpRecords)
      BY DEF Good, Records, OpRecords
    <3> QED BY <2>2, <3>1 DEF NewId
  <2>3. ops' = ops \/ \E rec \in OpRecords : ops' = Append(ops, rec)
    <3>1. ASSUME NEW p \in Procs, NEW id \in Int, AnswersNow(p, id)
          PROVE  \E rec \in OpRecords : ops' = Append(ops, rec)
      <4>1. Answer(p) \in OpRecords /\ ops' = Append(ops, Answer(p))
        BY <3>1 DEF AnswersNow, Answer, OpRecords
      <4> QED BY <4>1
    <3>2. ASSUME NEW kind \in DOMAIN MaxOps, NEW p \in Procs,
                 ops' = Append(ops, [from |-> p, kind |-> kind])
          PROVE  \E rec \in OpRecords : ops' = Append(ops, rec)
      <4>1. [from |-> p, kind |-> kind] \in OpRecords
        BY StarAssumption DEF OpRecords
      <4> QED BY <3>2, <4>1
    <3> QED BY <3>1, <3>2 DEF OpsStep
  <2> QED BY <2>1, <2>2, <2>3
<1>2. /\ HELO \in M /\ WLCM \in M /\ DOMAIN ops \subseteq M
      /\ ops' # ops => NewId \in M
  BY <1>1
<1>3. AllIn(Seq(Unit(DOMAIN ops \cup {HELO, WLCM})))
  BY DEF AllKnown, KnownUnits
<1>4. Unit(DOMAIN ops \cup {HELO, WLCM}) \subseteq Unit(M)
  BY <1>1 DEF Unit
<1>5. \A c \in Clients : cli[c].q \in Seq(M)
  <2> SUFFICES ASSUME NEW c \in Clients
               PROVE  cli[c].q \in Seq(M)
    OBVIOUS
  <2>1. \A i \in DOMAIN cli[c].q : cli[c].q[i] \in DOMAIN ops
    BY DEF Carried, Order, Mine
  <2>2. cli[c].q \in Seq(Int)
    BY Fields DEF WCli
  <2> DEFINE q == cli[c].q
  <2>3. q \in Seq(Int) /\ \A i \in DOMAIN q : q[i] \in M
    BY <1>2, <2>1, <2>2
  <2> HIDE DEF q, M
  <2>4. q \in Seq(M)
    BY <2>3
  <2> QED BY <2>4 DEF q
<1> HIDE DEF M
<1>6. ByteSet(Seq(Unit(M)), Unit(M))
  BY <1>2, SeqByteSet
<1>7. /\ ops' # ops => Packet(NewId) \in Seq(Unit(M))
      /\ \A c \in Clients : Frames(cli[c].q) \in Seq(Unit(M))
  BY <1>2, <1>5, SeqByteSet
<1>8. Seq(Unit(DOMAIN ops \cup {HELO, WLCM})) \subseteq Seq(Unit(M))
  <2> DEFINE V == Unit(DOMAIN ops \cup {HELO, WLCM})
             W == Unit(M)
  <2>1. V \subseteq W
    BY <1>4
  <2> HIDE DEF V, W
  <2>2. Seq(V) \subseteq Seq(W)
    BY <2>1
  <2> QED BY <2>2 DEF V, W
<1>9. AllIn(Seq(Unit(M)))
  BY <1>3, <1>8 DEF AllIn, ConnIn, EndIn
<1>10. PICK B, U : B = Seq(Unit(M)) /\ U = Unit(M)
  OBVIOUS
<1>11. /\ ByteSet(B, U) /\ AllIn(B)
       /\ ops' # ops => Packet(NewId) \in B
       /\ \A c \in Clients : Frames(cli[c].q) \in B
  BY <1>6, <1>7, <1>9, <1>10
<1>12. AllIn(B)'
  BY <1>11, NextIn
<1>13. B = Seq(KnownUnits)'
  BY <1>10 DEF M, KnownUnits
<1> QED BY <1>12, <1>13 DEF AllKnown, AllIn

(* At the start there are none.                                            *)
LEMMA InitKnown ==
  ASSUME Init
  PROVE  AllKnown
<1>1. \A k \in Conns : net[k] = NoConn /\ slot[k] = NoSlot
  BY DEF Init
<1>2. \A c \in Clients : cli[c] = IdleClient(<<>>)
  BY DEF Init
<1> DEFINE B == Seq(KnownUnits)
<1>3. <<>> \in B
  OBVIOUS
<1> HIDE DEF B
<1>4. ConnIn(NoConn, B) /\ EndIn(NoSlot, B) /\ EndIn(IdleClient(<<>>), B)
  BY <1>3 DEF NoConn, NoSlot, IdleClient, ConnIn, EndIn
<1> QED BY <1>1, <1>2, <1>4 DEF B, AllKnown, AllIn

-----------------------------------------------------------------------------
(* The leader has no more clients than places, and a client buffers no     *)
(* more publications than it has room for.                                 *)
Room ==
  /\ \A c \in Clients : Len(cli[c].q) <= MaxBuffered
  /\ Cardinality(Taken) <= MaxClients

(* A buffer stays, is sent, or has room for one more.                      *)
BufferStep(c) ==
  \/ cli'[c].q = cli[c].q
  \/ cli'[c].q = <<>>
  \/ Len(cli[c].q) < MaxBuffered /\ cli'[c].q = Append(cli[c].q, NewId)

(* A step of a client, with the others as they are.                        *)
BuffersStep ==
  /\ slot' = slot
  /\ \A c \in Clients : BufferStep(c)

(* What becomes of the buffer of the client that takes the step.           *)
LEMMA OwnBuffer ==
  ASSUME Good, NEW c \in Clients, slot' = slot, BufferStep(c),
         \A d \in Clients : d # c => cli'[d] = cli[d]
  PROVE  BuffersStep
BY DEF BufferStep, BuffersStep

(* Only a publication makes it longer, and it asks for the room.           *)
LEMMA ClientBuffers ==
  ASSUME Good, NEW c \in Clients,
         \/ ConnectFails(c)
         \/ \E k \in Conns, async \in Async : Connect(c, k, async)
         \/ Disconnect(c)
         \/ \E kind \in DOMAIN MaxOps : ClientPublish(c, kind)
         \/ ClientTick(c)
  PROVE  BuffersStep
<1>1. ASSUME slot' = slot, cli'[c].q = cli[c].q \/ cli'[c].q = <<>>,
             \A d \in Clients : d # c => cli'[d] = cli[d]
      PROVE  BuffersStep
  BY <1>1, OwnBuffer DEF BufferStep
<1>2. ASSUME slot' = slot, OthersSame(c, cli[c].fd),
             cli'[c].q = cli[c].q \/ cli'[c].q = <<>>
      PROVE  BuffersStep
  BY <1>1, <1>2 DEF OthersSame
<1>3. \A q : IdleClient(q).q = q
  BY DEF IdleClient
<1>4. CASE ConnectFails(c) \/ Disconnect(c) \/ HandshakeBreaks(c)
  <2>1. cli[c].st # "IDLE" /\ ToIdle(c) /\ UNCHANGED <<slot, alive, ops, heard, cast>>
    BY <1>4, Fields DEF ConnectFails, Disconnect, HandshakeBreaks, GoodCli
  <2>2. OthersSame(c, cli[c].fd) /\ cli'[c] = IdleClient(cli[c].q)
    BY <2>1, ToIdleStep
  <2> QED BY <1>2, <1>3, <2>1, <2>2
<1>5. ASSUME NEW k \in Conns, NEW async \in Async, Connect(c, k, async)
      PROVE  BuffersStep
  <2>1. /\ \A d \in Clients : d # c => cli'[d] = cli[d]
        /\ cli'[c].q = cli[c].q
    BY <1>5, ConnectStep
  <2>2. slot' = slot
    BY <1>5 DEF Connect
  <2> QED BY <1>1, <2>1, <2>2
<1>6. ASSUME NEW kind \in DOMAIN MaxOps, ClientPublish(c, kind)
      PROVE  BuffersStep
  <2>1. \A d \in Clients : d # c => cli'[d] = cli[d]
    BY <1>6, ClientPublishStep
  <2>2. slot' = slot
    BY <1>6 DEF ClientPublish
  <2>3. BufferStep(c)
    <3> DEFINE r == cli[c]
    <3>1. cli' = [cli EXCEPT ![c] =
            IF r.st = "STREAM" THEN SendUp(r, NewId)
            ELSE IF Len(r.q) < MaxBuffered THEN [r EXCEPT !.q = Append(@, NewId)]
            ELSE r]
      BY <1>6 DEF ClientPublish, NewId
    <3>2. r \in GoodCli /\ r \in WCli /\ NewId \in Int /\ cli \in [Clients -> GoodCli]
      BY Fields DEF Good, Records, NewId
    <3>3. cli'[c] = IF r.st = "STREAM" THEN SendUp(r, NewId)
                    ELSE IF Len(r.q) < MaxBuffered THEN [r EXCEPT !.q = Append(@, NewId)]
                    ELSE r
      <4> HIDE DEF r
      <4> QED BY <3>1, <3>2
    <3> HIDE DEF r
    <3>4. r.st = "STREAM" => SendUp(r, NewId).q = r.q
      BY <3>2, SendUpGood
    <3>5. [r EXCEPT !.q = Append(@, NewId)].q = Append(r.q, NewId)
      BY <3>2 DEF WCli
    <3>6. \/ cli'[c].q = r.q
          \/ Len(r.q) < MaxBuffered /\ cli'[c].q = Append(r.q, NewId)
      BY <3>3, <3>4, <3>5
    <3> QED BY <3>6 DEF BufferStep, r
  <2> QED BY <2>1, <2>2, <2>3, OwnBuffer
<1>7. CASE OnConnect(c)
  <2>1. /\ OthersSame(c, cli[c].fd)
        /\ cli'[c] = IdleClient(cli[c].q) \/ cli'[c].q = cli[c].q
    BY <1>7, OnConnectStep
  <2>2. slot' = slot
    BY <1>7 DEF OnConnect
  <2> QED BY <1>2, <1>3, <2>1, <2>2
<1>8. CASE WriteHelo(c)
  <2>1. OthersSame(c, cli[c].fd) /\ cli'[c].q = cli[c].q
    BY <1>8, WriteHeloStep
  <2>2. slot' = slot
    BY <1>8 DEF WriteHelo
  <2> QED BY <1>2, <2>1, <2>2
<1>9. CASE ReadWlcm(c)
  <2>1. /\ OthersSame(c, cli[c].fd)
        /\ \/ cli'[c].q = cli[c].q
           \/ cli'[c] = IdleClient(cli[c].q)
           \/ cli'[c].q = <<>>
    BY <1>9, ReadWlcmStep
  <2>2. slot' = slot
    BY <1>9 DEF ReadWlcm
  <2> QED BY <1>2, <1>3, <2>1, <2>2
<1>10. CASE ClientTrouble(c)
  <2>1. OthersSame(c, cli[c].fd) /\ cli'[c].q = cli[c].q
    BY <1>10, ClientTroubleStep DEF SameStream
  <2>2. slot' = slot
    BY <1>10 DEF ClientTrouble
  <2> QED BY <1>2, <2>1, <2>2
<1>11. CASE ClientWrite(c)
  <2>1. OthersSame(c, cli[c].fd) /\ cli'[c].q = <<>>
    BY <1>11, ClientWriteStep
  <2>2. slot' = slot
    BY <1>11 DEF ClientWrite
  <2> QED BY <1>2, <2>1, <2>2
<1>12. CASE ClientRead(c)
  <2>1. OthersSame(c, cli[c].fd) /\ cli'[c].q = <<>>
    BY <1>12, ClientReadStep
  <2>2. slot' = slot
    BY <1>12 DEF ClientRead
  <2> QED BY <1>2, <2>1, <2>2
<1> QED BY <1>4, <1>5, <1>6, <1>7, <1>8, <1>9, <1>10, <1>11, <1>12 DEF ClientTick

(* Such a step keeps the room there is.                                    *)
LEMMA BuffersRoom ==
  ASSUME Good, Room, BuffersStep
  PROVE  Room'
<1>1. Taken' = Taken
  BY DEF BuffersStep, Taken
<1>2. ASSUME NEW c \in Clients
      PROVE  Len(cli'[c].q) <= MaxBuffered
  <2> DEFINE q == cli[c].q
  <2>1. q \in Seq(Int) /\ Len(q) <= MaxBuffered /\ MaxBuffered \in Nat /\ NewId \in Int
    BY Fields, StarAssumption DEF WCli, Room, NewId, Good, Records
  <2>2. \/ cli'[c].q = q
        \/ cli'[c].q = <<>>
        \/ Len(q) < MaxBuffered /\ cli'[c].q = Append(q, NewId)
    BY DEF BuffersStep, BufferStep
  <2> HIDE DEF q
  <2> QED BY <2>1, <2>2
<1> QED BY <1>1, <1>2 DEF Room

(* Places are taken one at a time, while there are some.                   *)
LEMMA LeaderRoom ==
  ASSUME Good, Room, cli' = cli,
         \/ \A k \in Conns : slot'[k].state # "none" => slot[k].state # "none"
         \/ \E k \in Conns :
              /\ Cardinality(Taken) < MaxClients
              /\ \A j \in Conns : j # k => slot'[j] = slot[j]
  PROVE  Room'
<1>1. IsFiniteSet(Taken) /\ Cardinality(Taken) \in Nat /\ MaxClients \in Nat
  <2>1. IsFiniteSet(Conns)
    BY StarAssumption, FS_Interval DEF Conns
  <2>2. IsFiniteSet(Taken)
    BY <2>1, FS_Subset DEF Taken
  <2> QED BY <2>2, FS_CardinalityType, StarAssumption
<1>2. ASSUME Taken' \subseteq Taken
      PROVE  Cardinality(Taken') <= MaxClients
  <2>1. Cardinality(Taken') <= Cardinality(Taken) /\ IsFiniteSet(Taken')
    BY <1>1, <1>2, FS_Subset
  <2>2. Cardinality(Taken') \in Nat
    BY <2>1, FS_CardinalityType
  <2> QED BY <1>1, <2>1, <2>2 DEF Room
<1>3. ASSUME NEW k, Taken' \subseteq Taken \cup {k}, Cardinality(Taken) < MaxClients
      PROVE  Cardinality(Taken') <= MaxClients
  <2>1. /\ IsFiniteSet(Taken \cup {k})
        /\ Cardinality(Taken \cup {k}) = Cardinality(Taken)
           \/ Cardinality(Taken \cup {k}) = Cardinality(Taken) + 1
    BY <1>1, FS_AddElement
  <2>2. Cardinality(Taken') <= Cardinality(Taken \cup {k}) /\ IsFiniteSet(Taken')
    BY <1>3, <2>1, FS_Subset
  <2>3. Cardinality(Taken') \in Nat /\ Cardinality(Taken \cup {k}) \in Nat
    BY <2>1, <2>2, FS_CardinalityType
  <2> QED BY <1>1, <1>3, <2>1, <2>2, <2>3
<1>4. Cardinality(Taken') <= MaxClients
  <2>1. CASE \A k \in Conns : slot'[k].state # "none" => slot[k].state # "none"
    BY <1>2, <2>1 DEF Taken
  <2>2. ASSUME NEW k \in Conns, Cardinality(Taken) < MaxClients,
               \A j \in Conns : j # k => slot'[j] = slot[j]
        PROVE  Cardinality(Taken') <= MaxClients
    <3>1. Taken' \subseteq Taken \cup {k}
      BY <2>2 DEF Taken
    <3> QED BY <1>3, <2>2, <3>1
  <2> QED BY <2>1, <2>2
<1> QED BY <1>4 DEF Room

(* So the room is enough after every step.                                 *)
LEMMA NextRoom ==
  ASSUME Good, Room, [Next]_vars
  PROVE  Room'
<1>1. CASE UNCHANGED vars
  BY <1>1 DEF vars, Room, Taken
<1>2. ASSUME NEW c \in Clients,
             \/ ConnectFails(c)
             \/ \E k \in Conns, async \in Async : Connect(c, k, async)
             \/ Disconnect(c)
             \/ \E kind \in DOMAIN MaxOps : ClientPublish(c, kind)
             \/ ClientTick(c)
      PROVE  Room'
  BY <1>2, ClientBuffers, BuffersRoom
<1>3. ASSUME NEW k \in Conns, LeaderSame(k),
             slot'[k].state # "none" => slot[k].state # "none"
      PROVE  Room'
  <2>1. \A j \in Conns : slot'[j].state # "none" => slot[j].state # "none"
    BY <1>3 DEF LeaderSame
  <2> QED BY <1>3, <2>1, LeaderRoom DEF LeaderSame
<1>4. NoSlot.state = "none"
  BY DEF NoSlot
<1>5. ASSUME NEW k \in Conns, LeaderTick(k) \/ Establish(k) \/ Refuse(k)
      PROVE  Room'
  <2>1. CASE Establish(k) \/ Refuse(k)
    BY <1>3, <2>1, NetworkStep
  <2>2. CASE Accept(k)
    <3>1. LeaderSame(k)
      BY <2>2, AcceptStep
    <3>2. CASE Cardinality(Taken) < MaxClients
      BY <3>1, <3>2, LeaderRoom DEF LeaderSame
    <3>3. CASE ~(Cardinality(Taken) < MaxClients)
      <4>1. slot' = slot
        BY <2>2, <3>3 DEF Accept
      <4> QED BY <1>3, <3>1, <4>1
    <3> QED BY <3>2, <3>3
  <2>3. CASE ClientLeaves(k)
    BY <1>3, <1>4, <2>3, ClientLeavesStep
  <2>4. CASE ReadHelo(k)
    <3>1. LeaderSame(k) /\ slot[k].state = "helo"
      BY <2>4, ReadHeloStep
    <3> QED BY <1>3, <3>1
  <2>5. CASE WriteWlcm(k)
    <3>1. LeaderSame(k) /\ slot[k].state = "wlcm"
      BY <2>5, WriteWlcmStep
    <3> QED BY <1>3, <3>1
  <2>6. CASE LeaderTrouble(k)
    BY <1>3, <2>6, LeaderTroubleStep DEF SameSlot
  <2>7. CASE LeaderWrite(k)
    <3>1. LeaderSame(k) /\ slot[k].state = "stream"
      BY <2>7, LeaderWriteStep
    <3> QED BY <1>3, <3>1
  <2>8. CASE LeaderRead(k)
    <3>1. cli' = cli /\ slot[k].state = "stream"
      BY <2>8, LeaderReadStep
    <3>2. PICK more \in Seq(Int) :
            \A j \in Conns : j # k => CastTo(slot[j], slot'[j], more)
      BY <2>8, LeaderReadStep
    <3>3. \A j \in Conns : slot'[j].state # "none" => slot[j].state # "none"
      BY <3>1, <3>2 DEF CastTo
    <3> QED BY <3>1, <3>3, LeaderRoom
  <2> QED BY <1>5, <2>1, <2>2, <2>3, <2>4, <2>5, <2>6, <2>7, <2>8 DEF LeaderTick
<1>6. ASSUME NEW kind \in DOMAIN MaxOps, LeaderPublish(kind)
      PROVE  Room'
  <2>1. cli' = cli /\ \A k \in Conns : CastTo(slot[k], slot'[k], <<NewId>>)
    BY <1>6, LeaderPublishStep
  <2>2. \A k \in Conns : slot'[k].state # "none" => slot[k].state # "none"
    BY <2>1 DEF CastTo
  <2> QED BY <2>1, <2>2, LeaderRoom
<1>7. CASE LeaderQuits
  <2>1. cli' = cli /\ \A k \in Conns : slot'[k].state # "none" => slot[k].state # "none"
    BY <1>4, <1>7, LeaderQuitsStep
  <2> QED BY <2>1, LeaderRoom
<1> QED BY <1>1, <1>2, <1>5, <1>6, <1>7 DEF Next, User

(* At the start no place is taken and no buffer used.                      *)
LEMMA InitRoom ==
  ASSUME Init
  PROVE  Room
<1> DEFINE none == <<>>
<1>1. Len(none) = 0 /\ MaxBuffered \in Nat /\ MaxClients \in Nat
  BY StarAssumption
<1>2. \A c \in Clients : cli[c].q = none
  BY DEF Init, IdleClient
<1> HIDE DEF none
<1>3. \A c \in Clients : Len(cli[c].q) <= MaxBuffered
  BY <1>1, <1>2
<1>4. Taken = {}
  BY DEF Init, Taken, NoSlot
<1> QED BY <1>1, <1>3, <1>4, FS_EmptySet DEF Room

-----------------------------------------------------------------------------
(* A sequence whose elements are of a set is one of that set.              *)
LEMMA SeqOf ==
  ASSUME NEW S, NEW M, NEW q \in Seq(S), \A i \in DOMAIN q : q[i] \in M
  PROVE  q \in Seq(M)
OBVIOUS

(* The units of known messages are units.                                  *)
LEMMA KnownAreUnits ==
  ASSUME DOMAIN ops \subseteq Ids
  PROVE  Seq(KnownUnits) \subseteq Seq(Units)
<1>1. KnownUnits \subseteq Units
  BY DEF KnownUnits, Unit, Units
<1> DEFINE V == KnownUnits
           W == Units
<1> HIDE DEF V, W
<1>2. V \subseteq W => Seq(V) \subseteq Seq(W)
  OBVIOUS
<1> QED BY <1>1, <1>2 DEF V, W

(* The operations the records name are published ones.                     *)
LEMMA NamedIds ==
  ASSUME Good, Carried, DOMAIN ops \subseteq Ids
  PROVE  /\ cast \in Seq(Ids) /\ heard[L] \in Seq(Ids)
         /\ \A c \in Clients : cli[c].q \in Seq(Ids) /\ cli[c].sent \in Seq(Ids)
         /\ \A k \in Conns : slot[k].took \in Seq(Ids)
<1>1. PICK car \in Carrying : Ups(car) /\ Order(car)
  BY DEF Carried
<1>2. /\ cast \in Seq(Int) /\ heard[L] \in Seq(Int)
      /\ \A c \in Clients : cli[c].q \in Seq(Int) /\ cli[c].sent \in Seq(Int)
      /\ \A k \in Conns : slot[k].took \in Seq(Int) /\ car[k] \in Seq(Int)
  BY Fields DEF Good, Records, Procs, WCli, WSlot, Carrying
<1>3. \A a \in DOMAIN cast : cast[a] \in Ids
  BY <1>1 DEF Order, Logged
<1>4. cast \in Seq(Ids)
  BY <1>2, <1>3, SeqOf
<1>5. \A i \in DOMAIN heard[L] : heard[L][i] \in Ids
  BY <1>1, <1>3 DEF Order, Told
<1>6. heard[L] \in Seq(Ids)
  BY <1>2, <1>5, SeqOf
<1>7. ASSUME NEW k \in Conns
      PROVE  car[k] \in Seq(Ids) /\ slot[k].took \in Seq(Ids)
  <2>1. \A i \in DOMAIN car[k] : car[k][i] \in Ids
    BY <1>1 DEF Order, Mine
  <2>2. car[k] \in Seq(Ids)
    BY <1>2, <2>1, SeqOf
  <2> DEFINE t == slot[k].took
             s == car[k]
  <2>3. t \in Seq(Int) /\ s \in Seq(Ids) /\ Len(t) <= Len(s)
        /\ \A i \in 1 .. Len(t) : t[i] = s[i]
    BY <1>1, <1>2, <2>2 DEF Ups, Up, Begun
  <2> HIDE DEF t, s
  <2>4. \A i \in DOMAIN t : t[i] \in Ids
    BY <2>3
  <2>5. t \in Seq(Ids)
    BY <2>3, <2>4, SeqOf
  <2> QED BY <2>2, <2>5 DEF t
<1>8. ASSUME NEW c \in Clients
      PROVE  cli[c].q \in Seq(Ids) /\ cli[c].sent \in Seq(Ids)
  <2>1. \A i \in DOMAIN cli[c].q : cli[c].q[i] \in Ids
    BY <1>1 DEF Order, Mine
  <2>2. cli[c].q \in Seq(Ids)
    BY <1>2, <2>1, SeqOf
  <2>3. CASE cli[c].fd = NoFd
    <3>1. cli[c].sent = <<>>
      <4>1. cli[c] \in GoodCli
        BY Fields
      <4> QED BY <2>3, <4>1 DEF GoodCli
    <3> QED BY <2>2, <3>1
  <2>4. CASE cli[c].fd # NoFd
    <3> DEFINE k == cli[c].fd
    <3>1. k \in Conns /\ net[k].by = c /\ net[k].cgone = FALSE /\ net[k].phase # "unused"
      BY <2>4, Connected
    <3>2. car[k] = cli[c].sent
      BY <1>1, <3>1 DEF Ups, Up
    <3> QED BY <1>7, <2>2, <3>1, <3>2
  <2> QED BY <2>3, <2>4
<1> QED BY <1>4, <1>6, <1>7, <1>8

(* So the records are of the types the model states.                       *)
LEMMA TypesHold ==
  ASSUME Good, Carried, Heard, Counted, AllKnown, Room
  PROVE  TypeOK
<1>1. Len(ops) <= Cardinality(Ids) /\ DOMAIN ops \subseteq Ids
  BY OpsBounded
<1>2. /\ cast \in Seq(Ids) /\ heard[L] \in Seq(Ids)
      /\ \A c \in Clients : cli[c].q \in Seq(Ids) /\ cli[c].sent \in Seq(Ids)
      /\ \A k \in Conns : slot[k].took \in Seq(Ids)
  BY <1>1, NamedIds
<1> DEFINE B == Seq(Units)
<1>3. /\ \A k \in Conns : ConnIn(net[k], B) /\ EndIn(slot[k], B)
      /\ \A c \in Clients : EndIn(cli[c], B)
  <2>1. Seq(KnownUnits) \subseteq B
    BY <1>1, KnownAreUnits
  <2> QED BY <2>1 DEF AllKnown, AllIn, ConnIn, EndIn
<1> HIDE DEF B
<1>4. ASSUME NEW k \in Conns
      PROVE  net[k] \in Conn
  <2>1. net[k] \in WConn /\ ConnIn(net[k], B)
    BY <1>3, Fields
  <2> QED BY <2>1 DEF WConn, Conn, ConnIn, B
<1>5. ASSUME NEW k \in Conns
      PROVE  slot[k] \in Slot
  <2>1. slot[k] \in WSlot /\ EndIn(slot[k], B) /\ slot[k].took \in Seq(Ids)
    BY <1>2, <1>3, Fields
  <2> QED BY <2>1 DEF WSlot, Slot, EndIn, B
<1>6. ASSUME NEW c \in Clients
      PROVE  cli[c] \in CliImpl
  <2>1. /\ cli[c] \in WCli /\ EndIn(cli[c], B)
        /\ cli[c].q \in Seq(Ids) /\ cli[c].sent \in Seq(Ids)
    BY <1>2, <1>3, Fields
  <2> QED BY <2>1 DEF WCli, CliImpl, EndIn, B
<1>7. net \in [Conns -> Conn] /\ slot \in [Conns -> Slot] /\ cli \in [Clients -> CliImpl]
  BY <1>4, <1>5, <1>6 DEF Good, Records
<1>8. ASSUME NEW p \in Procs
      PROVE  heard[p] \in Seq(Ids)
  <2>1. CASE p = L
    BY <1>2, <2>1
  <2>2. CASE p \in Clients
    <3>1. heard[p] \in Seq(Int)
      BY DEF Good, Records
    <3>2. \A i \in DOMAIN heard[p] : heard[p][i] \in Ids
      <4>1. Len(cast) \in Nat /\ \A a \in 1 .. Len(cast) : cast[a] \in Ids
        BY <1>2
      <4> QED BY <2>2, <4>1 DEF Heard, Within
    <3> QED BY <3>1, <3>2, SeqOf
  <2> QED BY <2>1, <2>2 DEF Procs
<1>9. heard \in [Procs -> Seq(Ids)]
  BY <1>8 DEF Good, Records
<1> QED BY <1>1, <1>2, <1>7, <1>9 DEF TypeOK, Room, Good, Records

(* Every state has the types, whatever the numbers of clients,             *)
(* connections, places and operations.                                     *)
THEOREM StaysTyped == Spec => []TypeOK
<1>1. Init => AllKnown /\ Room
  BY InitKnown, InitRoom
<1>2. Carried /\ Hearing => OneEach
  BY HeardOnce
<1>3. Good /\ Downs /\ Carried /\ Carried' /\ OneEach' /\ AllKnown /\ Room /\ [Next]_vars
        => (AllKnown /\ Room)'
  BY StarPublishes, NextKnown, NextRoom
<1>4. Good /\ Downs /\ Carried /\ Counted /\ AllKnown /\ Room => TypeOK
  BY TypesHold DEF Downs
<1> QED BY <1>1, <1>2, <1>3, <1>4, StaysGood, StaysDown, StaysCarried, StaysHearing,
           StaysCounted, PTL DEF Spec

=============================================================================
