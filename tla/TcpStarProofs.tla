---------------------------- MODULE TcpStarProofs ---------------------------
(***************************************************************************)
(* Theorems about the records of the TCP star and about the way down: the  *)
(* fields of a connection and of its two ends fit together in every state  *)
(* (Good), and what is on the way from the leader to a client is what that *)
(* client has still to hear of the log (Downs), wherever packets are cut   *)
(* and whatever connections come and go. They hold for every number of     *)
(* clients, connections, places and operations, and for every number of    *)
(* parts a packet is cut in.                                               *)
(***************************************************************************)
EXTENDS TcpStar, SequenceTheorems, FiniteSetTheorems, TLAPS

(* A multiple of the length of a packet is at least that long. *)
LEMMA Multiple ==
  ASSUME NEW q \in Int, q >= 1
  PROVE  q * Parts >= Parts
  BY PartsAssumption

(* A place among n packets is a place in one of them. *)
LEMMA PlaceInPacket ==
  ASSUME NEW n \in Nat, NEW i \in 1 .. n * Parts
  PROVE  /\ (i - 1) \div Parts \in 0 .. n - 1
         /\ (i - 1) % Parts \in 0 .. Parts - 1
         /\ i = ((i - 1) \div Parts) * Parts + ((i - 1) % Parts) + 1
<1>1. Parts \in Nat \ {0} /\ n * Parts \in Nat
  BY PartsAssumption
<1> DEFINE m == i - 1
           q == m \div Parts
           r == m % Parts
<1>2. m \in Nat /\ i = m + 1
  BY <1>1
<1> HIDE DEF m
<1>3. q \in Nat /\ r \in 0 .. Parts - 1 /\ m = q * Parts + r
  BY <1>1, <1>2
<1> HIDE DEF q, r
<1>4. q < n
  <2>1. SUFFICES ASSUME q - n + 1 >= 1 PROVE FALSE
    BY <1>3
  <2>2. (q - n + 1) * Parts >= Parts
    BY <1>3, <2>1, Multiple
  <2>3. (q - n + 1) * Parts = q * Parts - n * Parts + Parts
    BY <1>1, <1>3
  <2>4. q * Parts \in Int
    BY <1>1, <1>3
  <2> QED BY <1>1, <1>2, <1>3, <2>2, <2>3, <2>4
<1>5. i = q * Parts + r + 1
  BY <1>1, <1>2, <1>3
<1> QED BY <1>3, <1>4, <1>5 DEF q, r, m

(* That place is the only one. *)
LEMMA PlaceOfUnit ==
  ASSUME NEW n \in Nat, NEW q \in 0 .. n - 1, NEW r \in 0 .. Parts - 1
  PROVE  /\ q * Parts + r + 1 \in 1 .. n * Parts
         /\ ((q * Parts + r + 1) - 1) \div Parts = q
         /\ ((q * Parts + r + 1) - 1) % Parts = r
<1>1. Parts \in Nat \ {0} /\ n * Parts \in Nat
  BY PartsAssumption
<1> DEFINE a == q * Parts
           m == a + r
<1>2. a \in Nat
  BY <1>1
<1>3. (n - q) * Parts >= Parts
  BY Multiple
<1>4. (n - q) * Parts = n * Parts - a
  BY <1>1
<1>5. m \in Nat /\ m + 1 \in 1 .. n * Parts /\ (m + 1) - 1 = m
  <2> HIDE DEF a
  <2> QED BY <1>1, <1>2, <1>3, <1>4
<1>6. m \div Parts = q /\ m % Parts = r
  <2> DEFINE q2 == m \div Parts
             r2 == m % Parts
  <2> HIDE DEF m
  <2>1. q2 \in Nat /\ r2 \in 0 .. Parts - 1 /\ m = q2 * Parts + r2
    BY <1>1, <1>5
  <2> HIDE DEF q2, r2
  <2>2. q2 * Parts + r2 = q * Parts + r
    BY <2>1 DEF m
  <2>3. (q - q2) * Parts = r2 - r /\ (q2 - q) * Parts = r - r2
    BY <1>1, <2>1, <2>2
  <2>4. ~(q - q2 >= 1)
    BY <1>1, <2>1, <2>3, Multiple
  <2>5. ~(q2 - q >= 1)
    BY <1>1, <2>1, <2>3, Multiple
  <2>6. q2 = q
    BY <1>1, <2>1, <2>4, <2>5
  <2>7. r2 = r
    BY <1>1, <2>1, <2>3, <2>6
  <2> QED BY <2>6, <2>7 DEF q2, r2
<1> QED BY <1>5, <1>6

(* The units of the packets of a set of messages.                          *)
Unit(M) == M \X (1 .. Parts)

(* The shape of a packet, *)
LEMMA PacketShape ==
  ASSUME NEW M, NEW m \in M
  PROVE  /\ Packet(m) \in Seq(Unit(M)) /\ Len(Packet(m)) = Parts
         /\ DOMAIN Packet(m) = 1 .. Parts
         /\ \A i \in 1 .. Parts : Packet(m)[i] = <<m, i>>
  BY PartsAssumption DEF Packet, Unit

(* and that of the frames of a sequence. *)
LEMMA FramesShape ==
  ASSUME NEW M, NEW s \in Seq(M)
  PROVE  /\ Frames(s) \in Seq(Unit(M)) /\ Len(Frames(s)) = Len(s) * Parts
         /\ Len(s) * Parts \in Nat
         /\ \A q \in 0 .. Len(s) - 1, r \in 0 .. Parts - 1 :
              /\ q * Parts + r + 1 \in 1 .. Len(s) * Parts
              /\ Frames(s)[q * Parts + r + 1] = <<s[q + 1], r + 1>>
<1>1. Parts \in Nat \ {0} /\ Len(s) \in Nat /\ Len(s) * Parts \in Nat
  BY PartsAssumption
<1>2. ASSUME NEW i \in 1 .. Len(s) * Parts
      PROVE  <<s[((i - 1) \div Parts) + 1], ((i - 1) % Parts) + 1>> \in Unit(M)
  <2> DEFINE q == (i - 1) \div Parts
             r == (i - 1) % Parts
  <2>1. q \in 0 .. Len(s) - 1 /\ r \in 0 .. Parts - 1
    BY <1>1, PlaceInPacket
  <2> HIDE DEF q, r
  <2>2. q + 1 \in 1 .. Len(s) /\ r + 1 \in 1 .. Parts
    BY <1>1, <2>1
  <2> QED BY <2>2 DEF Unit, q, r
<1>3. ASSUME NEW q \in 0 .. Len(s) - 1, NEW r \in 0 .. Parts - 1
      PROVE  /\ q * Parts + r + 1 \in 1 .. Len(s) * Parts
             /\ Frames(s)[q * Parts + r + 1] = <<s[q + 1], r + 1>>
  <2> DEFINE i == q * Parts + r + 1
  <2>1. i \in 1 .. Len(s) * Parts /\ (i - 1) \div Parts = q /\ (i - 1) % Parts = r
    BY <1>1, PlaceOfUnit
  <2> HIDE DEF i
  <2>2. Frames(s)[i] = <<s[q + 1], r + 1>>
    BY <2>1 DEF Frames
  <2> QED BY <2>1, <2>2 DEF i
<1>4. Frames(s) \in [1 .. Len(s) * Parts -> Unit(M)]
  BY <1>2 DEF Frames
<1> QED BY <1>1, <1>3, <1>4

(* No operation makes no frame. *)
LEMMA FramesEmpty == Frames(<<>>) = <<>>
<1>1. Len(<<>>) * Parts = 0
  BY PartsAssumption
<1>2. 1 .. 0 = {}
  OBVIOUS
<1> DEFINE f == Frames(<<>>)
<1>3. f \in Seq({1})
  <2>1. f \in [1 .. 0 -> {1}]
    BY <1>1, <1>2 DEF Frames
  <2> QED BY <2>1
<1>4. Len(f) = 0
  BY <1>1, <1>2, <1>3 DEF Frames
<1> QED BY <1>3, <1>4, EmptySeq

(* One makes a packet. *)
LEMMA FramesOne ==
  ASSUME NEW m
  PROVE  Frames(<<m>>) = Packet(m)
<1>1. Parts \in Nat \ {0} /\ 1 * Parts = Parts /\ Len(<<m>>) = 1
  BY PartsAssumption
<1>2. ASSUME NEW i \in 1 .. Parts
      PROVE  (i - 1) \div Parts = 0 /\ ((i - 1) % Parts) + 1 = i
  <2>1. i \in 1 .. 1 * Parts
    BY <1>1
  <2>2. /\ (i - 1) \div Parts \in 0 .. 1 - 1
        /\ (i - 1) % Parts \in 0 .. Parts - 1
        /\ i = ((i - 1) \div Parts) * Parts + ((i - 1) % Parts) + 1
    BY <2>1, PlaceInPacket
  <2> DEFINE q == (i - 1) \div Parts
             r == (i - 1) % Parts
  <2> HIDE DEF q, r
  <2>3. q = 0
    BY <2>2 DEF q
  <2>4. r \in Int /\ i = q * Parts + r + 1
    BY <1>1, <2>2 DEF q, r
  <2>5. q * Parts = 0
    BY <1>1, <2>3
  <2>6. i = r + 1
    BY <1>1, <2>4, <2>5
  <2> QED BY <2>3, <2>6 DEF q, r
<1> DEFINE s == <<m>>
<1>3. s[0 + 1] = m /\ Len(s) = 1
  OBVIOUS
<1>4. ASSUME NEW i \in 1 .. Parts
      PROVE  <<s[((i - 1) \div Parts) + 1], ((i - 1) % Parts) + 1>> = <<m, i>>
  BY <1>2, <1>3
<1> HIDE DEF s
<1>5. Frames(s) = [i \in 1 .. Parts |-> <<m, i>>]
  BY <1>1, <1>3, <1>4 DEF Frames
<1> QED BY <1>5 DEF Packet, s

(* The frames of two sequences end to end are those of the whole. *)
LEMMA FramesConcat ==
  ASSUME NEW M, NEW s \in Seq(M), NEW t \in Seq(M)
  PROVE  Frames(s \o t) = Frames(s) \o Frames(t)
<1> DEFINE st == s \o t
           a  == Len(s) * Parts
           b  == Len(t) * Parts
           c  == Len(st) * Parts
<1>1. Parts \in Nat \ {0} /\ Len(s) \in Nat /\ Len(t) \in Nat /\ a \in Nat /\ b \in Nat
  BY PartsAssumption
<1>2. /\ st \in Seq(M) /\ Len(st) = Len(s) + Len(t)
      /\ \A i \in 1 .. Len(s) : st[i] = s[i]
      /\ \A i \in 1 .. Len(t) : st[Len(s) + i] = t[i]
  OBVIOUS
<1> HIDE DEF st
<1>3. c = a + b
  <2>1. (Len(s) + Len(t)) * Parts = Len(s) * Parts + Len(t) * Parts
    BY <1>1
  <2> QED BY <1>2, <2>1
<1> DEFINE fs == Frames(s)
           ft == Frames(t)
           f  == Frames(st)
<1>4. /\ fs \in Seq(Unit(M)) /\ Len(fs) = a
      /\ ft \in Seq(Unit(M)) /\ Len(ft) = b
      /\ f \in Seq(Unit(M)) /\ Len(f) = c
  BY <1>2, FramesShape
<1> HIDE DEF fs, ft, f
<1>5. /\ fs \o ft \in Seq(Unit(M)) /\ Len(fs \o ft) = c
      /\ \A i \in 1 .. a : (fs \o ft)[i] = fs[i]
      /\ \A i \in 1 .. b : (fs \o ft)[a + i] = ft[i]
  <2> HIDE DEF a, b, c
  <2> DEFINE U == Unit(M)
  <2> HIDE DEF U
  <2>1. fs \in Seq(U) /\ ft \in Seq(U)
    BY <1>4 DEF U
  <2>2. /\ fs \o ft \in Seq(U) /\ Len(fs \o ft) = Len(fs) + Len(ft)
        /\ \A i \in 1 .. Len(fs) : (fs \o ft)[i] = fs[i]
        /\ \A i \in 1 .. Len(ft) : (fs \o ft)[Len(fs) + i] = ft[i]
    BY <2>1
  <2> QED BY <1>3, <1>4, <2>2 DEF U
<1>6. ASSUME NEW i \in 1 .. a PROVE f[i] = fs[i]
  <2> DEFINE q == (i - 1) \div Parts
             r == (i - 1) % Parts
  <2>1. q \in 0 .. Len(s) - 1 /\ r \in 0 .. Parts - 1 /\ i = q * Parts + r + 1
    BY <1>1, PlaceInPacket
  <2> HIDE DEF q, r
  <2>2. fs[q * Parts + r + 1] = <<s[q + 1], r + 1>>
    BY <2>1, FramesShape DEF fs
  <2>3. q \in 0 .. Len(st) - 1 /\ q + 1 \in 1 .. Len(s)
    BY <1>1, <1>2, <2>1
  <2>4. f[q * Parts + r + 1] = <<st[q + 1], r + 1>>
    BY <1>2, <2>1, <2>3, FramesShape DEF f
  <2> QED BY <1>2, <2>1, <2>2, <2>3, <2>4
<1>7. ASSUME NEW i \in 1 .. b PROVE f[a + i] = ft[i]
  <2> DEFINE q == (i - 1) \div Parts
             r == (i - 1) % Parts
  <2>1. q \in 0 .. Len(t) - 1 /\ r \in 0 .. Parts - 1 /\ i = q * Parts + r + 1
    BY <1>1, PlaceInPacket
  <2> HIDE DEF q, r
  <2>2. ft[q * Parts + r + 1] = <<t[q + 1], r + 1>>
    BY <2>1, FramesShape DEF ft
  <2> DEFINE p == Len(s) + q
  <2>3. p \in 0 .. Len(st) - 1 /\ q + 1 \in 1 .. Len(t) /\ p + 1 = Len(s) + (q + 1)
    BY <1>1, <1>2, <2>1
  <2>5. p * Parts = a + q * Parts
    BY <1>1, <2>1
  <2>4. f[p * Parts + r + 1] = <<st[p + 1], r + 1>>
    <3>1. \A x \in 0 .. Len(st) - 1, y \in 0 .. Parts - 1 :
            Frames(st)[x * Parts + y + 1] = <<st[x + 1], y + 1>>
      BY <1>2, FramesShape
    <3> HIDE DEF p
    <3> QED BY <2>1, <2>3, <3>1 DEF f
  <2>6. p * Parts + r + 1 = a + i
    <3>1. q * Parts \in Int
      BY <1>1, <2>1
    <3> HIDE DEF p, a
    <3>2. QED BY <1>1, <2>1, <2>5, <3>1
  <2>7. st[p + 1] = t[q + 1]
    BY <1>2, <2>3
  <2> QED BY <2>1, <2>2, <2>4, <2>6, <2>7
<1>8. ASSUME NEW i \in 1 .. c PROVE f[i] = (fs \o ft)[i]
  <2> HIDE DEF a, b, c
  <2>1. CASE i \in 1 .. a
    BY <1>5, <1>6, <2>1
  <2>2. CASE i \notin 1 .. a
    <3>1. i - a \in 1 .. b /\ a + (i - a) = i
      BY <1>1, <1>3, <2>2
    <3> QED BY <1>5, <1>7, <3>1
  <2> QED BY <2>1, <2>2
<1>9. f = fs \o ft
  <2> HIDE DEF a, b, c
  <2> QED BY <1>4, <1>5, <1>8, SeqEqual
<1> QED BY <1>9 DEF f, fs, ft, st
-----------------------------------------------------------------------------
(* Sequences of units *)

(* The messages are numbered.                                              *)
Messages == Int

(* A part of a stream: units of such messages.                             *)
Bytes == Seq(Messages \X (1 .. Parts))

(* What is read moves from one sequence to the end of the one before it. *)
LEMMA Moved ==
  ASSUME NEW S, NEW a \in Seq(S), NEW b \in Seq(S), b # <<>>
  PROVE  /\ Head(b) \in S /\ Tail(b) \in Seq(S) /\ Append(a, Head(b)) \in Seq(S)
         /\ Append(a, Head(b)) \o Tail(b) = a \o b
         /\ Len(Append(a, Head(b))) = Len(a) + 1
         /\ Len(Tail(b)) = Len(b) - 1
<1>1. Head(b) \in S /\ Tail(b) \in Seq(S) /\ Append(a, Head(b)) \in Seq(S)
  OBVIOUS
<1>2. b = <<Head(b)>> \o Tail(b)
  BY HeadTailAppend
<1>3. Append(a, Head(b)) = a \o <<Head(b)>>
  BY <1>1
<1>4. <<Head(b)>> \in Seq(S)
  BY <1>1
<1>5. (a \o <<Head(b)>>) \o Tail(b) = a \o (<<Head(b)>> \o Tail(b))
  BY <1>1, <1>4, ConcatAssociative
<1> QED BY <1>1, <1>2, <1>3, <1>5

(* Two ways to cut a sequence at the same place are the same. *)
LEMMA SameCut ==
  ASSUME NEW S, NEW a \in Seq(S), NEW b \in Seq(S), NEW p \in Seq(S), NEW q \in Seq(S),
         a \o b = p \o q, Len(a) = Len(p)
  PROVE  a = p /\ b = q
<1>1. \A i \in 1 .. Len(a) : (a \o b)[i] = a[i] /\ (p \o q)[i] = p[i]
  OBVIOUS
<1>2. a = p
  BY <1>1, SeqEqual
<1> QED BY <1>2, ConcatSimplifications

(* A sequence that is not empty is its head and the rest. *)
LEMMA Split ==
  ASSUME NEW S, NEW s \in Seq(S), s # <<>>
  PROVE  /\ Head(s) \in S /\ Tail(s) \in Seq(S) /\ s = <<Head(s)>> \o Tail(s)
         /\ s[1] = Head(s) /\ Len(s) >= 1
  BY HeadTailAppend

(* The unit that is read is one of the next packet, the last completes it. *)
Comes(dec, up, rest, t) ==
  LET got == Append(dec, Head(up)) IN
  /\ t # <<>> /\ Head(up) \in Messages \X (1 .. Parts) /\ Head(up)[1] = Head(t)
  /\ got \in Bytes /\ Tail(up) \in Bytes /\ Len(got) <= Parts
  /\ (got \o Tail(up)) \o rest = Frames(t)
  /\ Len(got) = Parts => got = Packet(Head(t)) /\ Tail(up) \o rest = Frames(Tail(t))

(* That is so when what is there, on its way and still to come are frames. *)
LEMMA FrameComes ==
  ASSUME NEW dec \in Bytes, NEW up \in Bytes, NEW rest \in Bytes,
         NEW t \in Seq(Messages),
         (dec \o up) \o rest = Frames(t), Len(dec) < Parts, up # <<>>
  PROVE  Comes(dec, up, rest, t)
<1> DEFINE got == Append(dec, Head(up))
           U == Messages \X (1 .. Parts)
           f == Frames(t)
<1>0. Parts \in Nat \ {0} /\ dec \in Seq(U) /\ up \in Seq(U) /\ rest \in Seq(U)
  BY PartsAssumption DEF Bytes
<1>1. /\ Head(up) \in U /\ Tail(up) \in Seq(U) /\ got \in Seq(U)
      /\ got \o Tail(up) = dec \o up
      /\ Len(got) = Len(dec) + 1 /\ Len(Tail(up)) = Len(up) - 1
  <2> HIDE DEF U
  <2> QED BY <1>0, Moved
<1> HIDE DEF got
<1>2. f \in Seq(U) /\ Len(f) = Len(t) * Parts
  BY FramesShape DEF Unit
<1>3. t # <<>>
  <2>1. Len(f) = Len(dec) + Len(up) + Len(rest)
    <3> HIDE DEF U
    <3> QED BY <1>0
  <2>2. Len(up) >= 1
    <3> HIDE DEF U
    <3> QED BY <1>0, EmptySeq
  <2>3. Len(f) # 0
    <3> HIDE DEF U, f
    <3> QED BY <1>0, <2>1, <2>2
  <2> QED BY <2>3, FramesEmpty
<1> DEFINE m == Head(t)
           p == Packet(m)
           g == Frames(Tail(t))
<1>4. /\ m \in Messages /\ Tail(t) \in Seq(Messages) /\ t = <<m>> \o Tail(t)
      /\ <<m>> \in Seq(Messages)
  BY <1>3, Split
<1>5. /\ p \in Seq(U) /\ Len(p) = Parts /\ \A i \in 1 .. Parts : p[i] = <<m, i>>
      /\ g \in Seq(U)
  BY <1>4, PacketShape, FramesShape DEF Unit
<1>6. f = p \o g
  <2>1. Frames(<<m>> \o Tail(t)) = Frames(<<m>>) \o Frames(Tail(t))
    <3> HIDE DEF m
    <3> QED BY <1>4, FramesConcat
  <2> QED BY <1>4, <2>1, FramesOne
<1> HIDE DEF m, p, g, f, U
<1>7. (got \o Tail(up)) \o rest = got \o (Tail(up) \o rest) /\ Tail(up) \o rest \in Seq(U)
  <2> DEFINE v == Tail(up)
  <2>1. v \in Seq(U)
    BY <1>1
  <2> HIDE DEF v
  <2>2. v \o rest \in Seq(U)
    BY <1>0, <2>1
  <2>3. got \in Seq(U) /\ rest \in Seq(U)
    BY <1>0, <1>1
  <2>4. (got \o v) \o rest = got \o (v \o rest)
    BY <2>1, <2>3, ConcatAssociative
  <2> QED BY <2>2, <2>4 DEF v
<1>8. got \o (Tail(up) \o rest) = p \o g
  BY <1>1, <1>6, <1>7 DEF f
<1>9. Head(up)[1] = m
  <2> DEFINE n == Len(dec) + 1
  <2>1. n \in 1 .. Len(got) /\ n \in 1 .. Parts /\ got[n] = Head(up)
    BY <1>0, <1>1 DEF got
  <2>2. (got \o (Tail(up) \o rest))[n] = got[n]
    BY <1>1, <1>7, <2>1
  <2>3. (p \o g)[n] = p[n]
    BY <1>5, <2>1
  <2> QED BY <1>5, <1>8, <2>1, <2>2, <2>3
<1>10. ASSUME Len(got) = Parts PROVE got = p /\ Tail(up) \o rest = g
  BY <1>1, <1>5, <1>7, <1>8, <1>10, SameCut
<1>11. Len(got) <= Parts
  <2>1. Len(dec) \in Nat
    BY <1>0
  <2> QED BY <1>0, <1>1, <2>1
<1>12. (got \o Tail(up)) \o rest = f
  BY <1>1 DEF f
<1> QED BY <1>1, <1>3, <1>9, <1>10, <1>11, <1>12 DEF Comes, got, m, p, g, f, U, Bytes

(* A sequence of frames begins with a frame. *)
LEMMA FramesFirst ==
  ASSUME NEW m \in Messages, NEW t \in Seq(Messages)
  PROVE  /\ Frames(<<m>> \o t) = Packet(m) \o Frames(t)
         /\ Packet(m) \in Bytes /\ Frames(t) \in Bytes
<1>1. <<m>> \in Seq(Messages)
  OBVIOUS
<1> QED BY <1>1, FramesConcat, FramesOne, PacketShape, FramesShape DEF Unit, Bytes

(* and may end with one more. *)
LEMMA FramesLast ==
  ASSUME NEW t \in Seq(Messages), NEW m \in Messages
  PROVE  Frames(Append(t, m)) = Frames(t) \o Packet(m)
<1>1. <<m>> \in Seq(Messages) /\ Append(t, m) = t \o <<m>>
  OBVIOUS
<1> QED BY <1>1, FramesConcat, FramesOne

-----------------------------------------------------------------------------
(* What the records hold, and how they belong together *)

(* The fields of a connection, with streams of any messages.               *)
WConn ==
  [phase : {"unused", "syn", "refused", "up"}, by : Procs, up : Bytes,
   down : Bytes, cgone : BOOLEAN, sgone : BOOLEAN, rst : BOOLEAN, base : Nat]

(* The fields of a client.                                                 *)
WCli ==
  [st : {"IDLE", "CONNECTING", "HELO_WR", "WLCM_RD", "STREAM"},
   fd : Conns \cup {NoFd}, cb : {"none", "connect", "hs", "cow"},
   left : Bytes, in : Bytes, q : Seq(Int), mask : Masks,
   out : Bytes, dec : Bytes, eof : BOOLEAN, sent : Seq(Int), base : Nat]

(* The fields of the leader's end.                                         *)
WSlot ==
  [state : {"none", "helo", "wlcm", "stream"}, left : Bytes, in : Bytes,
   mask : Masks, out : Bytes, dec : Bytes, eof : BOOLEAN, took : Seq(Int)]

(* Nothing is on a connection before it is there. *)
GoodConn ==
  {n \in WConn :
     /\ n.phase = "unused" => n = NoConn
     /\ n.phase # "unused" => n.by \in Clients
     /\ n.phase # "up" =>
          n.up = <<>> /\ n.down = <<>> /\ n.sgone = FALSE /\ n.rst = FALSE}

(* The state of a client decides its callback and what its buffers hold. *)
GoodCli ==
  {r \in WCli :
     /\ (r.fd = NoFd) <=> (r.st = "IDLE")
     /\ (r.cb = "none") <=> (r.st = "IDLE")
     /\ (r.cb = "cow") <=> (r.st = "STREAM")
     /\ r.cb = "connect" => r.st \in {"CONNECTING", "HELO_WR"}
     /\ r.cb = "hs" => r.st \in {"HELO_WR", "WLCM_RD"}
     /\ r.st = "CONNECTING" => r.cb = "connect"
     /\ r.st = "WLCM_RD" => r.cb = "hs" /\ Len(r.in) < Parts
     /\ (r.st = "HELO_WR") <=> (r.left # <<>>)
     /\ r.cb = "connect" /\ r.st = "HELO_WR" => r.left = Packet(HELO)
     /\ r.st # "STREAM" => r.out = <<>> /\ r.dec = <<>> /\ r.sent = <<>>
     /\ r.st \notin {"WLCM_RD", "STREAM"} => r.in = <<>>
     /\ r.st = "STREAM" => r.q = <<>> /\ r.in = Packet(WLCM)
     /\ Len(r.dec) < Parts}

(* So does that of a slot. *)
GoodSlot ==
  {s \in WSlot :
     /\ s.state = "none" => s = NoSlot
     /\ (s.state = "wlcm") <=> (s.left # <<>>)
     /\ s.state # "stream" => s.out = <<>> /\ s.dec = <<>> /\ s.took = <<>>
     /\ s.state \in {"wlcm", "stream"} => s.in = Packet(HELO)
     /\ s.state = "helo" => Len(s.in) < Parts
     /\ Len(s.dec) < Parts}

(* All records are good ones.                                              *)
Records ==
  /\ net \in [Conns -> GoodConn]
  /\ cli \in [Clients -> GoodCli]
  /\ slot \in [Conns -> GoodSlot]
  /\ alive \in BOOLEAN
  /\ ops \in Seq([from : Procs, kind : {"line", "command", "answer"}])
  /\ heard \in [Procs -> Seq(Int)]
  /\ cast \in Seq(Int)

(* The descriptor of a client is its last connection, the only one it has  *)
(* not closed, and a slot is on a connection the leader has not closed.    *)
Wired ==
  /\ \A c \in Clients : cli[c].fd # NoFd =>
       /\ net[cli[c].fd].by = c
       /\ net[cli[c].fd].cgone = FALSE
       /\ cli[c].st # "CONNECTING" => net[cli[c].fd].phase = "up"
       /\ \A j \in Conns : net[j].by = c => j <= cli[c].fd
  /\ \A k \in Conns :
       net[k].phase # "unused" /\ net[k].cgone = FALSE => cli[net[k].by].fd = k
  /\ \A k \in Conns : slot[k].state # "none" =>
       net[k].phase = "up" /\ net[k].sgone = FALSE /\ alive = TRUE

(* What every reachable state satisfies of its records and their wiring.   *)
Good == Records /\ Wired

(* What a step of a client leaves alone: *)
OthersSame(c, k) ==
  /\ \A j \in Conns : j # k => net'[j] = net[j]
  /\ \A d \in Clients : d # c => cli'[d] = cli[d]

(* A step of a client on its connection leaves the parts together. *)
LEMMA ClientWired ==
  ASSUME Good, NEW c \in Clients, cli[c].fd # NoFd,
         net' \in [Conns -> GoodConn], cli' \in [Clients -> GoodCli], slot' = slot, alive' = alive,
         OthersSame(c, cli[c].fd),
         LET n == net[cli[c].fd]
             m == net'[cli[c].fd] IN
         /\ m.phase = n.phase /\ m.by = n.by /\ m.cgone = n.cgone /\ m.sgone = n.sgone
         /\ cli'[c].st # "CONNECTING" => m.phase = "up",
         cli'[c].fd = cli[c].fd
  PROVE  Wired'
<1> DEFINE k == cli[c].fd
<1>1. k \in Conns /\ k # NoFd
  BY DEF Good, Records, GoodCli, WCli
<1>2. \A j \in Conns : /\ net'[j].phase = net[j].phase /\ net'[j].by = net[j].by
                       /\ net'[j].cgone = net[j].cgone /\ net'[j].sgone = net[j].sgone
  BY DEF OthersSame
<1>3. \A d \in Clients : cli'[d].fd = cli[d].fd
  BY DEF OthersSame
<1>4. \A d \in Clients : d # c => cli'[d] = cli[d]
  BY DEF OthersSame
<1>5. ASSUME NEW d \in Clients, cli'[d].fd # NoFd
      PROVE  /\ net'[cli'[d].fd].by = d
             /\ net'[cli'[d].fd].cgone = FALSE
             /\ cli'[d].st # "CONNECTING" => net'[cli'[d].fd].phase = "up"
             /\ \A j \in Conns : net'[j].by = d => j <= cli'[d].fd
  <2>1. cli[d].fd \in Conns
    BY <1>3, <1>5 DEF Good, Records, GoodCli, WCli
  <2>2. CASE d = c
    BY <1>2, <1>3, <1>5, <2>1, <2>2 DEF Good, Wired
  <2>3. CASE d # c
    BY <1>2, <1>4, <1>5, <2>1, <2>3 DEF Good, Wired
  <2> QED BY <2>2, <2>3
<1>6. ASSUME NEW j \in Conns, net'[j].phase # "unused", net'[j].cgone = FALSE
      PROVE  cli'[net'[j].by].fd = j
  <2>1. net[j].by \in Clients
    BY <1>2, <1>6 DEF Good, Records, GoodConn
  <2> QED BY <1>2, <1>3, <1>6, <2>1 DEF Good, Wired
<1>7. ASSUME NEW j \in Conns, slot'[j].state # "none"
      PROVE  net'[j].phase = "up" /\ net'[j].sgone = FALSE /\ alive' = TRUE
  BY <1>2, <1>7 DEF Good, Wired
<1> QED BY <1>5, <1>6, <1>7 DEF Wired

(* A client that closes its connection. *)
LEMMA ClosingWired ==
  ASSUME Good, NEW c \in Clients, cli[c].fd # NoFd,
         net' \in [Conns -> GoodConn], cli' \in [Clients -> GoodCli], slot' = slot, alive' = alive,
         OthersSame(c, cli[c].fd),
         LET n == net[cli[c].fd]
             m == net'[cli[c].fd] IN
         m.phase = n.phase /\ m.by = n.by /\ m.cgone = TRUE /\ m.sgone = n.sgone,
         cli'[c].fd = NoFd
  PROVE  Wired'
<1> DEFINE k == cli[c].fd
<1>1. k \in Conns /\ k # NoFd
  BY DEF Good, Records, GoodCli, WCli
<1>2. \A j \in Conns : /\ net'[j].phase = net[j].phase /\ net'[j].by = net[j].by
                       /\ net'[j].sgone = net[j].sgone
  BY DEF OthersSame
<1>3. \A j \in Conns : j # k => net'[j] = net[j]
  BY DEF OthersSame
<1>4. \A d \in Clients : d # c => cli'[d] = cli[d]
  BY DEF OthersSame
<1>5. ASSUME NEW d \in Clients, cli'[d].fd # NoFd
      PROVE  /\ net'[cli'[d].fd].by = d
             /\ net'[cli'[d].fd].cgone = FALSE
             /\ cli'[d].st # "CONNECTING" => net'[cli'[d].fd].phase = "up"
             /\ \A j \in Conns : net'[j].by = d => j <= cli'[d].fd
  <2>1. d # c /\ cli'[d] = cli[d] /\ cli[d].fd \in Conns
    BY <1>4, <1>5 DEF Good, Records, GoodCli, WCli
  <2>2. net[cli[d].fd].by = d /\ net[k].by = c
    BY <1>5, <2>1 DEF Good, Wired
  <2>3. net'[cli[d].fd] = net[cli[d].fd]
    BY <1>3, <2>1, <2>2
  <2> QED BY <1>2, <1>5, <2>1, <2>3 DEF Good, Wired
<1>6. ASSUME NEW j \in Conns, net'[j].phase # "unused", net'[j].cgone = FALSE
      PROVE  cli'[net'[j].by].fd = j
  <2>1. j # k /\ net'[j] = net[j]
    BY <1>3, <1>6
  <2>2. net[j].by \in Clients /\ cli[net[j].by].fd = j
    BY <1>6, <2>1 DEF Good, Records, GoodConn, Wired
  <2>3. net[j].by # c
    BY <2>1, <2>2
  <2> QED BY <1>4, <2>1, <2>2, <2>3
<1>7. ASSUME NEW j \in Conns, slot'[j].state # "none"
      PROVE  net'[j].phase = "up" /\ net'[j].sgone = FALSE /\ alive' = TRUE
  BY <1>2, <1>7 DEF Good, Wired
<1> QED BY <1>5, <1>6, <1>7 DEF Wired

(* A step of the leader on a connection. *)
LEMMA LeaderWired ==
  ASSUME Good, NEW k \in Conns,
         net' \in [Conns -> GoodConn], cli' = cli,
         \A j \in Conns : j # k =>
           net'[j] = net[j] /\ (slot'[j].state # "none" => slot[j].state # "none"),
         LET n == net[k]
             m == net'[k] IN
         /\ m.by = n.by /\ m.cgone = n.cgone
         /\ m.phase = n.phase \/ (n.phase = "syn" /\ m.phase \in {"refused", "up"})
         /\ slot'[k].state # "none" => m.phase = "up" /\ m.sgone = FALSE,
         (\E j \in Conns : slot'[j].state # "none") => alive' = TRUE
  PROVE  Wired'
<1>1. \A j \in Conns : net'[j].by = net[j].by /\ net'[j].cgone = net[j].cgone
  OBVIOUS
<1>2. \A j \in Conns : /\ net[j].phase = "up" => net'[j].phase = "up"
                       /\ net'[j].phase # "unused" => net[j].phase # "unused"
  OBVIOUS
<1>3. ASSUME NEW d \in Clients, cli'[d].fd # NoFd
      PROVE  /\ net'[cli'[d].fd].by = d
             /\ net'[cli'[d].fd].cgone = FALSE
             /\ cli'[d].st # "CONNECTING" => net'[cli'[d].fd].phase = "up"
             /\ \A j \in Conns : net'[j].by = d => j <= cli'[d].fd
  <2>1. cli[d].fd \in Conns
    BY <1>3 DEF Good, Records, GoodCli, WCli
  <2> QED BY <1>1, <1>2, <1>3, <2>1 DEF Good, Wired
<1>4. ASSUME NEW j \in Conns, net'[j].phase # "unused", net'[j].cgone = FALSE
      PROVE  cli'[net'[j].by].fd = j
  BY <1>1, <1>2, <1>4 DEF Good, Wired
<1>5. ASSUME NEW j \in Conns, slot'[j].state # "none"
      PROVE  net'[j].phase = "up" /\ net'[j].sgone = FALSE /\ alive' = TRUE
  <2>1. CASE j = k
    BY <1>5, <2>1
  <2>2. CASE j # k
    BY <1>5, <2>2 DEF Good, Wired
  <2> QED BY <2>1, <2>2
<1> QED BY <1>3, <1>4, <1>5 DEF Wired

(* A client without a connection. *)
LEMMA IdleGood ==
  ASSUME NEW q \in Seq(Int)
  PROVE  IdleClient(q) \in GoodCli
<1>1. <<>> \in Bytes /\ <<>> \in Seq(Int) /\ Len(<<>>) < Parts
  BY PartsAssumption DEF Bytes
<1> QED BY <1>1 DEF IdleClient, GoodCli, WCli, NoFd, Masks

(* A slot that is free. *)
LEMMA NoSlotGood == NoSlot \in GoodSlot
<1>1. <<>> \in Bytes /\ <<>> \in Seq(Int) /\ Len(<<>>) < Parts
  BY PartsAssumption DEF Bytes
<1> QED BY <1>1 DEF NoSlot, GoodSlot, WSlot, Masks

(* Every step begins with records of the right kind. *)
LEMMA Fields ==
  ASSUME Good
  PROVE  /\ \A k \in Conns : net[k] \in GoodConn /\ net[k] \in WConn
         /\ \A c \in Clients : cli[c] \in GoodCli /\ cli[c] \in WCli
         /\ \A k \in Conns : slot[k] \in GoodSlot /\ slot[k] \in WSlot
         /\ \A c \in Clients : cli[c].fd # NoFd => cli[c].fd \in Conns
  BY DEF Good, Records, GoodConn, GoodCli, GoodSlot, WCli

(* The messages of the handshake are packets like the others. *)
LEMMA Greetings ==
  /\ HELO \in Messages /\ WLCM \in Messages
  /\ Packet(HELO) \in Bytes /\ Packet(WLCM) \in Bytes
  /\ Len(Packet(HELO)) = Parts /\ Len(Packet(WLCM)) = Parts
  /\ Packet(HELO) # <<>> /\ Packet(WLCM) # <<>>
  /\ Packet(HELO) # Packet(WLCM)
<1>1. HELO \in Messages /\ WLCM \in Messages /\ HELO # WLCM
  BY DEF HELO, WLCM, Messages
<1>2. /\ Packet(HELO) \in Bytes /\ Packet(WLCM) \in Bytes
      /\ Len(Packet(HELO)) = Parts /\ Len(Packet(WLCM)) = Parts
      /\ \A i \in 1 .. Parts : Packet(HELO)[i] = <<HELO, i>> /\ Packet(WLCM)[i] = <<WLCM, i>>
  BY <1>1, PacketShape DEF Bytes, Unit
<1>3. Packet(HELO) # <<>> /\ Packet(WLCM) # <<>>
  BY <1>2, PartsAssumption
<1>4. 1 \in 1 .. Parts
  BY PartsAssumption
<1>5. Packet(HELO)[1] # Packet(WLCM)[1]
  BY <1>1, <1>2, <1>4
<1> QED BY <1>1, <1>2, <1>3, <1>5

-----------------------------------------------------------------------------
(* The steps of a client *)

(* What is left of a connection that its client closes. *)
Closed(n, m) ==
  /\ m.phase = n.phase /\ m.by = n.by /\ m.up = n.up /\ m.sgone = n.sgone
  /\ m.base = n.base /\ m.cgone = TRUE /\ m.down = <<>>
  /\ m.rst = FALSE => n.rst = FALSE

(* ClientCloses, also on a connection that was read from before. *)
LEMMA Closes ==
  ASSUME NEW k \in Conns, NEW n \in [Conns -> GoodConn], n[k].phase # "unused"
  PROVE  /\ ClientCloses(n, k) \in [Conns -> GoodConn]
         /\ \A j \in Conns : j # k => ClientCloses(n, k)[j] = n[j]
         /\ Closed(n[k], ClientCloses(n, k)[k])
<1> DEFINE f == ClientCloses(n, k)
           m == f[k]
           r == n[k].rst \/ n[k].down # <<>>
<1>0. k # NoFd /\ n[k] \in GoodConn /\ n[k] \in WConn
  BY StarAssumption DEF Conns, NoFd, GoodConn
<1>1. f \in [Conns -> WConn] /\ \A j \in Conns : j # k => f[j] = n[j]
  <2>1. <<>> \in Bytes
    BY DEF Bytes
  <2>2. n \in [Conns -> WConn]
    BY DEF GoodConn
  <2> QED BY <1>0, <2>1, <2>2 DEF ClientCloses, WConn
<1>2. /\ m.phase = n[k].phase /\ m.by = n[k].by /\ m.up = n[k].up /\ m.sgone = n[k].sgone
      /\ m.base = n[k].base /\ m.cgone = TRUE /\ m.down = <<>> /\ m.rst = r
  BY <1>0 DEF ClientCloses, WConn
<1>3. m \in WConn
  BY <1>1
<1> HIDE DEF f, m
<1>4. Closed(n[k], m)
  <2>1. CASE n[k].rst = TRUE
    BY <1>2, <2>1 DEF Closed
  <2>2. CASE n[k].rst = FALSE
    BY <1>2, <2>2 DEF Closed
  <2> QED BY <1>0, <2>1, <2>2 DEF WConn
<1>5. m \in GoodConn
  <2>1. n[k].phase # "up" => n[k].rst = FALSE /\ n[k].down = <<>>
    BY <1>0 DEF GoodConn
  <2>2. n[k].phase # "up" => m.rst = FALSE
    BY <1>2, <2>1
  <2> QED BY <1>0, <1>2, <1>3, <2>2 DEF GoodConn
<1>6. \A j \in Conns : f[j] \in GoodConn
  BY <1>1, <1>5 DEF m
<1> QED BY <1>1, <1>4, <1>6 DEF f, m

(* cli_to_idle on a connection that something was read from before. *)
LEMMA IdleStep ==
  ASSUME Good, NEW c \in Clients, cli[c].fd # NoFd, NEW n \in [Conns -> GoodConn],
         LET k == cli[c].fd IN
           /\ n[k].phase = net[k].phase /\ n[k].by = net[k].by /\ n[k].up = net[k].up
           /\ n[k].sgone = net[k].sgone /\ n[k].base = net[k].base
           /\ n[k].rst = net[k].rst
           /\ \A j \in Conns : j # k => n[j] = net[j]
           /\ net' = ClientCloses(n, k),
         cli' = [cli EXCEPT ![c] = IdleClient(@.q)],
         UNCHANGED <<slot, alive, ops, heard, cast>>
  PROVE  /\ Good' /\ OthersSame(c, cli[c].fd) /\ net[cli[c].fd].phase # "unused"
         /\ Closed(net[cli[c].fd], net'[cli[c].fd])
         /\ cli'[c] = IdleClient(cli[c].q)
<1> DEFINE k == cli[c].fd
           m == net'[k]
<1>1. k \in Conns /\ net[k] \in GoodConn /\ cli[c] \in WCli
  BY Fields
<1>2. IdleClient(cli[c].q) \in GoodCli
  BY <1>1, IdleGood DEF WCli
<1>3. net[k].by = c /\ net[k].phase # "unused"
  BY <1>1, StarAssumption DEF Good, Wired, GoodConn, NoConn
<1>4. /\ net' \in [Conns -> GoodConn] /\ Closed(n[k], m)
      /\ \A j \in Conns : j # k => net'[j] = net[j]
  BY <1>1, <1>3, Closes
<1>5. Closed(net[k], m)
  BY <1>4 DEF Closed
<1>6. /\ cli' \in [Clients -> GoodCli] /\ cli'[c] = IdleClient(cli[c].q)
      /\ \A e \in Clients : e # c => cli'[e] = cli[e]
  BY <1>2 DEF Good, Records
<1>7. OthersSame(c, k)
  BY <1>4, <1>6 DEF OthersSame
<1>8. Records'
  BY <1>4, <1>6 DEF Good, Records
<1>9. m.phase = net[k].phase /\ m.by = net[k].by /\ m.cgone = TRUE /\ m.sgone = net[k].sgone
  BY <1>5 DEF Closed
<1>10. cli'[c].fd = NoFd
  BY <1>6 DEF IdleClient
<1>11. Wired'
  BY <1>4, <1>6, <1>7, <1>9, <1>10, ClosingWired
<1> QED BY <1>3, <1>5, <1>6, <1>7, <1>8, <1>11 DEF Good

(* cli_to_idle *)
LEMMA ToIdleStep ==
  ASSUME Good, NEW c \in Clients, cli[c].st # "IDLE", ToIdle(c),
         UNCHANGED <<slot, alive, ops, heard, cast>>
  PROVE  /\ Good' /\ OthersSame(c, cli[c].fd) /\ cli[c].fd # NoFd
         /\ net[cli[c].fd].phase # "unused"
         /\ Closed(net[cli[c].fd], net'[cli[c].fd])
         /\ cli'[c] = IdleClient(cli[c].q)
<1>1. cli[c].fd # NoFd
  BY Fields DEF GoodCli
<1>2. net \in [Conns -> GoodConn]
  BY DEF Good, Records
<1> QED BY <1>1, <1>2, IdleStep DEF ToIdle

(* Any other step of a client on its connection. *)
LEMMA ClientStep ==
  ASSUME Good, NEW c \in Clients, cli[c].fd # NoFd, NEW r \in GoodCli,
         net' \in [Conns -> GoodConn],
         \A j \in Conns : j # cli[c].fd => net'[j] = net[j],
         cli' = [cli EXCEPT ![c] = r],
         slot' = slot, alive' = alive, cast' = cast,
         ops' \in Seq([from : Procs, kind : {"line", "command", "answer"}]),
         heard' \in [Procs -> Seq(Int)],
         LET n == net[cli[c].fd]
             m == net'[cli[c].fd] IN
           /\ m.phase = n.phase /\ m.by = n.by /\ m.cgone = n.cgone /\ m.sgone = n.sgone
           /\ r.st # "CONNECTING" => n.phase = "up",
         r.fd = cli[c].fd
  PROVE  Good' /\ OthersSame(c, cli[c].fd) /\ cli'[c] = r
<1>1. cli[c].fd \in Conns
  BY Fields
<1>2. /\ cli' \in [Clients -> GoodCli] /\ cli'[c] = r
      /\ \A d \in Clients : d # c => cli'[d] = cli[d]
  BY DEF Good, Records
<1>3. OthersSame(c, cli[c].fd)
  BY <1>2 DEF OthersSame
<1>4. Wired'
  BY <1>2, <1>3, ClientWired
<1>5. Records'
  BY <1>2 DEF Good, Records
<1> QED BY <1>2, <1>3, <1>4, <1>5 DEF Good

(* What a client has that is connected. *)
LEMMA Connected ==
  ASSUME Good, NEW c \in Clients, cli[c].fd # NoFd
  PROVE  LET k == cli[c].fd IN
         /\ k \in Conns /\ net[k] \in GoodConn /\ net[k] \in WConn
         /\ cli[c] \in GoodCli /\ cli[c] \in WCli
         /\ net[k].by = c /\ net[k].cgone = FALSE /\ net[k].phase # "unused"
         /\ cli[c].st # "CONNECTING" => net[k].phase = "up"
<1> DEFINE k == cli[c].fd
<1>1. /\ k \in Conns /\ net[k] \in GoodConn /\ net[k] \in WConn
      /\ cli[c] \in GoodCli /\ cli[c] \in WCli
  BY Fields
<1>2. /\ net[k].by = c /\ net[k].cgone = FALSE
      /\ cli[c].st # "CONNECTING" => net[k].phase = "up"
  BY DEF Good, Wired
<1>3. net[k].phase # "unused"
  BY <1>1, <1>2, StarAssumption DEF GoodConn, NoConn
<1> QED BY <1>1, <1>2, <1>3

(* What is on the way up when a unit is sent. *)
UpSent(n, m, u) ==
  /\ m.phase = n.phase /\ m.by = n.by /\ m.sgone = n.sgone /\ m.cgone = n.cgone
  /\ m.base = n.base /\ m.down = n.down
  /\ m.up = IF n.sgone THEN n.up ELSE Append(n.up, u)
  /\ m.rst = FALSE => n.rst = FALSE /\ n.sgone = FALSE

(* A unit is sent up. *)
LEMMA WriteUpStep ==
  ASSUME Good, NEW k \in Conns, net[k].phase = "up", NEW u \in Messages \X (1 .. Parts)
  PROVE  /\ WriteUp(k, u) \in [Conns -> GoodConn]
         /\ \A j \in Conns : j # k => WriteUp(k, u)[j] = net[j]
         /\ UpSent(net[k], WriteUp(k, u)[k], u)
<1> DEFINE f == WriteUp(k, u)
           m == f[k]
           up == IF net[k].sgone THEN net[k].up ELSE Append(net[k].up, u)
           r == net[k].rst \/ net[k].sgone
<1>1. net[k] \in GoodConn /\ net[k] \in WConn /\ net \in [Conns -> WConn]
      /\ \A j \in Conns : net[j] \in GoodConn
  BY Fields DEF Good, Records, GoodConn
<1>2. up \in Bytes
  BY <1>1 DEF WConn, Bytes
<1>3. f \in [Conns -> WConn] /\ \A j \in Conns : j # k => f[j] = net[j]
  BY <1>1, <1>2 DEF WriteUp, WConn
<1>4. /\ m.phase = net[k].phase /\ m.by = net[k].by /\ m.sgone = net[k].sgone
      /\ m.cgone = net[k].cgone /\ m.base = net[k].base /\ m.down = net[k].down
      /\ m.up = up /\ m.rst = r
  BY <1>1 DEF WriteUp, WConn
<1> HIDE DEF f
<1>5. UpSent(net[k], m, u)
  <2> HIDE DEF m
  <2>1. CASE net[k].rst = FALSE /\ net[k].sgone = FALSE
    BY <1>4, <2>1 DEF UpSent
  <2>2. CASE net[k].rst = TRUE \/ net[k].sgone = TRUE
    <3>1. m.rst = TRUE
      BY <1>4, <2>2
    <3> QED BY <1>4, <3>1 DEF UpSent
  <2> QED BY <1>1, <2>1, <2>2 DEF WConn
<1>6. m \in GoodConn
  BY <1>1, <1>3, <1>4 DEF GoodConn
<1>7. \A j \in Conns : f[j] \in GoodConn
  BY <1>1, <1>3, <1>6
<1> QED BY <1>3, <1>5, <1>7 DEF f

(* A unit of the Hello is sent. *)
LEMMA WriteHeloStep ==
  ASSUME Good, NEW c \in Clients, WriteHelo(c)
  PROVE  LET k == cli[c].fd
             r == cli[c]
             s == cli'[c] IN
         /\ Good' /\ OthersSame(c, k) /\ k # NoFd
         /\ r.st = "HELO_WR" /\ UpSent(net[k], net'[k], Head(r.left))
         /\ s.fd = k /\ s.st \in {"HELO_WR", "WLCM_RD"} /\ s.left = Tail(r.left)
         /\ s.in = <<>> /\ s.q = r.q /\ r.left # <<>>
<1> DEFINE k == cli[c].fd
           r == cli[c]
           s == IF Tail(r.left) # <<>> THEN [r EXCEPT !.left = Tail(@)]
                ELSE [r EXCEPT !.left = <<>>, !.st = "WLCM_RD", !.in = <<>>, !.mask = {"RD"}]
<1>1. k # NoFd /\ r.cb = "hs" /\ r.st = "HELO_WR"
  BY DEF WriteHelo, Writing
<1>2. /\ k \in Conns /\ net[k] \in GoodConn /\ net[k] \in WConn
      /\ r \in GoodCli /\ r \in WCli /\ net[k].phase = "up"
  BY <1>1, Connected
<1>3. r.left # <<>> /\ r.left \in Bytes /\ Head(r.left) \in Messages \X (1 .. Parts)
      /\ Tail(r.left) \in Bytes
  <2>1. r.left # <<>> /\ r.left \in Bytes
    BY <1>1, <1>2 DEF GoodCli, WCli
  <2> QED BY <2>1, Split DEF Bytes
<1>4. /\ net' \in [Conns -> GoodConn] /\ UpSent(net[k], net'[k], Head(r.left))
      /\ \A j \in Conns : j # k => net'[j] = net[j]
  BY <1>2, <1>3, WriteUpStep DEF WriteHelo
<1>5. s \in GoodCli /\ s.fd = k /\ s.st \in {"HELO_WR", "WLCM_RD"} /\ s.left = Tail(r.left)
      /\ s.in = <<>> /\ s.q = r.q
  <2>1. <<>> \in Bytes /\ Len(<<>>) < Parts
    BY PartsAssumption DEF Bytes
  <2>2. r.in = <<>>
    BY <1>1, <1>2 DEF GoodCli
  <2>3. CASE Tail(r.left) # <<>>
    BY <1>1, <1>2, <1>3, <2>1, <2>2, <2>3 DEF GoodCli, WCli
  <2>4. CASE Tail(r.left) = <<>>
    BY <1>1, <1>2, <1>3, <2>1, <2>2, <2>4 DEF GoodCli, WCli, Masks
  <2> QED BY <2>3, <2>4
<1>6. cli' = [cli EXCEPT ![c] = s]
  BY DEF WriteHelo
<1> HIDE DEF s
<1>7. Good' /\ OthersSame(c, k) /\ cli'[c] = s
  <2>1. /\ net'[k].phase = net[k].phase /\ net'[k].by = net[k].by
        /\ net'[k].cgone = net[k].cgone /\ net'[k].sgone = net[k].sgone
    BY <1>4 DEF UpSent
  <2>2. slot' = slot /\ alive' = alive /\ cast' = cast /\ ops' = ops /\ heard' = heard
    BY DEF WriteHelo
  <2> QED BY <1>1, <1>2, <1>4, <1>5, <1>6, <2>1, <2>2, ClientStep DEF Good, Records
<1> QED BY <1>1, <1>3, <1>4, <1>5, <1>7

(* A new connection. *)
LEMMA ConnectStep ==
  ASSUME Good, NEW c \in Clients, NEW k \in Conns, NEW async \in Async, Connect(c, k, async)
  PROVE  LET j == cli[c].fd
             s == cli'[c] IN
         /\ Good' /\ net[k] = NoConn /\ k # j /\ k # NoFd
         /\ \A i \in Conns : net[i].phase # "unused" => i < k
         /\ j # NoFd => j \in Conns /\ Closed(net[j], net'[j]) /\ net[j].phase # "unused"
         /\ \A i \in Conns : i \notin {j, k} => net'[i] = net[i]
         /\ \A d \in Clients : d # c => cli'[d] = cli[d]
         /\ net'[k].phase \in {"syn", "up"} /\ net'[k].by = c
         /\ net'[k].up = <<>> /\ net'[k].down = <<>> /\ net'[k].cgone = FALSE
         /\ net'[k].sgone = FALSE /\ net'[k].rst = FALSE /\ net'[k].base = 0
         /\ s.fd = k /\ s.in = <<>> /\ s.out = <<>> /\ s.dec = <<>> /\ s.sent = <<>>
         /\ s.q = cli[c].q
         /\ \/ s.st = "CONNECTING"
            \/ s.st = "HELO_WR" /\ s.left = Packet(HELO)
<1> DEFINE j == cli[c].fd
           n == ClientCloses(net, j)
           r == IdleClient(cli[c].q)
           s == cli'[c]
           m == net'[k]
<1>1. /\ cli[c] \in GoodCli /\ cli[c] \in WCli /\ j \in Conns \cup {NoFd}
      /\ net \in [Conns -> GoodConn] /\ net[k] \in GoodConn
  BY Fields DEF Good, Records, WCli
<1>2. net[k].phase = "unused" /\ \A i \in Conns : net[i].phase # "unused" => i < k
  BY DEF Connect, Fresh, Conns
<1>3. net[k] = NoConn /\ k # NoFd
  BY <1>1, <1>2, StarAssumption DEF GoodConn, Conns, NoFd
<1>4. j # NoFd => j \in Conns /\ net[j].phase # "unused" /\ net[j].by = c
  BY Connected
<1>5. k # j
  BY <1>2, <1>3, <1>4
<1>6. /\ n \in [Conns -> GoodConn] /\ \A i \in Conns : i # j => n[i] = net[i]
      /\ j # NoFd => Closed(net[j], n[j])
  <2>1. CASE j = NoFd
    BY <1>1, <2>1 DEF ClientCloses
  <2>2. CASE j # NoFd
    BY <1>1, <1>4, <2>2, Closes
  <2> QED BY <2>1, <2>2
<1> DEFINE p == IF async THEN "syn" ELSE "up"
<1>7. net' = [n EXCEPT ![k].by = c, ![k].phase = p]
  BY DEF Connect
<1> HIDE DEF n
<1>8. n[k] = NoConn /\ n \in [Conns -> WConn]
  BY <1>3, <1>5, <1>6 DEF GoodConn
<1>9. /\ net' \in [Conns -> WConn] /\ \A i \in Conns : i # k => net'[i] = n[i]
      /\ m.phase = p /\ m.by = c
      /\ m.up = <<>> /\ m.down = <<>> /\ m.cgone = FALSE
      /\ m.sgone = FALSE /\ m.rst = FALSE /\ m.base = 0
  <2> HIDE DEF p
  <2>1. p \in {"syn", "up"}
    BY DEF p
  <2>2. c \in Procs
    BY DEF Procs
  <2>3. net' \in [Conns -> WConn] /\ \A i \in Conns : i # k => net'[i] = n[i]
    BY <1>7, <1>8, <2>1, <2>2 DEF WConn
  <2>4. m = [NoConn EXCEPT !.by = c, !.phase = p]
    BY <1>7, <1>8
  <2> QED BY <2>3, <2>4 DEF NoConn
<1>10. p \in {"syn", "up"} /\ m \in WConn
  BY <1>9
<1> HIDE DEF m, p
<1>11. m \in GoodConn
  BY <1>9, <1>10 DEF GoodConn
<1>12. \A i \in Conns : net'[i] \in GoodConn
  <2> SUFFICES ASSUME NEW i \in Conns PROVE net'[i] \in GoodConn
    OBVIOUS
  <2>1. CASE i = k
    BY <1>11, <2>1 DEF m
  <2>2. CASE i # k
    BY <1>6, <1>9, <2>2
  <2> QED BY <2>1, <2>2
<1>13. net' \in [Conns -> GoodConn]
  BY <1>9, <1>12
<1>14. r \in GoodCli /\ r \in WCli /\ r.st = "IDLE" /\ r.left = <<>> /\ r.in = <<>>
       /\ r.out = <<>> /\ r.dec = <<>> /\ r.sent = <<>> /\ r.q = cli[c].q
  <2>1. r \in GoodCli
    BY <1>1, IdleGood DEF WCli
  <2> QED BY <2>1 DEF GoodCli, IdleClient
<1> HIDE DEF r
<1>15. /\ cli' = [cli EXCEPT ![c] = s] /\ s \in GoodCli
       /\ s.fd = k /\ s.in = <<>> /\ s.out = <<>> /\ s.dec = <<>> /\ s.sent = <<>>
       /\ s.q = cli[c].q
       /\ \/ s.st = "CONNECTING"
          \/ s.st = "HELO_WR" /\ s.left = Packet(HELO)
       /\ s.st # "CONNECTING" => p = "up"
  <2> DEFINE v == IF async THEN [r EXCEPT !.st = "CONNECTING", !.fd = k,
                                          !.cb = "connect", !.mask = {"WR"}]
                  ELSE [r EXCEPT !.st = "HELO_WR", !.fd = k, !.cb = "hs",
                                 !.mask = {"WR"}, !.left = Packet(HELO)]
  <2>1. cli' = [cli EXCEPT ![c] = v]
    BY DEF Connect, r
  <2>2. s = v
    BY <2>1 DEF Good, Records
  <2>3. /\ v.fd = k /\ v.in = <<>> /\ v.out = <<>> /\ v.dec = <<>> /\ v.sent = <<>>
        /\ v.q = cli[c].q /\ v \in WCli
        /\ \/ v.st = "CONNECTING" /\ v.left = <<>> /\ v.cb = "connect"
           \/ v.st = "HELO_WR" /\ v.left = Packet(HELO) /\ v.cb = "hs" /\ p = "up"
    <3>1. CASE async
      BY <1>14, <3>1 DEF WCli, Masks
    <3>2. CASE ~async
      BY <1>14, <3>2, Greetings DEF WCli, Masks, p
    <3> QED BY <3>1, <3>2
  <2> HIDE DEF v
  <2>4. v \in GoodCli
    <3>1. Len(v.dec) < Parts
      BY <2>3, PartsAssumption
    <3> QED BY <1>3, <2>3, <3>1, Greetings DEF GoodCli
  <2> QED BY <2>1, <2>2, <2>3, <2>4
<1> HIDE DEF s
<1>16. cli' \in [Clients -> GoodCli] /\ \A d \in Clients : d # c => cli'[d] = cli[d]
  BY <1>15 DEF Good, Records
<1>17. Records'
  BY <1>13, <1>16 DEF Good, Records, Connect
<1>18. /\ j # NoFd => Closed(net[j], net'[j])
       /\ \A i \in Conns : i \notin {j, k} => net'[i] = net[i]
  BY <1>4, <1>5, <1>6, <1>9
<1>19. \A i \in Conns : i # k =>
        /\ net'[i].by = net[i].by /\ net'[i].phase = net[i].phase /\ net'[i].sgone = net[i].sgone
        /\ net'[i].cgone = FALSE => i # j /\ net'[i] = net[i]
  <2> SUFFICES ASSUME NEW i \in Conns, i # k
               PROVE  /\ net'[i].by = net[i].by /\ net'[i].phase = net[i].phase
                      /\ net'[i].sgone = net[i].sgone
                      /\ net'[i].cgone = FALSE => i # j /\ net'[i] = net[i]
    OBVIOUS
  <2>1. CASE i = j
    <3>1. j # NoFd
      BY <2>1, StarAssumption DEF Conns, NoFd
    <3>2. Closed(net[i], net'[i])
      BY <1>18, <2>1, <3>1
    <3> QED BY <2>1, <3>2 DEF Closed
  <2>2. CASE i # j
    BY <1>18, <2>2
  <2> QED BY <2>1, <2>2
<1>20. Wired'
  <2>1. ASSUME NEW d \in Clients, cli'[d].fd # NoFd
        PROVE  /\ net'[cli'[d].fd].by = d
               /\ net'[cli'[d].fd].cgone = FALSE
               /\ cli'[d].st # "CONNECTING" => net'[cli'[d].fd].phase = "up"
               /\ \A i \in Conns : net'[i].by = d => i <= cli'[d].fd
    <3>1. CASE d = c
      <4>1. cli'[d] = s
        BY <3>1 DEF s
      <4>2. \A i \in Conns : net'[i].by = c => i <= k
        <5> SUFFICES ASSUME NEW i \in Conns, net'[i].by = c, i # k PROVE i <= k
          BY DEF Conns
        <5>1. net[i].by = c
          BY <1>19
        <5>2. net[i].phase # "unused"
          <6>1. net[i] \in GoodConn /\ L \notin Clients
            BY Fields, StarAssumption
          <6>2. net[i] = NoConn => net[i].by = L
            BY DEF NoConn
          <6> QED BY <5>1, <6>1, <6>2 DEF GoodConn
        <5> QED BY <1>2, <5>2 DEF Conns
      <4> QED BY <1>9, <1>15, <3>1, <4>1, <4>2 DEF m
    <3>2. CASE d # c
      <4>1. cli'[d] = cli[d]
        BY <1>16, <3>2
      <4>2. cli[d].fd \in Conns /\ net[cli[d].fd].by = d /\ net[cli[d].fd].phase # "unused"
        BY <2>1, <4>1, Connected
      <4>3. cli[d].fd # j /\ cli[d].fd # k
        BY <1>2, <1>4, <2>1, <3>2, <4>1, <4>2
      <4>4. net'[cli[d].fd] = net[cli[d].fd]
        BY <1>18, <4>2, <4>3
      <4>5. \A i \in Conns : net'[i].by = d => net[i].by = d
        <5> SUFFICES ASSUME NEW i \in Conns, net'[i].by = d PROVE net[i].by = d
          OBVIOUS
        <5>1. i # k
          BY <1>9, <3>2 DEF m
        <5> QED BY <1>19, <5>1
      <4> QED BY <2>1, <4>1, <4>4, <4>5 DEF Good, Wired
    <3> QED BY <3>1, <3>2
  <2>2. ASSUME NEW i \in Conns, net'[i].phase # "unused", net'[i].cgone = FALSE
        PROVE  cli'[net'[i].by].fd = i
    <3>1. CASE i = k
      BY <1>9, <1>15, <3>1 DEF m, s
    <3>2. CASE i # k
      <4>1. i # j
        BY <1>19, <2>2, <3>2
      <4>2. net'[i] = net[i]
        BY <1>18, <3>2, <4>1
      <4>3. cli[net[i].by].fd = i /\ net[i].by \in Clients
        BY <2>2, <4>2, Fields DEF Good, Wired, GoodConn
      <4> QED BY <1>16, <4>1, <4>2, <4>3
    <3> QED BY <3>1, <3>2
  <2>3. ASSUME NEW i \in Conns, slot'[i].state # "none"
        PROVE  net'[i].phase = "up" /\ net'[i].sgone = FALSE /\ alive' = TRUE
    <3>1. slot'[i] = slot[i] /\ alive' = alive
      BY DEF Connect
    <3>2. net[i].phase = "up" /\ net[i].sgone = FALSE /\ alive = TRUE
      BY <2>3, <3>1 DEF Good, Wired
    <3>3. i # k
      BY <1>2, <3>2
    <3> QED BY <1>19, <3>1, <3>2, <3>3
  <2> QED BY <2>1, <2>2, <2>3 DEF Wired
<1> QED BY <1>2, <1>3, <1>4, <1>5, <1>9, <1>10, <1>15, <1>16, <1>17, <1>18, <1>20 DEF Good, m, s

(* The Hello is prepared. *)
LEMMA OnConnectStep ==
  ASSUME Good, NEW c \in Clients, OnConnect(c)
  PROVE  LET k == cli[c].fd
             r == cli[c]
             s == cli'[c] IN
         /\ Good' /\ OthersSame(c, k) /\ k # NoFd
         /\ r.st \in {"CONNECTING", "HELO_WR"} /\ r.cb = "connect"
         /\ \/ /\ Closed(net[k], net'[k]) /\ net[k].phase # "unused"
               /\ s = IdleClient(r.q)
            \/ /\ net' = net /\ net[k].phase = "up" /\ net[k].rst = FALSE
               /\ s.fd = k /\ s.st = "HELO_WR" /\ s.left = Packet(HELO) /\ s.out = <<>>
               /\ s.in = <<>> /\ s.dec = <<>> /\ s.sent = <<>> /\ s.q = r.q
               /\ s.cb = "connect"
<1> DEFINE k == cli[c].fd
           r == cli[c]
           s == [r EXCEPT !.st = "HELO_WR", !.left = Packet(HELO), !.mask = {"WR"}]
<1>1. r \in GoodCli /\ r \in WCli /\ r.cb = "connect"
  BY Fields DEF OnConnect
<1>2. r.st \in {"CONNECTING", "HELO_WR"} /\ k # NoFd /\ r.st # "IDLE"
  BY <1>1 DEF GoodCli
<1>3. k \in Conns /\ net[k] \in GoodConn /\ net[k] \in WConn /\ net[k].phase # "unused"
  BY <1>2, Connected
<1>4. CASE net[k].phase = "refused" \/ net[k].rst
  <2>1. ToIdle(c) /\ UNCHANGED <<slot, alive, ops, heard, cast>>
    BY <1>4 DEF OnConnect
  <2> QED BY <1>1, <1>2, <2>1, ToIdleStep
<1>5. CASE ~(net[k].phase = "refused" \/ net[k].rst)
  <2>1. /\ cli' = [cli EXCEPT ![c].st = "HELO_WR", ![c].left = Packet(HELO),
                              ![c].mask = {"WR"}]
        /\ net' = net /\ UNCHANGED <<slot, alive, ops, heard, cast>>
    BY <1>5 DEF OnConnect
  <2>2. net[k].phase = "up" /\ net[k].rst = FALSE
    BY <1>3, <1>5 DEF OnConnect, WConn
  <2>3. /\ s \in GoodCli
        /\ s.fd = k /\ s.st = "HELO_WR" /\ s.left = Packet(HELO) /\ s.out = <<>>
        /\ s.in = <<>> /\ s.dec = <<>> /\ s.sent = <<>> /\ s.q = r.q
        /\ s.cb = "connect"
    BY <1>1, <1>2, Greetings DEF GoodCli, WCli, Masks
  <2>4. cli' = [cli EXCEPT ![c] = s]
    BY <2>1 DEF Good, Records
  <2>5. Good' /\ OthersSame(c, k) /\ cli'[c] = s
    <3> HIDE DEF s
    <3> QED BY <1>2, <2>1, <2>2, <2>3, <2>4, ClientStep DEF Good, Records
  <2> QED BY <1>1, <1>2, <2>1, <2>2, <2>3, <2>5
<1> QED BY <1>4, <1>5

(* What is on a connection when a unit that came down is read. *)
DownTaken(n, m) ==
  /\ m.phase = n.phase /\ m.by = n.by /\ m.sgone = n.sgone /\ m.cgone = n.cgone
  /\ m.base = n.base /\ m.up = n.up /\ m.rst = n.rst
  /\ m.down = Tail(n.down)

(* A unit that came down is read. *)
LEMMA ReadDownStep ==
  ASSUME Good, NEW k \in Conns, net[k].down # <<>>,
         NEW f, f = [net EXCEPT ![k].down = Tail(@)]
  PROVE  /\ f \in [Conns -> GoodConn] /\ \A j \in Conns : j # k => f[j] = net[j]
         /\ DownTaken(net[k], f[k])
         /\ net[k].phase = "up" /\ net[k].down \in Bytes
         /\ Head(net[k].down) \in Messages \X (1 .. Parts)
<1>1. net[k] \in GoodConn /\ net[k] \in WConn /\ net \in [Conns -> WConn]
      /\ \A j \in Conns : net[j] \in GoodConn
  BY Fields DEF Good, Records, GoodConn
<1>2. /\ net[k].down \in Bytes /\ Tail(net[k].down) \in Bytes
      /\ Head(net[k].down) \in Messages \X (1 .. Parts)
  BY <1>1, Split DEF WConn, Bytes
<1>3. f \in [Conns -> WConn] /\ \A j \in Conns : j # k => f[j] = net[j]
  BY <1>1, <1>2 DEF WConn
<1>4. DownTaken(net[k], f[k])
  BY <1>1 DEF DownTaken, WConn
<1>5. net[k].phase = "up"
  BY <1>1 DEF GoodConn
<1>6. f[k] \in GoodConn
  BY <1>1, <1>3, <1>4, <1>5 DEF GoodConn, DownTaken
<1>7. \A j \in Conns : f[j] \in GoodConn
  BY <1>1, <1>3, <1>6
<1> QED BY <1>2, <1>3, <1>4, <1>5, <1>7

(* The Welcome is read: a part of it, something else, or its end. *)
LEMMA ReadWlcmStep ==
  ASSUME Good, NEW c \in Clients, ReadWlcm(c)
  PROVE  LET k == cli[c].fd
             r == cli[c]
             s == cli'[c]
             got == Append(r.in, Head(net[k].down)) IN
         /\ Good' /\ OthersSame(c, k) /\ k # NoFd /\ r.st = "WLCM_RD"
         /\ net[k].down # <<>> /\ net[k].rst = FALSE
         /\ \/ /\ DownTaken(net[k], net'[k]) /\ Len(got) < Parts
               /\ s.fd = k /\ s.st = "WLCM_RD" /\ s.in = got /\ s.left = <<>>
               /\ s.out = <<>> /\ s.dec = <<>> /\ s.sent = <<>> /\ s.q = r.q
            \/ /\ Closed(net[k], net'[k]) /\ net[k].phase # "unused"
               /\ s = IdleClient(r.q)
            \/ /\ DownTaken(net[k], net'[k]) /\ got = Packet(WLCM)
               /\ s.fd = k /\ s.st = "STREAM" /\ s.in = got /\ s.left = <<>>
               /\ s.out = Frames(r.q) /\ s.dec = <<>> /\ s.sent = r.q /\ s.q = <<>>
               /\ s.base = Len(heard[c])
<1> DEFINE k == cli[c].fd
           r == cli[c]
           got == Append(r.in, Head(net[k].down))
           f == [net EXCEPT ![k].down = Tail(@)]
<1>1. /\ k # NoFd /\ r.cb = "hs" /\ r.st = "WLCM_RD" /\ net[k].down # <<>>
      /\ UNCHANGED <<slot, alive, ops, heard, cast>>
  BY DEF ReadWlcm, Reading
<1>2. /\ k \in Conns /\ net[k] \in WConn /\ r \in GoodCli /\ r \in WCli
      /\ net[k].phase = "up"
  BY <1>1, Connected
<1>3. net[k].rst = FALSE
  BY <1>2 DEF ReadWlcm, Reading, WConn
<1>4. /\ f \in [Conns -> GoodConn] /\ \A j \in Conns : j # k => f[j] = net[j]
      /\ DownTaken(net[k], f[k])
      /\ Head(net[k].down) \in Messages \X (1 .. Parts)
  BY <1>1, <1>2, ReadDownStep
<1>5. r.in \in Bytes /\ got \in Bytes
  BY <1>2, <1>4 DEF WCli, Bytes
<1>6. ASSUME Len(got) < Parts, cli' = [cli EXCEPT ![c].in = got], net' = f
      PROVE  /\ Good' /\ OthersSame(c, k) /\ DownTaken(net[k], net'[k])
             /\ cli'[c].fd = k /\ cli'[c].st = "WLCM_RD" /\ cli'[c].in = got
             /\ cli'[c].left = <<>> /\ cli'[c].out = <<>> /\ cli'[c].dec = <<>>
             /\ cli'[c].sent = <<>> /\ cli'[c].q = r.q
  <2> DEFINE s == [r EXCEPT !.in = got]
  <2>1. /\ s \in GoodCli /\ s.fd = k /\ s.st = "WLCM_RD" /\ s.in = got
        /\ s.left = <<>> /\ s.out = <<>> /\ s.dec = <<>> /\ s.sent = <<>> /\ s.q = r.q
    BY <1>1, <1>2, <1>5, <1>6 DEF GoodCli, WCli
  <2>2. cli' = [cli EXCEPT ![c] = s]
    BY <1>6
  <2> HIDE DEF s, f
  <2>3. Good' /\ OthersSame(c, k) /\ cli'[c] = s
    BY <1>1, <1>2, <1>4, <1>6, <2>1, <2>2, ClientStep DEF Good, Records, DownTaken
  <2> QED BY <1>4, <1>6, <2>1, <2>3
<1>7. ASSUME cli' = [cli EXCEPT ![c] = IdleClient(@.q)], net' = ClientCloses(f, k)
      PROVE  /\ Good' /\ OthersSame(c, k) /\ net[k].phase # "unused"
             /\ Closed(net[k], net'[k]) /\ cli'[c] = IdleClient(r.q)
  <2> HIDE DEF f
  <2> QED BY <1>1, <1>4, <1>7, IdleStep DEF DownTaken
<1>8. ASSUME got = Packet(WLCM), net' = f,
             cli' = [cli EXCEPT ![c] =
               Flushed(CowCreate([r EXCEPT !.in = got, !.st = "STREAM", !.cb = "cow",
                                           !.base = Len(heard[c])]))]
      PROVE  /\ Good' /\ OthersSame(c, k) /\ DownTaken(net[k], net'[k])
             /\ cli'[c].fd = k /\ cli'[c].st = "STREAM" /\ cli'[c].in = got
             /\ cli'[c].left = <<>> /\ cli'[c].out = Frames(r.q) /\ cli'[c].dec = <<>>
             /\ cli'[c].sent = r.q /\ cli'[c].q = <<>> /\ cli'[c].base = Len(heard[c])
  <2> DEFINE v == CowCreate([r EXCEPT !.in = got, !.st = "STREAM", !.cb = "cow",
                                      !.base = Len(heard[c])])
             s == Flushed(v)
  <2>1. <<>> \in Bytes /\ <<>> \in Seq(Int) /\ Len(<<>>) < Parts
    BY PartsAssumption DEF Bytes
  <2>2. heard[c] \in Seq(Int) /\ Len(heard[c]) \in Nat
    BY DEF Good, Records, Procs
  <2>3. /\ v \in WCli /\ v.fd = k /\ v.st = "STREAM" /\ v.cb = "cow" /\ v.in = got
        /\ v.left = <<>> /\ v.dec = <<>> /\ v.q = r.q /\ v.base = Len(heard[c])
    BY <1>1, <1>2, <1>5, <2>1, <2>2 DEF GoodCli, WCli, CowCreate, Masks
  <2>4. Frames(r.q) \in Bytes
    BY <1>2, FramesShape DEF WCli, Messages, Bytes, Unit
  <2> HIDE DEF v
  <2>5. /\ s \in WCli /\ s.fd = k /\ s.st = "STREAM" /\ s.cb = "cow" /\ s.in = got
        /\ s.left = <<>> /\ s.out = Frames(r.q) /\ s.dec = <<>> /\ s.sent = r.q
        /\ s.q = <<>> /\ s.base = Len(heard[c])
    BY <2>1, <2>3, <2>4 DEF Flushed, WCli, Masks
  <2>6. cli' = [cli EXCEPT ![c] = s]
    BY <1>8 DEF v
  <2> HIDE DEF s, f
  <2>7. s \in GoodCli
    BY <1>1, <1>2, <1>8, <2>1, <2>5 DEF GoodCli
  <2>8. Good' /\ OthersSame(c, k) /\ cli'[c] = s
    BY <1>1, <1>2, <1>4, <1>8, <2>5, <2>6, <2>7, ClientStep DEF Good, Records, DownTaken
  <2> QED BY <1>4, <1>8, <2>5, <2>8
<1>9. \/ Len(got) < Parts /\ cli' = [cli EXCEPT ![c].in = got] /\ net' = f
      \/ cli' = [cli EXCEPT ![c] = IdleClient(@.q)] /\ net' = ClientCloses(f, k)
      \/ /\ got = Packet(WLCM) /\ net' = f
         /\ cli' = [cli EXCEPT ![c] =
               Flushed(CowCreate([r EXCEPT !.in = got, !.st = "STREAM", !.cb = "cow",
                                           !.base = Len(heard[c])]))]
  BY DEF ReadWlcm
<1> HIDE DEF f, got
<1>10. CASE Len(got) < Parts /\ cli' = [cli EXCEPT ![c].in = got] /\ net' = f
  BY <1>1, <1>3, <1>6, <1>10 DEF got
<1>11. CASE cli' = [cli EXCEPT ![c] = IdleClient(@.q)] /\ net' = ClientCloses(f, k)
  BY <1>1, <1>3, <1>7, <1>11
<1>12. CASE /\ got = Packet(WLCM) /\ net' = f
            /\ cli' = [cli EXCEPT ![c] =
                 Flushed(CowCreate([r EXCEPT !.in = got, !.st = "STREAM", !.cb = "cow",
                                             !.base = Len(heard[c])]))]
  BY <1>1, <1>3, <1>8, <1>12 DEF got
<1> QED BY <1>9, <1>10, <1>11, <1>12

(* What an error or the end of the stream leaves as it is. *)
SameStream(r, s) ==
  /\ s.st = r.st /\ s.fd = r.fd /\ s.left = r.left /\ s.in = r.in /\ s.q = r.q
  /\ s.out = r.out /\ s.dec = r.dec /\ s.sent = r.sent /\ s.base = r.base

(* A client changes nothing but its interest on an error or at the end. *)
LEMMA ClientTroubleStep ==
  ASSUME Good, NEW c \in Clients, ClientTrouble(c)
  PROVE  /\ Good' /\ OthersSame(c, cli[c].fd) /\ cli[c].fd # NoFd
         /\ net' = net /\ SameStream(cli[c], cli'[c])
<1> DEFINE r == cli[c]
<1>1. r \in GoodCli /\ r \in WCli /\ r.cb = "cow"
  BY Fields DEF ClientTrouble
<1>2. r.fd # NoFd /\ r.st = "STREAM"
  BY <1>1 DEF GoodCli
<1>3. PICK s \in GoodCli : SameStream(r, s) /\ cli' = [cli EXCEPT ![c] = s]
  <2>1. /\ CowError(r) \in GoodCli /\ SameStream(r, CowError(r))
        /\ CowEof(r) \in GoodCli /\ SameStream(r, CowEof(r))
    BY <1>1 DEF CowError, CowEof, Interest, SameStream, GoodCli, WCli, Masks
  <2> QED BY <2>1 DEF ClientTrouble
<1>4. UNCHANGED <<net, slot, alive, ops, heard, cast>>
  BY DEF ClientTrouble
<1>5. Good' /\ OthersSame(c, cli[c].fd) /\ cli'[c] = s
  <2>1. net[cli[c].fd].phase = "up"
    BY <1>2, Connected
  <2> QED BY <1>2, <1>3, <1>4, <2>1, ClientStep DEF Good, Records, SameStream
<1> QED BY <1>2, <1>3, <1>4, <1>5

(* A unit of a frame is sent. *)
LEMMA ClientWriteStep ==
  ASSUME Good, NEW c \in Clients, ClientWrite(c)
  PROVE  LET k == cli[c].fd
             r == cli[c]
             s == cli'[c] IN
         /\ Good' /\ OthersSame(c, k) /\ k # NoFd
         /\ r.st = "STREAM" /\ UpSent(net[k], net'[k], Head(r.out)) /\ r.out # <<>>
         /\ s.fd = k /\ s.st = "STREAM" /\ s.left = <<>> /\ s.out = Tail(r.out)
         /\ s.in = r.in /\ s.q = <<>> /\ s.dec = r.dec /\ s.sent = r.sent
         /\ s.base = r.base
<1> DEFINE k == cli[c].fd
           r == cli[c]
           s == CowWritten(r)
<1>1. /\ k # NoFd /\ r.cb = "cow" /\ r.out # <<>>
      /\ net' = WriteUp(k, Head(r.out)) /\ cli' = [cli EXCEPT ![c] = s]
      /\ UNCHANGED <<slot, alive, ops, heard, cast>>
  BY DEF ClientWrite, Writing
<1>2. /\ k \in Conns /\ r \in GoodCli /\ r \in WCli /\ r.st = "STREAM" /\ r.left = <<>>
      /\ r.q = <<>> /\ net[k].phase = "up"
  BY <1>1, Connected DEF GoodCli
<1>3. Head(r.out) \in Messages \X (1 .. Parts) /\ Tail(r.out) \in Bytes
  <2>1. r.out \in Bytes
    BY <1>2 DEF WCli
  <2> QED BY <1>1, <2>1, Split DEF Bytes
<1>4. /\ net' \in [Conns -> GoodConn] /\ UpSent(net[k], net'[k], Head(r.out))
      /\ \A j \in Conns : j # k => net'[j] = net[j]
  BY <1>1, <1>2, <1>3, WriteUpStep
<1>5. /\ s \in GoodCli /\ s.fd = k /\ s.st = "STREAM" /\ s.left = <<>> /\ s.out = Tail(r.out)
      /\ s.in = r.in /\ s.q = <<>> /\ s.dec = r.dec /\ s.sent = r.sent /\ s.base = r.base
  BY <1>1, <1>2, <1>3 DEF CowWritten, Interest, GoodCli, WCli, Masks
<1> HIDE DEF s
<1>6. Good' /\ OthersSame(c, k) /\ cli'[c] = s
  BY <1>1, <1>2, <1>4, <1>5, ClientStep DEF Good, Records, UpSent
<1> QED BY <1>1, <1>2, <1>4, <1>5, <1>6

(* An operation is put at the end of a stream. *)
LEMMA SendUpGood ==
  ASSUME NEW r \in GoodCli, r.st = "STREAM", NEW id \in Int
  PROVE  LET s == SendUp(r, id) IN
         /\ s \in GoodCli /\ s.fd = r.fd /\ s.st = "STREAM" /\ s.left = r.left
         /\ s.in = r.in /\ s.q = r.q /\ s.dec = r.dec /\ s.base = r.base
         /\ s.out = r.out \o Packet(id) /\ s.sent = Append(r.sent, id)
<1> DEFINE s == SendUp(r, id)
           v == CowSend(r, id)
<1>1. r \in WCli /\ r.out \in Bytes /\ r.sent \in Seq(Int)
  BY DEF GoodCli, WCli
<1>2. Packet(id) \in Bytes
  BY PacketShape DEF Bytes, Unit, Messages
<1>3. r.out \o Packet(id) \in Bytes /\ Append(r.sent, id) \in Seq(Int)
  BY <1>1, <1>2 DEF Bytes
<1>4. /\ v \in WCli /\ v.fd = r.fd /\ v.st = r.st /\ v.cb = r.cb /\ v.left = r.left
      /\ v.in = r.in /\ v.q = r.q /\ v.dec = r.dec /\ v.base = r.base
      /\ v.out = r.out \o Packet(id) /\ v.sent = r.sent
  BY <1>1, <1>3 DEF CowSend, WCli, Masks
<1> HIDE DEF v
<1>5. /\ s \in WCli /\ s.fd = r.fd /\ s.st = "STREAM" /\ s.cb = r.cb /\ s.left = r.left
      /\ s.in = r.in /\ s.q = r.q /\ s.dec = r.dec /\ s.base = r.base
      /\ s.out = r.out \o Packet(id) /\ s.sent = Append(r.sent, id)
  <2>1. s = [v EXCEPT !.sent = Append(@, id)]
    BY DEF SendUp, v
  <2> HIDE DEF s
  <2> QED BY <1>3, <1>4, <2>1 DEF WCli
<1> HIDE DEF s
<1>6. s \in GoodCli
  BY <1>5 DEF GoodCli
<1> QED BY <1>5, <1>6 DEF s

(* The operation that a client which publishes or answers adds. *)
NewId == Len(ops) + 1

(* A unit of a frame is read; the end of one that is valid is heard, and   *)
(* answered when it is a command.                                          *)
LEMMA ClientReadStep ==
  ASSUME Good, NEW c \in Clients, ClientRead(c)
  PROVE  LET k == cli[c].fd
             r == cli[c]
             s == cli'[c]
             u == Head(net[k].down)
             got == Append(r.dec, u) IN
         /\ Good' /\ OthersSame(c, k) /\ k # NoFd
         /\ net[k].down # <<>> /\ net[k].rst = FALSE /\ DownTaken(net[k], net'[k])
         /\ r.st = "STREAM" /\ s.fd = k /\ s.st = "STREAM" /\ s.left = <<>>
         /\ s.in = r.in /\ s.q = <<>> /\ s.base = r.base
         /\ s.dec = IF Len(got) = Parts THEN <<>> ELSE got
         /\ IF Len(got) = Parts /\ got = Packet(u[1])
            THEN /\ heard' = [heard EXCEPT ![c] = Append(@, u[1])]
                 /\ \/ /\ Answers(c, u[1])
                       /\ ops' = Append(ops, Answer(c))
                       /\ s.out = r.out \o Packet(NewId) /\ s.sent = Append(r.sent, NewId)
                    \/ ops' = ops /\ s.out = r.out /\ s.sent = r.sent
            ELSE heard' = heard /\ ops' = ops /\ s.out = r.out /\ s.sent = r.sent
<1> DEFINE k == cli[c].fd
           r == cli[c]
           u == Head(net[k].down)
           got == Append(r.dec, u)
           e == CowRead(r, u)
           hears == Len(got) = Parts /\ got = Packet(u[1])
<1>1. /\ k # NoFd /\ r.cb = "cow" /\ net[k].down # <<>>
      /\ net' = [net EXCEPT ![k].down = Tail(@)]
      /\ UNCHANGED <<slot, alive, cast>>
  BY DEF ClientRead, Reading
<1>2. /\ k \in Conns /\ net[k] \in WConn /\ r \in GoodCli /\ r \in WCli
      /\ net[k].phase = "up" /\ r.st = "STREAM" /\ r.left = <<>> /\ r.q = <<>>
  BY <1>1, Connected DEF GoodCli
<1>3. net[k].rst = FALSE
  BY <1>2 DEF ClientRead, Reading, WConn
<1>4. /\ net' \in [Conns -> GoodConn] /\ \A j \in Conns : j # k => net'[j] = net[j]
      /\ DownTaken(net[k], net'[k]) /\ u \in Messages \X (1 .. Parts)
  BY <1>1, <1>2, ReadDownStep
<1>5. u[1] \in Int /\ r.dec \in Bytes /\ got \in Bytes /\ Len(got) = Len(r.dec) + 1
      /\ Len(r.dec) < Parts
  <2>1. r.dec \in Bytes /\ Len(r.dec) < Parts
    BY <1>2 DEF GoodCli, WCli
  <2> HIDE DEF u
  <2> QED BY <1>4, <2>1 DEF Bytes, Messages
<1>6. /\ e \in GoodCli /\ e.fd = k /\ e.st = "STREAM" /\ e.left = <<>> /\ e.in = r.in
      /\ e.q = <<>> /\ e.base = r.base /\ e.out = r.out /\ e.sent = r.sent
      /\ e.dec = IF Len(got) = Parts THEN <<>> ELSE got
  <2> HIDE DEF got, u
  <2> DEFINE d == IF Len(got) = Parts THEN <<>> ELSE got
             m == Interest(r.out)
  <2>1. d \in Bytes /\ Len(d) < Parts
    BY <1>5, PartsAssumption DEF Bytes, WCli
  <2>2. m \in Masks
    BY DEF Interest, Masks
  <2>3. e = [r EXCEPT !.dec = d, !.mask = m]
    BY DEF CowRead, FrameEnds, Received, got, u
  <2> HIDE DEF d, m, e
  <2>4. /\ e \in WCli /\ e.fd = k /\ e.st = "STREAM" /\ e.left = <<>> /\ e.in = r.in
        /\ e.q = <<>> /\ e.base = r.base /\ e.out = r.out /\ e.sent = r.sent
        /\ e.dec = d /\ e.cb = r.cb
    BY <1>2, <2>1, <2>2, <2>3 DEF WCli
  <2>5. e \in GoodCli
    BY <1>2, <2>1, <2>4 DEF GoodCli
  <2> QED BY <2>4, <2>5 DEF d
<1>7. /\ hears => heard' = [heard EXCEPT ![c] = Append(@, u[1])]
      /\ hears /\ Answers(c, u[1]) => /\ ops' = Append(ops, Answer(c))
                                      /\ cli' = [cli EXCEPT ![c] = SendUp(e, NewId)]
      /\ hears /\ ~Answers(c, u[1]) => ops' = ops /\ cli' = [cli EXCEPT ![c] = e]
      /\ ~hears => heard' = heard /\ ops' = ops /\ cli' = [cli EXCEPT ![c] = e]
  <2> HIDE DEF e
  <2> QED BY DEF ClientRead, FrameEnds, FrameValid, Received, NewId, e
<1>8. NewId \in Int /\ ops \in Seq([from : Procs, kind : {"line", "command", "answer"}])
      /\ heard \in [Procs -> Seq(Int)] /\ c \in Procs
  BY DEF Good, Records, NewId, Procs
<1> HIDE DEF e, hears, got, u
<1>9. PICK s \in GoodCli :
        /\ cli' = [cli EXCEPT ![c] = s]
        /\ s.fd = k /\ s.st = "STREAM" /\ s.left = <<>> /\ s.in = r.in
        /\ s.q = <<>> /\ s.base = r.base /\ s.dec = IF Len(got) = Parts THEN <<>> ELSE got
        /\ \/ /\ hears /\ Answers(c, u[1])
              /\ ops' = Append(ops, Answer(c))
              /\ s.out = r.out \o Packet(NewId) /\ s.sent = Append(r.sent, NewId)
           \/ ops' = ops /\ s.out = r.out /\ s.sent = r.sent
  <2>1. CASE hears /\ Answers(c, u[1])
    <3> DEFINE s == SendUp(e, NewId)
    <3>1. /\ s \in GoodCli /\ s.fd = e.fd /\ s.st = "STREAM" /\ s.left = e.left
          /\ s.in = e.in /\ s.q = e.q /\ s.dec = e.dec /\ s.base = e.base
          /\ s.out = e.out \o Packet(NewId) /\ s.sent = Append(e.sent, NewId)
      BY <1>6, <1>8, SendUpGood
    <3> HIDE DEF s
    <3> QED BY <1>6, <1>7, <2>1, <3>1 DEF s
  <2>2. CASE ~(hears /\ Answers(c, u[1]))
    BY <1>6, <1>7, <2>2
  <2> QED BY <2>1, <2>2
<1>10. heard' \in [Procs -> Seq(Int)]
  <2>1. CASE hears
    <3>1. heard[c] \in Seq(Int) /\ Append(heard[c], u[1]) \in Seq(Int)
      BY <1>5, <1>8
    <3> QED BY <1>7, <1>8, <2>1, <3>1
  <2>2. CASE ~hears
    BY <1>7, <1>8, <2>2
  <2> QED BY <2>1, <2>2
<1>11. ops' \in Seq([from : Procs, kind : {"line", "command", "answer"}])
  <2>1. Answer(c) \in [from : Procs, kind : {"line", "command", "answer"}]
    BY <1>8 DEF Answer
  <2> DEFINE R == [from : Procs, kind : {"line", "command", "answer"}]
  <2> HIDE DEF R
  <2>2. ops \in Seq(R) /\ Append(ops, Answer(c)) \in Seq(R)
    BY <1>8, <2>1 DEF R
  <2>3. ops' = ops \/ ops' = Append(ops, Answer(c))
    BY <1>9
  <2> QED BY <2>2, <2>3 DEF R
<1>12. Good' /\ OthersSame(c, k) /\ cli'[c] = s
  BY <1>1, <1>2, <1>4, <1>9, <1>10, <1>11, ClientStep DEF DownTaken
<1>13. hears \/ (heard' = heard /\ ops' = ops /\ s.out = r.out /\ s.sent = r.sent)
  BY <1>7, <1>9
<1> QED BY <1>1, <1>2, <1>3, <1>4, <1>7, <1>9, <1>12, <1>13 DEF hears, got, u

(* A client publishes: on its stream, into its buffer, or to nobody. *)
LEMMA ClientPublishStep ==
  ASSUME Good, NEW c \in Clients, NEW kind \in DOMAIN MaxOps, ClientPublish(c, kind)
  PROVE  LET r == cli[c]
             s == cli'[c] IN
         /\ Good' /\ net' = net /\ \A d \in Clients : d # c => cli'[d] = cli[d]
         /\ ops' = Append(ops, [from |-> c, kind |-> kind])
         /\ s.fd = r.fd /\ s.st = r.st /\ s.left = r.left /\ s.in = r.in
         /\ s.base = r.base /\ s.dec = r.dec
         /\ \/ /\ r.st = "STREAM" /\ s.q = r.q
               /\ s.out = r.out \o Packet(NewId) /\ s.sent = Append(r.sent, NewId)
            \/ /\ r.st # "STREAM" /\ s.out = r.out /\ s.sent = r.sent
               /\ s.q = r.q \/ s.q = Append(r.q, NewId)
<1> DEFINE r == cli[c]
<1>1. r \in GoodCli /\ r \in WCli /\ NewId \in Int /\ r.q \in Seq(Int)
  BY Fields DEF Good, Records, NewId, WCli
<1>2. /\ ops' = Append(ops, [from |-> c, kind |-> kind])
      /\ UNCHANGED <<net, slot, alive, heard, cast>>
  BY DEF ClientPublish
<1>3. PICK s \in GoodCli :
        /\ cli' = [cli EXCEPT ![c] = s]
        /\ s.fd = r.fd /\ s.st = r.st /\ s.left = r.left /\ s.in = r.in
        /\ s.base = r.base /\ s.dec = r.dec
        /\ \/ /\ r.st = "STREAM" /\ s.q = r.q
              /\ s.out = r.out \o Packet(NewId) /\ s.sent = Append(r.sent, NewId)
           \/ /\ r.st # "STREAM" /\ s.out = r.out /\ s.sent = r.sent
              /\ s.q = r.q \/ s.q = Append(r.q, NewId)
  <2>1. CASE r.st = "STREAM"
    <3>1. cli' = [cli EXCEPT ![c] = SendUp(r, NewId)]
      BY <2>1 DEF ClientPublish, NewId
    <3> DEFINE s == SendUp(r, NewId)
    <3>2. /\ s \in GoodCli /\ s.fd = r.fd /\ s.st = "STREAM" /\ s.left = r.left
          /\ s.in = r.in /\ s.q = r.q /\ s.dec = r.dec /\ s.base = r.base
          /\ s.out = r.out \o Packet(NewId) /\ s.sent = Append(r.sent, NewId)
      BY <1>1, <2>1, SendUpGood
    <3> HIDE DEF s
    <3> QED BY <2>1, <3>1, <3>2 DEF s
  <2>2. CASE r.st # "STREAM" /\ Len(r.q) < MaxBuffered
    <3> DEFINE s == [r EXCEPT !.q = Append(@, NewId)]
    <3>1. cli' = [cli EXCEPT ![c] = s]
      BY <2>2 DEF ClientPublish, NewId
    <3>2. Append(r.q, NewId) \in Seq(Int)
      BY <1>1
    <3>3. /\ s \in GoodCli /\ s.fd = r.fd /\ s.st = r.st /\ s.left = r.left /\ s.in = r.in
          /\ s.base = r.base /\ s.dec = r.dec /\ s.out = r.out /\ s.sent = r.sent
          /\ s.q = Append(r.q, NewId)
      BY <1>1, <2>2, <3>2 DEF GoodCli, WCli
    <3> HIDE DEF s
    <3> QED BY <2>2, <3>1, <3>3
  <2>3. CASE r.st # "STREAM" /\ ~(Len(r.q) < MaxBuffered)
    <3>1. cli' = [cli EXCEPT ![c] = r]
      BY <2>3 DEF ClientPublish
    <3> QED BY <1>1, <2>3, <3>1
  <2> QED BY <2>1, <2>2, <2>3
<1>4. /\ cli' \in [Clients -> GoodCli] /\ cli'[c] = s
      /\ \A d \in Clients : d # c => cli'[d] = cli[d]
      /\ \A d \in Clients : cli'[d].fd = cli[d].fd /\ cli'[d].st = cli[d].st
  BY <1>3 DEF Good, Records
<1>5. Wired'
  <2>1. ASSUME NEW j \in Conns, net[j].phase # "unused" PROVE net[j].by \in Clients
    BY <2>1, Fields DEF GoodConn
  <2> QED BY <1>2, <1>4, <2>1 DEF Good, Wired
<1>6. Records'
  <2>1. DOMAIN MaxOps = {"line", "command"}
    BY StarAssumption
  <2>2. ops' \in Seq([from : Procs, kind : {"line", "command", "answer"}])
    BY <1>2, <2>1 DEF Good, Records, Procs
  <2> QED BY <1>2, <1>4, <2>2 DEF Good, Records
<1> QED BY <1>2, <1>3, <1>4, <1>5, <1>6 DEF Good

-----------------------------------------------------------------------------
(* The steps of the leader and of the network *)

(* What is left of a connection that the leader closes. *)
Cut(n, m) ==
  /\ m.phase = n.phase /\ m.by = n.by /\ m.down = n.down /\ m.cgone = n.cgone
  /\ m.base = n.base /\ m.sgone = TRUE /\ m.up = <<>>
  /\ m.rst = FALSE => n.rst = FALSE

(* LeaderCloses *)
LEMMA LeaderClosesStep ==
  ASSUME NEW k \in Conns, NEW n \in [Conns -> GoodConn], n[k].phase = "up"
  PROVE  /\ LeaderCloses(n, k) \in [Conns -> GoodConn]
         /\ \A j \in Conns : j # k => LeaderCloses(n, k)[j] = n[j]
         /\ Cut(n[k], LeaderCloses(n, k)[k])
<1> DEFINE f == LeaderCloses(n, k)
           m == f[k]
           r == n[k].rst \/ n[k].up # <<>>
<1>0. n[k] \in GoodConn /\ n[k] \in WConn
  BY DEF GoodConn
<1>1. f \in [Conns -> WConn] /\ \A j \in Conns : j # k => f[j] = n[j]
  <2>1. <<>> \in Bytes
    BY DEF Bytes
  <2>2. n \in [Conns -> WConn]
    BY DEF GoodConn
  <2> QED BY <1>0, <2>1, <2>2 DEF LeaderCloses, WConn
<1>2. /\ m.phase = n[k].phase /\ m.by = n[k].by /\ m.down = n[k].down
      /\ m.cgone = n[k].cgone /\ m.base = n[k].base /\ m.sgone = TRUE
      /\ m.up = <<>> /\ m.rst = r
  BY <1>0 DEF LeaderCloses, WConn
<1>3. m \in WConn
  BY <1>1
<1> HIDE DEF f, m
<1>4. Cut(n[k], m)
  <2>1. CASE n[k].rst = TRUE
    BY <1>2, <2>1 DEF Cut
  <2>2. CASE n[k].rst = FALSE
    BY <1>2, <2>2 DEF Cut
  <2> QED BY <1>0, <2>1, <2>2 DEF WConn
<1>5. m \in GoodConn
  BY <1>0, <1>2, <1>3 DEF GoodConn
<1>6. \A j \in Conns : f[j] \in GoodConn
  BY <1>1, <1>5 DEF m
<1> QED BY <1>1, <1>4, <1>6 DEF f, m

(* What a step of the leader leaves alone: *)
LeaderSame(k) ==
  /\ \A j \in Conns : j # k => net'[j] = net[j] /\ slot'[j] = slot[j]
  /\ cli' = cli

(* A step of the leader or of the network on one connection. *)
LEMMA LeaderStep ==
  ASSUME Good, NEW k \in Conns, NEW s \in GoodSlot,
         net' \in [Conns -> GoodConn],
         \A j \in Conns : j # k => net'[j] = net[j],
         slot' = [slot EXCEPT ![k] = s],
         UNCHANGED <<cli, alive, ops, heard, cast>>,
         LET n == net[k]
             m == net'[k] IN
         /\ m.by = n.by /\ m.cgone = n.cgone
         /\ m.phase = n.phase \/ (n.phase = "syn" /\ m.phase \in {"refused", "up"})
         /\ s.state # "none" => m.phase = "up" /\ m.sgone = FALSE /\ alive = TRUE
  PROVE  Good' /\ LeaderSame(k) /\ slot'[k] = s
<1>1. /\ slot' \in [Conns -> GoodSlot] /\ slot'[k] = s
      /\ \A j \in Conns : j # k => slot'[j] = slot[j]
  BY DEF Good, Records
<1>2. ASSUME NEW j \in Conns, slot'[j].state # "none" PROVE alive' = TRUE
  <2>1. CASE j = k
    BY <1>1, <1>2, <2>1
  <2>2. CASE j # k
    BY <1>1, <1>2, <2>2 DEF Good, Wired
  <2> QED BY <2>1, <2>2
<1>3. Wired'
  BY <1>1, <1>2, LeaderWired
<1>4. Records'
  BY <1>1 DEF Good, Records
<1> QED BY <1>1, <1>3, <1>4 DEF Good, LeaderSame

(* The connection is made or refused. *)
LEMMA NetworkStep ==
  ASSUME Good, NEW k \in Conns, Establish(k) \/ Refuse(k)
  PROVE  /\ Good' /\ LeaderSame(k) /\ slot' = slot
         /\ net[k].phase = "syn" /\ net'[k].phase \in {"up", "refused"}
         /\ net'[k].by = net[k].by /\ net'[k].cgone = net[k].cgone
         /\ net'[k].sgone = net[k].sgone /\ net'[k].rst = net[k].rst
         /\ net'[k].up = net[k].up /\ net'[k].down = net[k].down
         /\ net'[k].base = net[k].base
<1>1. net[k] \in GoodConn /\ net[k] \in WConn /\ net \in [Conns -> GoodConn]
      /\ slot \in [Conns -> GoodSlot] /\ slot[k] \in GoodSlot
  BY Fields DEF Good, Records
<1>2. PICK p \in {"up", "refused"} :
        net' = [net EXCEPT ![k].phase = p] /\ net[k].phase = "syn"
        /\ UNCHANGED <<cli, slot, alive, ops, heard, cast>>
  BY DEF Establish, Refuse
<1> DEFINE m == [net[k] EXCEPT !.phase = p]
<1>3. /\ m \in GoodConn /\ m.phase = p /\ m.by = net[k].by /\ m.cgone = net[k].cgone
      /\ m.sgone = net[k].sgone /\ m.rst = net[k].rst
      /\ m.up = net[k].up /\ m.down = net[k].down /\ m.base = net[k].base
  BY <1>1, <1>2 DEF GoodConn, WConn
<1>4. net' = [net EXCEPT ![k] = m]
  BY <1>2
<1> HIDE DEF m
<1>5. /\ net' \in [Conns -> GoodConn] /\ net'[k] = m
      /\ \A j \in Conns : j # k => net'[j] = net[j]
  BY <1>1, <1>3, <1>4
<1>6. slot' = [slot EXCEPT ![k] = slot[k]]
  BY <1>1, <1>2
<1>7. slot[k].state = "none"
  BY <1>2 DEF Good, Wired
<1>8. Good' /\ LeaderSame(k)
  <2>1. LET n == net[k]
            q == net'[k] IN
        /\ q.by = n.by /\ q.cgone = n.cgone
        /\ q.phase = n.phase \/ (n.phase = "syn" /\ q.phase \in {"refused", "up"})
        /\ slot[k].state # "none" => q.phase = "up" /\ q.sgone = FALSE /\ alive = TRUE
    BY <1>2, <1>3, <1>5, <1>7
  <2>2. /\ net' \in [Conns -> GoodConn] /\ \A j \in Conns : j # k => net'[j] = net[j]
        /\ UNCHANGED <<cli, alive, ops, heard, cast>>
    BY <1>2, <1>5
  <2> QED BY <1>1, <1>6, <2>1, <2>2, LeaderStep
<1> QED BY <1>2, <1>3, <1>5, <1>8

(* A connection is accepted, or closed when there is no place for it. *)
LEMMA AcceptStep ==
  ASSUME Good, NEW k \in Conns, Accept(k)
  PROVE  /\ Good' /\ LeaderSame(k)
         /\ net[k].phase = "up" /\ net[k].sgone = FALSE /\ slot[k].state = "none"
         /\ \/ /\ net' = net /\ slot'[k].state = "helo" /\ slot'[k].in = <<>>
               /\ slot'[k].dec = <<>> /\ slot'[k].took = <<>> /\ slot'[k].out = <<>>
            \/ /\ Cut(net[k], net'[k]) /\ slot' = slot
<1>1. net[k] \in GoodConn /\ net[k] \in WConn /\ net \in [Conns -> GoodConn]
      /\ slot \in [Conns -> GoodSlot] /\ slot[k] \in GoodSlot /\ slot[k] \in WSlot
  BY Fields DEF Good, Records
<1>2. /\ net[k].phase = "up" /\ net[k].sgone = FALSE /\ slot[k].state = "none"
      /\ alive = TRUE /\ UNCHANGED <<cli, alive, ops, heard, cast>>
  BY <1>1 DEF Accept, WConn, Taken, Good, Records
<1>3. CASE Cardinality(Taken) < MaxClients
  <2> DEFINE s == [NoSlot EXCEPT !.state = "helo", !.mask = {"RD"}]
  <2>1. slot' = [slot EXCEPT ![k] = s] /\ net' = net
    BY <1>3 DEF Accept
  <2>2. /\ s \in GoodSlot /\ s.state = "helo" /\ s.in = <<>> /\ s.dec = <<>> /\ s.took = <<>>
        /\ s.out = <<>>
    <3>1. <<>> \in Bytes /\ <<>> \in Seq(Int) /\ Len(<<>>) < Parts
      BY PartsAssumption DEF Bytes
    <3> QED BY <3>1 DEF GoodSlot, WSlot, NoSlot, Masks
  <2> HIDE DEF s
  <2>3. Good' /\ LeaderSame(k) /\ slot'[k] = s
    BY <1>1, <1>2, <2>1, <2>2, LeaderStep
  <2> QED BY <1>2, <2>1, <2>2, <2>3
<1>4. CASE ~(Cardinality(Taken) < MaxClients)
  <2>1. slot' = [slot EXCEPT ![k] = slot[k]] /\ slot' = slot /\ net' = LeaderCloses(net, k)
    BY <1>1, <1>4 DEF Accept
  <2>2. /\ net' \in [Conns -> GoodConn] /\ Cut(net[k], net'[k])
        /\ \A j \in Conns : j # k => net'[j] = net[j]
    BY <1>1, <1>2, <2>1, LeaderClosesStep
  <2>3. Good' /\ LeaderSame(k)
    BY <1>1, <1>2, <2>1, <2>2, LeaderStep DEF Cut
  <2> QED BY <1>2, <2>1, <2>2, <2>3
<1> QED BY <1>3, <1>4

(* client_close, also on a connection that was read from before. *)
LEMMA DropStep ==
  ASSUME Good, NEW k \in Conns, slot[k].state # "none", NEW n \in [Conns -> GoodConn],
         /\ n[k].phase = net[k].phase /\ n[k].by = net[k].by /\ n[k].down = net[k].down
         /\ n[k].cgone = net[k].cgone /\ n[k].base = net[k].base /\ n[k].rst = net[k].rst
         /\ \A j \in Conns : j # k => n[j] = net[j],
         net' = LeaderCloses(n, k),
         slot' = [slot EXCEPT ![k] = NoSlot],
         UNCHANGED <<cli, alive, ops, heard, cast>>
  PROVE  Good' /\ LeaderSame(k) /\ slot'[k] = NoSlot /\ Cut(net[k], net'[k])
<1>1. net[k].phase = "up"
  BY DEF Good, Wired
<1>2. /\ net' \in [Conns -> GoodConn] /\ Cut(n[k], net'[k])
      /\ \A j \in Conns : j # k => net'[j] = net[j]
  BY <1>1, LeaderClosesStep
<1>3. Cut(net[k], net'[k])
  BY <1>2 DEF Cut
<1>4. NoSlot.state = "none"
  BY DEF NoSlot
<1>5. Good' /\ LeaderSame(k) /\ slot'[k] = NoSlot
  BY <1>2, <1>3, <1>4, NoSlotGood, LeaderStep DEF Cut
<1> QED BY <1>3, <1>5

(* The leader gives up a handshake. *)
LEMMA ClientLeavesStep ==
  ASSUME Good, NEW k \in Conns, ClientLeaves(k)
  PROVE  /\ Good' /\ LeaderSame(k) /\ slot'[k] = NoSlot /\ Cut(net[k], net'[k])
         /\ slot[k].state \in {"helo", "wlcm"}
<1>1. net \in [Conns -> GoodConn]
  BY DEF Good, Records
<1>2. slot[k].state \in {"helo", "wlcm"}
  BY DEF ClientLeaves
<1> QED BY <1>1, <1>2, DropStep DEF ClientLeaves, Drop

(* What is on a connection when a unit that came up is read. *)
UpTaken(n, m) ==
  /\ m.phase = n.phase /\ m.by = n.by /\ m.sgone = n.sgone /\ m.cgone = n.cgone
  /\ m.base = n.base /\ m.down = n.down /\ m.rst = n.rst
  /\ m.up = Tail(n.up)

(* A unit that came up is read. *)
LEMMA ReadUpStep ==
  ASSUME Good, NEW k \in Conns, net[k].up # <<>>,
         NEW f, f = [net EXCEPT ![k].up = Tail(@)]
  PROVE  /\ f \in [Conns -> GoodConn] /\ \A j \in Conns : j # k => f[j] = net[j]
         /\ UpTaken(net[k], f[k])
         /\ net[k].phase = "up" /\ net[k].up \in Bytes
         /\ Head(net[k].up) \in Messages \X (1 .. Parts)
<1>1. net[k] \in GoodConn /\ net[k] \in WConn /\ net \in [Conns -> WConn]
      /\ \A j \in Conns : net[j] \in GoodConn
  BY Fields DEF Good, Records, GoodConn
<1>2. /\ net[k].up \in Bytes /\ Tail(net[k].up) \in Bytes
      /\ Head(net[k].up) \in Messages \X (1 .. Parts)
  BY <1>1, Split DEF WConn, Bytes
<1>3. f \in [Conns -> WConn] /\ \A j \in Conns : j # k => f[j] = net[j]
  BY <1>1, <1>2 DEF WConn
<1>4. UpTaken(net[k], f[k])
  BY <1>1 DEF UpTaken, WConn
<1>5. net[k].phase = "up"
  BY <1>1 DEF GoodConn
<1>6. f[k] \in GoodConn
  BY <1>1, <1>3, <1>4, <1>5 DEF GoodConn, UpTaken
<1>7. \A j \in Conns : f[j] \in GoodConn
  BY <1>1, <1>3, <1>6
<1> QED BY <1>2, <1>3, <1>4, <1>5, <1>7

(* The Hello is read: a part of it, one that is refused, or its end. *)
LEMMA ReadHeloStep ==
  ASSUME Good, NEW k \in Conns, ReadHelo(k)
  PROVE  LET s == slot[k]
             t == slot'[k]
             got == Append(s.in, Head(net[k].up)) IN
         /\ Good' /\ LeaderSame(k) /\ s.state = "helo"
         /\ net[k].up # <<>> /\ net[k].rst = FALSE
         /\ \/ /\ UpTaken(net[k], net'[k]) /\ Len(got) < Parts
               /\ t.state = "helo" /\ t.in = got /\ t.dec = <<>> /\ t.took = <<>>
               /\ t.out = <<>>
            \/ Cut(net[k], net'[k]) /\ t = NoSlot
            \/ /\ UpTaken(net[k], net'[k]) /\ got = Packet(HELO)
               /\ t.state = "wlcm" /\ t.left = Packet(WLCM) /\ t.dec = <<>> /\ t.took = <<>>
               /\ t.out = <<>>
<1> DEFINE s == slot[k]
           t == slot'[k]
           got == Append(s.in, Head(net[k].up))
           f == [net EXCEPT ![k].up = Tail(@)]
<1>1. /\ s.state = "helo" /\ s \in GoodSlot /\ s \in WSlot /\ net[k] \in WConn
      /\ net[k].up # <<>> /\ UNCHANGED <<cli, alive, ops, heard, cast>>
  BY Fields DEF ReadHelo
<1>2. net[k].rst = FALSE /\ net[k].sgone = FALSE /\ alive = TRUE
  BY <1>1 DEF ReadHelo, LeaderReads, WConn, Good, Wired
<1>3. /\ f \in [Conns -> GoodConn] /\ \A j \in Conns : j # k => f[j] = net[j]
      /\ UpTaken(net[k], f[k]) /\ net[k].phase = "up"
      /\ Head(net[k].up) \in Messages \X (1 .. Parts)
  BY <1>1, ReadUpStep
<1>4. s.in \in Bytes /\ got \in Bytes
  BY <1>1, <1>3 DEF WSlot, Bytes
<1> HIDE DEF f
<1>5. ASSUME NEW v \in GoodSlot, v.state # "none", slot' = [slot EXCEPT ![k] = v], net' = f
      PROVE  Good' /\ LeaderSame(k) /\ UpTaken(net[k], net'[k]) /\ t = v
  <2>1. net' \in [Conns -> GoodConn] /\ \A j \in Conns : j # k => net'[j] = net[j]
    BY <1>3, <1>5
  <2>2. UpTaken(net[k], net'[k])
    BY <1>3, <1>5
  <2>3. /\ net'[k].by = net[k].by /\ net'[k].cgone = net[k].cgone
        /\ net'[k].phase = net[k].phase /\ net'[k].phase = "up" /\ net'[k].sgone = FALSE
    BY <1>2, <1>3, <2>2 DEF UpTaken
  <2> HIDE DEF s, t, got
  <2>4. Good' /\ LeaderSame(k) /\ slot'[k] = v
    BY <1>1, <1>2, <1>5, <2>1, <2>3, LeaderStep
  <2> QED BY <2>2, <2>4 DEF t
<1>6. CASE Len(got) < Parts /\ slot' = [slot EXCEPT ![k].in = got] /\ net' = f
  <2> DEFINE v == [s EXCEPT !.in = got]
  <2>1. /\ v \in GoodSlot /\ v.state = "helo" /\ v.in = got /\ v.dec = <<>> /\ v.took = <<>>
        /\ v.out = <<>>
    BY <1>1, <1>4, <1>6 DEF GoodSlot, WSlot
  <2>2. slot' = [slot EXCEPT ![k] = v]
    BY <1>6
  <2> HIDE DEF v, got
  <2>3. Good' /\ LeaderSame(k) /\ UpTaken(net[k], net'[k]) /\ t = v
    BY <1>5, <1>6, <2>1, <2>2
  <2> QED BY <1>1, <1>2, <1>6, <2>1, <2>3 DEF got
<1>7. CASE slot' = [slot EXCEPT ![k] = NoSlot] /\ net' = LeaderCloses(f, k)
  <2>1. Good' /\ LeaderSame(k) /\ t = NoSlot /\ Cut(net[k], net'[k])
    BY <1>1, <1>3, <1>7, DropStep DEF UpTaken
  <2> QED BY <1>1, <1>2, <2>1
<1>8. CASE /\ got = Packet(HELO) /\ net' = f
           /\ slot' = [slot EXCEPT ![k] =
                [s EXCEPT !.in = got, !.state = "wlcm", !.left = Packet(WLCM),
                          !.mask = {"RD", "WR"}]]
  <2> DEFINE v == [s EXCEPT !.in = got, !.state = "wlcm", !.left = Packet(WLCM),
                            !.mask = {"RD", "WR"}]
  <2>1. /\ v \in GoodSlot /\ v.state = "wlcm" /\ v.left = Packet(WLCM)
        /\ v.dec = <<>> /\ v.took = <<>> /\ v.out = <<>>
    BY <1>1, <1>4, <1>8, Greetings DEF GoodSlot, WSlot, Masks
  <2>2. slot' = [slot EXCEPT ![k] = v]
    BY <1>8
  <2> HIDE DEF v, got
  <2>3. Good' /\ LeaderSame(k) /\ UpTaken(net[k], net'[k]) /\ t = v
    BY <1>5, <1>8, <2>1, <2>2
  <2> QED BY <1>1, <1>2, <1>8, <2>1, <2>3 DEF got
<1>9. \/ Len(got) < Parts /\ slot' = [slot EXCEPT ![k].in = got] /\ net' = f
      \/ slot' = [slot EXCEPT ![k] = NoSlot] /\ net' = LeaderCloses(f, k)
      \/ /\ got = Packet(HELO) /\ net' = f
         /\ slot' = [slot EXCEPT ![k] =
              [s EXCEPT !.in = got, !.state = "wlcm", !.left = Packet(WLCM),
                        !.mask = {"RD", "WR"}]]
  BY DEF ReadHelo, f
<1> QED BY <1>6, <1>7, <1>8, <1>9

(* What is on the way down when a unit is sent. *)
DownSent(n, m, u) ==
  /\ m.phase = n.phase /\ m.by = n.by /\ m.sgone = n.sgone /\ m.cgone = n.cgone
  /\ m.up = n.up
  /\ m.down = IF n.cgone THEN n.down ELSE Append(n.down, u)
  /\ m.rst = FALSE => n.rst = FALSE /\ n.cgone = FALSE

(* A unit is sent down. *)
LEMMA WriteDownStep ==
  ASSUME Good, NEW k \in Conns, net[k].phase = "up", NEW u \in Messages \X (1 .. Parts)
  PROVE  /\ WriteDown(k, u) \in [Conns -> GoodConn]
         /\ \A j \in Conns : j # k => WriteDown(k, u)[j] = net[j]
         /\ DownSent(net[k], WriteDown(k, u)[k], u)
         /\ WriteDown(k, u)[k].base = net[k].base
<1> DEFINE f == WriteDown(k, u)
           m == f[k]
           down == IF net[k].cgone THEN net[k].down ELSE Append(net[k].down, u)
           r == net[k].rst \/ net[k].cgone
<1>1. net[k] \in GoodConn /\ net[k] \in WConn /\ net \in [Conns -> WConn]
      /\ \A j \in Conns : net[j] \in GoodConn
  BY Fields DEF Good, Records, GoodConn
<1>2. down \in Bytes
  BY <1>1 DEF WConn, Bytes
<1>3. f \in [Conns -> WConn] /\ \A j \in Conns : j # k => f[j] = net[j]
  BY <1>1, <1>2 DEF WriteDown, WConn
<1>4. /\ m.phase = net[k].phase /\ m.by = net[k].by /\ m.sgone = net[k].sgone
      /\ m.cgone = net[k].cgone /\ m.base = net[k].base /\ m.up = net[k].up
      /\ m.down = down /\ m.rst = r
  BY <1>1 DEF WriteDown, WConn
<1> HIDE DEF f
<1>5. DownSent(net[k], m, u)
  <2> HIDE DEF m
  <2>1. CASE net[k].rst = FALSE /\ net[k].cgone = FALSE
    BY <1>4, <2>1 DEF DownSent
  <2>2. CASE net[k].rst = TRUE \/ net[k].cgone = TRUE
    <3>1. m.rst = TRUE
      BY <1>4, <2>2
    <3> QED BY <1>4, <3>1 DEF DownSent
  <2> QED BY <1>1, <2>1, <2>2 DEF WConn
<1>6. m \in GoodConn
  BY <1>1, <1>3, <1>4 DEF GoodConn
<1>7. \A j \in Conns : f[j] \in GoodConn
  BY <1>1, <1>3, <1>6
<1> QED BY <1>3, <1>4, <1>5, <1>7 DEF f

(* A unit of the Welcome is sent; behind the last one the stream begins. *)
LEMMA WriteWlcmStep ==
  ASSUME Good, NEW k \in Conns, WriteWlcm(k)
  PROVE  LET s == slot[k]
             t == slot'[k] IN
         /\ Good' /\ LeaderSame(k) /\ s.state = "wlcm" /\ s.left # <<>>
         /\ net[k].rst = FALSE /\ DownSent(net[k], net'[k], Head(s.left))
         /\ net'[k].base = Len(cast)
         /\ t.left = Tail(s.left) /\ t.dec = <<>> /\ t.took = <<>> /\ t.out = <<>>
         /\ t.state = IF Tail(s.left) = <<>> THEN "stream" ELSE "wlcm"
<1> DEFINE s == slot[k]
           u == Head(s.left)
           f == WriteDown(k, u)
           m == net'[k]
<1>1. /\ s.state = "wlcm" /\ s \in GoodSlot /\ s \in WSlot /\ net[k] \in WConn
      /\ UNCHANGED <<cli, alive, ops, heard, cast>>
      /\ net' = [f EXCEPT ![k].base = Len(cast)]
  BY Fields DEF WriteWlcm
<1>2. net[k].rst = FALSE /\ net[k].sgone = FALSE /\ alive = TRUE /\ net[k].phase = "up"
  BY <1>1 DEF WriteWlcm, LeaderWrites, WConn, Good, Wired
<1>3. s.left # <<>> /\ u \in Messages \X (1 .. Parts) /\ Tail(s.left) \in Bytes
  <2>1. s.left # <<>> /\ s.left \in Bytes
    BY <1>1 DEF GoodSlot, WSlot
  <2> QED BY <2>1, Split DEF Bytes
<1>4. /\ f \in [Conns -> GoodConn] /\ \A j \in Conns : j # k => f[j] = net[j]
      /\ DownSent(net[k], f[k], u)
  BY <1>2, <1>3, WriteDownStep
<1> HIDE DEF f
<1>5. Len(cast) \in Nat
  BY DEF Good, Records
<1>6. /\ m \in WConn /\ m.base = Len(cast) /\ m.phase = f[k].phase /\ m.by = f[k].by
      /\ m.up = f[k].up /\ m.down = f[k].down /\ m.cgone = f[k].cgone
      /\ m.sgone = f[k].sgone /\ m.rst = f[k].rst
      /\ \A j \in Conns : j # k => net'[j] = f[j]
  <2>1. f[k] \in WConn
    BY <1>4 DEF GoodConn
  <2>2. m = [f[k] EXCEPT !.base = Len(cast)] /\ \A j \in Conns : j # k => net'[j] = f[j]
    BY <1>1, <1>4
  <2> HIDE DEF m
  <2> QED BY <1>5, <2>1, <2>2 DEF WConn
<1> HIDE DEF m
<1>7. DownSent(net[k], m, u) /\ m.phase = "up"
  BY <1>2, <1>4, <1>6 DEF DownSent
<1>8. m \in GoodConn
  <2>1. f[k] \in GoodConn /\ m.by = f[k].by /\ f[k].phase = "up"
    BY <1>4, <1>6, <1>7
  <2> QED BY <1>6, <1>7, <2>1 DEF GoodConn
<1>9. net' \in [Conns -> GoodConn] /\ \A j \in Conns : j # k => net'[j] = net[j]
  <2>1. net' \in [Conns -> WConn]
    <3>1. f \in [Conns -> WConn]
      BY <1>4 DEF GoodConn
    <3> QED BY <1>1, <1>6, <3>1 DEF m
  <2> QED BY <1>4, <1>6, <1>8, <2>1 DEF m
<1>10. PICK t \in GoodSlot :
         /\ slot' = [slot EXCEPT ![k] = t]
         /\ t.left = Tail(s.left) /\ t.dec = <<>> /\ t.took = <<>> /\ t.out = <<>>
         /\ t.state = IF Tail(s.left) = <<>> THEN "stream" ELSE "wlcm"
  <2>1. <<>> \in Bytes /\ <<>> \in Seq(Int) /\ Len(<<>>) < Parts
    BY PartsAssumption DEF Bytes
  <2>2. CASE Tail(s.left) # <<>>
    <3> DEFINE v == [s EXCEPT !.left = Tail(@)]
    <3>1. v \in GoodSlot /\ v.left = Tail(s.left) /\ v.dec = <<>> /\ v.took = <<>>
          /\ v.out = <<>> /\ v.state = "wlcm"
      BY <1>1, <1>3, <2>2 DEF GoodSlot, WSlot
    <3>2. slot' = [slot EXCEPT ![k] = v]
      BY <2>2 DEF WriteWlcm
    <3> HIDE DEF v
    <3> QED BY <2>2, <3>1, <3>2
  <2>3. CASE Tail(s.left) = <<>>
    <3> DEFINE v == CowCreate([s EXCEPT !.left = <<>>, !.state = "stream"])
    <3>1. v \in GoodSlot /\ v.left = <<>> /\ v.dec = <<>> /\ v.took = <<>>
          /\ v.out = <<>> /\ v.state = "stream"
      BY <1>1, <2>1 DEF GoodSlot, WSlot, CowCreate, Masks
    <3>2. slot' = [slot EXCEPT ![k] = v]
      BY <2>3 DEF WriteWlcm
    <3> HIDE DEF v
    <3> QED BY <2>3, <3>1, <3>2
  <2> QED BY <2>2, <2>3
<1>11. Good' /\ LeaderSame(k) /\ slot'[k] = t
  <2>1. net'[k].by = net[k].by /\ net'[k].cgone = net[k].cgone /\ net'[k].phase = net[k].phase
        /\ net'[k].sgone = FALSE /\ net'[k].phase = "up"
    BY <1>2, <1>7 DEF DownSent, m
  <2> QED BY <1>1, <1>2, <1>9, <1>10, <2>1, LeaderStep
<1> QED BY <1>1, <1>2, <1>3, <1>6, <1>7, <1>10, <1>11 DEF m

(* What an error or the end of the stream leaves of a slot. *)
SameSlot(s, t) ==
  /\ t.state = s.state /\ t.left = s.left /\ t.in = s.in /\ t.dec = s.dec
  /\ t.out = s.out /\ t.took = s.took

(* The leader changes nothing but its interest on an error or at the end. *)
LEMMA LeaderTroubleStep ==
  ASSUME Good, NEW k \in Conns, LeaderTrouble(k)
  PROVE  /\ Good' /\ LeaderSame(k) /\ net' = net /\ SameSlot(slot[k], slot'[k])
<1> DEFINE s == slot[k]
<1>1. s \in GoodSlot /\ s \in WSlot /\ s.state = "stream"
      /\ UNCHANGED <<net, cli, alive, ops, heard, cast>>
  BY Fields DEF LeaderTrouble
<1>2. PICK t \in GoodSlot : SameSlot(s, t) /\ slot' = [slot EXCEPT ![k] = t]
  <2>1. /\ CowError(s) \in GoodSlot /\ SameSlot(s, CowError(s))
        /\ CowEof(s) \in GoodSlot /\ SameSlot(s, CowEof(s))
    BY <1>1 DEF CowError, CowEof, Interest, SameSlot, GoodSlot, WSlot, Masks
  <2> QED BY <2>1 DEF LeaderTrouble
<1>3. net[k].phase = "up" /\ net[k].sgone = FALSE /\ alive = TRUE /\ net \in [Conns -> GoodConn]
  BY <1>1 DEF Good, Records, Wired
<1>4. Good' /\ LeaderSame(k) /\ slot'[k] = t
  BY <1>1, <1>2, <1>3, LeaderStep
<1> QED BY <1>1, <1>2, <1>4

(* The leader sends a unit of a frame. *)
LEMMA LeaderWriteStep ==
  ASSUME Good, NEW k \in Conns, LeaderWrite(k)
  PROVE  LET s == slot[k]
             t == slot'[k] IN
         /\ Good' /\ LeaderSame(k) /\ s.state = "stream" /\ s.out # <<>>
         /\ net[k].rst = FALSE /\ DownSent(net[k], net'[k], Head(s.out))
         /\ net'[k].base = net[k].base
         /\ t.state = "stream" /\ t.left = s.left /\ t.in = s.in /\ t.dec = s.dec
         /\ t.took = s.took /\ t.out = Tail(s.out)
<1> DEFINE s == slot[k]
           t == CowWritten(s)
           u == Head(s.out)
<1>1. /\ s.state = "stream" /\ s \in GoodSlot /\ s \in WSlot /\ net[k] \in WConn /\ s.out # <<>>
      /\ UNCHANGED <<cli, alive, ops, heard, cast>>
      /\ net' = WriteDown(k, u) /\ slot' = [slot EXCEPT ![k] = t]
  BY Fields DEF LeaderWrite
<1>2. net[k].rst = FALSE /\ net[k].sgone = FALSE /\ alive = TRUE /\ net[k].phase = "up"
  BY <1>1 DEF LeaderWrite, LeaderWrites, WConn, Good, Wired
<1>3. u \in Messages \X (1 .. Parts) /\ Tail(s.out) \in Bytes
  <2>1. s.out \in Bytes
    BY <1>1 DEF WSlot
  <2> QED BY <1>1, <2>1, Split DEF Bytes
<1>4. /\ net' \in [Conns -> GoodConn] /\ \A j \in Conns : j # k => net'[j] = net[j]
      /\ DownSent(net[k], net'[k], u) /\ net'[k].base = net[k].base
  BY <1>1, <1>2, <1>3, WriteDownStep
<1>5. /\ t \in GoodSlot /\ t.state = "stream" /\ t.left = s.left /\ t.in = s.in
      /\ t.dec = s.dec /\ t.took = s.took /\ t.out = Tail(s.out)
  BY <1>1, <1>3 DEF CowWritten, Interest, GoodSlot, WSlot, Masks
<1> HIDE DEF t
<1>6. Good' /\ LeaderSame(k) /\ slot'[k] = t
  BY <1>1, <1>2, <1>4, <1>5, LeaderStep DEF DownSent
<1> QED BY <1>1, <1>2, <1>4, <1>5, <1>6

(* What the loop over the slots does to one: a stream is sent more frames. *)
CastTo(s, t, more) ==
  /\ t.state = s.state /\ t.left = s.left /\ t.in = s.in /\ t.dec = s.dec
  /\ t.took = s.took
  /\ t.out = IF s.state = "stream" THEN s.out \o Frames(more) ELSE s.out

(* The loop sends one operation. *)
LEMMA BroadcastStep ==
  ASSUME NEW sl \in [Conns -> GoodSlot], NEW from, NEW id \in Int
  PROVE  /\ Broadcast(sl, from, id) \in [Conns -> GoodSlot]
         /\ \A k \in Conns : CastTo(sl[k], Broadcast(sl, from, id)[k], <<id>>)
<1> SUFFICES ASSUME NEW k \in Conns
             PROVE  LET t == Broadcast(sl, from, id)[k] IN
                    t \in GoodSlot /\ CastTo(sl[k], t, <<id>>)
  BY DEF Broadcast
<1> DEFINE s == sl[k]
<1>1. s \in GoodSlot /\ s \in WSlot
  BY DEF GoodSlot
<1>2. Packet(id) \in Bytes /\ Frames(<<id>>) = Packet(id)
  BY PacketShape, FramesOne DEF Bytes, Unit, Messages
<1>3. CASE s.state = "stream"
  <2> DEFINE t == CowSend(s, id)
  <2>1. s.out \o Packet(id) \in Bytes
    <3>1. s.out \in Bytes
      BY <1>1 DEF WSlot
    <3> QED BY <1>2, <3>1 DEF Bytes
  <2>2. /\ t \in GoodSlot /\ t.state = "stream" /\ t.left = s.left /\ t.in = s.in
        /\ t.dec = s.dec /\ t.took = s.took /\ t.out = s.out \o Packet(id)
    BY <1>1, <1>3, <2>1 DEF CowSend, GoodSlot, WSlot, Masks
  <2>3. Broadcast(sl, from, id)[k] = t
    BY <1>3 DEF Broadcast
  <2> HIDE DEF t
  <2> QED BY <1>2, <1>3, <2>2, <2>3 DEF CastTo
<1>4. CASE s.state # "stream"
  BY <1>1, <1>4 DEF Broadcast, CastTo
<1> QED BY <1>3, <1>4

(* Two one after the other are a pair. *)
LEMMA Pair ==
  ASSUME NEW a \in Int, NEW b \in Int
  PROVE  <<a>> \o <<b>> = <<a, b>>
<1> DEFINE x == <<a>> \o <<b>>
           y == <<a, b>>
<1>1. <<a>> \in Seq(Int) /\ <<b>> \in Seq(Int)
  OBVIOUS
<1>2. x \in Seq(Int) /\ Len(x) = 2 /\ x[1] = a /\ x[2] = b
  BY <1>1, ConcatProperties
<1>3. y \in Seq(Int) /\ Len(y) = 2 /\ y[1] = a /\ y[2] = b
  OBVIOUS
<1> HIDE DEF x, y
<1>4. \A i \in 1 .. Len(x) : x[i] = y[i]
  BY <1>2, <1>3
<1>5. x = y
  BY <1>2, <1>3, <1>4, SeqEqual
<1> QED BY <1>5 DEF x, y

(* Two loops send two operations. *)
LEMMA CastTwice ==
  ASSUME NEW s \in WSlot, NEW t \in WSlot, NEW v \in WSlot, NEW a \in Int, NEW b \in Int,
         CastTo(s, t, <<a>>), CastTo(t, v, <<b>>)
  PROVE  CastTo(s, v, <<a, b>>)
<1>1. Frames(<<a, b>>) = Frames(<<a>>) \o Frames(<<b>>)
      /\ Frames(<<a>>) \in Bytes /\ Frames(<<b>>) \in Bytes
  <2>1. <<a>> \in Seq(Messages) /\ <<b>> \in Seq(Messages)
    BY DEF Messages
  <2>3. <<a>> \o <<b>> = <<a, b>>
    BY Pair
  <2>2. Frames(<<a>> \o <<b>>) = Frames(<<a>>) \o Frames(<<b>>)
    BY <2>1, FramesConcat
  <2> QED BY <2>1, <2>2, <2>3, FramesShape DEF Bytes, Unit
<1>2. s.out \in Bytes
  BY DEF WSlot
<1>3. (s.out \o Frames(<<a>>)) \o Frames(<<b>>) = s.out \o (Frames(<<a>>) \o Frames(<<b>>))
  <2> DEFINE fa == Frames(<<a>>)
             fb == Frames(<<b>>)
             x == s.out
             U == Messages \X (1 .. Parts)
  <2>1. x \in Seq(U) /\ fa \in Seq(U) /\ fb \in Seq(U)
    BY <1>1, <1>2 DEF Bytes
  <2> HIDE DEF fa, fb, x, U
  <2>2. (x \o fa) \o fb = x \o (fa \o fb)
    BY <2>1, ConcatAssociative
  <2> QED BY <2>2 DEF fa, fb, x
<1> QED BY <1>1, <1>3 DEF CastTo

(* A broadcast leaves the parts together. *)
LEMMA CastStep ==
  ASSUME Good,
         net' \in [Conns -> GoodConn],
         \A j \in Conns : UpTaken(net[j], net'[j]) \/ net'[j] = net[j],
         slot' \in [Conns -> GoodSlot],
         \A j \in Conns : slot'[j].state = slot[j].state,
         UNCHANGED <<cli, alive>>,
         ops' \in Seq([from : Procs, kind : {"line", "command", "answer"}]),
         heard' \in [Procs -> Seq(Int)],
         cast' \in Seq(Int)
  PROVE  Good'
<1>1. \A j \in Conns : /\ net'[j].phase = net[j].phase /\ net'[j].by = net[j].by
                       /\ net'[j].cgone = net[j].cgone /\ net'[j].sgone = net[j].sgone
  BY DEF UpTaken
<1>2. \A j \in Conns : net[j].phase # "unused" => net[j].by \in Clients
  BY Fields DEF GoodConn
<1>3. \A c \in Clients : cli[c].fd # NoFd => cli[c].fd \in Conns
  BY Fields
<1>4. Wired'
  <2>1. ASSUME NEW c \in Clients, cli'[c].fd # NoFd
        PROVE  /\ net'[cli'[c].fd].by = c
               /\ net'[cli'[c].fd].cgone = FALSE
               /\ cli'[c].st # "CONNECTING" => net'[cli'[c].fd].phase = "up"
               /\ \A j \in Conns : net'[j].by = c => j <= cli'[c].fd
    BY <1>1, <1>3, <2>1 DEF Good, Wired
  <2>2. ASSUME NEW j \in Conns, net'[j].phase # "unused", net'[j].cgone = FALSE
        PROVE  cli'[net'[j].by].fd = j
    BY <1>1, <1>2, <2>2 DEF Good, Wired
  <2>3. ASSUME NEW j \in Conns, slot'[j].state # "none"
        PROVE  net'[j].phase = "up" /\ net'[j].sgone = FALSE /\ alive' = TRUE
    BY <1>1, <2>3 DEF Good, Wired
  <2> QED BY <2>1, <2>2, <2>3 DEF Wired
<1>5. Records'
  BY DEF Good, Records
<1> QED BY <1>4, <1>5 DEF Good

(* The leader publishes. *)
LEMMA LeaderPublishStep ==
  ASSUME Good, NEW kind \in DOMAIN MaxOps, LeaderPublish(kind)
  PROVE  /\ Good' /\ net' = net /\ cli' = cli
         /\ ops' = Append(ops, [from |-> L, kind |-> kind])
         /\ heard' = [heard EXCEPT ![L] = Append(@, NewId)]
         /\ cast' = cast \o <<NewId>> /\ NewId \in Int
         /\ \A k \in Conns : CastTo(slot[k], slot'[k], <<NewId>>)
<1>1. /\ ops' = Append(ops, [from |-> L, kind |-> kind])
      /\ heard' = [heard EXCEPT ![L] = Append(@, NewId)]
      /\ slot' = Broadcast(slot, NoFd, NewId)
      /\ cast' = Append(cast, NewId)
      /\ UNCHANGED <<net, cli, alive>>
  BY DEF LeaderPublish, NewId
<1>2. /\ NewId \in Int /\ cast \in Seq(Int) /\ heard \in [Procs -> Seq(Int)] /\ L \in Procs
      /\ net \in [Conns -> GoodConn] /\ slot \in [Conns -> GoodSlot]
  BY DEF Good, Records, NewId, Procs
<1>3. slot' \in [Conns -> GoodSlot] /\ \A k \in Conns : CastTo(slot[k], slot'[k], <<NewId>>)
  BY <1>1, <1>2, BroadcastStep
<1>4. cast' \in Seq(Int) /\ cast' = cast \o <<NewId>>
  BY <1>1, <1>2
<1>5. heard' \in [Procs -> Seq(Int)]
  <2>1. heard[L] \in Seq(Int) /\ Append(heard[L], NewId) \in Seq(Int)
    BY <1>2
  <2> QED BY <1>1, <1>2, <2>1
<1>6. ops' \in Seq([from : Procs, kind : {"line", "command", "answer"}])
  <2>1. DOMAIN MaxOps = {"line", "command"}
    BY StarAssumption
  <2> QED BY <1>1, <2>1 DEF Good, Records, Procs
<1>7. Good'
  <2>1. /\ \A j \in Conns : slot'[j].state = slot[j].state
    BY <1>3 DEF CastTo
  <2> QED BY <1>1, <1>2, <1>3, <1>4, <1>5, <1>6, <2>1, CastStep
<1> QED BY <1>1, <1>2, <1>3, <1>4, <1>7

(* What the leader reads is heard and sent to all, behind its answer. *)
LEMMA LeaderReadStep ==
  ASSUME Good, NEW k \in Conns, LeaderRead(k)
  PROVE  LET s == slot[k]
             t == slot'[k]
             u == Head(net[k].up)
             got == Append(s.dec, u) IN
         /\ Good' /\ cli' = cli /\ s.state = "stream" /\ net[k].rst = FALSE
         /\ net[k].up # <<>> /\ u \in Messages \X (1 .. Parts)
         /\ UpTaken(net[k], net'[k]) /\ \A j \in Conns : j # k => net'[j] = net[j]
         /\ \A c \in Clients : heard'[c] = heard[c]
         /\ t.state = "stream" /\ t.left = s.left /\ t.in = s.in
         /\ t.dec = IF Len(got) = Parts THEN <<>> ELSE got
         /\ t.took = IF Len(got) = Parts THEN Append(s.took, u[1]) ELSE s.took
         /\ \E more \in Seq(Int) :
              /\ cast' = cast \o more
              /\ t.out = s.out \o Frames(more)
              /\ \A j \in Conns : j # k => CastTo(slot[j], slot'[j], more)
              /\ IF Len(got) = Parts /\ got = Packet(u[1])
                 THEN \/ /\ Answers(L, u[1]) /\ ops' = Append(ops, Answer(L))
                         /\ more = <<NewId, u[1]>>
                         /\ heard' = [heard EXCEPT ![L] = @ \o <<u[1], NewId>>]
                      \/ /\ ~Answers(L, u[1]) /\ ops' = ops
                         /\ more = <<u[1]>>
                         /\ heard' = [heard EXCEPT ![L] = Append(@, u[1])]
                 ELSE ops' = ops /\ more = <<>> /\ heard' = heard
<1> DEFINE s == slot[k]
           u == Head(net[k].up)
           got == Append(s.dec, u)
           hears == Len(got) = Parts /\ got = Packet(u[1])
           e == [CowRead(s, u) EXCEPT
                  !.took = IF FrameEnds(s, u) THEN Append(@, u[1]) ELSE @]
           sl == [slot EXCEPT ![k] = e]
<1>1. /\ s.state = "stream" /\ s \in GoodSlot /\ s \in WSlot /\ net[k] \in WConn
      /\ net[k].up # <<>> /\ UNCHANGED <<cli, alive>>
      /\ net' = [net EXCEPT ![k].up = Tail(@)]
  BY Fields DEF LeaderRead
<1>2. net[k].rst = FALSE
  BY <1>1 DEF LeaderRead, LeaderReads, WConn
<1>3. /\ net' \in [Conns -> GoodConn] /\ \A j \in Conns : j # k => net'[j] = net[j]
      /\ UpTaken(net[k], net'[k]) /\ u \in Messages \X (1 .. Parts)
  BY <1>1, ReadUpStep
<1>4. /\ u[1] \in Int /\ s.dec \in Bytes /\ got \in Bytes /\ Len(got) = Len(s.dec) + 1
      /\ Len(s.dec) < Parts
  <2>1. s.dec \in Bytes /\ Len(s.dec) < Parts
    BY <1>1 DEF GoodSlot, WSlot
  <2> HIDE DEF u
  <2> QED BY <1>3, <2>1 DEF Bytes, Messages
<1>5. /\ e \in GoodSlot /\ e.state = "stream" /\ e.left = s.left /\ e.in = s.in
      /\ e.dec = (IF Len(got) = Parts THEN <<>> ELSE got) /\ e.out = s.out
      /\ e.took = IF Len(got) = Parts THEN Append(s.took, u[1]) ELSE s.took
  <2> HIDE DEF got, u
  <2> DEFINE d == IF Len(got) = Parts THEN <<>> ELSE got
             a == IF Len(got) = Parts THEN Append(s.took, u[1]) ELSE s.took
             m == Interest(s.out)
  <2>1. d \in Bytes /\ Len(d) < Parts
    BY <1>4, PartsAssumption DEF Bytes
  <2>2. m \in Masks
    BY DEF Interest, Masks
  <2>3. a \in Seq(Int)
    BY <1>1, <1>4 DEF WSlot
  <2>4. e = [s EXCEPT !.dec = d, !.mask = m, !.took = a]
    BY <1>1 DEF CowRead, FrameEnds, Received, got, u, WSlot
  <2> HIDE DEF d, m, a, e
  <2>5. /\ e \in WSlot /\ e.state = s.state /\ e.left = s.left /\ e.in = s.in
        /\ e.dec = d /\ e.out = s.out /\ e.took = a
    BY <1>1, <2>1, <2>2, <2>3, <2>4 DEF WSlot
  <2>6. e \in GoodSlot
    BY <1>1, <2>1, <2>5 DEF GoodSlot
  <2> QED BY <1>1, <2>5, <2>6 DEF d, a
<1> HIDE DEF e
<1>6. sl \in [Conns -> GoodSlot] /\ sl[k] = e /\ \A j \in Conns : j # k => sl[j] = slot[j]
  BY <1>5 DEF Good, Records
<1>7. /\ NewId \in Int /\ cast \in Seq(Int) /\ heard \in [Procs -> Seq(Int)] /\ L \in Procs
      /\ ops \in Seq([from : Procs, kind : {"line", "command", "answer"}])
  BY DEF Good, Records, NewId, Procs
<1>8. /\ hears /\ Answers(L, u[1]) =>
           /\ ops' = Append(ops, Answer(L))
           /\ heard' = [heard EXCEPT ![L] = @ \o <<u[1], NewId>>]
           /\ slot' = Broadcast(Broadcast(sl, NoFd, NewId), k, u[1])
           /\ cast' = cast \o <<NewId, u[1]>>
      /\ hears /\ ~Answers(L, u[1]) =>
           /\ ops' = ops
           /\ heard' = [heard EXCEPT ![L] = Append(@, u[1])]
           /\ slot' = Broadcast(sl, k, u[1])
           /\ cast' = Append(cast, u[1])
      /\ ~hears => slot' = sl /\ UNCHANGED <<heard, cast, ops>>
  BY DEF LeaderRead, FrameEnds, FrameValid, Received, NewId, e
<1> HIDE DEF hears, got, u, sl
<1>9. \E more \in Seq(Int) :
         /\ cast' = cast \o more /\ slot' \in [Conns -> GoodSlot]
         /\ \A j \in Conns : CastTo(sl[j], slot'[j], more)
         /\ IF hears
            THEN \/ /\ Answers(L, u[1]) /\ ops' = Append(ops, Answer(L))
                    /\ more = <<NewId, u[1]>>
                    /\ heard' = [heard EXCEPT ![L] = @ \o <<u[1], NewId>>]
                 \/ /\ ~Answers(L, u[1]) /\ ops' = ops
                    /\ more = <<u[1]>>
                    /\ heard' = [heard EXCEPT ![L] = Append(@, u[1])]
            ELSE ops' = ops /\ more = <<>> /\ heard' = heard
  <2>1. CASE hears /\ Answers(L, u[1])
    <3> DEFINE b == Broadcast(sl, NoFd, NewId)
               w == Broadcast(b, k, u[1])
    <3>1. b \in [Conns -> GoodSlot] /\ \A j \in Conns : CastTo(sl[j], b[j], <<NewId>>)
      BY <1>6, <1>7, BroadcastStep
    <3> HIDE DEF b
    <3>2. w \in [Conns -> GoodSlot] /\ \A j \in Conns : CastTo(b[j], w[j], <<u[1]>>)
      BY <1>4, <3>1, BroadcastStep
    <3> HIDE DEF w
    <3>3. \A j \in Conns : sl[j] \in WSlot /\ b[j] \in WSlot /\ w[j] \in WSlot
      BY <1>6, <3>1, <3>2 DEF GoodSlot
    <3>4. \A j \in Conns : CastTo(sl[j], w[j], <<NewId, u[1]>>)
      BY <1>4, <1>7, <3>1, <3>2, <3>3, CastTwice
    <3>5. <<NewId, u[1]>> \in Seq(Int) /\ slot' = w
      BY <1>4, <1>7, <1>8, <2>1 DEF b, w
    <3> QED BY <1>8, <2>1, <3>2, <3>4, <3>5
  <2>2. CASE hears /\ ~Answers(L, u[1])
    <3> DEFINE w == Broadcast(sl, k, u[1])
    <3>1. w \in [Conns -> GoodSlot] /\ \A j \in Conns : CastTo(sl[j], w[j], <<u[1]>>)
      BY <1>4, <1>6, BroadcastStep
    <3>2. slot' = w
      BY <1>8, <2>2
    <3> HIDE DEF w
    <3>3. <<u[1]>> \in Seq(Int) /\ cast' = cast \o <<u[1]>>
      <4>1. <<u[1]>> \in Seq(Int)
        BY <1>4
      <4>2. Append(cast, u[1]) = cast \o <<u[1]>>
        BY <1>4, <1>7, AppendIsConcat
      <4> QED BY <1>8, <2>2, <4>1, <4>2
    <3> QED BY <1>8, <2>2, <3>1, <3>2, <3>3
  <2>3. CASE ~hears
    <3>1. <<>> \in Seq(Int) /\ cast' = cast \o <<>>
      BY <1>7, <1>8, <2>3
    <3>2. \A j \in Conns : CastTo(sl[j], sl[j], <<>>)
      <4>1. \A j \in Conns : sl[j].out \o <<>> = sl[j].out
        BY <1>6, ConcatEmptySeq DEF GoodSlot, WSlot, Bytes
      <4> QED BY <4>1, FramesEmpty DEF CastTo
    <3> QED BY <1>6, <1>8, <2>3, <3>1, <3>2
  <2> QED BY <2>1, <2>2, <2>3
<1>10. PICK more \in Seq(Int) : <1>9!(more)
  BY <1>9
<1>11. \A j \in Conns : slot'[j].state = slot[j].state
  BY <1>1, <1>5, <1>6, <1>10 DEF CastTo
<1>12. /\ cast' \in Seq(Int) /\ heard' \in [Procs -> Seq(Int)]
       /\ \A c \in Clients : heard'[c] = heard[c]
  <2>1. cast' \in Seq(Int)
    BY <1>7, <1>10
  <2>2. /\ Append(heard[L], u[1]) \in Seq(Int)
        /\ heard[L] \o <<u[1], NewId>> \in Seq(Int)
    BY <1>4, <1>7
  <2>3. \A c \in Clients : c # L /\ c \in Procs
    BY StarAssumption DEF Procs
  <2> QED BY <1>7, <1>10, <2>1, <2>2, <2>3
<1>13. ops' \in Seq([from : Procs, kind : {"line", "command", "answer"}])
  <2> DEFINE R == [from : Procs, kind : {"line", "command", "answer"}]
  <2>1. Answer(L) \in R
    BY <1>7 DEF Answer
  <2> HIDE DEF R
  <2>2. ops \in Seq(R) /\ Append(ops, Answer(L)) \in Seq(R)
    BY <1>7, <2>1 DEF R
  <2>3. ops' = ops \/ ops' = Append(ops, Answer(L))
    BY <1>10
  <2> QED BY <2>2, <2>3 DEF R
<1>14. Good'
  BY <1>1, <1>3, <1>10, <1>11, <1>12, <1>13, CastStep
<1>15. /\ slot'[k].state = "stream" /\ slot'[k].left = s.left /\ slot'[k].in = s.in
       /\ slot'[k].dec = (IF Len(got) = Parts THEN <<>> ELSE got)
       /\ slot'[k].took = (IF Len(got) = Parts THEN Append(s.took, u[1]) ELSE s.took)
       /\ slot'[k].out = s.out \o Frames(more)
  BY <1>5, <1>6, <1>10 DEF CastTo
<1>16. \A j \in Conns : j # k => CastTo(slot[j], slot'[j], more)
  BY <1>6, <1>10
<1> QED BY <1>1, <1>2, <1>3, <1>10, <1>12, <1>14, <1>15, <1>16 DEF hears, got, u

(* The leader's end cuts the connections it has or might have accepted. *)
LEMMA LeaderQuitsStep ==
  ASSUME Good, LeaderQuits
  PROVE  /\ Good' /\ cli' = cli /\ alive' = FALSE
         /\ \A k \in Conns :
              /\ slot'[k] = NoSlot
              /\ IF net[k].phase = "up" THEN Cut(net[k], net'[k]) ELSE net'[k] = net[k]
<1>1. /\ alive' = FALSE /\ slot' = [k \in Conns |-> NoSlot] /\ net \in [Conns -> GoodConn]
      /\ UNCHANGED <<cli, ops, heard, cast>>
  BY DEF LeaderQuits, Good, Records
<1>2. ASSUME NEW k \in Conns
      PROVE  /\ net'[k] \in GoodConn
             /\ IF net[k].phase = "up" THEN Cut(net[k], net'[k]) ELSE net'[k] = net[k]
  <2>1. CASE k \in Taken
    <3>1. net[k].phase = "up"
      BY <2>1 DEF Good, Wired, Taken
    <3>2. net'[k] = LeaderCloses(net, k)[k]
      BY <2>1 DEF LeaderQuits
    <3> QED BY <1>1, <3>1, <3>2, LeaderClosesStep
  <2>2. CASE k \notin Taken /\ net[k].phase = "up"
    <3> DEFINE n == net[k]
               r == n.rst \/ ~n.sgone
               m == [n EXCEPT !.sgone = TRUE, !.up = <<>>, !.rst = r]
    <3>1. net'[k] = m
      BY <2>2 DEF LeaderQuits
    <3>2. n \in GoodConn /\ n \in WConn /\ <<>> \in Bytes
      BY Fields DEF Bytes
    <3>3. /\ m \in WConn /\ m.phase = "up" /\ m.by = n.by /\ m.down = n.down
          /\ m.cgone = n.cgone /\ m.base = n.base /\ m.sgone = TRUE /\ m.up = <<>>
          /\ m.rst = r
      BY <2>2, <3>2 DEF WConn
    <3> HIDE DEF m
    <3>4. Cut(n, m)
      <4>1. CASE n.rst = TRUE
        BY <2>2, <3>3, <4>1 DEF Cut
      <4>2. CASE n.rst = FALSE
        BY <2>2, <3>3, <4>2 DEF Cut
      <4> QED BY <3>2, <4>1, <4>2 DEF WConn
    <3>5. m \in GoodConn
      BY <2>2, <3>2, <3>3 DEF GoodConn
    <3> QED BY <2>2, <3>1, <3>4, <3>5
  <2>3. CASE k \notin Taken /\ net[k].phase # "up"
    BY <1>1, <2>3 DEF LeaderQuits
  <2> QED BY <2>1, <2>2, <2>3
<1>3. net' \in [Conns -> GoodConn]
  BY <1>2 DEF LeaderQuits
<1>4. \A k \in Conns : slot'[k] = NoSlot
  BY <1>1
<1>5. Records'
  BY <1>1, <1>3, NoSlotGood DEF Good, Records
<1>6. \A k \in Conns : /\ net'[k].phase = net[k].phase /\ net'[k].by = net[k].by
                       /\ net'[k].cgone = net[k].cgone
  BY <1>2 DEF Cut
<1>7. Wired'
  <2>1. ASSUME NEW c \in Clients, cli'[c].fd # NoFd
        PROVE  /\ net'[cli'[c].fd].by = c
               /\ net'[cli'[c].fd].cgone = FALSE
               /\ cli'[c].st # "CONNECTING" => net'[cli'[c].fd].phase = "up"
               /\ \A j \in Conns : net'[j].by = c => j <= cli'[c].fd
    BY <1>1, <1>6, <2>1, Fields DEF Good, Wired
  <2>2. ASSUME NEW j \in Conns, net'[j].phase # "unused", net'[j].cgone = FALSE
        PROVE  cli'[net'[j].by].fd = j
    <3>1. net[j].by \in Clients
      BY <1>6, <2>2, Fields DEF GoodConn
    <3> QED BY <1>1, <1>6, <2>2, <3>1 DEF Good, Wired
  <2>3. \A j \in Conns : slot'[j].state = "none"
    BY <1>4 DEF NoSlot
  <2> QED BY <2>1, <2>2, <2>3 DEF Wired
<1> QED BY <1>1, <1>2, <1>4, <1>5, <1>7 DEF Good

(* At the start nothing is there. *)
LEMMA InitGood ==
  ASSUME Init
  PROVE  Good
<1>1. NoConn \in GoodConn /\ <<>> \in Seq(Int)
  BY DEF NoConn, GoodConn, WConn, Procs, Bytes
<1>2. IdleClient(<<>>) \in GoodCli /\ NoSlot \in GoodSlot
  BY <1>1, IdleGood, NoSlotGood
<1>3. /\ net \in [Conns -> GoodConn] /\ cli \in [Clients -> GoodCli]
      /\ slot \in [Conns -> GoodSlot]
  BY <1>1, <1>2 DEF Init
<1>4. Records
  BY <1>3 DEF Init, Records
<1>5. Wired
  BY DEF Init, Wired, NoConn, IdleClient, NoSlot, NoFd
<1> QED BY <1>4, <1>5 DEF Good

(* Every step leaves the parts together. *)
LEMMA NextGood ==
  ASSUME Good, [Next]_vars
  PROVE  Good'
<1>1. CASE UNCHANGED vars
  BY <1>1 DEF Good, Records, Wired, vars
<1>2. ASSUME NEW c \in Clients, ConnectFails(c) \/ Disconnect(c) PROVE Good'
  BY <1>2, ToIdleStep DEF ConnectFails, Disconnect
<1>3. ASSUME NEW c \in Clients, NEW k \in Conns, NEW async \in Async, Connect(c, k, async)
      PROVE  Good'
  BY <1>3, ConnectStep
<1>4. ASSUME NEW c \in Clients, NEW kind \in DOMAIN MaxOps, ClientPublish(c, kind)
      PROVE  Good'
  BY <1>4, ClientPublishStep
<1>5. ASSUME NEW kind \in DOMAIN MaxOps, LeaderPublish(kind) PROVE Good'
  BY <1>5, LeaderPublishStep
<1>6. ASSUME LeaderQuits PROVE Good'
  BY <1>6, LeaderQuitsStep
<1>7. ASSUME NEW c \in Clients, HandshakeBreaks(c) PROVE Good'
  <2>1. cli[c].st # "IDLE"
    BY <1>7, Fields DEF HandshakeBreaks, GoodCli
  <2> QED BY <1>7, <2>1, ToIdleStep DEF HandshakeBreaks
<1>8. ASSUME NEW c \in Clients, ClientTick(c) PROVE Good'
  BY <1>7, <1>8, OnConnectStep, WriteHeloStep, ReadWlcmStep, ClientTroubleStep,
     ClientWriteStep, ClientReadStep DEF ClientTick
<1>9. ASSUME NEW k \in Conns, LeaderTick(k) PROVE Good'
  BY <1>9, AcceptStep, ClientLeavesStep, ReadHeloStep, WriteWlcmStep, LeaderTroubleStep,
     LeaderWriteStep, LeaderReadStep DEF LeaderTick
<1>10. ASSUME NEW k \in Conns, Establish(k) \/ Refuse(k) PROVE Good'
  BY <1>10, NetworkStep
<1> QED BY <1>1, <1>2, <1>3, <1>4, <1>5, <1>6, <1>8, <1>9, <1>10 DEF Next, User

(* The records stay well formed and the parts together. *)
THEOREM StaysGood == Spec => []Good
<1> QED BY InitGood, NextGood, PTL DEF Spec

-----------------------------------------------------------------------------
(* What is on the way down *)

(* What of a sequence is behind its first i. *)
Rest(ids, i) == SubSeq(ids, i + 1, Len(ids))

(* What is behind is a sequence, the whole one at the start, *)
LEMMA RestType ==
  ASSUME NEW ids \in Seq(Int), NEW i \in 0 .. Len(ids)
  PROVE  /\ Rest(ids, i) \in Seq(Int) /\ Len(Rest(ids, i)) = Len(ids) - i
         /\ \A j \in 1 .. Len(ids) - i : Rest(ids, i)[j] = ids[i + j]
<1>1. Len(ids) \in Nat /\ i + 1 \in 1 .. Len(ids) + 1
  OBVIOUS
<1>2. \A j \in i + 1 .. Len(ids) : ids[j] \in Int
  BY <1>1
<1> QED BY <1>1, <1>2 DEF Rest

(* its first is the next of the whole, *)
LEMMA RestNext ==
  ASSUME NEW ids \in Seq(Int), NEW i \in 0 .. Len(ids), Rest(ids, i) # <<>>
  PROVE  /\ i < Len(ids) /\ i + 1 \in 0 .. Len(ids)
         /\ Head(Rest(ids, i)) = ids[i + 1] /\ Tail(Rest(ids, i)) = Rest(ids, i + 1)
<1> DEFINE s == Rest(ids, i)
           t == Rest(ids, i + 1)
<1>1. /\ s \in Seq(Int) /\ Len(s) = Len(ids) - i
      /\ \A j \in 1 .. Len(ids) - i : s[j] = ids[i + j]
  BY RestType
<1>2. Len(ids) \in Nat /\ Len(s) # 0
  <2> HIDE DEF s
  <2>1. s # <<>>
    BY DEF s
  <2> QED BY <1>1, <2>1
<1>3. i < Len(ids) /\ i + 1 \in 0 .. Len(ids)
  <2> HIDE DEF s
  <2> QED BY <1>1, <1>2
<1>4. /\ t \in Seq(Int) /\ Len(t) = Len(ids) - (i + 1)
      /\ \A j \in 1 .. Len(ids) - (i + 1) : t[j] = ids[(i + 1) + j]
  BY <1>3, RestType
<1> HIDE DEF s, t
<1>5. s # <<>> /\ Head(s) = ids[i + 1]
  BY <1>1, <1>2, <1>3
<1>6. Tail(s) \in Seq(Int) /\ Len(Tail(s)) = Len(t)
      /\ \A j \in 1 .. Len(Tail(s)) : Tail(s)[j] = s[j + 1]
  BY <1>1, <1>3, <1>4, <1>5
<1>7. \A j \in 1 .. Len(Tail(s)) : Tail(s)[j] = t[j]
  <2> SUFFICES ASSUME NEW j \in 1 .. Len(Tail(s)) PROVE Tail(s)[j] = t[j]
    OBVIOUS
  <2>1. j \in 1 .. Len(ids) - (i + 1) /\ j + 1 \in 1 .. Len(ids) - i
    BY <1>2, <1>3, <1>4, <1>6
  <2>2. t[j] = ids[(i + 1) + j] /\ s[j + 1] = ids[i + (j + 1)]
    BY <1>1, <1>4, <2>1
  <2> QED BY <1>6, <2>1, <2>2
<1>8. Tail(s) = t
  BY <1>4, <1>6, <1>7, SeqEqual
<1> QED BY <1>3, <1>5, <1>8 DEF s, t

(* and it grows with the whole. *)
LEMMA RestMore ==
  ASSUME NEW ids \in Seq(Int), NEW i \in 0 .. Len(ids), NEW more \in Seq(Int)
  PROVE  /\ ids \o more \in Seq(Int) /\ i \in 0 .. Len(ids \o more)
         /\ Rest(ids \o more, i) = Rest(ids, i) \o more
<1> DEFINE all == ids \o more
           s == Rest(ids, i)
           t == Rest(all, i)
           p == s \o more
<1>1. /\ all \in Seq(Int) /\ Len(all) = Len(ids) + Len(more)
      /\ \A j \in 1 .. Len(ids) + Len(more) :
           all[j] = IF j <= Len(ids) THEN ids[j] ELSE more[j - Len(ids)]
  BY ConcatProperties
<1> HIDE DEF all
<1>2. Len(ids) \in Nat /\ Len(more) \in Nat /\ i \in 0 .. Len(all)
  BY <1>1
<1>3. /\ s \in Seq(Int) /\ Len(s) = Len(ids) - i
      /\ \A j \in 1 .. Len(ids) - i : s[j] = ids[i + j]
  BY RestType
<1>4. /\ t \in Seq(Int) /\ Len(t) = Len(all) - i
      /\ \A j \in 1 .. Len(all) - i : t[j] = all[i + j]
  BY <1>1, <1>2, RestType
<1> HIDE DEF s, t
<1>5. /\ p \in Seq(Int) /\ Len(p) = Len(s) + Len(more)
      /\ \A j \in 1 .. Len(s) + Len(more) :
           p[j] = IF j <= Len(s) THEN s[j] ELSE more[j - Len(s)]
  BY <1>3, ConcatProperties
<1> HIDE DEF p
<1>6. \A j \in 1 .. Len(t) : t[j] = p[j]
  <2> SUFFICES ASSUME NEW j \in 1 .. Len(t) PROVE t[j] = p[j]
    OBVIOUS
  <2>1. /\ j \in 1 .. Len(all) - i /\ j \in 1 .. Len(s) + Len(more)
        /\ i + j \in 1 .. Len(ids) + Len(more)
    BY <1>1, <1>2, <1>3, <1>4
  <2>2. CASE j <= Len(s)
    <3>1. i + j <= Len(ids) /\ j \in 1 .. Len(ids) - i
      BY <1>2, <1>3, <2>1, <2>2
    <3> QED BY <1>1, <1>3, <1>4, <1>5, <2>1, <2>2, <3>1
  <2>3. CASE j > Len(s)
    <3>1. (i + j) - Len(ids) = j - Len(s) /\ ~(i + j <= Len(ids)) /\ ~(j <= Len(s))
      BY <1>2, <1>3, <2>1, <2>3
    <3> QED BY <1>1, <1>4, <1>5, <2>1, <3>1
  <2> QED BY <1>3, <2>1, <2>2, <2>3
<1>7. Len(t) = Len(p)
  BY <1>1, <1>2, <1>3, <1>4, <1>5
<1>8. t = p
  BY <1>4, <1>5, <1>6, <1>7, SeqEqual
<1> QED BY <1>1, <1>2, <1>8 DEF s, t, p, all

(* Nothing is behind the end. *)
LEMMA RestNone ==
  ASSUME NEW ids \in Seq(Int)
  PROVE  Rest(ids, Len(ids)) = <<>>
<1>1. Len(ids) \in 0 .. Len(ids)
  OBVIOUS
<1>2. Rest(ids, Len(ids)) \in Seq(Int) /\ Len(Rest(ids, Len(ids))) = 0
  BY <1>1, RestType
<1> QED BY <1>2

(* Three sequences may be joined in either order. *)
Assoc(a, b, c) == (a \o b) \o c = a \o (b \o c)

(* They may. *)
LEMMA SeqAssoc ==
  ASSUME NEW U, NEW a \in Seq(U), NEW b \in Seq(U), NEW c \in Seq(U)
  PROVE  Assoc(a, b, c)
<1> DEFINE x == (a \o b) \o c
           y == a \o (b \o c)
<1>1. a \o b \in Seq(U) /\ b \o c \in Seq(U) /\ x \in Seq(U) /\ y \in Seq(U)
  BY ConcatProperties
<1>2. /\ Len(x) = Len(a) + Len(b) + Len(c) /\ Len(y) = Len(x)
      /\ Len(a \o b) = Len(a) + Len(b)
  BY <1>1
<1>3. \A i \in 1 .. Len(x) : x[i] = y[i]
  BY <1>1, <1>2
<1>4. x = y
  BY <1>1, <1>2, <1>3, SeqEqual
<1> QED BY <1>4 DEF Assoc

(* Sequences of operations are joined like all sequences. *)
LEMMA IdsAssoc ==
  ASSUME NEW a \in Seq(Int), NEW b \in Seq(Int), NEW c \in Seq(Int)
  PROVE  (a \o b) \o c = a \o (b \o c)
<1>1. Assoc(a, b, c)
  BY SeqAssoc
<1> QED BY <1>1 DEF Assoc

(* Bytes are joined like sequences, *)
LEMMA BytesAssocs ==
  ASSUME NEW a \in Bytes, NEW b \in Bytes, NEW c \in Bytes
  PROVE  Assoc(a, b, c)
<1> DEFINE U == Messages \X (1 .. Parts)
<1>1. a \in Seq(U) /\ b \in Seq(U) /\ c \in Seq(U)
  BY DEF Bytes
<1> HIDE DEF U
<1> QED BY <1>1, SeqAssoc

(* in either order *)
LEMMA BytesAssoc ==
  ASSUME NEW a \in Bytes, NEW b \in Bytes, NEW c \in Bytes
  PROVE  (a \o b) \o c = a \o (b \o c)
<1>1. Assoc(a, b, c)
  BY BytesAssocs
<1> QED BY <1>1 DEF Assoc

(* and make bytes. *)
LEMMA BytesType ==
  ASSUME NEW a \in Bytes, NEW b \in Bytes
  PROVE  /\ a \o b \in Bytes /\ Len(a \o b) = Len(a) + Len(b)
         /\ <<>> \in Bytes /\ <<>> \o a = a /\ a \o <<>> = a
<1> DEFINE U == Messages \X (1 .. Parts)
<1>1. a \in Seq(U) /\ b \in Seq(U)
  BY DEF Bytes
<1> HIDE DEF U
<1>2. a \o b \in Seq(U) /\ Len(a \o b) = Len(a) + Len(b)
  BY <1>1, ConcatProperties
<1>3. <<>> \o a = a /\ a \o <<>> = a /\ <<>> \in Seq(U)
  BY <1>1, ConcatEmptySeq
<1> QED BY <1>2, <1>3 DEF U, Bytes

(* Frames of what is more follow. *)
LEMMA FramesMore ==
  ASSUME NEW a \in Bytes, NEW b \in Bytes, NEW t \in Seq(Int), NEW more \in Seq(Int),
         a \o b = Frames(t)
  PROVE  /\ b \o Frames(more) \in Bytes
         /\ a \o (b \o Frames(more)) = Frames(t \o more)
<1> DEFINE f == Frames(more)
<1>1. f \in Bytes /\ Frames(t \o more) = Frames(t) \o f
  <2>1. t \in Seq(Messages) /\ more \in Seq(Messages)
    BY DEF Messages
  <2> QED BY <2>1, FramesConcat, FramesShape DEF Bytes, Unit
<1> HIDE DEF f
<1>2. b \o f \in Bytes
  BY <1>1, BytesType
<1>3. (a \o b) \o f = a \o (b \o f)
  BY <1>1, BytesAssoc
<1> QED BY <1>1, <1>2, <1>3 DEF f

(* Every operation of h is among the first n of the log ca. *)
Within(h, ca, n) == \A i \in DOMAIN h : \E a \in 1 .. n : ca[a] = h[i]

(* The place of a client in the log.                                       *)
Place(n, r, h) == n.base + Len(h) - r.base

(* What it has of the next message.                                        *)
DownPart(r) == IF r.st = "STREAM" THEN r.dec ELSE r.in

(* The messages it has not read to the end.                                *)
DownStill(n, r, h, ca) ==
  IF r.st = "STREAM" THEN Rest(ca, Place(n, r, h)) ELSE <<WLCM>> \o Rest(ca, n.base)

(* A client on the stream has heard the log from where the Welcome left it *)
(* to its place.                                                           *)
InStep(n, r, h, ca) ==
  /\ r.base <= Len(h) /\ Place(n, r, h) <= Len(ca)
  /\ \A i \in 1 .. Len(h) - r.base : h[r.base + i] = ca[n.base + i]

(* The leader has sent the client nothing yet.                             *)
Quiet(n, s) == n.sgone = FALSE /\ s.state \in {"none", "helo"}

(* What the client has and what is on its way begins what it has not read, *)
(* and what the leader has ready is all the rest.                          *)
OnTheWay(n, r, s, h, ca) ==
  \E rest \in Bytes :
    /\ (DownPart(r) \o n.down) \o rest = Frames(DownStill(n, r, h, ca))
    /\ s.state = "stream" => rest = s.out
    /\ s.state = "wlcm" => /\ (r.in \o n.down) \o s.left = Packet(WLCM)
                           /\ r.st # "STREAM"
    /\ Quiet(n, s) => r.in = <<>> /\ n.down = <<>> /\ r.st # "STREAM"

(* The way down of a connection n, from the leader's end s to its client   *)
(* r.                                                                      *)
Down(n, r, s, h, ca) ==
  /\ n.base <= Len(ca)
  /\ n.phase = "syn" => s.state = "none" /\ r.in = <<>>
  /\ n.phase = "up" =>
       /\ r.st = "STREAM" => InStep(n, r, h, ca)
       /\ r.st # "STREAM" /\ (r.in # <<>> \/ n.down # <<>> \/ s.state = "stream")
            => Within(h, ca, n.base)
       /\ n.rst = FALSE => OnTheWay(n, r, s, h, ca)

(* The clients have heard nothing that was not sent.                       *)
Heard == \A c \in Clients : Within(heard[c], cast, Len(cast))

(* This holds of every client and its connection.                          *)
Downs ==
  /\ Heard
  /\ \A c \in Clients :
       cli[c].fd # NoFd =>
         Down(net[cli[c].fd], cli[c], slot[cli[c].fd], heard[c], cast)

(* The messages not read are messages. *)
LEMMA StillType ==
  ASSUME NEW n \in WConn, NEW r \in WCli, NEW h \in Seq(Int), NEW ca \in Seq(Int),
         n.base <= Len(ca), r.st = "STREAM" => InStep(n, r, h, ca)
  PROVE  /\ DownStill(n, r, h, ca) \in Seq(Int) /\ Frames(DownStill(n, r, h, ca)) \in Bytes
         /\ n.base \in 0 .. Len(ca) /\ Rest(ca, n.base) \in Seq(Int)
         /\ r.st = "STREAM" => Place(n, r, h) \in 0 .. Len(ca)
<1>1. n.base \in 0 .. Len(ca) /\ r.base \in Nat /\ Len(h) \in Nat
  BY DEF WConn, WCli
<1>2. r.st = "STREAM" => Place(n, r, h) \in 0 .. Len(ca)
  BY <1>1 DEF InStep, Place
<1>3. Rest(ca, n.base) \in Seq(Int)
  BY <1>1, RestType
<1>4. <<WLCM>> \o Rest(ca, n.base) \in Seq(Int)
  <2>1. <<WLCM>> \in Seq(Int)
    BY DEF WLCM
  <2> QED BY <1>3, <2>1
<1>5. DownStill(n, r, h, ca) \in Seq(Int)
  BY <1>2, <1>4, RestType DEF DownStill
<1>6. Frames(DownStill(n, r, h, ca)) \in Bytes
  BY <1>5, FramesShape DEF Bytes, Unit, Messages
<1> QED BY <1>1, <1>2, <1>3, <1>5, <1>6

(* Down depends on few fields: what moves up, an interest or an error      *)
(* changes nothing of it.                                                  *)
LEMMA DownKept ==
  ASSUME NEW n, NEW r, NEW s, NEW m, NEW t, NEW v, NEW h, NEW ca, Down(n, r, s, h, ca),
         m.phase = n.phase, m.down = n.down, m.base = n.base,
         m.rst = FALSE => n.rst = FALSE /\ m.sgone = n.sgone,
         (t.st = "STREAM") <=> (r.st = "STREAM"),
         t.in = r.in, r.st = "STREAM" => t.dec = r.dec /\ t.base = r.base,
         \/ v.state = s.state /\ v.left = s.left /\ v.out = s.out
         \/ Quiet(n, s) /\ m.phase = "up" /\ Quiet(m, v)
  PROVE  Down(m, t, v, h, ca)
<1>1. /\ DownPart(t) = DownPart(r) /\ DownStill(m, t, h, ca) = DownStill(n, r, h, ca)
      /\ r.st = "STREAM" => Place(m, t, h) = Place(n, r, h)
  BY DEF Place, DownPart, DownStill
<1>2. r.st = "STREAM" /\ InStep(n, r, h, ca) => InStep(m, t, h, ca)
  BY <1>1 DEF InStep
<1>3. ASSUME m.rst = FALSE, OnTheWay(n, r, s, h, ca) PROVE OnTheWay(m, t, v, h, ca)
  <2>1. PICK rest \in Bytes : OnTheWay(n, r, s, h, ca)!(rest)
    BY <1>3 DEF OnTheWay
  <2>2. (DownPart(t) \o m.down) \o rest = Frames(DownStill(m, t, h, ca))
    BY <1>1, <2>1
  <2>3. CASE v.state = s.state /\ v.left = s.left /\ v.out = s.out
    <3>1. Quiet(m, v) <=> Quiet(n, s)
      BY <1>3, <2>3 DEF Quiet
    <3> QED BY <2>1, <2>2, <2>3, <3>1 DEF OnTheWay
  <2>4. CASE Quiet(n, s) /\ Quiet(m, v)
    BY <2>1, <2>2, <2>4 DEF OnTheWay, Quiet
  <2> QED BY <2>3, <2>4
<1>4. m.phase = "up" /\ v.state = "stream" => s.state = "stream"
  BY DEF Quiet
<1> QED BY <1>2, <1>3, <1>4 DEF Down

(* A connection that the leader closes keeps what is on its way. *)
LEMMA DownCut ==
  ASSUME NEW n, NEW r, NEW s, NEW m, NEW h, NEW ca, Down(n, r, s, h, ca),
         n.phase = "up", Cut(n, m)
  PROVE  Down(m, r, NoSlot, h, ca)
<1>1. /\ Place(m, r, h) = Place(n, r, h)
      /\ DownStill(m, r, h, ca) = DownStill(n, r, h, ca)
  BY DEF Place, DownStill, Cut
<1>2. InStep(n, r, h, ca) => InStep(m, r, h, ca)
  BY <1>1 DEF InStep, Cut
<1>3. OnTheWay(n, r, s, h, ca) => OnTheWay(m, r, NoSlot, h, ca)
  BY <1>1 DEF OnTheWay, Quiet, NoSlot, Cut
<1>4. NoSlot.state = "none"
  BY DEF NoSlot
<1> QED BY <1>2, <1>3, <1>4 DEF Down, Cut

(* What was within a log is within a longer one. *)
LEMMA WithinMore ==
  ASSUME NEW h, NEW ca \in Seq(Int), NEW more \in Seq(Int), NEW n \in Nat, n <= Len(ca),
         Within(h, ca, n)
  PROVE  /\ Within(h, ca \o more, n) /\ Within(h, ca \o more, Len(ca \o more))
         /\ Len(ca \o more) = Len(ca) + Len(more)
         /\ \A i \in 1 .. Len(ca) : (ca \o more)[i] = ca[i]
<1>1. /\ Len(ca \o more) = Len(ca) + Len(more) /\ Len(ca) \in Nat /\ Len(more) \in Nat
      /\ \A i \in 1 .. Len(ca) + Len(more) :
           (ca \o more)[i] = IF i <= Len(ca) THEN ca[i] ELSE more[i - Len(ca)]
  BY ConcatProperties
<1>2. \A i \in 1 .. Len(ca) : (ca \o more)[i] = ca[i]
  BY <1>1
<1>3. 1 .. n \subseteq 1 .. Len(ca) /\ 1 .. n \subseteq 1 .. Len(ca \o more)
  BY <1>1
<1>4. Within(h, ca \o more, n)
  BY <1>2, <1>3 DEF Within
<1>5. Within(h, ca \o more, Len(ca \o more))
  BY <1>3, <1>4 DEF Within
<1> QED BY <1>1, <1>2, <1>4, <1>5

(* What is broadcast comes behind what is on its way. *)
LEMMA DownMore ==
  ASSUME NEW n \in WConn, NEW r \in WCli, NEW s \in GoodSlot, NEW v, NEW h \in Seq(Int),
         NEW ca \in Seq(Int), NEW more \in Seq(Int), Down(n, r, s, h, ca),
         v.state = s.state, v.left = s.left,
         v.out = IF s.state = "stream" THEN s.out \o Frames(more) ELSE s.out
  PROVE  Down(n, r, v, h, ca \o more)
<1> DEFINE all == ca \o more
           b == n.base
           p == Place(n, r, h)
<1>1. /\ all \in Seq(Int) /\ Len(all) = Len(ca) + Len(more)
      /\ Len(ca) \in Nat /\ Len(more) \in Nat /\ b \in 0 .. Len(ca) /\ b \in Nat
      /\ r.base \in Nat /\ Len(h) \in Nat
      /\ \A i \in 1 .. Len(ca) : all[i] = ca[i]
  <2>1. b \in Nat /\ b <= Len(ca) /\ r.base \in Nat
    BY DEF Down, WConn, WCli
  <2>2. /\ Len(ca \o more) = Len(ca) + Len(more) /\ Len(ca) \in Nat /\ Len(more) \in Nat
        /\ \A i \in 1 .. Len(ca) + Len(more) :
             (ca \o more)[i] = IF i <= Len(ca) THEN ca[i] ELSE more[i - Len(ca)]
    BY ConcatProperties
  <2> QED BY <2>1, <2>2
<1>2. n.phase = "up" /\ r.st = "STREAM" => InStep(n, r, h, ca)
  BY DEF Down
<1> HIDE DEF all
<1>3. ASSUME InStep(n, r, h, ca) PROVE InStep(n, r, h, all)
  <2>1. p <= Len(ca) /\ p = b + Len(h) - r.base
    BY <1>3 DEF InStep, Place
  <2> HIDE DEF p, b
  <2>2. ASSUME NEW i \in 1 .. Len(h) - r.base PROVE b + i \in 1 .. Len(ca)
    <3>1. b \in Nat /\ i \in Nat /\ i >= 1 /\ b + i <= b + Len(h) - r.base
      BY <1>1
    <3> QED BY <1>1, <2>1, <3>1
  <2>3. p <= Len(all)
    BY <1>1, <2>1
  <2> QED BY <1>1, <1>3, <2>2, <2>3 DEF InStep, p, b
<1>4. ASSUME Within(h, ca, b) PROVE Within(h, all, b)
  BY <1>1, <1>4, WithinMore DEF all
<1>5. ASSUME n.phase = "up", OnTheWay(n, r, s, h, ca)
      PROVE  OnTheWay(n, r, v, h, all)
  <2> DEFINE still == DownStill(n, r, h, ca)
  <2>1. still \in Seq(Int) /\ (r.st = "STREAM" => p \in 0 .. Len(ca))
    BY <1>1, <1>2, <1>5, StillType
  <2>2. DownStill(n, r, h, all) = still \o more
    <3>1. CASE r.st = "STREAM"
      BY <2>1, <3>1, RestMore DEF DownStill, all
    <3>2. CASE r.st # "STREAM"
      <4>1. Rest(all, b) = Rest(ca, b) \o more /\ Rest(ca, b) \in Seq(Int)
        BY <1>1, RestMore, RestType DEF all
      <4>2. <<WLCM>> \in Seq(Int)
        BY DEF WLCM
      <4> DEFINE x == <<WLCM>>
                 y == Rest(ca, b)
      <4>3. x \in Seq(Int) /\ y \in Seq(Int)
        BY <4>1, <4>2
      <4> HIDE DEF x, y
      <4>4. (x \o y) \o more = x \o (y \o more)
        BY <4>3, IdsAssoc
      <4> QED BY <3>2, <4>1, <4>4 DEF DownStill, x, y
    <3> QED BY <3>1, <3>2
  <2>3. PICK rest \in Bytes : OnTheWay(n, r, s, h, ca)!(rest)
    BY <1>5 DEF OnTheWay
  <2> DEFINE a == DownPart(r) \o n.down
             rest2 == rest \o Frames(more)
  <2>4. a \in Bytes
    <3>1. DownPart(r) \in Bytes /\ n.down \in Bytes
      BY DEF DownPart, WCli, WConn
    <3> QED BY <3>1, BytesType
  <2> HIDE DEF still, a
  <2>5. rest2 \in Bytes /\ a \o rest2 = Frames(still \o more)
    <3>1. a \o rest = Frames(still)
      BY <2>3 DEF a, still
    <3> QED BY <2>1, <2>4, <3>1, FramesMore
  <2>6. s.state = "stream" => rest2 = v.out
    BY <2>3
  <2> HIDE DEF rest2
  <2>7. a \o rest2 = Frames(DownStill(n, r, h, all))
    BY <2>2, <2>5
  <2>8. Quiet(n, v) <=> Quiet(n, s)
    BY DEF Quiet
  <2> QED BY <2>3, <2>5, <2>6, <2>7, <2>8 DEF OnTheWay, a
<1>6. b <= Len(all)
  BY <1>1
<1> QED BY <1>2, <1>3, <1>4, <1>5, <1>6 DEF Down, all

(* A unit that is appended to the second of two is appended to both. *)
LEMMA AppendJoin ==
  ASSUME NEW S, NEW a \in Seq(S), NEW b \in Seq(S), NEW u \in S
  PROVE  a \o Append(b, u) = Append(a \o b, u)
<1>1. <<u>> \in Seq(S) /\ a \o b \in Seq(S)
  OBVIOUS
<1>2. Append(b, u) = b \o <<u>> /\ Append(a \o b, u) = (a \o b) \o <<u>>
  BY <1>1, AppendIsConcat
<1>3. (a \o b) \o <<u>> = a \o (b \o <<u>>)
  BY <1>1, ConcatAssociative
<1> QED BY <1>2, <1>3

(* A unit that goes from what is ready to what is on its way leaves the    *)
(* whole as it is.                                                         *)
LEMMA Sent ==
  ASSUME NEW a \in Bytes, NEW b \in Bytes, NEW c \in Bytes, c # <<>>
  PROVE  /\ Tail(c) \in Bytes /\ Head(c) \in Messages \X (1 .. Parts)
         /\ (a \o Append(b, Head(c))) \o Tail(c) = (a \o b) \o c
<1> DEFINE U == Messages \X (1 .. Parts)
           p == a \o b
<1>1. a \in Seq(U) /\ b \in Seq(U) /\ c \in Seq(U) /\ p \in Seq(U)
  BY DEF Bytes
<1> HIDE DEF U, p
<1>2. Head(c) \in U /\ Tail(c) \in Seq(U) /\ Append(p, Head(c)) \o Tail(c) = p \o c
  BY <1>1, Moved
<1>3. a \o Append(b, Head(c)) = Append(a \o b, Head(c))
  BY <1>1, <1>2, AppendJoin
<1> QED BY <1>2, <1>3 DEF p, U, Bytes

(* A unit that is read goes from what is on its way to what is there. *)
LEMMA TakenUnit ==
  ASSUME NEW a \in Bytes, NEW b \in Bytes, NEW c \in Bytes, b # <<>>
  PROVE  (Append(a, Head(b)) \o Tail(b)) \o c = (a \o b) \o c
<1> DEFINE U == Messages \X (1 .. Parts)
<1>1. a \in Seq(U) /\ b \in Seq(U)
  BY DEF Bytes
<1> HIDE DEF U
<1>2. Append(a, Head(b)) \o Tail(b) = a \o b
  BY <1>1, Moved
<1> QED BY <1>2

(* The leader sends a unit of a frame. *)
LEMMA DownWritten ==
  ASSUME NEW n \in WConn, NEW r \in WCli, NEW s \in WSlot, NEW m, NEW v,
         NEW h, NEW ca, Down(n, r, s, h, ca),
         n.phase = "up", n.cgone = FALSE, s.state = "stream", s.out # <<>>,
         DownSent(n, m, Head(s.out)), m.base = n.base,
         v.state = "stream", v.out = Tail(s.out)
  PROVE  Down(m, r, v, h, ca)
<1>1. /\ Place(m, r, h) = Place(n, r, h)
      /\ DownStill(m, r, h, ca) = DownStill(n, r, h, ca)
  BY DEF Place, DownStill
<1>2. InStep(n, r, h, ca) => InStep(m, r, h, ca)
  BY <1>1 DEF InStep
<1>3. m.phase = "up" /\ m.down = Append(n.down, Head(s.out)) /\ (m.rst = FALSE => n.rst = FALSE)
  BY DEF DownSent
<1>4. ASSUME OnTheWay(n, r, s, h, ca) PROVE OnTheWay(m, r, v, h, ca)
  <2>1. (DownPart(r) \o n.down) \o s.out = Frames(DownStill(n, r, h, ca))
    BY <1>4 DEF OnTheWay
  <2>2. DownPart(r) \in Bytes /\ n.down \in Bytes /\ s.out \in Bytes
    BY DEF DownPart, WCli, WConn, WSlot
  <2>3. /\ Tail(s.out) \in Bytes
        /\ (DownPart(r) \o Append(n.down, Head(s.out))) \o Tail(s.out)
             = (DownPart(r) \o n.down) \o s.out
    BY <2>2, Sent
  <2>4. (DownPart(r) \o m.down) \o v.out = Frames(DownStill(m, r, h, ca)) /\ v.out \in Bytes
    BY <1>1, <1>3, <2>1, <2>3
  <2> QED BY <2>4 DEF OnTheWay, Quiet
<1> QED BY <1>2, <1>3, <1>4 DEF Down

(* The leader sends a unit of the Welcome. *)
LEMMA WlcmWritten ==
  ASSUME NEW n \in WConn, NEW r \in WCli, NEW s \in WSlot, NEW m, NEW v,
         NEW h, NEW ca \in Seq(Int), Down(n, r, s, h, ca), Within(h, ca, Len(ca)),
         n.phase = "up", n.cgone = FALSE, n.rst = FALSE, s.state = "wlcm", s.left # <<>>,
         DownSent(n, m, Head(s.left)), m.base = Len(ca),
         v.left = Tail(s.left), v.out = <<>>,
         v.state = IF Tail(s.left) = <<>> THEN "stream" ELSE "wlcm"
  PROVE  Down(m, r, v, h, ca)
<1>1. (r.in \o n.down) \o s.left = Packet(WLCM) /\ r.st # "STREAM"
  BY DEF Down, OnTheWay
<1>2. m.phase = "up" /\ m.down = Append(n.down, Head(s.left))
  BY DEF DownSent
<1>3. r.in \in Bytes /\ n.down \in Bytes /\ s.left \in Bytes
  BY DEF WCli, WConn, WSlot
<1>4. Tail(s.left) \in Bytes /\ (r.in \o m.down) \o Tail(s.left) = Packet(WLCM)
  <2>1. /\ Tail(s.left) \in Bytes
        /\ (r.in \o Append(n.down, Head(s.left))) \o Tail(s.left) = (r.in \o n.down) \o s.left
    BY <1>3, Sent
  <2> QED BY <1>1, <1>2, <2>1
<1>5. Frames(DownStill(m, r, h, ca)) = Packet(WLCM)
  <2>1. Rest(ca, Len(ca)) = <<>> /\ <<>> \in Seq(Messages) /\ WLCM \in Messages
    BY RestNone DEF Messages, WLCM
  <2>2. DownStill(m, r, h, ca) = <<WLCM>> \o <<>>
    BY <1>1, <2>1 DEF DownStill
  <2>3. Frames(<<WLCM>> \o <<>>) = Packet(WLCM) \o Frames(<<>>) /\ Packet(WLCM) \in Bytes
    BY <2>1, FramesFirst
  <2>4. Packet(WLCM) \o <<>> = Packet(WLCM)
    BY <2>3, BytesType
  <2> QED BY <2>2, <2>3, <2>4, FramesEmpty
<1>6. OnTheWay(m, r, v, h, ca)
  BY <1>1, <1>4, <1>5 DEF OnTheWay, DownPart, Quiet
<1>7. Len(ca) <= Len(ca)
  OBVIOUS
<1> QED BY <1>1, <1>2, <1>6, <1>7 DEF Down

(* So it is for a client that reads what the leader sent. *)
LEMMA UnitComes ==
  ASSUME NEW n \in WConn, NEW r \in GoodCli, NEW s, NEW h \in Seq(Int), NEW ca \in Seq(Int),
         Down(n, r, s, h, ca), n.phase = "up", n.down # <<>>,
         NEW rest \in Bytes,
         (DownPart(r) \o n.down) \o rest = Frames(DownStill(n, r, h, ca)),
         r.st \in {"WLCM_RD", "STREAM"}
  PROVE  /\ DownStill(n, r, h, ca) \in Seq(Int)
         /\ Comes(DownPart(r), n.down, rest, DownStill(n, r, h, ca))
<1> DEFINE part == DownPart(r)
           down == n.down
           still == DownStill(n, r, h, ca)
<1>1. r \in WCli /\ down \in Bytes /\ part \in Bytes /\ Len(part) < Parts
  <2>1. r \in WCli
    BY DEF GoodCli
  <2> QED BY <2>1 DEF DownPart, GoodCli, WConn, WCli
<1>2. still \in Seq(Messages)
  <2>1. n.base <= Len(ca) /\ (r.st = "STREAM" => InStep(n, r, h, ca))
    BY DEF Down
  <2> QED BY <1>1, <2>1, StillType DEF Messages
<1>3. (part \o down) \o rest = Frames(still) /\ down # <<>>
  OBVIOUS
<1> HIDE DEF part, down, still
<1>4. Comes(part, down, rest, still)
  BY <1>1, <1>2, <1>3, FrameComes
<1> QED BY <1>2, <1>4 DEF part, down, still, Messages

(* Hearing the next operation of the log keeps a client in step with it. *)
LEMMA HearsNext ==
  ASSUME NEW n \in WConn, NEW r \in WCli, NEW h \in Seq(Int), NEW ca \in Seq(Int),
         InStep(n, r, h, ca), NEW id \in Int, NEW m, NEW t,
         Place(n, r, h) < Len(ca), id = ca[Place(n, r, h) + 1],
         m.base = n.base, t.base = r.base
  PROVE  /\ Place(m, t, Append(h, id)) = Place(n, r, h) + 1
         /\ InStep(m, t, Append(h, id), ca)
<1> DEFINE g == Append(h, id)
           p == Place(n, r, h)
           b == n.base
           e == r.base
<1>1. /\ g \in Seq(Int) /\ Len(g) = Len(h) + 1 /\ g[Len(h) + 1] = id
      /\ Len(h) \in Nat /\ \A i \in 1 .. Len(h) : g[i] = h[i]
  OBVIOUS
<1>2. /\ b \in Nat /\ e \in Nat /\ Len(ca) \in Nat /\ e <= Len(h) /\ p < Len(ca)
      /\ p = b + Len(h) - e /\ m.base = b /\ t.base = e /\ id = ca[p + 1]
      /\ \A i \in 1 .. Len(h) - e : h[e + i] = ca[b + i]
  BY DEF WConn, WCli, InStep, Place
<1> HIDE DEF g, p, b, e
<1>3. Place(m, t, g) = p + 1
  <2>1. Place(m, t, g) = b + Len(g) - e
    BY <1>2 DEF Place
  <2> QED BY <1>1, <1>2, <2>1
<1>4. ASSUME NEW i \in 1 .. Len(g) - e
      PROVE  g[e + i] = ca[b + i]
  <2>1. CASE i = Len(g) - e
    <3>1. e + i = Len(h) + 1 /\ b + i = p + 1
      BY <1>1, <1>2, <2>1
    <3> QED BY <1>1, <1>2, <3>1
  <2>2. CASE i # Len(g) - e
    <3>1. e \in Nat /\ Len(h) \in Nat /\ Len(g) = Len(h) + 1
      BY <1>1, <1>2
    <3> DEFINE y == Len(h)
               z == Len(g)
    <3>2. y \in Nat /\ z = y + 1 /\ i \in 1 .. z - e /\ i # z - e
      BY <3>1, <2>2
    <3> HIDE DEF y, z
    <3>3. i \in 1 .. y - e /\ e + i \in 1 .. y
      BY <3>1, <3>2
    <3> USE DEF y
    <3> QED BY <1>1, <1>2, <3>3
  <2> QED BY <2>1, <2>2
<1>5. e <= Len(g) /\ Place(m, t, g) <= Len(ca)
  BY <1>1, <1>2, <1>3
<1>6. InStep(m, t, g, ca)
  BY <1>2, <1>4, <1>5 DEF InStep
<1> QED BY <1>3, <1>6 DEF g, p

(* A client on the stream reads a unit, and hears the frame it completes.  *)
StreamTaken(n, m, r, t, h, g) ==
  LET u == Head(n.down)
      got == Append(r.dec, u) IN
  /\ n.phase = "up" /\ n.rst = FALSE /\ n.down # <<>>
  /\ r.st = "STREAM" /\ DownTaken(n, m) /\ t.st = "STREAM" /\ t.in = r.in
  /\ t.base = r.base
  /\ t.dec = IF Len(got) = Parts THEN <<>> ELSE got
  /\ g = IF Len(got) = Parts /\ got = Packet(u[1]) THEN Append(h, u[1]) ELSE h

(* What it hears is the next operation of the log.                         *)
StreamCame(n, m, r, t, s, h, g, ca) ==
  LET u == Head(n.down)
      got == Append(r.dec, u) IN
  /\ Down(m, t, s, g, ca)
  /\ Len(got) = Parts => /\ got = Packet(u[1]) /\ Place(n, r, h) \in 0 .. Len(ca) - 1
                         /\ u[1] = ca[Place(n, r, h) + 1]

(* A client on the stream reads a unit: the frame that it completes is the *)
(* next operation of the log.                                              *)
LEMMA StreamRead ==
  ASSUME NEW n \in WConn, NEW r \in GoodCli, NEW s \in WSlot, NEW h \in Seq(Int),
         NEW ca \in Seq(Int), NEW m, NEW t, NEW g,
         Down(n, r, s, h, ca), StreamTaken(n, m, r, t, h, g)
  PROVE  StreamCame(n, m, r, t, s, h, g, ca)
<1> DEFINE u == Head(n.down)
           got == Append(r.dec, u)
           p == Place(n, r, h)
           still == DownStill(n, r, h, ca)
<1>a. /\ n.phase = "up" /\ n.rst = FALSE /\ n.down # <<>>
      /\ r.st = "STREAM" /\ DownTaken(n, m) /\ t.st = "STREAM" /\ t.in = r.in
      /\ t.base = r.base /\ t.dec = (IF Len(got) = Parts THEN <<>> ELSE got)
      /\ g = IF Len(got) = Parts /\ got = Packet(u[1]) THEN Append(h, u[1]) ELSE h
  BY DEF StreamTaken
<1> USE <1>a
<1>b. SUFFICES /\ Down(m, t, s, g, ca)
               /\ Len(got) = Parts => /\ got = Packet(u[1]) /\ p \in 0 .. Len(ca) - 1
                                      /\ u[1] = ca[p + 1]
  BY DEF StreamCame
<1>1. /\ InStep(n, r, h, ca) /\ OnTheWay(n, r, s, h, ca) /\ n.base <= Len(ca)
      /\ s.state # "wlcm" /\ ~Quiet(n, s)
  BY DEF Down, OnTheWay
<1>2. PICK rest \in Bytes : OnTheWay(n, r, s, h, ca)!(rest)
  BY <1>1 DEF OnTheWay
<1>3. r \in WCli /\ DownPart(r) = r.dec
  BY DEF GoodCli, DownPart
<1>4. /\ still \in Seq(Int) /\ still # <<>> /\ u[1] = Head(still)
      /\ got \in Bytes /\ Tail(n.down) \in Bytes /\ Len(got) <= Parts
      /\ (got \o Tail(n.down)) \o rest = Frames(still)
      /\ Len(got) = Parts => /\ got = Packet(Head(still))
                             /\ Tail(n.down) \o rest = Frames(Tail(still))
  <2>1. still \in Seq(Int) /\ Comes(r.dec, n.down, rest, still)
    <3>1. (DownPart(r) \o n.down) \o rest = Frames(still)
      BY <1>2
    <3> QED BY <1>3, <3>1, UnitComes
  <2> HIDE DEF still
  <2> QED BY <2>1 DEF Comes
<1>5. p \in 0 .. Len(ca) /\ still = Rest(ca, p)
  BY <1>1, <1>3, StillType DEF DownStill
<1>6. /\ p < Len(ca) /\ p + 1 \in 0 .. Len(ca) /\ Head(still) = ca[p + 1]
      /\ Tail(still) = Rest(ca, p + 1)
  BY <1>4, <1>5, RestNext
<1>7. m.phase = "up" /\ m.base = n.base /\ m.down = Tail(n.down) /\ m.sgone = n.sgone
  BY DEF DownTaken
<1>8. ~Quiet(m, s)
  BY <1>1, <1>7 DEF Quiet
<1>9. CASE Len(got) = Parts
  <2>1. got = Packet(u[1]) /\ t.dec = <<>> /\ g = Append(h, u[1])
    BY <1>4, <1>9
  <2>2. u[1] \in Int /\ u[1] = ca[p + 1]
    <3> HIDE DEF p
    <3> QED BY <1>4, <1>6
  <2>3. Place(m, t, g) = p + 1 /\ InStep(m, t, g, ca)
    BY <1>1, <1>3, <1>6, <1>7, <2>1, <2>2, HearsNext
  <2>6. OnTheWay(m, t, s, g, ca)
    <3>1. DownStill(m, t, g, ca) = Tail(still) /\ DownPart(t) = <<>>
      BY <1>6, <2>1, <2>3 DEF DownStill, DownPart
    <3>2. <<>> \o Tail(n.down) = Tail(n.down)
      BY <1>4, BytesType
    <3>3. (DownPart(t) \o m.down) \o rest = Frames(DownStill(m, t, g, ca))
      BY <1>4, <1>7, <1>9, <3>1, <3>2
    <3> QED BY <1>1, <1>2, <1>8, <3>3 DEF OnTheWay
  <2>7. Down(m, t, s, g, ca)
    BY <1>1, <1>7, <2>3, <2>6 DEF Down
  <2> QED BY <1>4, <1>5, <1>6, <2>1, <2>7
<1>10. CASE Len(got) # Parts
  <2>1. t.dec = got /\ g = h
    BY <1>10
  <2>2. DownStill(m, t, g, ca) = still /\ DownPart(t) = got /\ Place(m, t, g) = p
    BY <1>7, <2>1 DEF DownStill, DownPart, Place
  <2>3. InStep(m, t, g, ca)
    BY <1>1, <1>7, <2>1, <2>2 DEF InStep
  <2>4. OnTheWay(m, t, s, g, ca)
    BY <1>1, <1>2, <1>4, <1>7, <1>8, <2>2 DEF OnTheWay
  <2>5. Down(m, t, s, g, ca)
    BY <1>1, <1>7, <2>3, <2>4 DEF Down
  <2> QED BY <1>10, <2>5
<1> QED BY <1>9, <1>10

(* A client in the handshake reads a unit of the Welcome.                  *)
WlcmTaken(n, m, r, t, h, got) ==
  /\ n.phase = "up" /\ n.rst = FALSE /\ n.down # <<>>
  /\ r.st = "WLCM_RD" /\ DownTaken(n, m) /\ got = Append(r.in, Head(n.down))
  /\ t.in = got
  /\ \/ Len(got) < Parts /\ t.st = "WLCM_RD"
     \/ got = Packet(WLCM) /\ t.st = "STREAM" /\ t.dec = <<>> /\ t.base = Len(h)

(* Behind its last one it is on the stream, where the leader's log was.    *)
WlcmCame(n, m, t, s, h, ca) ==
  /\ Down(m, t, s, h, ca) /\ Within(h, ca, n.base)
  /\ t.st = "STREAM" => Place(m, t, h) = n.base /\ n.base \in 0 .. Len(ca)

(* A client in the handshake reads a unit of the Welcome, and behind its   *)
(* last one it is on the stream, in step with the log.                     *)
LEMMA WlcmRead ==
  ASSUME NEW n \in WConn, NEW r \in GoodCli, NEW s \in GoodSlot, NEW h \in Seq(Int),
         NEW ca \in Seq(Int), NEW m, NEW t,
         NEW got, Down(n, r, s, h, ca), WlcmTaken(n, m, r, t, h, got)
  PROVE  WlcmCame(n, m, t, s, h, ca)
<1> DEFINE down == n.down
           still == <<WLCM>> \o Rest(ca, n.base)
<1>a. /\ n.phase = "up" /\ n.rst = FALSE /\ n.down # <<>>
      /\ r.st = "WLCM_RD" /\ DownTaken(n, m) /\ got = Append(r.in, Head(n.down))
      /\ t.in = got
      /\ \/ Len(got) < Parts /\ t.st = "WLCM_RD"
         \/ got = Packet(WLCM) /\ t.st = "STREAM" /\ t.dec = <<>> /\ t.base = Len(h)
  BY DEF WlcmTaken
<1> USE <1>a
<1>b. SUFFICES /\ Down(m, t, s, h, ca) /\ Within(h, ca, n.base)
               /\ t.st = "STREAM" => Place(m, t, h) = n.base /\ n.base \in 0 .. Len(ca)
  BY DEF WlcmCame
<1>1. /\ Within(h, ca, n.base) /\ OnTheWay(n, r, s, h, ca) /\ ~Quiet(n, s)
      /\ n.base <= Len(ca)
  BY DEF Down, OnTheWay
<1>2. PICK rest \in Bytes : OnTheWay(n, r, s, h, ca)!(rest)
  BY <1>1 DEF OnTheWay
<1>3. /\ DownPart(r) = r.in /\ DownStill(n, r, h, ca) = still /\ r \in WCli
      /\ r.in \in Bytes /\ down \in Bytes /\ Len(r.in) < Parts
  BY DEF DownPart, DownStill, GoodCli, WCli, WConn
<1>4. /\ n.base \in 0 .. Len(ca) /\ Rest(ca, n.base) \in Seq(Int) /\ still \in Seq(Int)
  BY <1>1, <1>3, StillType
<1>5. Comes(r.in, down, rest, still)
  BY <1>2, <1>3, UnitComes
<1> HIDE DEF still, down
<1>6. /\ (got \o Tail(down)) \o rest = Frames(still) /\ got \in Bytes
      /\ Tail(down) \in Bytes
      /\ Len(got) = Parts => Tail(down) \o rest = Frames(Tail(still))
  BY <1>5 DEF Comes, down
<1>7. /\ m.phase = "up" /\ m.base = n.base /\ m.down = Tail(down) /\ m.sgone = n.sgone
      /\ ~Quiet(m, s)
  BY <1>1 DEF DownTaken, down, Quiet
<1>8. ASSUME s.state = "wlcm"
      PROVE  (got \o m.down) \o s.left = Packet(WLCM) /\ Len(got) # Parts
  <2>1. (r.in \o down) \o s.left = Packet(WLCM) /\ s.left \in Bytes /\ s.left # <<>>
        /\ down # <<>>
    BY <1>2, <1>8 DEF GoodSlot, WSlot, down
  <2>2. (got \o Tail(down)) \o s.left = (r.in \o down) \o s.left
    <3>1. (Append(r.in, Head(down)) \o Tail(down)) \o s.left = (r.in \o down) \o s.left
      BY <1>3, <2>1, TakenUnit
    <3>2. got = Append(r.in, Head(down))
      BY DEF down
    <3> QED BY <3>1, <3>2
  <2>3. Len(got) # Parts
    <3>1. Len((got \o Tail(down)) \o s.left) = Parts
      BY <2>1, <2>2, Greetings
    <3>2. /\ got \o Tail(down) \in Bytes
          /\ Len(got \o Tail(down)) = Len(got) + Len(Tail(down))
      BY <1>6, BytesType
    <3>3. Len((got \o Tail(down)) \o s.left) = Len(got \o Tail(down)) + Len(s.left)
      BY <2>1, <3>2, BytesType
    <3>4. Len(s.left) \in Nat \ {0} /\ Len(Tail(down)) \in Nat /\ Len(got) \in Nat
      <4>1. Len(s.left) \in Nat /\ Len(s.left) # 0
        BY <2>1 DEF Bytes
      <4>2. Len(Tail(down)) \in Nat /\ Len(got) \in Nat
        BY <1>6 DEF Bytes
      <4> QED BY <4>1, <4>2
    <3>5. (Len(got) + Len(Tail(down))) + Len(s.left) = Parts
      BY <3>1, <3>2, <3>3
    <3> DEFINE x == Len(got)
               y == Len(Tail(down))
               z == Len(s.left)
    <3>6. x \in Nat /\ y \in Nat /\ z \in Nat /\ z # 0 /\ (x + y) + z = Parts
      BY <3>4, <3>5
    <3> HIDE DEF x, y, z
    <3>7. x # Parts
      BY <3>6, PartsAssumption
    <3> QED BY <3>7 DEF x
  <2> QED BY <1>7, <2>1, <2>2, <2>3
<1>9. CASE Len(got) < Parts /\ t.st = "WLCM_RD"
  <2>1. DownStill(m, t, h, ca) = still /\ DownPart(t) = got
    BY <1>7, <1>9 DEF DownStill, DownPart, still
  <2>2. OnTheWay(m, t, s, h, ca)
    BY <1>2, <1>6, <1>7, <1>8, <1>9, <2>1 DEF OnTheWay
  <2>3. Down(m, t, s, h, ca)
    BY <1>1, <1>7, <1>9, <2>2 DEF Down
  <2> QED BY <1>1, <1>9, <2>3
<1>10. CASE got = Packet(WLCM) /\ t.st = "STREAM" /\ t.dec = <<>> /\ t.base = Len(h)
  <2>1. Len(got) = Parts /\ Tail(still) = Rest(ca, n.base)
    <3>1. <<WLCM>> \in Seq(Int)
      BY DEF WLCM
    <3> DEFINE x == Rest(ca, n.base)
    <3>2. x \in Seq(Int)
      BY <1>4
    <3> HIDE DEF x
    <3>3. Tail(<<WLCM>> \o x) = x
      BY <3>1, <3>2
    <3> QED BY <1>10, <3>3, Greetings DEF still, x
  <2>2. Place(m, t, h) = n.base
    <3>1. n.base \in Nat /\ Len(h) \in Nat
      BY DEF WConn
    <3> QED BY <1>7, <1>10, <3>1 DEF Place
  <2>3. InStep(m, t, h, ca)
    <3>1. Len(h) \in Nat /\ Len(h) <= Len(h) /\ 1 .. Len(h) - Len(h) = {}
      OBVIOUS
    <3> QED BY <1>1, <1>10, <2>2, <3>1 DEF InStep
  <2>4. DownStill(m, t, h, ca) = Tail(still) /\ DownPart(t) = <<>>
    BY <1>10, <2>1, <2>2 DEF DownStill, DownPart
  <2>5. <<>> \o Tail(down) = Tail(down)
    BY <1>6, BytesType
  <2>6. OnTheWay(m, t, s, h, ca)
    BY <1>2, <1>6, <1>7, <1>8, <2>1, <2>4, <2>5 DEF OnTheWay
  <2>7. Down(m, t, s, h, ca)
    BY <1>1, <1>7, <1>10, <2>3, <2>6 DEF Down
  <2> QED BY <1>1, <1>4, <1>10, <2>2, <2>7
<1> QED BY <1>9, <1>10

(* A step of a client concerns nobody but it, *)
LEMMA OthersDowns ==
  ASSUME Good, Downs, NEW c \in Clients, slot' = slot, cast' = cast,
         \A d \in Clients : d # c => cli'[d] = cli[d] /\ heard'[d] = heard[d],
         \A j \in Conns : net[j].by \in Clients \ {c} => net'[j] = net[j],
         Within(heard'[c], cast, Len(cast)),
         cli'[c].fd # NoFd =>
           Down(net'[cli'[c].fd], cli'[c], slot[cli'[c].fd], heard'[c], cast)
  PROVE  Downs'
<1>1. Heard'
  BY DEF Downs, Heard
<1>2. ASSUME NEW d \in Clients, cli'[d].fd # NoFd
      PROVE  Down(net'[cli'[d].fd], cli'[d], slot'[cli'[d].fd], heard'[d], cast')
  <2>1. CASE d = c
    BY <1>2, <2>1
  <2>2. CASE d # c
    <3>1. cli'[d] = cli[d] /\ heard'[d] = heard[d] /\ cli[d].fd # NoFd
      BY <1>2, <2>2
    <3>2. cli[d].fd \in Conns /\ net[cli[d].fd].by = d
      BY <3>1, Fields DEF Good, Wired
    <3>3. net'[cli[d].fd] = net[cli[d].fd]
      BY <2>2, <3>2
    <3>4. Down(net[cli[d].fd], cli[d], slot[cli[d].fd], heard[d], cast)
      BY <3>1 DEF Downs
    <3> QED BY <3>1, <3>3, <3>4
  <2> QED BY <2>1, <2>2
<1> QED BY <1>1, <1>2 DEF Downs

(* also one that closes its connection, *)
LEMMA OthersBy ==
  ASSUME Good, NEW c \in Clients, cli[c].fd # NoFd, OthersSame(c, cli[c].fd)
  PROVE  /\ \A d \in Clients : d # c => cli'[d] = cli[d]
         /\ \A j \in Conns : net[j].by \in Clients \ {c} => net'[j] = net[j]
         /\ cli[c].fd \in Conns /\ net[cli[c].fd] \in GoodConn /\ net[cli[c].fd] \in WConn
         /\ cli[c] \in GoodCli /\ cli[c] \in WCli
         /\ net[cli[c].fd].by = c
         /\ slot[cli[c].fd] \in GoodSlot /\ slot[cli[c].fd] \in WSlot
         /\ heard[c] \in Seq(Int) /\ cast \in Seq(Int)
         /\ cli[c].st # "CONNECTING" => net[cli[c].fd].phase = "up"
<1>1. cli[c].fd \in Conns /\ net[cli[c].fd].by = c
  BY Fields DEF Good, Wired
<1>2. heard[c] \in Seq(Int) /\ cast \in Seq(Int)
  BY DEF Good, Records, Procs
<1>3. cli[c].st # "CONNECTING" => net[cli[c].fd].phase = "up"
  BY DEF Good, Wired
<1> QED BY <1>1, <1>2, <1>3, Fields DEF OthersSame

(* and one of the leader only the client of the connection. *)
LEMMA LeaderDowns ==
  ASSUME Good, Downs, NEW k \in Conns, LeaderSame(k), heard' = heard, cast' = cast,
         \A c \in Clients : cli[c].fd = k =>
           Down(net'[k], cli[c], slot'[k], heard[c], cast)
  PROVE  Downs'
<1>1. Heard'
  BY DEF Downs, Heard
<1>2. ASSUME NEW d \in Clients, cli'[d].fd # NoFd
      PROVE  Down(net'[cli'[d].fd], cli'[d], slot'[cli'[d].fd], heard'[d], cast')
  <2>1. cli' = cli /\ cli[d].fd # NoFd /\ cli[d].fd \in Conns
    BY <1>2, Fields DEF LeaderSame
  <2>2. CASE cli[d].fd = k
    BY <2>1, <2>2
  <2>3. CASE cli[d].fd # k
    <3>1. net'[cli[d].fd] = net[cli[d].fd] /\ slot'[cli[d].fd] = slot[cli[d].fd]
      BY <2>1, <2>3 DEF LeaderSame
    <3>2. Down(net[cli[d].fd], cli[d], slot[cli[d].fd], heard[d], cast)
      BY <2>1 DEF Downs
    <3> QED BY <2>1, <3>1, <3>2
  <2> QED BY <2>2, <2>3
<1> QED BY <1>1, <1>2 DEF Downs

(* A client that is idle leaves nothing to say of it. *)
LEMMA IdleDowns ==
  ASSUME Good, Downs, NEW c \in Clients, cli[c].fd # NoFd, OthersSame(c, cli[c].fd),
         cli'[c] = IdleClient(cli[c].q), UNCHANGED <<slot, heard, cast>>
  PROVE  Downs'
<1>1. cli'[c].fd = NoFd
  BY DEF IdleClient
<1>2. Within(heard[c], cast, Len(cast))
  BY DEF Downs, Heard
<1> QED BY <1>1, <1>2, OthersBy, OthersDowns

(* A new connection has nothing on its way. *)
LEMMA ConnectDowns ==
  ASSUME Good, Downs, NEW c \in Clients, NEW k \in Conns, NEW async \in Async,
         Connect(c, k, async)
  PROVE  Downs'
<1> DEFINE j == cli[c].fd
           s == cli'[c]
           m == net'[k]
<1>1. /\ net[k] = NoConn /\ k # j /\ k # NoFd
      /\ j # NoFd => j \in Conns
      /\ \A i \in Conns : i \notin {j, k} => net'[i] = net[i]
      /\ \A d \in Clients : d # c => cli'[d] = cli[d]
      /\ m.phase \in {"syn", "up"} /\ m.up = <<>> /\ m.down = <<>>
      /\ m.sgone = FALSE /\ m.rst = FALSE /\ m.base = 0
      /\ s.fd = k /\ s.in = <<>> /\ s.st # "STREAM"
      /\ UNCHANGED <<slot, heard, cast>> /\ Good'
  <2>1. UNCHANGED <<slot, heard, cast>>
    BY DEF Connect
  <2>2. /\ Good' /\ net[k] = NoConn /\ k # j /\ k # NoFd
        /\ \A i \in Conns : net[i].phase # "unused" => i < k
        /\ j # NoFd => j \in Conns /\ Closed(net[j], net'[j]) /\ net[j].phase # "unused"
        /\ \A i \in Conns : i \notin {j, k} => net'[i] = net[i]
        /\ \A d \in Clients : d # c => cli'[d] = cli[d]
        /\ net'[k].phase \in {"syn", "up"} /\ net'[k].by = c
        /\ net'[k].up = <<>> /\ net'[k].down = <<>> /\ net'[k].cgone = FALSE
        /\ net'[k].sgone = FALSE /\ net'[k].rst = FALSE /\ net'[k].base = 0
        /\ s.fd = k /\ s.in = <<>> /\ s.out = <<>> /\ s.dec = <<>> /\ s.sent = <<>>
        /\ s.q = cli[c].q
        /\ \/ s.st = "CONNECTING"
           \/ s.st = "HELO_WR" /\ s.left = Packet(HELO)
    BY ConnectStep
  <2> QED BY <2>1, <2>2
<1>2. slot[k].state = "none"
  BY <1>1 DEF Good, Wired, NoConn
<1>3. \A i \in Conns : net[i].by \in Clients \ {c} => net'[i] = net[i]
  <2> SUFFICES ASSUME NEW i \in Conns, net[i].by \in Clients \ {c} PROVE i \notin {j, k}
    BY <1>1
  <2>1. i # k
    BY <1>1, StarAssumption DEF NoConn
  <2>2. i # j
    <3>1. CASE j = NoFd
      BY <3>1 DEF NoFd, Conns
    <3>2. CASE j # NoFd
      BY <3>2 DEF Good, Wired
    <3> QED BY <3>1, <3>2
  <2> QED BY <2>1, <2>2
<1>4. /\ m \in WConn /\ s \in WCli /\ heard[c] \in Seq(Int) /\ cast \in Seq(Int)
  <2>1. net' \in [Conns -> GoodConn] /\ cli' \in [Clients -> GoodCli]
    BY <1>1 DEF Good, Records
  <2>2. m \in WConn /\ s \in WCli
    BY <2>1 DEF GoodConn, GoodCli
  <2> QED BY <2>2 DEF Good, Records, Procs
<1>5. Down(m, s, slot[k], heard[c], cast)
  <2> HIDE DEF m, s
  <2> DEFINE still == DownStill(m, s, heard[c], cast)
  <2>1. m.base <= Len(cast)
    BY <1>1, <1>4
  <2>2. still \in Seq(Int) /\ Frames(still) \in Bytes
    BY <1>1, <1>4, <2>1, StillType
  <2> HIDE DEF still
  <2>3. (DownPart(s) \o m.down) \o Frames(still) = Frames(still)
    <3>1. DownPart(s) = <<>> /\ <<>> \o <<>> = <<>>
      BY <1>1, <2>2, BytesType DEF DownPart
    <3> QED BY <1>1, <2>2, <3>1, BytesType
  <2>4. OnTheWay(m, s, slot[k], heard[c], cast)
    BY <1>1, <1>2, <2>2, <2>3 DEF OnTheWay, still
  <2> QED BY <1>1, <1>2, <2>1, <2>4 DEF Down
<1>6. Within(heard[c], cast, Len(cast))
  BY DEF Downs, Heard
<1> QED BY <1>1, <1>3, <1>5, <1>6, OthersDowns

(* A step that leaves a client's connection as far as it comes down. *)
LEMMA KeptDowns ==
  ASSUME Good, Downs, NEW c \in Clients, cli[c].fd # NoFd, OthersSame(c, cli[c].fd),
         UNCHANGED <<slot, heard, cast>>,
         LET n == net[cli[c].fd]
             m == net'[cli[c].fd]
             r == cli[c]
             t == cli'[c] IN
         /\ m.phase = n.phase /\ m.down = n.down /\ m.base = n.base
         /\ m.rst = FALSE => n.rst = FALSE /\ m.sgone = n.sgone
         /\ t.fd = r.fd /\ t.in = r.in /\ ((t.st = "STREAM") <=> (r.st = "STREAM"))
         /\ r.st = "STREAM" => t.dec = r.dec /\ t.base = r.base
  PROVE  Downs'
<1> DEFINE k == cli[c].fd
<1>1. Down(net[k], cli[c], slot[k], heard[c], cast) /\ Within(heard[c], cast, Len(cast))
  BY DEF Downs, Heard
<1>2. Down(net'[k], cli'[c], slot[k], heard[c], cast)
  <2> DEFINE n == net[k]
             m == net'[k]
             r == cli[c]
             t == cli'[c]
             s == slot[k]
             h == heard[c]
  <2>1. /\ m.phase = n.phase /\ m.down = n.down /\ m.base = n.base
        /\ m.rst = FALSE => n.rst = FALSE /\ m.sgone = n.sgone
        /\ t.in = r.in /\ ((t.st = "STREAM") <=> (r.st = "STREAM"))
        /\ r.st = "STREAM" => t.dec = r.dec /\ t.base = r.base
        /\ Down(n, r, s, h, cast)
    BY <1>1
  <2> HIDE DEF n, m, r, t, s, h
  <2>2. Down(m, t, s, h, cast)
    BY <2>1, DownKept
  <2> QED BY <2>2 DEF m, t, s, h
<1>3. cli'[c].fd = k
  OBVIOUS
<1> HIDE DEF k
<1> QED BY <1>1, <1>2, <1>3, OthersBy, OthersDowns DEF k

(* The end of a connection attempt leaves what comes down as it is. *)
LEMMA OnConnectDowns ==
  ASSUME Good, Downs, NEW c \in Clients, OnConnect(c)
  PROVE  Downs'
<1> DEFINE k == cli[c].fd
           r == cli[c]
           s == cli'[c]
<1>1. /\ OthersSame(c, k) /\ k # NoFd
      /\ r.st \in {"CONNECTING", "HELO_WR"} /\ r.cb = "connect"
      /\ \/ s = IdleClient(r.q)
         \/ net' = net /\ s.fd = k /\ s.st = "HELO_WR" /\ s.in = <<>>
  BY OnConnectStep
<1>2. r.in = <<>> /\ UNCHANGED <<slot, heard, cast>>
  BY <1>1, Fields DEF OnConnect, GoodCli
<1>3. CASE s = IdleClient(r.q)
  BY <1>1, <1>2, <1>3, IdleDowns
<1>4. CASE net' = net /\ s.fd = k /\ s.st = "HELO_WR" /\ s.in = <<>>
  BY <1>1, <1>2, <1>4, KeptDowns
<1> QED BY <1>1, <1>3, <1>4

(* What a client sends does not come down. *)
LEMMA WriteHeloDowns ==
  ASSUME Good, Downs, NEW c \in Clients, WriteHelo(c)
  PROVE  Downs'
<1> DEFINE k == cli[c].fd
           r == cli[c]
           s == cli'[c]
<1>1. /\ OthersSame(c, k) /\ k # NoFd
      /\ r.st = "HELO_WR" /\ UpSent(net[k], net'[k], Head(r.left))
      /\ s.fd = k /\ s.st \in {"HELO_WR", "WLCM_RD"}
      /\ s.in = <<>>
  BY WriteHeloStep
<1>2. r.in = <<>> /\ UNCHANGED <<slot, heard, cast>>
  BY <1>1, Fields DEF WriteHelo, GoodCli
<1> QED BY <1>1, <1>2, KeptDowns DEF UpSent

(* The Welcome is read. *)
LEMMA ReadWlcmDowns ==
  ASSUME Good, Downs, NEW c \in Clients, ReadWlcm(c)
  PROVE  /\ Downs'
         /\ cli'[c].st = "STREAM" =>
              LET n == net[cli[c].fd] IN
              /\ Within(heard[c], cast, n.base) /\ n.base \in 0 .. Len(cast)
              /\ Place(net'[cli[c].fd], cli'[c], heard[c]) = n.base
<1> DEFINE k == cli[c].fd
           r == cli[c]
           s == cli'[c]
           got == Append(r.in, Head(net[k].down))
<1>1. /\ OthersSame(c, k) /\ k # NoFd /\ r.st = "WLCM_RD"
      /\ net[k].down # <<>> /\ net[k].rst = FALSE
      /\ \/ /\ DownTaken(net[k], net'[k]) /\ s.fd = k /\ s.in = got
            /\ \/ Len(got) < Parts /\ s.st = "WLCM_RD"
               \/ /\ got = Packet(WLCM) /\ s.st = "STREAM" /\ s.dec = <<>>
                  /\ s.base = Len(heard[c])
         \/ s = IdleClient(r.q)
  BY ReadWlcmStep
<1>2. UNCHANGED <<slot, heard, cast>>
  BY DEF ReadWlcm
<1>3. CASE s = IdleClient(r.q)
  <2>1. s.st # "STREAM"
    BY <1>3 DEF IdleClient
  <2> QED BY <1>1, <1>2, <1>3, <2>1, IdleDowns
<1>4. CASE /\ DownTaken(net[k], net'[k]) /\ s.fd = k /\ s.in = got
           /\ \/ Len(got) < Parts /\ s.st = "WLCM_RD"
              \/ /\ got = Packet(WLCM) /\ s.st = "STREAM" /\ s.dec = <<>>
                 /\ s.base = Len(heard[c])
  <2>1. Down(net[k], r, slot[k], heard[c], cast) /\ Within(heard[c], cast, Len(cast))
    BY <1>1 DEF Downs, Heard
  <2>2. /\ net[k] \in WConn /\ r \in GoodCli /\ slot[k] \in GoodSlot
        /\ heard[c] \in Seq(Int) /\ cast \in Seq(Int) /\ net[k].phase = "up"
    BY <1>1, OthersBy
  <2> DEFINE g == got
  <2>3. g = Append(r.in, Head(net[k].down)) /\ s.in = g
    BY <1>4
  <2> HIDE DEF g
  <2>4. \/ Len(g) < Parts /\ s.st = "WLCM_RD"
        \/ g = Packet(WLCM) /\ s.st = "STREAM" /\ s.dec = <<>> /\ s.base = Len(heard[c])
    BY <1>4 DEF g
  <2>5. /\ Down(net'[k], s, slot[k], heard[c], cast) /\ Within(heard[c], cast, net[k].base)
        /\ s.st = "STREAM" => /\ Place(net'[k], s, heard[c]) = net[k].base
                              /\ net[k].base \in 0 .. Len(cast)
    <3> DEFINE n == net[k]
               m == net'[k]
               v == slot[k]
               h == heard[c]
    <3>1. /\ n \in WConn /\ r \in GoodCli /\ v \in GoodSlot /\ h \in Seq(Int)
          /\ cast \in Seq(Int) /\ Down(n, r, v, h, cast)
          /\ n.phase = "up" /\ n.rst = FALSE /\ n.down # <<>> /\ r.st = "WLCM_RD"
          /\ DownTaken(n, m) /\ g = Append(r.in, Head(n.down)) /\ s.in = g
      BY <1>1, <1>4, <2>1, <2>2, <2>3
    <3>2. WlcmTaken(n, m, r, s, h, g)
      BY <2>4, <3>1 DEF WlcmTaken
    <3> HIDE DEF n, m, v, h, r, s, k
    <3>3. WlcmCame(n, m, s, v, h, cast)
      BY <3>1, <3>2, WlcmRead
    <3> QED BY <3>3 DEF n, m, v, h, r, s, k, WlcmCame
  <2>6. Downs'
    BY <1>1, <1>2, <1>4, <2>1, <2>5, OthersBy, OthersDowns
  <2> QED BY <2>5, <2>6
<1> QED BY <1>1, <1>3, <1>4

(* An error and what a client sends leave what comes down as it is. *)
LEMMA ClientTroubleDowns ==
  ASSUME Good, Downs, NEW c \in Clients, ClientTrouble(c)
  PROVE  Downs'
<1>1. /\ OthersSame(c, cli[c].fd) /\ cli[c].fd # NoFd
      /\ net' = net /\ SameStream(cli[c], cli'[c])
  BY ClientTroubleStep
<1>2. UNCHANGED <<slot, heard, cast>>
  BY DEF ClientTrouble
<1> QED BY <1>1, <1>2, KeptDowns DEF SameStream

(* So does a unit of a frame that is sent up. *)
LEMMA ClientWriteDowns ==
  ASSUME Good, Downs, NEW c \in Clients, ClientWrite(c)
  PROVE  Downs'
<1> DEFINE k == cli[c].fd
           r == cli[c]
           s == cli'[c]
<1>1. /\ OthersSame(c, k) /\ k # NoFd
      /\ r.st = "STREAM" /\ UpSent(net[k], net'[k], Head(r.out))
      /\ s.fd = k /\ s.st = "STREAM"
      /\ s.in = r.in /\ s.dec = r.dec /\ s.base = r.base
  BY ClientWriteStep
<1>2. UNCHANGED <<slot, heard, cast>>
  BY DEF ClientWrite
<1> QED BY <1>1, <1>2, KeptDowns DEF UpSent

(* So does what is published. *)
LEMMA ClientPublishDowns ==
  ASSUME Good, Downs, NEW c \in Clients, NEW kind \in DOMAIN MaxOps, ClientPublish(c, kind)
  PROVE  Downs'
<1> DEFINE k == cli[c].fd
           r == cli[c]
           s == cli'[c]
<1>1. /\ net' = net /\ \A d \in Clients : d # c => cli'[d] = cli[d]
      /\ s.fd = r.fd /\ s.st = r.st /\ s.in = r.in
      /\ s.base = r.base /\ s.dec = r.dec
  BY ClientPublishStep
<1>2. UNCHANGED <<slot, heard, cast>>
  BY DEF ClientPublish
<1>3. CASE k # NoFd
  BY <1>1, <1>2, <1>3, KeptDowns DEF OthersSame
<1>4. CASE k = NoFd
  <2>1. Within(heard[c], cast, Len(cast))
    BY DEF Downs, Heard
  <2> QED BY <1>1, <1>2, <1>4, <2>1, OthersDowns
<1> QED BY <1>3, <1>4

(* A unit of a frame is read, and the frame is heard with its last one. *)
LEMMA ClientReadDowns ==
  ASSUME Good, Downs, NEW c \in Clients, ClientRead(c)
  PROVE  LET r == cli[c]
             n == net[r.fd]
             p == Place(n, r, heard[c])
             u == Head(n.down)
             got == Append(r.dec, u) IN
         /\ Downs'
         /\ cli'[c].st = "STREAM" /\ cli'[c].fd = r.fd /\ cli'[c].base = r.base
         /\ net'[r.fd].base = n.base
         /\ IF Len(got) = Parts
            THEN /\ p \in 0 .. Len(cast) - 1 /\ u[1] = cast[p + 1]
                 /\ heard' = [heard EXCEPT ![c] = Append(@, cast[p + 1])]
            ELSE heard' = heard
<1> DEFINE r == cli[c]
           k == r.fd
           n == net[k]
           s == cli'[c]
           u == Head(n.down)
           got == Append(r.dec, u)
           p == Place(n, r, heard[c])
<1>1. /\ OthersSame(c, k) /\ k # NoFd
      /\ n.down # <<>> /\ n.rst = FALSE /\ DownTaken(n, net'[k])
      /\ r.st = "STREAM" /\ s.fd = k /\ s.st = "STREAM"
      /\ s.in = r.in /\ s.base = r.base
      /\ s.dec = (IF Len(got) = Parts THEN <<>> ELSE got)
      /\ heard' = IF Len(got) = Parts /\ got = Packet(u[1])
                  THEN [heard EXCEPT ![c] = Append(@, u[1])] ELSE heard
  BY ClientReadStep
<1>2. UNCHANGED <<slot, cast>>
  BY DEF ClientRead
<1>3. Down(n, r, slot[k], heard[c], cast) /\ Within(heard[c], cast, Len(cast))
  BY <1>1 DEF Downs, Heard
<1>4. /\ n \in WConn /\ r \in GoodCli /\ slot[k] \in WSlot /\ n.phase = "up"
      /\ heard[c] \in Seq(Int) /\ cast \in Seq(Int) /\ heard \in [Procs -> Seq(Int)]
      /\ c \in Procs
  <2>1. heard \in [Procs -> Seq(Int)] /\ c \in Procs
    BY DEF Good, Records, Procs
  <2> QED BY <1>1, <2>1, OthersBy
<1>5. /\ heard'[c] = IF Len(got) = Parts /\ got = Packet(u[1])
                     THEN Append(heard[c], u[1]) ELSE heard[c]
      /\ \A d \in Clients : d # c => heard'[d] = heard[d]
  BY <1>1, <1>4 DEF Procs
<1>6. /\ Down(net'[k], s, slot[k], heard'[c], cast)
      /\ Len(got) = Parts => /\ got = Packet(u[1]) /\ p \in 0 .. Len(cast) - 1
                             /\ u[1] = cast[p + 1]
  <2> DEFINE m == net'[k]
             v == slot[k]
             h == heard[c]
             g == heard'[c]
  <2>1. /\ n \in WConn /\ r \in GoodCli /\ v \in WSlot /\ h \in Seq(Int)
        /\ cast \in Seq(Int) /\ Down(n, r, v, h, cast)
        /\ n.phase = "up" /\ n.rst = FALSE /\ n.down # <<>> /\ r.st = "STREAM"
        /\ DownTaken(n, m) /\ s.st = "STREAM" /\ s.in = r.in /\ s.base = r.base
    BY <1>1, <1>3, <1>4
  <2>2. StreamTaken(n, m, r, s, h, g)
    BY <1>1, <1>5, <2>1 DEF StreamTaken
  <2>3. StreamCame(n, m, r, s, v, h, g, cast)
    <3> HIDE DEF n, m, v, h, g, r, s, k
    <3> QED BY <2>1, <2>2, StreamRead
  <2> QED BY <2>3 DEF StreamCame
<1> HIDE DEF p, got, u
<1>7. Within(heard'[c], cast, Len(cast))
  <2>1. CASE Len(got) = Parts
    <3>1. heard'[c] = Append(heard[c], cast[p + 1]) /\ p + 1 \in 1 .. Len(cast)
      BY <1>4, <1>5, <1>6, <2>1
    <3>2. cast[p + 1] \in Int
      BY <1>4, <3>1
    <3>3. /\ DOMAIN heard'[c] = 1 .. Len(heard[c]) + 1 /\ Len(heard[c]) \in Nat
          /\ DOMAIN heard[c] = 1 .. Len(heard[c])
          /\ heard'[c][Len(heard[c]) + 1] = cast[p + 1]
          /\ \A i \in 1 .. Len(heard[c]) : heard'[c][i] = heard[c][i]
      BY <1>4, <3>1, <3>2
    <3> QED BY <1>3, <3>1, <3>3 DEF Within
  <2>2. CASE Len(got) # Parts
    BY <1>3, <1>5, <2>2
  <2> QED BY <2>1, <2>2
<1>8. Downs'
  BY <1>1, <1>2, <1>5, <1>6, <1>7, OthersBy, OthersDowns
<1>9. IF Len(got) = Parts THEN heard' = [heard EXCEPT ![c] = Append(@, cast[p + 1])]
      ELSE heard' = heard
  BY <1>1, <1>6 DEF got, u
<1>10. net'[k].base = n.base
  BY <1>1 DEF DownTaken
<1> QED BY <1>1, <1>6, <1>8, <1>9, <1>10 DEF p, got, u

(* What is known of a connection that a client has.                        *)
LEMMA AtConn ==
  ASSUME Good, Downs, NEW k \in Conns, NEW c \in Clients, cli[c].fd = k
  PROVE  /\ Down(net[k], cli[c], slot[k], heard[c], cast)
         /\ Within(heard[c], cast, Len(cast))
         /\ net[k] \in GoodConn /\ net[k] \in WConn
         /\ cli[c] \in GoodCli /\ cli[c] \in WCli
         /\ slot[k] \in GoodSlot /\ slot[k] \in WSlot
         /\ heard[c] \in Seq(Int) /\ cast \in Seq(Int)
         /\ net[k].by = c /\ net[k].cgone = FALSE
         /\ cli[c].st # "CONNECTING" => net[k].phase = "up"
<1>1. cli[c].fd # NoFd
  BY DEF Conns, NoFd
<1>2. heard[c] \in Seq(Int) /\ cast \in Seq(Int)
  BY DEF Good, Records, Procs
<1>3. Down(net[k], cli[c], slot[k], heard[c], cast) /\ Within(heard[c], cast, Len(cast))
  BY <1>1 DEF Downs, Heard
<1> QED BY <1>1, <1>2, <1>3, Fields, Connected

(* A client that gives up leaves the others' streams alone.                *)
LEMMA ToIdleDowns ==
  ASSUME Good, Downs, NEW c \in Clients, ConnectFails(c) \/ Disconnect(c) \/ HandshakeBreaks(c)
  PROVE  Downs'
<1>1. cli[c].st # "IDLE" /\ ToIdle(c) /\ UNCHANGED <<slot, alive, ops, heard, cast>>
  <2>1. cli[c].cb = "hs" => cli[c].st # "IDLE"
    BY Fields DEF GoodCli
  <2> QED BY <2>1 DEF ConnectFails, Disconnect, HandshakeBreaks
<1>2. /\ OthersSame(c, cli[c].fd) /\ cli[c].fd # NoFd
      /\ cli'[c] = IdleClient(cli[c].q)
  BY <1>1, ToIdleStep
<1> QED BY <1>1, <1>2, IdleDowns

(* When the network answers a connection attempt nothing has come down.    *)
LEMMA NetworkDowns ==
  ASSUME Good, Downs, NEW k \in Conns, Establish(k) \/ Refuse(k)
  PROVE  Downs'
<1>1. /\ LeaderSame(k) /\ slot' = slot
      /\ net[k].phase = "syn" /\ net'[k].phase \in {"up", "refused"}
      /\ net'[k].down = net[k].down /\ net'[k].base = net[k].base
  BY NetworkStep
<1>2. heard' = heard /\ cast' = cast
  BY DEF Establish, Refuse
<1>3. ASSUME NEW c \in Clients, cli[c].fd = k
      PROVE  Down(net'[k], cli[c], slot'[k], heard[c], cast)
  <2> DEFINE n == net[k]
             m == net'[k]
             r == cli[c]
             s == slot[k]
             h == heard[c]
  <2>1. /\ Down(n, r, s, h, cast) /\ n \in WConn /\ r \in WCli
        /\ h \in Seq(Int) /\ cast \in Seq(Int)
        /\ r.in = <<>> /\ n.down = <<>> /\ r.st = "CONNECTING"
    BY <1>1, <1>3, AtConn DEF GoodConn, GoodCli
  <2>2. n.phase = "syn" /\ m.phase \in {"up", "refused"} /\ m.down = <<>> /\ m.base = n.base
    BY <1>1, <2>1
  <2> HIDE DEF n, m, r, s, h
  <2>3. s.state = "none" /\ n.base <= Len(cast)
    BY <2>1, <2>2 DEF Down
  <2>4. OnTheWay(m, r, s, h, cast)
    <3> DEFINE rest == Frames(DownStill(n, r, h, cast))
    <3>1. rest \in Bytes
      BY <2>1, <2>3, StillType
    <3>2. DownStill(m, r, h, cast) = DownStill(n, r, h, cast)
      BY <2>1, <2>2 DEF DownStill
    <3>3. (DownPart(r) \o m.down) \o rest = rest
      <4> HIDE DEF rest
      <4>1. DownPart(r) = <<>> /\ m.down = <<>>
        BY <2>1, <2>2 DEF DownPart
      <4> QED BY <3>1, <4>1, BytesType
    <3> QED BY <2>1, <2>2, <2>3, <3>1, <3>2, <3>3 DEF OnTheWay
  <2>5. Down(m, r, s, h, cast)
    BY <2>1, <2>2, <2>3, <2>4 DEF Down
  <2> QED BY <1>1, <2>5 DEF m, r, s, h
<1> QED BY <1>1, <1>2, <1>3, LeaderDowns

(* A connection is accepted, or closed because the table is full.          *)
LEMMA AcceptDowns ==
  ASSUME Good, Downs, NEW k \in Conns, Accept(k)
  PROVE  Downs'
<1>1. /\ LeaderSame(k)
      /\ net[k].phase = "up" /\ net[k].sgone = FALSE /\ slot[k].state = "none"
      /\ \/ net' = net /\ slot'[k].state = "helo"
         \/ Cut(net[k], net'[k]) /\ slot' = slot
  BY AcceptStep
<1>2. heard' = heard /\ cast' = cast
  BY DEF Accept
<1>3. ASSUME NEW c \in Clients, cli[c].fd = k
      PROVE  Down(net'[k], cli[c], slot'[k], heard[c], cast)
  <2> DEFINE n == net[k]
             m == net'[k]
             r == cli[c]
             s == slot[k]
             v == slot'[k]
             h == heard[c]
  <2>1. Down(n, r, s, h, cast) /\ s \in GoodSlot
    BY <1>3, AtConn
  <2>2. CASE net' = net /\ slot'[k].state = "helo"
    <3>1. m = n /\ n.phase = "up" /\ n.sgone = FALSE /\ s.state = "none" /\ v.state = "helo"
      BY <1>1, <2>2
    <3> HIDE DEF n, m, r, s, v, h
    <3>2. Down(m, r, v, h, cast)
      BY <2>1, <3>1, DownKept DEF Quiet
    <3> QED BY <3>2 DEF m, r, v, h
  <2>3. CASE Cut(net[k], net'[k]) /\ slot' = slot
    <3>1. v = NoSlot /\ Cut(n, m) /\ n.phase = "up"
      BY <1>1, <2>1, <2>3 DEF GoodSlot
    <3> HIDE DEF n, m, r, s, v, h
    <3>2. Down(m, r, v, h, cast)
      BY <2>1, <3>1, DownCut
    <3> QED BY <3>2 DEF m, r, v, h
  <2> QED BY <1>1, <2>2, <2>3
<1> QED BY <1>1, <1>2, <1>3, LeaderDowns

(* The leader closes a connection.                                         *)
LEMMA CutDowns ==
  ASSUME Good, Downs, NEW k \in Conns, LeaderSame(k), heard' = heard, cast' = cast,
         slot[k].state # "none", slot'[k] = NoSlot, Cut(net[k], net'[k])
  PROVE  Downs'
<1>1. net[k].phase = "up"
  BY DEF Good, Wired
<1>2. ASSUME NEW c \in Clients, cli[c].fd = k
      PROVE  Down(net'[k], cli[c], slot'[k], heard[c], cast)
  <2>1. Down(net[k], cli[c], slot[k], heard[c], cast)
    BY <1>2, AtConn
  <2> QED BY <1>1, <2>1, DownCut
<1> QED BY <1>2, LeaderDowns

(* The leader reads a unit of the Hello.                                   *)
LEMMA ReadHeloDowns ==
  ASSUME Good, Downs, NEW k \in Conns, ReadHelo(k)
  PROVE  Downs'
<1> DEFINE n == net[k]
           m == net'[k]
           s == slot[k]
           v == slot'[k]
<1>1. /\ LeaderSame(k) /\ s.state = "helo" /\ n.rst = FALSE
      /\ \/ UpTaken(n, m) /\ v.state = "helo"
         \/ Cut(n, m) /\ v = NoSlot
         \/ UpTaken(n, m) /\ v.state = "wlcm" /\ v.left = Packet(WLCM)
  BY ReadHeloStep
<1>2. heard' = heard /\ cast' = cast
  BY DEF ReadHelo
<1>3. n.phase = "up" /\ n.sgone = FALSE
  BY <1>1 DEF Good, Wired
<1>4. CASE Cut(n, m) /\ v = NoSlot
  BY <1>1, <1>2, <1>4, CutDowns
<1>5. CASE UpTaken(n, m) /\ v.state = "helo"
  <2>1. ASSUME NEW c \in Clients, cli[c].fd = k
        PROVE  Down(m, cli[c], v, heard[c], cast)
    <3> DEFINE r == cli[c]
               h == heard[c]
    <3>1. Down(n, r, s, h, cast)
      BY <2>1, AtConn
    <3> HIDE DEF n, m, s, v, r, h
    <3>2. /\ m.phase = n.phase /\ m.down = n.down /\ m.base = n.base
          /\ m.rst = n.rst /\ m.sgone = n.sgone
      BY <1>5 DEF UpTaken
    <3>3. Down(m, r, v, h, cast)
      BY <1>1, <1>3, <1>5, <3>1, <3>2, DownKept DEF Quiet
    <3> QED BY <3>3 DEF r, h
  <2> QED BY <1>1, <1>2, <2>1, LeaderDowns
<1>6. CASE UpTaken(n, m) /\ v.state = "wlcm" /\ v.left = Packet(WLCM)
  <2>1. ASSUME NEW c \in Clients, cli[c].fd = k
        PROVE  Down(m, cli[c], v, heard[c], cast)
    <3> DEFINE r == cli[c]
               h == heard[c]
    <3>1. Down(n, r, s, h, cast)
      BY <2>1, AtConn
    <3> HIDE DEF n, m, s, v, r, h
    <3>2. /\ m.phase = n.phase /\ m.down = n.down /\ m.base = n.base
          /\ m.rst = n.rst /\ m.sgone = n.sgone
      BY <1>6 DEF UpTaken
    <3>3. OnTheWay(n, r, s, h, cast) /\ Quiet(n, s)
      BY <1>1, <1>3, <3>1 DEF Down, Quiet
    <3>4. r.in = <<>> /\ n.down = <<>> /\ r.st # "STREAM"
      BY <3>3 DEF OnTheWay
    <3>5. (r.in \o n.down) \o v.left = Packet(WLCM)
      BY <1>6, <3>4, Greetings, BytesType
    <3>6. DownStill(m, r, h, cast) = DownStill(n, r, h, cast)
      BY <3>2, <3>4 DEF DownStill
    <3>7. ~Quiet(m, v)
      BY <1>6 DEF Quiet
    <3>8. OnTheWay(m, r, v, h, cast)
      BY <1>6, <3>2, <3>3, <3>4, <3>5, <3>6, <3>7 DEF OnTheWay
    <3>9. Down(m, r, v, h, cast)
      BY <1>3, <1>6, <3>1, <3>2, <3>4, <3>8 DEF Down
    <3> QED BY <3>9 DEF r, h
  <2> QED BY <1>1, <1>2, <2>1, LeaderDowns
<1> QED BY <1>1, <1>4, <1>5, <1>6

(* The leader writes a unit of the Welcome.                                *)
LEMMA WriteWlcmDowns ==
  ASSUME Good, Downs, NEW k \in Conns, WriteWlcm(k)
  PROVE  Downs'
<1>1. /\ LeaderSame(k) /\ slot[k].state = "wlcm" /\ slot[k].left # <<>>
      /\ net[k].rst = FALSE /\ DownSent(net[k], net'[k], Head(slot[k].left))
      /\ net'[k].base = Len(cast)
      /\ slot'[k].left = Tail(slot[k].left) /\ slot'[k].out = <<>>
      /\ slot'[k].state = IF Tail(slot[k].left) = <<>> THEN "stream" ELSE "wlcm"
  BY WriteWlcmStep
<1>2. heard' = heard /\ cast' = cast /\ net[k].phase = "up"
  BY <1>1 DEF WriteWlcm, Good, Wired
<1>3. ASSUME NEW c \in Clients, cli[c].fd = k
      PROVE  Down(net'[k], cli[c], slot'[k], heard[c], cast)
  <2> DEFINE n == net[k]
             m == net'[k]
             r == cli[c]
             s == slot[k]
             v == slot'[k]
             h == heard[c]
  <2>1. /\ Down(n, r, s, h, cast) /\ Within(h, cast, Len(cast))
        /\ n \in WConn /\ r \in WCli /\ s \in WSlot /\ cast \in Seq(Int) /\ n.cgone = FALSE
    BY <1>3, AtConn
  <2>2. /\ s.state = "wlcm" /\ s.left # <<>> /\ n.rst = FALSE /\ n.phase = "up"
        /\ DownSent(n, m, Head(s.left)) /\ m.base = Len(cast)
        /\ v.left = Tail(s.left) /\ v.out = <<>>
        /\ v.state = IF Tail(s.left) = <<>> THEN "stream" ELSE "wlcm"
    BY <1>1, <1>2
  <2> HIDE DEF n, m, r, s, v, h
  <2>3. Down(m, r, v, h, cast)
    BY <2>1, <2>2, WlcmWritten
  <2> QED BY <2>3 DEF m, r, v, h
<1> QED BY <1>1, <1>2, <1>3, LeaderDowns

(* An error at the leader changes no stream.                               *)
LEMMA LeaderTroubleDowns ==
  ASSUME Good, Downs, NEW k \in Conns, LeaderTrouble(k)
  PROVE  Downs'
<1>1. LeaderSame(k) /\ net' = net /\ SameSlot(slot[k], slot'[k])
  BY LeaderTroubleStep
<1>2. heard' = heard /\ cast' = cast
  BY DEF LeaderTrouble
<1>3. ASSUME NEW c \in Clients, cli[c].fd = k
      PROVE  Down(net'[k], cli[c], slot'[k], heard[c], cast)
  <2> DEFINE n == net[k]
             r == cli[c]
             s == slot[k]
             v == slot'[k]
             h == heard[c]
  <2>1. Down(n, r, s, h, cast)
    BY <1>3, AtConn
  <2>2. v.state = s.state /\ v.left = s.left /\ v.out = s.out
    BY <1>1 DEF SameSlot
  <2> HIDE DEF n, r, s, v, h
  <2>3. Down(n, r, v, h, cast)
    BY <2>1, <2>2, DownKept
  <2> QED BY <1>1, <2>3 DEF n, r, v, h
<1> QED BY <1>1, <1>2, <1>3, LeaderDowns

(* The leader writes a unit of a frame.                                    *)
LEMMA LeaderWriteDowns ==
  ASSUME Good, Downs, NEW k \in Conns, LeaderWrite(k)
  PROVE  Downs'
<1>1. /\ LeaderSame(k) /\ slot[k].state = "stream" /\ slot[k].out # <<>>
      /\ DownSent(net[k], net'[k], Head(slot[k].out)) /\ net'[k].base = net[k].base
      /\ slot'[k].state = "stream" /\ slot'[k].out = Tail(slot[k].out)
  BY LeaderWriteStep
<1>2. heard' = heard /\ cast' = cast /\ net[k].phase = "up"
  BY <1>1 DEF LeaderWrite, Good, Wired
<1>3. ASSUME NEW c \in Clients, cli[c].fd = k
      PROVE  Down(net'[k], cli[c], slot'[k], heard[c], cast)
  <2> DEFINE n == net[k]
             m == net'[k]
             r == cli[c]
             s == slot[k]
             v == slot'[k]
             h == heard[c]
  <2>1. /\ Down(n, r, s, h, cast) /\ n \in WConn /\ r \in WCli /\ s \in WSlot
        /\ n.cgone = FALSE
    BY <1>3, AtConn
  <2>2. /\ s.state = "stream" /\ s.out # <<>> /\ n.phase = "up"
        /\ DownSent(n, m, Head(s.out)) /\ m.base = n.base
        /\ v.state = "stream" /\ v.out = Tail(s.out)
    BY <1>1, <1>2
  <2> HIDE DEF n, m, r, s, v, h
  <2>3. Down(m, r, v, h, cast)
    BY <2>1, <2>2, DownWritten
  <2> QED BY <2>3 DEF m, r, v, h
<1> QED BY <1>1, <1>2, <1>3, LeaderDowns

(* What the leader broadcasts goes to the end of every stream.             *)
LEMMA CastDowns ==
  ASSUME Good, Downs, cli' = cli, \A c \in Clients : heard'[c] = heard[c],
         NEW more \in Seq(Int), cast' = cast \o more,
         \A k \in Conns : UpTaken(net[k], net'[k]) \/ net'[k] = net[k],
         \A k \in Conns :
           /\ slot'[k].state = slot[k].state /\ slot'[k].left = slot[k].left
           /\ slot'[k].out = IF slot[k].state = "stream"
                             THEN slot[k].out \o Frames(more) ELSE slot[k].out
  PROVE  Downs'
<1>1. cast \in Seq(Int)
  BY DEF Good, Records
<1>2. ASSUME NEW c \in Clients
      PROVE  Within(heard'[c], cast', Len(cast'))
  <2>1. Within(heard[c], cast, Len(cast)) /\ Len(cast) \in Nat /\ Len(cast) <= Len(cast)
    BY <1>1 DEF Downs, Heard
  <2>2. Within(heard[c], cast \o more, Len(cast \o more))
    <3> DEFINE h == heard[c]
               e == Len(cast)
    <3>1. Within(h, cast, e) /\ e \in Nat /\ e <= Len(cast)
      BY <2>1
    <3> HIDE DEF h, e
    <3>2. Within(h, cast \o more, Len(cast \o more))
      BY <1>1, <3>1, WithinMore
    <3> QED BY <3>2 DEF h
  <2> QED BY <2>2
<1>3. ASSUME NEW c \in Clients, cli'[c].fd # NoFd
      PROVE  Down(net'[cli'[c].fd], cli'[c], slot'[cli'[c].fd], heard'[c], cast')
  <2> DEFINE k == cli[c].fd
             n == net[k]
             m == net'[k]
             r == cli[c]
             s == slot[k]
             v == slot'[k]
             h == heard[c]
  <2>1. k \in Conns
    BY <1>3, Fields
  <2>2. /\ Down(n, r, s, h, cast) /\ n \in WConn /\ r \in WCli /\ s \in GoodSlot
        /\ h \in Seq(Int)
    BY <2>1, AtConn
  <2>3. /\ v.state = s.state /\ v.left = s.left
        /\ v.out = IF s.state = "stream" THEN s.out \o Frames(more) ELSE s.out
        /\ UpTaken(n, m) \/ m = n
    BY <2>1
  <2> HIDE DEF n, m, r, s, v, h, k
  <2>4. Down(n, r, v, h, cast \o more)
    BY <1>1, <2>2, <2>3, DownMore
  <2>5. /\ m.phase = n.phase /\ m.down = n.down /\ m.base = n.base
        /\ m.rst = n.rst /\ m.sgone = n.sgone
    BY <2>3 DEF UpTaken
  <2> DEFINE ca == cast \o more
  <2> HIDE DEF ca
  <2>6. Down(n, r, v, h, ca)
    BY <2>4 DEF ca
  <2>7. Down(m, r, v, h, ca)
    BY <2>5, <2>6, DownKept
  <2> QED BY <2>7 DEF m, r, v, h, ca, k
<1> QED BY <1>2, <1>3 DEF Downs, Heard

(* So it is when the leader publishes.                                     *)
LEMMA LeaderPublishDowns ==
  ASSUME Good, Downs, NEW kind \in DOMAIN MaxOps, LeaderPublish(kind)
  PROVE  Downs'
<1>1. /\ net' = net /\ cli' = cli
      /\ heard' = [heard EXCEPT ![L] = Append(@, NewId)]
      /\ cast' = cast \o <<NewId>> /\ NewId \in Int
      /\ \A k \in Conns : CastTo(slot[k], slot'[k], <<NewId>>)
  BY LeaderPublishStep
<1>2. \A c \in Clients : heard'[c] = heard[c]
  BY <1>1, StarAssumption DEF Good, Records, Procs
<1>3. <<NewId>> \in Seq(Int)
  BY <1>1
<1> DEFINE more == <<NewId>>
<1>4. \A k \in Conns :
        /\ slot'[k].state = slot[k].state /\ slot'[k].left = slot[k].left
        /\ slot'[k].out = IF slot[k].state = "stream"
                          THEN slot[k].out \o Frames(more) ELSE slot[k].out
  BY <1>1 DEF CastTo
<1>5. \A k \in Conns : net'[k] = net[k]
  BY <1>1
<1>6. more \in Seq(Int) /\ cast' = cast \o more
  BY <1>1, <1>3
<1> HIDE DEF more
<1> QED BY <1>1, <1>2, <1>4, <1>5, <1>6, CastDowns

(* And when it reads from a client.                                        *)
LEMMA LeaderReadDowns ==
  ASSUME Good, Downs, NEW k \in Conns, LeaderRead(k)
  PROVE  Downs'
<1>1. /\ cli' = cli /\ slot[k].state = "stream"
      /\ UpTaken(net[k], net'[k]) /\ \A j \in Conns : j # k => net'[j] = net[j]
      /\ \A c \in Clients : heard'[c] = heard[c]
      /\ slot'[k].state = "stream" /\ slot'[k].left = slot[k].left
      /\ \E more \in Seq(Int) :
           /\ cast' = cast \o more
           /\ slot'[k].out = slot[k].out \o Frames(more)
           /\ \A j \in Conns : j # k => CastTo(slot[j], slot'[j], more)
  BY LeaderReadStep
<1>2. PICK more \in Seq(Int) :
        /\ cast' = cast \o more
        /\ slot'[k].out = slot[k].out \o Frames(more)
        /\ \A j \in Conns : j # k => CastTo(slot[j], slot'[j], more)
  BY <1>1
<1>3. \A j \in Conns :
        /\ slot'[j].state = slot[j].state /\ slot'[j].left = slot[j].left
        /\ slot'[j].out = IF slot[j].state = "stream"
                          THEN slot[j].out \o Frames(more) ELSE slot[j].out
  BY <1>1, <1>2 DEF CastTo
<1>4. \A j \in Conns : UpTaken(net[j], net'[j]) \/ net'[j] = net[j]
  BY <1>1
<1> QED BY <1>1, <1>2, <1>3, <1>4, CastDowns

(* The leader's program ends.                                              *)
LEMMA LeaderQuitsDowns ==
  ASSUME Good, Downs, LeaderQuits
  PROVE  Downs'
<1>1. /\ cli' = cli
      /\ \A k \in Conns :
           /\ slot'[k] = NoSlot
           /\ IF net[k].phase = "up" THEN Cut(net[k], net'[k]) ELSE net'[k] = net[k]
  BY LeaderQuitsStep
<1>2. heard' = heard /\ cast' = cast
  BY DEF LeaderQuits
<1>3. ASSUME NEW c \in Clients, cli'[c].fd # NoFd
      PROVE  Down(net'[cli'[c].fd], cli'[c], slot'[cli'[c].fd], heard'[c], cast')
  <2> DEFINE k == cli[c].fd
  <2>1. k \in Conns
    BY <1>1, <1>3, Fields
  <2>2. Down(net[k], cli[c], slot[k], heard[c], cast) /\ slot[k] \in GoodSlot
    BY <2>1, AtConn
  <2>3. CASE net[k].phase = "up"
    <3>1. Down(net'[k], cli[c], NoSlot, heard[c], cast)
      BY <1>1, <2>1, <2>2, <2>3, DownCut
    <3> QED BY <1>1, <1>2, <2>1, <3>1
  <2>4. CASE net[k].phase # "up"
    <3>1. slot[k] = NoSlot
      BY <2>1, <2>2, <2>4 DEF Good, Wired, GoodSlot
    <3> QED BY <1>1, <1>2, <2>1, <2>2, <2>4, <3>1
  <2> QED BY <2>3, <2>4
<1> QED BY <1>1, <1>2, <1>3 DEF Downs, Heard

(* At the start nobody is connected.                                       *)
LEMMA InitDowns ==
  ASSUME Init
  PROVE  Downs
<1>1. \A c \in Clients : heard[c] = <<>> /\ cli[c].fd = NoFd
  BY DEF Init, Procs, IdleClient
<1> QED BY <1>1 DEF Downs, Heard, Within

(* Every step keeps what comes down a whole stream.                        *)
LEMMA NextDowns ==
  ASSUME Good, Downs, [Next]_vars
  PROVE  Downs'
<1>1. CASE UNCHANGED vars
  BY <1>1 DEF vars, Downs, Heard
<1>2. ASSUME NEW c \in Clients,
             \/ ConnectFails(c)
             \/ \E k \in Conns, async \in Async : Connect(c, k, async)
             \/ Disconnect(c)
             \/ \E kind \in DOMAIN MaxOps : ClientPublish(c, kind)
      PROVE  Downs'
  BY <1>2, ToIdleDowns, ConnectDowns, ClientPublishDowns
<1>3. ASSUME NEW c \in Clients, ClientTick(c)
      PROVE  Downs'
  BY <1>3, OnConnectDowns, ToIdleDowns, WriteHeloDowns, ReadWlcmDowns,
     ClientTroubleDowns, ClientWriteDowns, ClientReadDowns DEF ClientTick
<1>4. ASSUME NEW k \in Conns, LeaderTick(k) \/ Establish(k) \/ Refuse(k)
      PROVE  Downs'
  <2>1. ClientLeaves(k) => Downs'
    <3> SUFFICES ASSUME ClientLeaves(k) PROVE Downs'
      OBVIOUS
    <3>1. /\ LeaderSame(k) /\ slot'[k] = NoSlot /\ Cut(net[k], net'[k])
          /\ slot[k].state \in {"helo", "wlcm"}
      BY ClientLeavesStep
    <3>2. heard' = heard /\ cast' = cast
      BY DEF ClientLeaves
    <3> QED BY <3>1, <3>2, CutDowns
  <2> QED BY <1>4, <2>1, NetworkDowns, AcceptDowns, ReadHeloDowns, WriteWlcmDowns,
             LeaderTroubleDowns, LeaderWriteDowns, LeaderReadDowns DEF LeaderTick
<1>5. ASSUME NEW kind \in DOMAIN MaxOps, LeaderPublish(kind)
      PROVE  Downs'
  BY <1>5, LeaderPublishDowns
<1>6. CASE LeaderQuits
  BY <1>6, LeaderQuitsDowns
<1> QED BY <1>1, <1>2, <1>3, <1>4, <1>5, <1>6 DEF Next, User

(* The two parts of a sequence.                                            *)
PartsOf(l, m, w) ==
  /\ Len(w) = Len(l) + Len(m)
  /\ \A i \in 1 .. Len(l) : l[i] = w[i]
  /\ \A i \in 1 .. Len(m) : m[i] = w[Len(l) + i]

(* Joined they are that sequence.                                          *)
LEMMA JoinsTo ==
  ASSUME NEW l \in Seq(Int), NEW m \in Seq(Int), NEW w \in Seq(Int), PartsOf(l, m, w)
  PROVE  l \o m = w
<1> DEFINE z == l \o m
           d == Len(l)
           e == Len(m)
<1>a. /\ d \in Nat /\ e \in Nat /\ Len(l) = d /\ Len(m) = e /\ Len(w) = d + e
      /\ \A i \in 1 .. d : l[i] = w[i]
      /\ \A i \in 1 .. e : m[i] = w[d + i]
  BY DEF PartsOf
<1> HIDE DEF d, e
<1> USE <1>a
<1>1. z \in Seq(Int) /\ Len(z) = d + e
  BY ConcatProperties
<1>2. \A i \in 1 .. d : z[i] = l[i]
  BY ConcatProperties
<1>3. \A i \in 1 .. e : z[d + i] = m[i]
  BY ConcatProperties
<1> HIDE DEF z
<1>4. \A i \in 1 .. d + e : z[i] = w[i]
  <2> SUFFICES ASSUME NEW i \in 1 .. d + e PROVE z[i] = w[i]
    OBVIOUS
  <2>1. CASE i \in 1 .. d
    BY <1>2, <2>1
  <2>2. CASE i \notin 1 .. d
    <3>1. i - d \in 1 .. e /\ d + (i - d) = i
      BY <2>2
    <3>2. z[d + (i - d)] = m[i - d] /\ m[i - d] = w[d + (i - d)]
      BY <1>3, <3>1
    <3> QED BY <3>1, <3>2
  <2> QED BY <2>1, <2>2
<1>5. z = w
  BY <1>1, <1>4, SeqEqual
<1> QED BY <1>5 DEF z

(* Five pieces of a stream put together in another order of steps.         *)
Regroup(w, f, d, e, o) ==
  ((w \o (f \o d)) \o e) \o o = w \o (f \o ((d \o e) \o o))

(* The order does not matter.                                              *)
LEMMA BytesChain ==
  ASSUME NEW w \in Bytes, NEW f \in Bytes, NEW d \in Bytes, NEW e \in Bytes, NEW o \in Bytes
  PROVE  Regroup(w, f, d, e, o)
<1> DEFINE fd == f \o d
           de == d \o e
           fde == f \o de
<1>1. fd \in Bytes /\ de \in Bytes
  BY BytesType
<1>2. fd \o e = fde
  <2>1. Assoc(f, d, e)
    BY BytesAssocs
  <2> QED BY <2>1 DEF Assoc
<1> HIDE DEF fd, de
<1>3. fde \in Bytes
  BY <1>1, BytesType
<1>4. fde \o o = f \o (de \o o)
  <2>1. Assoc(f, de, o)
    BY <1>1, BytesAssocs
  <2> QED BY <2>1 DEF Assoc
<1> HIDE DEF fde
<1>5. (w \o fd) \o e = w \o fde
  <2>1. Assoc(w, fd, e)
    BY <1>1, BytesAssocs
  <2> QED BY <1>2, <2>1 DEF Assoc
<1>6. (w \o fde) \o o = w \o (fde \o o)
  <2>1. Assoc(w, fde, o)
    BY <1>3, BytesAssocs
  <2> QED BY <2>1 DEF Assoc
<1> QED BY <1>4, <1>5, <1>6 DEF fd, de, Regroup

(* What a client heard on its connection and what is still to come is all  *)
(* of the log behind the place where it joined.                            *)
LEMMA HeardThenRest ==
  ASSUME NEW n \in WConn, NEW r \in WCli, NEW h \in Seq(Int), NEW ca \in Seq(Int),
         n.base <= Len(ca), InStep(n, r, h, ca)
  PROVE  /\ Rest(h, r.base) \in Seq(Int) /\ Place(n, r, h) \in 0 .. Len(ca)
         /\ n.base \in 0 .. Len(ca)
         /\ Rest(h, r.base) \o Rest(ca, Place(n, r, h)) = Rest(ca, n.base)
<1> DEFINE a == n.base
           b == r.base
           x == Len(h)
           y == Len(ca)
           p == Place(n, r, h)
<1>1. /\ a \in Nat /\ b \in Nat /\ x \in Nat /\ y \in Nat /\ a <= y /\ b <= x
      /\ p = a + x - b /\ p <= y
      /\ \A i \in 1 .. x - b : h[b + i] = ca[a + i]
  BY DEF WConn, WCli, InStep, Place
<1> HIDE DEF a, b, x, y, p
<1>2. /\ p \in Nat /\ p \in 0 .. y /\ a \in 0 .. y /\ b \in 0 .. x /\ x - b \in Nat
      /\ y - p \in Nat /\ y - a \in Nat /\ (x - b) + (y - p) = y - a /\ p = a + (x - b)
  BY <1>1
<1>3. /\ Rest(h, b) \in Seq(Int) /\ Len(Rest(h, b)) = x - b
      /\ \A i \in 1 .. x - b : Rest(h, b)[i] = h[b + i]
  BY <1>2, RestType DEF x
<1>4. /\ Rest(ca, p) \in Seq(Int) /\ Len(Rest(ca, p)) = y - p
      /\ \A i \in 1 .. y - p : Rest(ca, p)[i] = ca[p + i]
  BY <1>2, RestType DEF y
<1>5. /\ Rest(ca, a) \in Seq(Int) /\ Len(Rest(ca, a)) = y - a
      /\ \A i \in 1 .. y - a : Rest(ca, a)[i] = ca[a + i]
  BY <1>2, RestType DEF y
<1> DEFINE l == Rest(h, b)
           m == Rest(ca, p)
           w == Rest(ca, a)
           d == x - b
           e == y - p
<1>6. /\ l \in Seq(Int) /\ m \in Seq(Int) /\ w \in Seq(Int) /\ d \in Nat /\ e \in Nat
      /\ Len(l) = d /\ Len(m) = e /\ Len(w) = d + e
      /\ \A i \in 1 .. d : l[i] = w[i]
      /\ \A i \in 1 .. e : m[i] = w[d + i]
  <2>1. \A i \in 1 .. d : l[i] = w[i]
    BY <1>1, <1>2, <1>3, <1>5
  <2>2. \A i \in 1 .. e : m[i] = w[d + i]
    <3> SUFFICES ASSUME NEW i \in 1 .. e PROVE m[i] = w[d + i]
      OBVIOUS
    <3>1. m[i] = ca[p + i] /\ p + i = a + (d + i) /\ d + i \in 1 .. y - a
      BY <1>1, <1>2, <1>4
    <3>2. w[d + i] = ca[a + (d + i)]
      BY <1>5, <3>1
    <3> QED BY <3>1, <3>2
  <2> HIDE DEF l, m, w
  <2> QED BY <1>2, <1>3, <1>4, <1>5, <2>1, <2>2 DEF l, m, w
<1> HIDE DEF l, m, w, d, e
<1>7. l \o m = w
  <2>1. PartsOf(l, m, w)
    BY <1>6 DEF PartsOf
  <2> QED BY <1>6, <2>1, JoinsTo
<1> QED BY <1>2, <1>3, <1>7 DEF l, m, w, a, b, x, y, p

(* So the whole stream to a client is the Welcome and the log behind it.   *)
LEMMA DownsWhole ==
  ASSUME Good, Downs
  PROVE  DownStream
<1> SUFFICES ASSUME NEW c \in Clients, NEW k \in Conns,
                    Joined(c, k), slot[k].state \in {"wlcm", "stream"}
             PROVE  LET r == cli[c]
                        s == slot[k]
                        new == SubSeq(heard[c], r.base + 1, Len(heard[c]))
                        came == r.in \o (IF r.st = "STREAM" THEN Frames(new) \o r.dec ELSE <<>>)
                        since == IF s.state = "wlcm" THEN <<>>
                                 ELSE SubSeq(cast, net[k].base + 1, Len(cast))
                    IN  came \o net[k].down \o s.left \o s.out = Packet(WLCM) \o Frames(since)
  BY DEF DownStream
<1> DEFINE n == net[k]
           r == cli[c]
           s == slot[k]
           h == heard[c]
           ca == cast
           since == IF s.state = "wlcm" THEN <<>> ELSE Rest(ca, n.base)
           came == r.in \o (IF r.st = "STREAM" THEN Frames(Rest(h, r.base)) \o r.dec ELSE <<>>)
<1>1. /\ Down(n, r, s, h, ca) /\ n \in WConn /\ r \in GoodCli /\ r \in WCli
      /\ s \in GoodSlot /\ s \in WSlot
      /\ h \in Seq(Int) /\ ca \in Seq(Int)
      /\ n.phase = "up" /\ n.rst = FALSE /\ s.state \in {"wlcm", "stream"}
  <2>1. cli[c].fd = k /\ slot[k].state # "none" /\ ~net[k].rst
    BY DEF Joined
  <2>2. n.phase = "up"
    BY <2>1 DEF Good, Wired
  <2>3. net[k].rst \in BOOLEAN
    BY <2>1, AtConn DEF WConn
  <2> QED BY <2>1, <2>2, <2>3, AtConn
<1> SUFFICES ((came \o n.down) \o s.left) \o s.out = Packet(WLCM) \o Frames(since)
  BY DEF Rest
<1> HIDE DEF n, r, s, h, ca
<1>2. /\ r.in \in Bytes /\ r.dec \in Bytes /\ n.down \in Bytes /\ s.left \in Bytes
      /\ s.out \in Bytes /\ n.base \in Nat /\ r.base \in Nat
  BY <1>1 DEF WConn, WCli, WSlot
<1>3. n.base <= Len(ca) /\ OnTheWay(n, r, s, h, ca)
  BY <1>1 DEF Down
<1>4. PICK rest \in Bytes : OnTheWay(n, r, s, h, ca)!(rest)
  BY <1>3 DEF OnTheWay
<1>5. CASE s.state = "wlcm"
  <2>1. (r.in \o n.down) \o s.left = Packet(WLCM) /\ r.st # "STREAM" /\ s.out = <<>>
    BY <1>1, <1>4, <1>5 DEF GoodSlot
  <2>2. came = r.in /\ since = <<>>
    BY <1>2, <1>5, <2>1, BytesType
  <2>3. Frames(since) = <<>>
    BY <2>2, FramesEmpty
  <2> HIDE DEF came, since
  <2>4. Packet(WLCM) \o <<>> = Packet(WLCM)
    BY Greetings, BytesType
  <2> QED BY <2>1, <2>2, <2>3, <2>4
<1>6. CASE s.state = "stream"
  <2>1. s.left = <<>> /\ rest = s.out /\ since = Rest(ca, n.base)
    BY <1>1, <1>4, <1>6 DEF GoodSlot
  <2>2. n.base \in 0 .. Len(ca) /\ Rest(ca, n.base) \in Seq(Int)
    BY <1>1, <1>3, StillType DEF Down
  <2>3. CASE r.st # "STREAM"
    <3>1. came = r.in /\ DownPart(r) = r.in
          /\ DownStill(n, r, h, ca) = <<WLCM>> \o Rest(ca, n.base)
      BY <1>2, <2>3, BytesType DEF DownPart, DownStill
    <3>2. (r.in \o n.down) \o s.out = Frames(<<WLCM>> \o Rest(ca, n.base))
      BY <1>4, <2>1, <3>1
    <3>3. Frames(<<WLCM>> \o Rest(ca, n.base)) = Packet(WLCM) \o Frames(Rest(ca, n.base))
      BY <2>2, Greetings, FramesFirst DEF Messages
    <3>4. (r.in \o n.down) \o s.left = r.in \o n.down
      BY <1>2, <2>1, BytesType
    <3> HIDE DEF came, since
    <3> QED BY <2>1, <3>1, <3>2, <3>3, <3>4
  <2>4. CASE r.st = "STREAM"
    <3> DEFINE new == Rest(h, r.base)
               p == Place(n, r, h)
    <3>1. InStep(n, r, h, ca) /\ r.in = Packet(WLCM)
      BY <1>1, <2>4 DEF Down, GoodCli
    <3>2. /\ new \in Seq(Int) /\ p \in 0 .. Len(ca) /\ new \o Rest(ca, p) = Rest(ca, n.base)
      BY <1>1, <1>3, <3>1, HeardThenRest
    <3>3. came = Packet(WLCM) \o (Frames(new) \o r.dec) /\ since = new \o Rest(ca, p)
      BY <2>1, <2>4, <3>1, <3>2
    <3>4. Rest(ca, p) \in Seq(Int)
      BY <1>1, <3>2, RestType
    <3>5. (r.dec \o n.down) \o s.out = Frames(Rest(ca, p))
      BY <1>4, <2>1, <2>4 DEF DownPart, DownStill
    <3> DEFINE y == Rest(ca, p)
               w == Packet(WLCM)
               f == Frames(new)
               g == Frames(y)
               z == Frames(new \o y)
               d == r.dec
               e == n.down
               o == s.out
    <3> HIDE DEF new, p, came, since
    <3>6. /\ w \in Bytes /\ f \in Bytes /\ g \in Bytes
      <4>1. w \in Bytes
        BY Greetings
      <4>2. f \in Bytes /\ g \in Bytes
        BY <3>2, <3>4, FramesShape DEF Bytes, Unit, Messages
      <4> QED BY <4>1, <4>2
    <3>7. z = f \o g
      BY <3>2, <3>4, FramesConcat
    <3>8. came = w \o (f \o d) /\ s.left = <<>> /\ (d \o e) \o o = g /\ Frames(since) = z
          /\ d \in Bytes /\ e \in Bytes /\ o \in Bytes
      BY <1>2, <2>1, <3>3, <3>5
    <3> HIDE DEF y, w, f, g, z, d, e, o
    <3>9. came \in Bytes
      <4>1. f \o d \in Bytes
        BY <3>6, <3>8, BytesType
      <4> QED BY <3>6, <3>8, <4>1, BytesType
    <3>10. ((came \o e) \o s.left) \o o = ((w \o (f \o d)) \o e) \o o
      <4>1. came \o e \in Bytes
        BY <3>8, <3>9, BytesType
      <4>2. (came \o e) \o s.left = came \o e
        BY <3>8, <4>1, BytesType
      <4> QED BY <3>8, <4>2
    <3>11. ((w \o (f \o d)) \o e) \o o = w \o (f \o ((d \o e) \o o))
      <4>1. w \in Bytes /\ f \in Bytes /\ d \in Bytes /\ e \in Bytes /\ o \in Bytes
        BY <3>6, <3>8
      <4>2. Regroup(w, f, d, e, o)
        BY <4>1, BytesChain
      <4> QED BY <4>2 DEF Regroup
    <3> QED BY <3>7, <3>8, <3>10, <3>11 DEF e, o, w, z
  <2> QED BY <2>3, <2>4
<1> QED BY <1>1, <1>5, <1>6

(* What comes down is a whole stream as long as the program runs.          *)
THEOREM StaysDown == Spec => []Downs
<1>1. Init => Good /\ Downs
  BY InitGood, InitDowns
<1>2. Good /\ Downs /\ [Next]_vars => (Good /\ Downs)'
  BY NextGood, NextDowns
<1> QED BY <1>1, <1>2, PTL DEF Spec

=============================================================================
