---------------------------- MODULE RtspRelayProofs ----------------------------
(***************************************************************************)
(* Proofs about RtspRelay, for every size of the socket and number of      *)
(* clients.  What the properties say of the stream from the encoder to the *)
(* server holds because the relay starts with a key frame and then misses  *)
(* none: rtsp_index is 2 only if the last packet was relayed.  A source is *)
(* fed as long as the other one has not cleared send_status under it,      *)
(* which clients that ask for the SDP line first cannot bring about.       *)
(***************************************************************************)
EXTENDS RtspRelay, SequenceTheorems, TLAPS

LinkInv == rtsp_index = 2 => prevSent

\* send_status is 1 from the making of a source to its end, unless the end of the other one
\* cleared it; and only a source is read.
SendInv == /\ stream # "none" \/ probe # "none" => send_status = 1 \/ cut
           /\ loop = "stream" => stream = "playing"
           /\ loop = "probe" => probe # "none"

\* Clients that know the SDP line before they send SETUP: then probe and stream are never
\* there together.
Polite == [][clients' > clients => sdp]_vars
ApartInv == ~cut /\ (~sdp => stream = "none") /\ (probe # "none" => ~sdp)

\* The thread that is blocked in read is not forgotten: whatever the encoder relays now,
\* its next key frame comes to the socket.
ReaderFed == loop # "idle" /\ ~cut => \A lk \in BOOLEAN :
               Relay([kind |-> "idr", linked |-> lk], IndexSeen) # <<>>

\* The encoder's thread, while it is in write: the items it has still to write, and the
\* steps of the event loop (begin to read, read) until the next one finds room.
WriteRank == 3 * Len(out) + (IF Len(sock) < Room THEN 0 ELSE IF loop = "idle" THEN 2 ELSE 1)

\* While a source is played nothing puts the writer off: what it writes only gets less,
\* neither the clients that come and go nor the event loop make its way longer, and every
\* write, and every step of the event loop to or from a read of a full socket, makes it shorter.
WriterNearer ==
  [][out # <<>> /\ Consumed' =>
       /\ out' = out \/ out' = Tail(out)
       /\ WriteRank' <= WriteRank
       /\ Write \/ (Len(sock) = Room /\ loop' # loop) => WriteRank' < WriteRank]_vars

\* The two threads do not wait for each other: there is room for the writer, or an item
\* for the read, or the event loop is free to begin one.
SomebodyMoves == out # <<>> /\ Consumed =>
                   Len(sock) < Room \/ (loop # "idle" /\ sock # <<>>) \/ loop = "idle"

IInv == TypeOK /\ LinkInv /\ Decodable

Kind == {"idr", "p"}

-------------------------------------------------------------------------------

\* What is on its way is a sequence of items.
LEMMA SentSeq ==
  ASSUME TypeOK
  PROVE  /\ Sent \in Seq(Item) /\ Len(Sent) = Len(sock) + Len(out)
         /\ Len(sock) \in Nat /\ Len(out) \in Nat /\ Len(Sent) \in Nat
         /\ DOMAIN Sent = 1..Len(Sent)
         /\ \A i \in DOMAIN Sent : Sent[i] \in Item
<1>1. sock \in Seq(Item) /\ out \in Seq(Item)
  BY DEF TypeOK
<1>2. Sent \in Seq(Item) /\ Len(Sent) = Len(sock) + Len(out)
  BY <1>1, ConcatProperties DEF Sent
<1>3. Len(sock) \in Nat /\ Len(out) \in Nat /\ Len(Sent) \in Nat /\ DOMAIN Sent = 1..Len(Sent)
  BY <1>1, <1>2, LenProperties
<1>4. QED
  BY <1>2, <1>3, ElementOfSeq

\* encoderDataReady looks at send_status only while it does not relay.
LEMMA IndexSeenType ==
  ASSUME TypeOK
  PROVE  /\ IndexSeen \in 0..2 /\ (IndexSeen = 2 => rtsp_index = 2)
         /\ IndexSeen # 2 => IndexSeen \in {0, 1}
BY DEF TypeOK, IndexSeen

\* What a frame puts behind the items on their way: nothing, the header with a key frame,
\* or, while relaying, the frame.
LEMMA FrameEffect ==
  ASSUME TypeOK, NEW kind \in Kind, Frame(kind)
  PROVE  \E f \in Item :
         /\ f = [kind |-> kind, linked |-> prevSent]
         /\ UNCHANGED <<h264headerflags, sock, send_status, server>>
         /\ out = <<>> /\ prevSent' \in BOOLEAN
         /\ \/ /\ out' = <<>> /\ rtsp_index' \in {0, 1} /\ prevSent' = FALSE
            \/ /\ out' = <<Header, f>> /\ rtsp_index' = 2 /\ prevSent' = TRUE /\ kind = "idr"
            \/ /\ out' = <<f>> /\ rtsp_index' = 2 /\ prevSent' = TRUE /\ rtsp_index = 2
<1> DEFINE f == [kind |-> kind, linked |-> prevSent]
<1>1. f \in Item /\ f.kind = kind
  BY DEF TypeOK, Item, Kind
<1> HIDE DEF f
<1>2. /\ out = <<>> /\ out' = Relay(f, IndexSeen)
      /\ prevSent' = (out' # <<>>)
      /\ rtsp_index' = IF out' # <<>> THEN 2 ELSE IndexSeen
      /\ UNCHANGED <<h264headerflags, sock, send_status, server>>
  BY DEF Frame, f
<1>3. prevSent' \in BOOLEAN
  BY <1>2
<1>4. IndexSeen \in {0, 1, 2} /\ (IndexSeen = 2 => rtsp_index = 2)
  BY IndexSeenType
<1>5. <<Header, f>> # <<>> /\ <<f>> # <<>>
  OBVIOUS
<1>6. CASE IndexSeen = 0
  <2>1. out' = <<>>
    BY <1>2, <1>6 DEF Relay
  <2>2. QED
    BY <1>1, <1>2, <1>3, <1>6, <2>1 DEF f
<1>7. CASE IndexSeen = 1 /\ kind # "idr"
  <2>1. out' = <<>>
    BY <1>1, <1>2, <1>7 DEF Relay
  <2>2. QED
    BY <1>1, <1>2, <1>3, <1>7, <2>1 DEF f
<1>8. CASE IndexSeen = 1 /\ kind = "idr"
  <2>1. out' = <<Header, f>>
    BY <1>1, <1>2, <1>8 DEF Relay
  <2>2. QED
    BY <1>1, <1>2, <1>3, <1>5, <1>8, <2>1 DEF f
<1>9. CASE IndexSeen = 2
  <2>1. out' = <<f>>
    BY <1>2, <1>9 DEF Relay
  <2>2. QED
    BY <1>1, <1>2, <1>3, <1>4, <1>5, <1>9, <2>1 DEF f
<1>10. QED
  BY <1>4, <1>6, <1>7, <1>8, <1>9

\* A write moves the first of the two parts' border, and nothing else.
LEMMA WriteEffect ==
  ASSUME TypeOK, Write
  PROVE  /\ sock' \in Seq(Item) /\ Len(sock') = Len(sock) + 1 /\ out' \in Seq(Item)
         /\ Len(out') = Len(out) - 1 /\ Sent' = Sent
<1>1. /\ sock \in Seq(Item) /\ out \in Seq(Item) /\ out # <<>>
      /\ sock' = Append(sock, Head(out)) /\ out' = Tail(out)
  BY DEF TypeOK, Write
<1>2. /\ Head(out) \in Item /\ out' \in Seq(Item) /\ Len(out') = Len(out) - 1
      /\ \A i \in 1..Len(out') : out'[i] = out[i+1]
  BY <1>1, HeadTailProperties
<1>3. /\ sock' \in Seq(Item) /\ Len(sock') = Len(sock) + 1
      /\ \A i \in 1..Len(sock) : sock'[i] = sock[i]
      /\ sock'[Len(sock)+1] = out[1]
  <2>1. Head(out) = out[1]
    BY <1>1
  <2>2. QED
    BY <1>1, <1>2, <2>1, AppendProperties
<1>4. Len(sock) \in Nat /\ Len(out) \in Nat \ {0} /\ Len(out') \in Nat
  BY <1>1, <1>2, LenProperties, EmptySeq
<1>5. /\ Sent \in Seq(Item) /\ Len(Sent) = Len(sock) + Len(out)
      /\ \A i \in 1..Len(sock)+Len(out) :
           Sent[i] = IF i <= Len(sock) THEN sock[i] ELSE out[i - Len(sock)]
  BY <1>1, ConcatProperties DEF Sent
<1>6. Sent' = sock' \o out'
  BY DEF Sent
<1>7. /\ sock' \o out' \in Seq(Item) /\ Len(sock' \o out') = Len(sock') + Len(out')
      /\ \A i \in 1..Len(sock')+Len(out') :
           (sock' \o out')[i] = IF i <= Len(sock') THEN sock'[i] ELSE out'[i - Len(sock')]
  BY <1>2, <1>3, ConcatProperties
<1>8. Sent' = Sent
  <2>1. Len(Sent') = Len(Sent)
    BY <1>2, <1>3, <1>4, <1>5, <1>6, <1>7
  <2>2. ASSUME NEW i \in 1..Len(Sent) PROVE Sent'[i] = Sent[i]
    <3>1. i \in 1..Len(sock)+Len(out) /\ i \in 1..Len(sock')+Len(out')
      BY <1>2, <1>3, <1>4, <1>5
    <3>2. CASE i <= Len(sock)
      BY <1>3, <1>4, <1>5, <1>6, <1>7, <3>1, <3>2
    <3>3. CASE i = Len(sock)+1
      BY <1>3, <1>4, <1>5, <1>6, <1>7, <3>1, <3>3
    <3>4. CASE i > Len(sock)+1
      <4>1. Sent[i] = out[i - Len(sock)]
        BY <1>4, <1>5, <3>1, <3>4
      <4>2. Sent'[i] = out'[i - (Len(sock)+1)]
        BY <1>3, <1>4, <1>6, <1>7, <3>1, <3>4
      <4>3. i - (Len(sock)+1) \in 1..Len(out') /\ (i - (Len(sock)+1)) + 1 = i - Len(sock)
        BY <1>2, <1>4, <3>1, <3>4
      <4>4. QED
        BY <1>2, <4>1, <4>2, <4>3
    <3>5. QED
      BY <1>4, <3>1, <3>2, <3>3, <3>4
  <2>3. QED
    BY <1>5, <1>6, <1>7, <2>1, <2>2, SeqEqual
<1>9. QED
  BY <1>2, <1>3, <1>8

\* A read takes the first item.
LEMMA ReadEffect ==
  ASSUME TypeOK, Read
  PROVE  /\ sock' \in Seq(Item) /\ Len(sock') = Len(sock) - 1 /\ Head(sock) = Sent[1]
         /\ Head(sock) \in Item /\ Sent # <<>>
         /\ Sent' \in Seq(Item) /\ Len(Sent') = Len(Sent) - 1
         /\ \A i \in 1..Len(Sent') : i+1 \in 1..Len(Sent) /\ Sent'[i] = Sent[i+1]
<1>1. sock \in Seq(Item) /\ out \in Seq(Item) /\ sock # <<>> /\ sock' = Tail(sock) /\ out' = out
  BY DEF TypeOK, Read, encoder
<1>2. /\ Head(sock) \in Item /\ sock' \in Seq(Item) /\ Len(sock') = Len(sock) - 1
      /\ \A i \in 1..Len(sock') : sock'[i] = sock[i+1]
  BY <1>1, HeadTailProperties
<1>3. Len(sock) \in Nat \ {0} /\ Len(out) \in Nat /\ Len(sock') \in Nat
  BY <1>1, <1>2, LenProperties, EmptySeq
<1>4. /\ Sent \in Seq(Item) /\ Len(Sent) = Len(sock) + Len(out)
      /\ \A i \in 1..Len(sock)+Len(out) :
           Sent[i] = IF i <= Len(sock) THEN sock[i] ELSE out[i - Len(sock)]
  BY <1>1, ConcatProperties DEF Sent
<1>5. Sent' = sock' \o out
  BY <1>1 DEF Sent
<1>6. /\ sock' \o out \in Seq(Item) /\ Len(sock' \o out) = Len(sock') + Len(out)
      /\ \A i \in 1..Len(sock')+Len(out) :
           (sock' \o out)[i] = IF i <= Len(sock') THEN sock'[i] ELSE out[i - Len(sock')]
  BY <1>1, <1>2, ConcatProperties
<1>7. Head(sock) = sock[1] /\ Sent[1] = sock[1]
  BY <1>1, <1>3, <1>4
<1>8. Len(Sent') = Len(Sent) - 1 /\ Sent # <<>>
  BY <1>2, <1>3, <1>4, <1>5, <1>6, EmptySeq
<1>9. ASSUME NEW i \in 1..Len(Sent') PROVE i+1 \in 1..Len(Sent) /\ Sent'[i] = Sent[i+1]
  <2>1. /\ i \in 1..Len(sock')+Len(out) /\ i+1 \in 1..Len(sock)+Len(out) /\ i+1 \in 1..Len(Sent)
    BY <1>2, <1>3, <1>4, <1>5, <1>6
  <2>2. CASE i <= Len(sock')
    BY <1>2, <1>3, <1>4, <1>5, <1>6, <2>1, <2>2
  <2>3. CASE i > Len(sock')
    <3>1. (i+1) - Len(sock) = i - Len(sock') /\ ~(i+1 <= Len(sock)) /\ ~(i <= Len(sock'))
      BY <1>2, <1>3, <2>1, <2>3
    <3>2. QED
      BY <1>4, <1>5, <1>6, <2>1, <3>1
  <2>4. QED
    BY <1>3, <2>2, <2>3
<1>10. QED
  BY <1>2, <1>5, <1>6, <1>7, <1>8, <1>9

\* A frame comes behind what is on its way.
LEMMA FrameSent ==
  ASSUME TypeOK, NEW kind \in Kind, Frame(kind)
  PROVE  out' \in Seq(Item) /\ Len(out') <= 2 /\ Sent' = Sent \o out'
<1>1. sock \in Seq(Item) /\ Header \in Item
  BY DEF TypeOK, Item, Header
<1>2. PICK f \in Item :
         /\ out = <<>> /\ UNCHANGED sock
         /\ out' = <<>> \/ out' = <<Header, f>> \/ out' = <<f>>
  BY FrameEffect
<1>3. out' \in Seq(Item) /\ Len(out') \in 0..2
  <2>1. /\ <<>> \in Seq(Item) /\ Len(<<>>) = 0
        /\ <<Header, f>> \in Seq(Item) /\ Len(<<Header, f>>) = 2
        /\ <<f>> \in Seq(Item) /\ Len(<<f>>) = 1
    BY <1>1
  <2>2. CASE out' = <<>>
    BY <2>1, <2>2
  <2>3. CASE out' = <<Header, f>>
    BY <2>1, <2>3
  <2>4. CASE out' = <<f>>
    BY <2>1, <2>4
  <2>5. QED
    BY <1>2, <2>2, <2>3, <2>4
<1>4. Sent = sock /\ Sent' = sock \o out'
  BY <1>1, <1>2, ConcatEmptySeq DEF Sent
<1>5. QED
  BY <1>3, <1>4

\* Decodable, of any sequence of items.
Good(s) == \A i \in DOMAIN s :
             /\ s[i].kind = "p" => s[i].linked /\ (i > 1 => s[i-1].kind # "head")
             /\ s[i].kind = "head" => i < Len(s) /\ s[i+1].kind = "idr"

\* Two decodable sequences make one: the first does not end with a header.
LEMMA GoodConcat ==
  ASSUME NEW s \in Seq(Item), NEW t \in Seq(Item), Good(s), Good(t)
  PROVE  Good(s \o t)
<1> DEFINE u == s \o t
           n == Len(s)
<1>1. /\ n \in Nat /\ Len(t) \in Nat /\ DOMAIN s = 1..n /\ DOMAIN t = 1..Len(t)
  BY LenProperties
<1>2. /\ u \in Seq(Item) /\ Len(u) = n + Len(t)
      /\ \A i \in 1..n+Len(t) : u[i] = IF i <= n THEN s[i] ELSE t[i - n]
  BY ConcatProperties
<1>3. DOMAIN u = 1..n+Len(t)
  BY <1>2, LenProperties
<1>4. \A i \in 1..n : i \in DOMAIN u /\ u[i] = s[i]
  BY <1>1, <1>2, <1>3
<1>5. \A i \in 1..Len(t) : n+i \in DOMAIN u /\ u[n+i] = t[i]
  <2>1. SUFFICES ASSUME NEW i \in 1..Len(t) PROVE n+i \in DOMAIN u /\ u[n+i] = t[i]
    OBVIOUS
  <2>2. n+i \in 1..n+Len(t) /\ ~(n+i <= n) /\ (n+i) - n = i
    BY <1>1
  <2>3. QED
    BY <1>2, <1>3, <2>2
<1> HIDE DEF u, n
<1>6. SUFFICES ASSUME NEW i \in DOMAIN u
               PROVE  /\ u[i].kind = "p" => u[i].linked /\ (i > 1 => u[i-1].kind # "head")
                      /\ u[i].kind = "head" => i < Len(u) /\ u[i+1].kind = "idr"
  BY DEF Good, u
<1>7. CASE i <= n
  <2>1. i \in 1..n /\ u[i] = s[i]
    BY <1>1, <1>3, <1>4, <1>7
  <2>2. ASSUME s[i].kind = "p" PROVE s[i].linked /\ (i > 1 => u[i-1].kind # "head")
    <3>1. s[i].linked /\ (i > 1 => s[i-1].kind # "head")
      BY <1>1, <2>1, <2>2 DEF Good
    <3>2. i > 1 => u[i-1] = s[i-1]
      BY <1>1, <1>4, <2>1
    <3>3. QED
      BY <3>1, <3>2
  <2>3. ASSUME s[i].kind = "head" PROVE i < Len(u) /\ u[i+1].kind = "idr"
    <3>1. i < n /\ s[i+1].kind = "idr"
      BY <1>1, <2>1, <2>3 DEF Good, n
    <3>2. u[i+1] = s[i+1] /\ i < Len(u)
      BY <1>1, <1>2, <1>4, <2>1, <3>1
    <3>3. QED
      BY <3>1, <3>2
  <2>4. QED
    BY <2>1, <2>2, <2>3
<1>8. CASE i > n
  <2>1. PICK j \in 1..Len(t) : i = n + j
    <3>1. i - n \in 1..Len(t) /\ i = n + (i - n)
      BY <1>1, <1>3, <1>8
    <3>2. QED
      BY <3>1
  <2>2. u[i] = t[j]
    BY <1>5, <2>1
  <2>3. ASSUME t[j].kind = "p" PROVE t[j].linked /\ (i > 1 => u[i-1].kind # "head")
    <3>1. t[j].linked /\ (j > 1 => t[j-1].kind # "head")
      BY <1>1, <2>1, <2>3 DEF Good
    <3>2. CASE j > 1
      <4>1. j-1 \in 1..Len(t) /\ i-1 = n+(j-1)
        BY <1>1, <2>1, <3>2
      <4>2. QED
        BY <1>5, <3>1, <3>2, <4>1
    <3>3. CASE j = 1
      <4>1. i-1 = n
        BY <1>1, <2>1, <3>3
      <4>2. i > 1 => n \in 1..n /\ u[n] = s[n]
        BY <1>1, <1>4, <4>1
      <4>3. n \in 1..n => s[n].kind # "head"
        BY <1>1 DEF Good, n
      <4>4. QED
        BY <3>1, <4>1, <4>2, <4>3
    <3>4. QED
      BY <2>1, <3>2, <3>3
  <2>4. ASSUME t[j].kind = "head" PROVE i < Len(u) /\ u[i+1].kind = "idr"
    <3>1. j < Len(t) /\ t[j+1].kind = "idr"
      BY <1>1, <2>1, <2>4 DEF Good
    <3>2. j+1 \in 1..Len(t) /\ i+1 = n+(j+1) /\ i < Len(u)
      BY <1>1, <1>2, <2>1, <3>1
    <3>3. QED
      BY <1>5, <3>1, <3>2
  <2>5. QED
    BY <2>2, <2>3, <2>4
<1>9. QED
  BY <1>1, <1>3, <1>7, <1>8

\* What a frame adds is decodable after a frame that was relayed.
LEMMA GoodFrame ==
  ASSUME NEW f \in Item, NEW t,
         \/ t = <<>>
         \/ t = <<Header, f>> /\ f.kind = "idr"
         \/ t = <<f>> /\ (f.kind = "idr" \/ (f.kind = "p" /\ f.linked))
  PROVE  Good(t)
<1>1. CASE t = <<>>
  BY <1>1 DEF Good
<1>2. CASE t = <<Header, f>> /\ f.kind = "idr"
  <2>1. DOMAIN t = {1, 2} /\ Len(t) = 2 /\ t[1].kind = "head" /\ t[2].kind = "idr"
    BY <1>2 DEF Header
  <2>2. QED
    BY <2>1 DEF Good
<1>3. CASE t = <<f>> /\ (f.kind = "idr" \/ (f.kind = "p" /\ f.linked))
  <2>1. DOMAIN t = {1} /\ t[1] = f
    BY <1>3
  <2>2. QED
    BY <1>3, <2>1 DEF Good
<1>4. QED
  BY <1>1, <1>2, <1>3

-------------------------------------------------------------------------------
(* IInv is inductive.                                                       *)

\* The invariant holds before the first packet.
LEMMA InitIInv == Init => IInv
<1> SUFFICES ASSUME Init PROVE IInv
  OBVIOUS
<1>1. sock = <<>> /\ out = <<>> /\ <<>> \in Seq(Item) /\ Len(<<>>) = 0
  BY EmptySeq DEF Init
<1>2. Sent = <<>>
  BY <1>1, ConcatEmptySeq DEF Sent
<1>3. /\ h264headerflags \in BOOLEAN /\ prevSent \in BOOLEAN /\ sdp \in BOOLEAN
      /\ cut \in BOOLEAN /\ keyed \in BOOLEAN
  BY DEF Init
<1>4. /\ rtsp_index = 0 /\ send_status = 0 /\ loop = "idle" /\ stream = "none" /\ clients = 0
      /\ probe = "none"
  BY DEF Init
<1>5. TypeOK
  BY <1>1, <1>3, <1>4, Constants DEF TypeOK
<1>6. Decodable
  BY <1>2 DEF Decodable
<1>7. QED
  BY <1>4, <1>5, <1>6 DEF IInv, LinkInv

\* Every step preserves the types.
LEMMA TypeStep == TypeOK /\ [Next]_vars => TypeOK'
<1> SUFFICES ASSUME TypeOK, [Next]_vars PROVE TypeOK'
  OBVIOUS
<1> USE DEF encoder, server
<1>1. CASE HeaderPacket
  <2>1. rtsp_index' \in 0..2 /\ h264headerflags' \in BOOLEAN
    BY <1>1, IndexSeenType DEF HeaderPacket
  <2>2. QED
    BY <1>1, <2>1 DEF HeaderPacket, TypeOK
<1>2. ASSUME NEW kind \in Kind, Frame(kind) PROVE TypeOK'
  <2>1. /\ UNCHANGED <<h264headerflags, sock, send_status, server>>
        /\ prevSent' \in BOOLEAN /\ rtsp_index' \in {0, 1, 2}
    <3>1. PICK f \in Item :
            /\ UNCHANGED <<h264headerflags, sock, send_status, server>>
            /\ prevSent' \in BOOLEAN
            /\ rtsp_index' \in {0, 1} \/ rtsp_index' = 2
      BY <1>2, FrameEffect
    <3>2. QED
      BY <3>1
  <2>2. out' \in Seq(Item) /\ Len(out') <= 2
    BY <1>2, FrameSent
  <2>3. QED
    BY <2>1, <2>2 DEF TypeOK
<1>3. CASE Write
  <2>1. /\ sock' \in Seq(Item) /\ Len(sock') = Len(sock) + 1 /\ out' \in Seq(Item)
        /\ Len(out') = Len(out) - 1
    BY <1>3, WriteEffect
  <2>2. Len(sock) \in Nat /\ Len(out) \in Nat
    BY SentSeq
  <2>3. Len(sock') <= Room /\ Len(out') <= 2
    BY <1>3, <2>1, <2>2, Constants DEF Write, TypeOK
  <2>4. QED
    BY <1>3, <2>1, <2>3 DEF Write, TypeOK
<1>4. CASE Describe
  <2>1. /\ UNCHANGED <<encoder, sock, loop, stream, clients, sdp, keyed>>
        /\ send_status' \in 0..1 /\ probe' \in {"none", "wait", "head"}
    BY <1>4 DEF Describe, NewSource, TypeOK
  <2>2. cut' \in BOOLEAN
    BY <1>4 DEF Describe, NewSource
  <2>3. QED
    BY <2>1, <2>2 DEF TypeOK
<1>5. CASE GotSDP
  <2>1. /\ UNCHANGED <<encoder, sock, loop, stream, clients, keyed>> /\ send_status' = 0
        /\ probe' = "none" /\ sdp' \in BOOLEAN /\ cut' \in BOOLEAN
    BY <1>5 DEF GotSDP
  <2>2. QED
    BY <2>1 DEF TypeOK
<1>6. CASE Setup
  <2>1. clients' \in 0..MaxClients /\ clients' > 0
    BY <1>6, Constants DEF Setup, TypeOK
  <2>2. /\ UNCHANGED <<encoder, sock, loop, probe, sdp>> /\ stream' \in {"ready", "playing"}
        /\ send_status' \in 0..1
    BY <1>6 DEF Setup, NewSource, TypeOK
  <2>3. cut' \in BOOLEAN /\ keyed' \in BOOLEAN
    <3>1. CASE stream = "none"
      BY <1>6, <3>1 DEF Setup, NewSource
    <3>2. CASE stream # "none"
      BY <1>6, <3>2 DEF Setup, TypeOK
    <3>3. QED
      BY <3>1, <3>2
  <2>4. QED
    BY <2>1, <2>2, <2>3 DEF TypeOK
<1>7. CASE Play
  BY <1>7 DEF Play, TypeOK
<1>8. CASE Teardown
  <2>1. send_status' \in 0..1
    BY <1>8 DEF Teardown, StreamEnds, TypeOK
  <2>2. cut' \in BOOLEAN
    <3>1. CASE clients = 1 /\ stream = "playing"
      BY <1>8, <3>1 DEF Teardown, StreamEnds
    <3>2. CASE ~(clients = 1 /\ stream = "playing")
      BY <1>8, <3>2 DEF Teardown, StreamEnds, TypeOK
    <3>3. QED
      BY <3>1, <3>2
  <2>3. clients' \in 0..MaxClients /\ (clients' > 0 <=> clients # 1)
    BY <1>8, Constants DEF Teardown, TypeOK
  <2>4. QED
    BY <1>8, <2>1, <2>2, <2>3 DEF Teardown, TypeOK
<1>9. CASE BeginRead
  BY <1>9 DEF BeginRead, TypeOK
<1>10. CASE Read
  <2>1. sock' \in Seq(Item) /\ Len(sock') = Len(sock) - 1
    BY <1>10, ReadEffect
  <2>2. Len(sock) \in Nat /\ Len(sock') <= Room
    BY <2>1, SentSeq, Constants DEF TypeOK
  <2>3. probe' \in {"none", "wait", "head"} /\ keyed' \in BOOLEAN
    BY <1>10 DEF Read, TypeOK
  <2>4. QED
    BY <1>10, <2>1, <2>2, <2>3 DEF Read, TypeOK
<1>11. CASE UNCHANGED vars
  BY <1>11 DEF vars, TypeOK
<1>12. QED
  BY <1>1, <1>2, <1>3, <1>4, <1>5, <1>6, <1>7, <1>8, <1>9, <1>10, <1>11
  DEF Next, Encoder, Server, Kind

\* Steps other than those of the packets do not touch what is on its way.
LEMMA ServerEffect ==
  ASSUME Describe \/ GotSDP \/ Setup \/ Play \/ Teardown \/ BeginRead \/ UNCHANGED vars
  PROVE  UNCHANGED <<encoder, sock>> /\ Sent' = Sent
<1>1. UNCHANGED <<encoder, sock>>
  BY DEF Describe, GotSDP, Setup, Play, Teardown, BeginRead, vars
<1>2. Sent' = Sent
  BY <1>1 DEF encoder, Sent
<1>3. QED
  BY <1>1, <1>2

\* The relay misses no frame once it has begun.
LEMMA LinkStep == TypeOK /\ LinkInv /\ [Next]_vars => LinkInv'
<1> SUFFICES ASSUME TypeOK, LinkInv, [Next]_vars PROVE LinkInv'
  OBVIOUS
<1>1. CASE HeaderPacket
  BY <1>1, IndexSeenType DEF HeaderPacket, LinkInv
<1>2. ASSUME NEW kind \in Kind, Frame(kind) PROVE LinkInv'
  <2>1. rtsp_index' \in {0, 1} \/ prevSent' = TRUE
    <3>1. PICK f \in Item : rtsp_index' \in {0, 1} \/ (rtsp_index' = 2 /\ prevSent' = TRUE)
      BY <1>2, FrameEffect
    <3>2. QED
      BY <3>1
  <2>2. QED
    BY <2>1 DEF LinkInv
<1>3. CASE Write \/ Read
  BY <1>3 DEF Write, Read, encoder, LinkInv
<1>4. CASE Describe \/ GotSDP \/ Setup \/ Play \/ Teardown \/ BeginRead \/ UNCHANGED vars
  BY <1>4, ServerEffect DEF encoder, LinkInv
<1>5. QED
  BY <1>1, <1>2, <1>3, <1>4 DEF Next, Encoder, Server, Kind

\* The stream stays decodable.
LEMMA DecodableStep == IInv /\ [Next]_vars => Decodable'
<1> SUFFICES ASSUME IInv, [Next]_vars PROVE Decodable'
  OBVIOUS
<1>0. TypeOK /\ LinkInv /\ Good(Sent)
  BY DEF IInv, Decodable, Good
<1>1. SUFFICES Good(Sent')
  BY DEF Decodable, Good
<1>2. ASSUME NEW kind \in Kind, Frame(kind) PROVE Good(Sent')
  <2>1. PICK f \in Item :
          /\ f = [kind |-> kind, linked |-> prevSent]
          /\ \/ out' = <<>>
             \/ out' = <<Header, f>> /\ kind = "idr"
             \/ out' = <<f>> /\ rtsp_index = 2
    BY <1>0, <1>2, FrameEffect
  <2>2. f.kind = kind /\ f.linked = prevSent /\ kind \in {"idr", "p"}
    BY <2>1 DEF Kind
  <2>3. rtsp_index = 2 => prevSent
    BY <1>0 DEF LinkInv
  <2>4. Good(out')
    BY <2>1, <2>2, <2>3, GoodFrame
  <2>5. QED
    BY <1>0, <1>2, <2>4, FrameSent, SentSeq, GoodConcat
<1>3. CASE Write
  BY <1>0, <1>3, WriteEffect
<1>4. CASE Read
  <2>1. /\ Sent' \in Seq(Item) /\ Len(Sent') = Len(Sent) - 1
        /\ \A i \in 1..Len(Sent') : i+1 \in 1..Len(Sent) /\ Sent'[i] = Sent[i+1]
    BY <1>0, <1>4, ReadEffect
  <2>2. DOMAIN Sent' = 1..Len(Sent') /\ Len(Sent') \in Nat /\ Len(Sent) \in Nat
        /\ DOMAIN Sent = 1..Len(Sent)
    BY <1>0, <2>1, LenProperties, SentSeq
  <2>3. SUFFICES ASSUME NEW i \in DOMAIN Sent'
                 PROVE  /\ Sent'[i].kind = "p" =>
                             Sent'[i].linked /\ (i > 1 => Sent'[i-1].kind # "head")
                        /\ Sent'[i].kind = "head" => i < Len(Sent') /\ Sent'[i+1].kind = "idr"
    BY DEF Good
  <2>4. i+1 \in DOMAIN Sent /\ i+1 > 1 /\ (i+1)-1 = i /\ Sent'[i] = Sent[i+1]
    BY <2>1, <2>2
  <2>5. Sent'[i].kind = "p" => Sent'[i].linked /\ Sent[i].kind # "head"
    BY <1>0, <2>4 DEF Good
  <2>6. i > 1 => Sent'[i-1] = Sent[i]
    <3>1. i > 1 => i-1 \in 1..Len(Sent') /\ (i-1)+1 = i
      BY <2>2
    <3>2. QED
      BY <2>1, <3>1
  <2>7. Sent'[i].kind = "head" => i+1 < Len(Sent) /\ Sent[(i+1)+1].kind = "idr"
    BY <1>0, <2>4 DEF Good
  <2>8. i+1 < Len(Sent) => i < Len(Sent') /\ Sent'[i+1] = Sent[(i+1)+1]
    <3>1. i+1 < Len(Sent) => i < Len(Sent') /\ i+1 \in 1..Len(Sent')
      BY <2>1, <2>2
    <3>2. QED
      BY <2>1, <3>1
  <2>9. QED
    BY <2>5, <2>6, <2>7, <2>8
<1>5. CASE HeaderPacket
  BY <1>0, <1>5 DEF HeaderPacket, Sent
<1>6. CASE Describe \/ GotSDP \/ Setup \/ Play \/ Teardown \/ BeginRead \/ UNCHANGED vars
  BY <1>0, <1>6, ServerEffect
<1>7. QED
  BY <1>2, <1>3, <1>4, <1>5, <1>6 DEF Next, Encoder, Server, Kind

\* A source keeps send_status at 1 while the other one lets it, and the event loop leaves a
\* read only with an item.
LEMMA SendStep == TypeOK /\ SendInv /\ [Next]_vars => SendInv'
<1> SUFFICES ASSUME TypeOK, SendInv, [Next]_vars PROVE SendInv'
  OBVIOUS
<1> USE DEF SendInv
<1>1. CASE Encoder
  BY <1>1 DEF Encoder, HeaderPacket, Frame, Write, server
<1>2. CASE Describe
  BY <1>2 DEF Describe, NewSource
<1>3. CASE GotSDP
  BY <1>3 DEF GotSDP
<1>4. CASE Setup
  BY <1>4 DEF Setup, NewSource
<1>5. CASE Play
  BY <1>5 DEF Play
<1>6. CASE Teardown
  <2>1. loop' = "idle" /\ probe' = probe
    BY <1>6 DEF Teardown
  <2>2. CASE clients = 1 /\ stream = "playing"
    BY <1>6, <2>1, <2>2 DEF Teardown, StreamEnds
  <2>3. CASE ~(clients = 1 /\ stream = "playing")
    <3>1. UNCHANGED <<send_status, cut>> /\ (stream' # "none" => stream # "none")
      BY <1>6, <2>3 DEF Teardown, StreamEnds
    <3>2. QED
      BY <2>1, <3>1
  <2>4. QED
    BY <2>2, <2>3
<1>7. CASE BeginRead
  BY <1>7 DEF BeginRead
<1>8. CASE Read
  BY <1>8 DEF Read
<1>9. CASE UNCHANGED vars
  BY <1>9 DEF vars, server
<1>10. QED
  BY <1>1, <1>2, <1>3, <1>4, <1>5, <1>6, <1>7, <1>8, <1>9 DEF Next, Server

\* With polite clients the probe has gone before the first stream is made, and does not
\* come back.
LEMMA ApartStep ==
  ASSUME TypeOK, SendInv, ApartInv, [Next]_vars, [clients' > clients => sdp]_vars
  PROVE  ApartInv'
<1> USE DEF ApartInv
<1>1. CASE Encoder
  BY <1>1 DEF Encoder, HeaderPacket, Frame, Write, server
<1>2. CASE Describe
  BY <1>2 DEF Describe, NewSource
<1>3. CASE GotSDP
  BY <1>3 DEF GotSDP
<1>4. CASE Setup
  <2>1. clients' > clients /\ clients' # clients
    BY <1>4 DEF Setup, TypeOK
  <2>2. sdp
    BY <2>1 DEF vars, server
  <2>3. QED
    BY <1>4, <2>2 DEF Setup, NewSource
<1>5. CASE Play
  BY <1>5 DEF Play
<1>6. CASE Teardown
  <2>1. clients > 0 /\ stream # "none"
    BY <1>6 DEF Teardown, TypeOK
  <2>2. sdp /\ probe = "none"
    BY <2>1
  <2>3. QED
    BY <1>6, <2>2 DEF Teardown, StreamEnds
<1>7. CASE BeginRead
  BY <1>7 DEF BeginRead
<1>8. CASE Read
  <2>1. probe' # "none" => probe # "none"
    BY <1>8 DEF Read, SendInv
  <2>2. QED
    BY <1>8, <2>1 DEF Read
<1>9. CASE UNCHANGED vars
  BY <1>9 DEF vars, server
<1>10. QED
  BY <1>1, <1>2, <1>3, <1>4, <1>5, <1>6, <1>7, <1>8, <1>9 DEF Next, Server

\* Every step preserves the invariant.
LEMMA IInvStep == IInv /\ [Next]_vars => IInv'
BY TypeStep, LinkStep, DecodableStep DEF IInv

-------------------------------------------------------------------------------
(* The theorems.                                                            *)

\* IInv holds in every reachable state of the relay.
THEOREM Invariance == Spec => []IInv
BY InitIInv, IInvStep, PTL DEF Spec

\* The socket holds items of the stream, never more than it has room for, and the stream
\* exists as long as its clients.
THEOREM TypeCorrect == Spec => []TypeOK
<1>1. IInv => TypeOK
  BY DEF IInv
<1>2. QED
  BY <1>1, Invariance, PTL

\* What encoderDataReady has written can be decoded, however clients come and go.
THEOREM StreamDecodable == Spec => []Decodable
<1>1. IInv => Decodable
  BY DEF IInv
<1>2. QED
  BY <1>1, Invariance, PTL

\* A read that blocks the event loop, and with it every request of a client, is one the
\* encoder still works for, so that the next key frame is written to the socket: unless the
\* end of the one source, clients' stream or probe, cleared send_status under the other.
THEOREM BlockedReadIsFed == Spec => [](SendInv /\ ReaderFed)
<1>1. Init => SendInv
  BY DEF Init, SendInv
<1>2. TypeOK /\ SendInv => ReaderFed
  <2> SUFFICES ASSUME TypeOK, SendInv, loop # "idle", ~cut, NEW lk \in BOOLEAN
               PROVE  Relay([kind |-> "idr", linked |-> lk], IndexSeen) # <<>>
    BY DEF ReaderFed
  <2> DEFINE f == [kind |-> "idr", linked |-> lk]
  <2>1. send_status = 1
    BY DEF SendInv, TypeOK
  <2>2. IndexSeen = 1 \/ IndexSeen = 2
    BY <2>1 DEF IndexSeen, TypeOK
  <2>3. f.kind = "idr"
    OBVIOUS
  <2> HIDE DEF f
  <2>4. Relay(f, IndexSeen) = <<Header, f>> \/ Relay(f, IndexSeen) = <<f>>
    BY <2>2, <2>3 DEF Relay
  <2>5. <<Header, f>> # <<>> /\ <<f>> # <<>>
    OBVIOUS
  <2>6. Relay(f, IndexSeen) # <<>>
    BY <2>4, <2>5
  <2>7. QED
    BY <2>6 DEF f
<1>3. QED
  BY <1>1, <1>2, SendStep, TypeCorrect, PTL DEF Spec

\* That never happens if every client asks for the SDP line before it sends SETUP: then,
\* however these clients come and go, the event loop is never left in a read that the encoder
\* does not feed.
THEOREM PoliteClientsAreFed ==
  Spec /\ Polite => [](~cut /\ (loop # "idle" => send_status = 1))
<1>1. Init => ApartInv /\ SendInv
  BY DEF Init, ApartInv, SendInv
<1>2. TypeOK /\ SendInv /\ ApartInv /\ [Next]_vars /\ [clients' > clients => sdp]_vars => ApartInv'
  BY ApartStep
<1>3. ApartInv /\ SendInv /\ TypeOK => ~cut /\ (loop # "idle" => send_status = 1)
  BY DEF ApartInv, SendInv, TypeOK
<1>4. QED
  BY <1>1, <1>2, <1>3, SendStep, TypeCorrect, PTL DEF Spec, Polite

\* A write of the encoder's thread to a socket from which a source is read comes to its end:
\* the way there never gets longer, and one of the two threads can always go on.
THEOREM WriterIsServed == Spec => WriterNearer /\ []SomebodyMoves
<1> DEFINE Nearer == out # <<>> /\ Consumed' =>
              /\ out' = out \/ out' = Tail(out)
              /\ WriteRank' <= WriteRank
              /\ Write \/ (Len(sock) = Room /\ loop' # loop) => WriteRank' < WriteRank
<1>1. TypeOK /\ [Next]_vars => [Nearer]_vars
  <2> SUFFICES ASSUME TypeOK, Next, out # <<>>, Consumed'
               PROVE  /\ out' = out \/ out' = Tail(out)
                      /\ WriteRank' <= WriteRank
                      /\ Write \/ (Len(sock) = Room /\ loop' # loop) => WriteRank' < WriteRank
    OBVIOUS
  <2> USE DEF encoder, server
  <2>1. /\ Len(sock) \in Nat /\ Len(out) \in Nat /\ Room \in Nat \ {0} /\ Len(sock) <= Room
        /\ loop \in {"idle", "probe", "stream"}
    BY SentSeq, Constants DEF TypeOK
  <2>2. CASE Write
    <3>1. Len(out') = Len(out) - 1 /\ Len(sock') = Len(sock) + 1
      BY <2>2, WriteEffect
    <3>2. out' = Tail(out) /\ Len(sock) < Room /\ loop' = loop
      BY <2>2 DEF Write
    <3>3. WriteRank' < WriteRank /\ WriteRank' <= WriteRank
      BY <2>1, <3>1, <3>2 DEF WriteRank
    <3>4. QED
      BY <3>2, <3>3
  <2>3. CASE Read
    <3>1. Len(sock') = Len(sock) - 1
      BY <2>3, ReadEffect
    <3>2. loop # "idle" /\ loop' = "idle" /\ out' = out /\ ~Write
      BY <2>3 DEF Read, Write
    <3>3. WriteRank' <= WriteRank /\ (Len(sock) = Room => WriteRank' < WriteRank)
      BY <2>1, <3>1, <3>2 DEF WriteRank
    <3>4. QED
      BY <3>2, <3>3
  <2>4. CASE BeginRead
    <3>1. loop = "idle" /\ loop' # "idle" /\ out' = out /\ sock' = sock /\ ~Write
      BY <2>4 DEF BeginRead, Write
    <3>2. WriteRank' <= WriteRank /\ (Len(sock) = Room => WriteRank' < WriteRank)
      BY <2>1, <3>1 DEF WriteRank
    <3>3. QED
      BY <3>1, <3>2
  <2>5. CASE HeaderPacket \/ Describe \/ GotSDP \/ Setup \/ Play \/ Teardown
    <3>1. loop' = loop /\ out' = out /\ sock' = sock
      BY <2>5 DEF HeaderPacket, Describe, GotSDP, Setup, Play, Teardown, NewSource
    <3>2. WriteRank' = WriteRank /\ WriteRank \in Int /\ ~Write
      BY <2>1, <3>1 DEF WriteRank, Write
    <3>3. QED
      BY <3>1, <3>2
  <2>6. ASSUME NEW k \in Kind PROVE ~Frame(k)
    BY DEF Frame
  <2>7. QED
    BY <2>2, <2>3, <2>4, <2>5, <2>6 DEF Next, Encoder, Server, Kind
<1>2. TypeOK => SomebodyMoves
  <2> SUFFICES ASSUME TypeOK, loop # "idle", ~(Len(sock) < Room)
               PROVE  loop # "idle" /\ sock # <<>>
    BY DEF SomebodyMoves
  <2>1. Len(sock) \in Nat /\ Len(sock) >= Room /\ Room \in Nat \ {0}
    BY SentSeq, Constants
  <2>2. sock # <<>>
    BY <2>1, EmptySeq
  <2>3. QED
    BY <2>2 DEF TypeOK
<1>3. QED
  BY <1>1, <1>2, TypeCorrect, PTL DEF Spec, WriterNearer
===============================================================================
