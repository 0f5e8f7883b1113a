---------------------------- MODULE QmiProxyProofs ----------------------------
(***************************************************************************)
(* Proofs about QmiProxy, for every value of its constants.  While the     *)
(* proxy is in step with the modem (nothing was lost, sent twice or        *)
(* orphaned), the queue holds requests of open connections only, and the   *)
(* books of the proxy and of the modem about the client ids agree.         *)
(***************************************************************************)
EXTENDS QmiProxy, SequenceTheorems, WellFoundedInduction, TLAPS

-------------------------------------------------------------------------------
(* Lemmas about the queue.                                                  *)

\* A set of naturals that is not empty has a least element.
LEMMA LeastNatural ==
  ASSUME NEW T \in SUBSET Nat, T # {}
  PROVE  \E x \in T : \A y \in T : x <= y
<1>1. PICK x \in T : \A y \in T : ~(<<y, x>> \in OpToRel(<, Nat))
  BY NatLessThanWellFounded, WFMin
<1>2. ASSUME NEW y \in T PROVE x <= y
  <2>1. x \in Nat /\ y \in Nat
    BY <1>2
  <2>2. ~(y < x)
    BY <1>1, <2>1 DEF OpToRel
  <2>3. QED
    BY <2>1, <2>2
<1>3. QED
  BY <1>2

\* Taking one request out of a queue: those before it stay, the others move up.
LEMMA RemoveOne ==
  ASSUME NEW S, NEW s \in Seq(S), NEW k \in 1..Len(s)
  PROVE  /\ RemoveAt(s, k) \in Seq(S)
         /\ Len(RemoveAt(s, k)) = Len(s) - 1
         /\ \A i \in 1..Len(s) - 1 :
              RemoveAt(s, k)[i] = IF i < k THEN s[i] ELSE s[i+1]
<1> DEFINE a == SubSeq(s, 1, k-1)
           b == SubSeq(s, k+1, Len(s))
<1>1. Len(s) \in Nat /\ k \in Nat /\ k >= 1 /\ k <= Len(s)
  BY LenProperties
<1>2. (\A i \in 1..(k-1) : s[i] \in S) /\ (\A i \in (k+1)..Len(s) : s[i] \in S)
  BY <1>1, ElementOfSeq
<1>3. /\ a \in Seq(S) /\ Len(a) = k-1
      /\ \A i \in 1..(k-1) : a[i] = s[i]
  <2>1. /\ a \in Seq(S) /\ Len(a) = IF 1 <= k-1 THEN (k-1)-1+1 ELSE 0
        /\ \A i \in 1..((k-1)-1+1) : a[i] = s[1+i-1]
    BY <1>1, <1>2, SubSeqProperties
  <2>2. QED
    BY <1>1, <2>1
<1>4. /\ b \in Seq(S) /\ Len(b) = Len(s)-k
      /\ \A i \in 1..(Len(s)-k) : b[i] = s[k+i]
  <2>1. /\ b \in Seq(S) /\ Len(b) = IF k+1 <= Len(s) THEN Len(s)-(k+1)+1 ELSE 0
        /\ \A i \in 1..(Len(s)-(k+1)+1) : b[i] = s[k+1+i-1]
    BY <1>1, <1>2, SubSeqProperties
  <2>2. QED
    BY <1>1, <2>1
<1> HIDE DEF a, b
<1>5. /\ a \o b \in Seq(S) /\ Len(a \o b) = Len(s)-1
      /\ \A i \in 1..Len(s)-1 : (a \o b)[i] = IF i <= k-1 THEN a[i] ELSE b[i-(k-1)]
  <2>1. /\ a \o b \in Seq(S) /\ Len(a \o b) = Len(a) + Len(b)
        /\ \A i \in 1..Len(a)+Len(b) : (a \o b)[i] = IF i <= Len(a) THEN a[i] ELSE b[i-Len(a)]
    BY <1>3, <1>4, ConcatProperties
  <2>2. Len(a) + Len(b) = Len(s)-1 /\ Len(a) = k-1
    BY <1>1, <1>3, <1>4
  <2>3. QED
    BY <2>1, <2>2
<1>6. ASSUME NEW i \in 1..Len(s)-1
      PROVE  (a \o b)[i] = IF i < k THEN s[i] ELSE s[i+1]
  <2>1. CASE i < k
    <3>1. i \in 1..(k-1) /\ i <= k-1
      BY <1>1, <2>1
    <3>2. QED
      BY <1>3, <1>5, <2>1, <3>1
  <2>2. CASE ~(i < k)
    <3>1. i-(k-1) \in 1..(Len(s)-k) /\ k+(i-(k-1)) = i+1 /\ ~(i <= k-1)
      BY <1>1, <2>2
    <3>2. QED
      BY <1>4, <1>5, <2>2, <3>1
  <2>3. QED
    BY <2>1, <2>2
<1>7. QED
  BY <1>5, <1>6 DEF RemoveAt, a, b

\* cleanup_qmi_connection takes one request of the connection from the queue, if there is
\* any, and nothing else.
LEMMA RemovedRequest ==
  ASSUME queue \in Seq(Request), NEW fd
  PROVE  \/ QueuedBy(fd) = {} /\ RemoveRequestOf(fd) = queue
         \/ \E k \in QueuedBy(fd) : RemoveRequestOf(fd) = RemoveAt(queue, k)
<1>1. DOMAIN queue = 1..Len(queue)
  BY LenProperties
<1>2. CASE QueuedBy(fd) = {}
  BY <1>1, <1>2 DEF QueuedBy, RemoveRequestOf, RemoveFirstMatch
<1>3. CASE QueuedBy(fd) # {}
  <2>1. QueuedBy(fd) = {i \in 1..Len(queue) : queue[i].fd = fd}
    BY <1>1 DEF QueuedBy
  <2>2. QueuedBy(fd) \in SUBSET Nat
    BY <2>1, LenProperties
  <2>3. Min(QueuedBy(fd)) \in QueuedBy(fd)
    BY <1>3, <2>2, LeastNatural DEF Min
  <2>4. RemoveRequestOf(fd) = RemoveAt(queue, Min(QueuedBy(fd)))
    BY <1>3, <2>1 DEF RemoveRequestOf, RemoveFirstMatch, SelectInSeq
  <2>5. QED
    BY <2>3, <2>4
<1>4. QED
  BY <1>2, <1>3

-------------------------------------------------------------------------------
(* Types.                                                                   *)

\* What a request is made of.
LEMMA RequestFields ==
  \A r \in Request : /\ r.n \in 0..MaxReqs /\ r.peer \in 0..MaxPeers
                     /\ r.op \in {"get", "release", "other"}
                     /\ r.client \in Services \X (Ids \cup {0})
BY DEF Request

\* The pipe holds requests whatever is sent.
LEMMA SendHeadType ==
  ASSUME NEW q \in Seq(Request), NEW pipe \in Seq(Request), NEW lost \in BOOLEAN
  PROVE  SendHead(q, pipe, lost) \in Seq(Request)
<1>1. q # <<>> => Head(q) \in Request /\ Append(pipe, Head(q)) \in Seq(Request)
  BY HeadTailProperties, AppendProperties
<1>2. QED
  BY <1>1 DEF SendHead, send_qmi_to_cdc_wdm

\* Service messages go to open connections.
LEMMA RecipientsType ==
  ASSUME TypeOK, NEW c PROVE Recipients(c) \subseteq 1..MaxPeers
<1>1. ASSUME NEW fd \in Fds, clients[fd] # {} PROVE peer[fd] \in 1..MaxPeers
  BY <1>1, Constants DEF TypeOK
<1>2. QED
  BY <1>1 DEF Recipients

\* Written or given up, a message is handed out for those it is for.
LEMMA WrittenTo ==
  ASSUME NEW about, NEW to, send_qmi_to_client(about, to)
  PROVE  /\ delivered'.peer = about /\ delivered'.to \in SUBSET to
         /\ delivered' = [peer |-> about, to |-> delivered'.to]
BY DEF send_qmi_to_client

\* The request that is answered belongs to the modem's pipe.
LEMMA HeadOfPipe ==
  ASSUME TypeOK, toModem # <<>>
  PROVE  /\ Head(toModem) \in Request /\ Tail(toModem) \in Seq(Request)
         /\ Head(toModem).peer \in 0..MaxPeers
         /\ Head(toModem).client \in Services \X (Ids \cup {0})
<1>1. Head(toModem) \in Request /\ Tail(toModem) \in Seq(Request)
  BY HeadTailProperties DEF TypeOK
<1>2. QED
  BY <1>1, RequestFields

\* A control answer leaves the types as they are.
LEMMA DeliverType ==
  ASSUME TypeOK, toModem # <<>>, NEW answer, answer.peer \in 0..MaxPeers,
         answer.op \in {"get", "release", "other"}, NEW ok \in BOOLEAN,
         ok /\ answer.op = "get" => answer.client \in Clients,
         DeliverControl(answer, ok), peer' = peer
  PROVE  /\ queue' \in Seq(Request) /\ toModem' \in Seq(Request)
         /\ clients' \in [Fds -> SUBSET Clients]
         /\ \A fd \in Fds : peer'[fd] = 0 => clients'[fd] = {}
         /\ delivered' \in [peer : 0..MaxPeers, to : SUBSET (1..MaxPeers)]
         /\ outOfStep' \in BOOLEAN
<1>1. Tail(toModem) \in Seq(Request)
  BY HeadOfPipe
<1>2. CASE queue = <<>>
  BY <1>1, <1>2 DEF DeliverControl, TypeOK
<1>3. CASE queue # <<>>
  <2> DEFINE fd == Head(queue).fd
  <2>1. queue' = Tail(queue) /\ queue' \in Seq(Request)
    <3>1. queue' = Tail(queue)
      BY <1>3 DEF DeliverControl
    <3>2. Tail(queue) \in Seq(Request)
      BY <1>3, HeadTailProperties DEF TypeOK
    <3>3. QED
      BY <3>1, <3>2
  <2>2. /\ toModem' \in Seq(Request) /\ outOfStep' \in BOOLEAN
    <3>1. PICK lost \in BOOLEAN : /\ toModem' = SendHead(queue', Tail(toModem), lost)
                                  /\ outOfStep' = (outOfStep \/ lost)
      BY <1>3 DEF DeliverControl
    <3>2. QED
      BY <1>1, <2>1, <3>1, SendHeadType DEF TypeOK
  <2>3. \/ /\ Open(fd)
           /\ send_qmi_to_client(answer.peer, {peer[fd]})
           /\ clients' = IF ok THEN [clients EXCEPT ![fd] = Register(@, answer.op, answer.client)]
                         ELSE clients
        \/ UNCHANGED <<clients, delivered>>
    BY <1>3 DEF DeliverControl
  <2>4. CASE Open(fd) /\ send_qmi_to_client(answer.peer, {peer[fd]})
             /\ clients' = IF ok THEN [clients EXCEPT ![fd] = Register(@, answer.op, answer.client)]
                           ELSE clients
    <3> HIDE DEF fd
    <3>1. fd \in Fds /\ peer[fd] \in 1..MaxPeers
      BY <2>4, Constants DEF Open, TypeOK
    <3>2. delivered' \in [peer : 0..MaxPeers, to : SUBSET (1..MaxPeers)]
      BY <2>4, <3>1, WrittenTo
    <3>3. ok => Register(clients[fd], answer.op, answer.client) \in SUBSET Clients
      BY <3>1 DEF Register, TypeOK
    <3>4. /\ clients' \in [Fds -> SUBSET Clients]
          /\ \A f \in Fds : clients'[f] # clients[f] => f = fd
      BY <2>4, <3>1, <3>3 DEF TypeOK
    <3>5. \A f \in Fds : peer'[f] = 0 => clients'[f] = {}
      BY <3>1, <3>4, Constants DEF TypeOK
    <3>6. QED
      BY <2>1, <2>2, <3>2, <3>4, <3>5
  <2>5. CASE UNCHANGED <<clients, delivered>>
    BY <2>1, <2>2, <2>5 DEF TypeOK
  <2>6. QED
    BY <2>3, <2>4, <2>5
<1>4. QED
  BY <1>2, <1>3

\* What qmi_proxy_init may leave in the pipe.
LEMMA LeftByInitType == LeftByInit \subseteq Seq(Request)
<1>1. ASSUME NEW s \in Services PROVE <<InitRequest(s)>> \in Seq(Request)
  BY Constants DEF InitRequest, Request
<1>2. <<>> \in Seq(Request)
  BY EmptySeq
<1>3. QED
  BY <1>1, <1>2 DEF LeftByInit

\* The types hold at the start.
LEMMA InitType == Init => TypeOK
<1> SUFFICES ASSUME Init PROVE TypeOK
  OBVIOUS
<1>1. toModem \in Seq(Request)
  BY LeftByInitType DEF Init
<1>2. /\ peer \in [Fds -> 0..MaxPeers] /\ owner \in [Clients -> 0..MaxPeers]
      /\ clients \in [Fds -> SUBSET Clients] /\ \A fd \in Fds : clients[fd] = {}
      /\ accepted \in 0..MaxPeers /\ requests \in 0..MaxReqs
  BY Constants DEF Init
<1>3. delivered \in [peer : 0..MaxPeers, to : SUBSET (1..MaxPeers)]
  BY Constants DEF Init, Nobody
<1>4. queue \in Seq(Request) /\ outOfStep \in BOOLEAN /\ revoked \in BOOLEAN
      /\ phase \in {"serving", "down", "quit"} /\ toServices = {}
  BY EmptySeq DEF Init
<1>5. QED
  BY <1>1, <1>2, <1>3, <1>4 DEF TypeOK

\* Every step preserves the types.
LEMMA TypeStep == TypeOK /\ [Next]_vars => TypeOK'
<1> SUFFICES ASSUME TypeOK, [Next]_vars PROVE TypeOK'
  OBVIOUS
<1> USE DEF conns, modem
<1>1. ASSUME NEW fd \in Fds, Accept(fd) PROVE TypeOK'
  <2>1. accepted' \in 1..MaxPeers
    BY <1>1, Constants DEF Accept, TypeOK
  <2>2. QED
    BY <1>1, <2>1, Constants DEF Accept, TypeOK
<1>2. ASSUME NEW fd \in Fds, cleanup_qmi_connection(fd) PROVE TypeOK'
  <2>1. queue' \in Seq(Request)
    <3>1. queue \in Seq(Request) /\ QueuedBy(fd) \subseteq 1..Len(queue)
      BY LenProperties DEF TypeOK, QueuedBy
    <3>2. RemoveRequestOf(fd) \in Seq(Request)
      BY <3>1, RemovedRequest, RemoveOne
    <3>3. QED
      BY <1>2, <3>2 DEF cleanup_qmi_connection
  <2>2. outOfStep' \in BOOLEAN
    BY <1>2 DEF cleanup_qmi_connection
  <2>3. QED
    BY <1>2, <2>1, <2>2, Constants DEF cleanup_qmi_connection, TypeOK
<1>3. ASSUME NEW fd \in Fds, NEW op \in {"get", "release", "other"},
             NEW c \in Services \X (Ids \cup {0}), SendControl(fd, op, c)
      PROVE  TypeOK'
  <2> DEFINE r == [n |-> requests + 1, fd |-> fd, peer |-> peer[fd], op |-> op, client |-> c]
  <2>1. requests' = requests + 1 /\ requests' \in 0..MaxReqs
    BY <1>3, Constants DEF SendControl, TypeOK
  <2>2. r \in Request
    BY <2>1 DEF Request, TypeOK
  <2>3. queue' = Append(queue, r) /\ queue' \in Seq(Request)
    BY <1>3, <2>2, AppendProperties DEF SendControl, TypeOK
  <2>4. toModem' \in Seq(Request) /\ outOfStep' \in BOOLEAN
    <3>1. PICK lost \in BOOLEAN :
            /\ toModem' = IF queue = <<>> THEN send_qmi_to_cdc_wdm(toModem, r, lost)
                          ELSE toModem
            /\ outOfStep' = (outOfStep \/ lost)
      BY <1>3 DEF SendControl
    <3> HIDE DEF r
    <3>2. Append(toModem, r) \in Seq(Request)
      BY <2>2, AppendProperties DEF TypeOK
    <3>3. QED
      BY <3>1, <3>2 DEF send_qmi_to_cdc_wdm, TypeOK
  <2>5. QED
    BY <1>3, <2>1, <2>3, <2>4 DEF SendControl, TypeOK
<1>4. ASSUME NEW fd \in Fds, NEW c \in Clients, SendService(fd, c) PROVE TypeOK'
  <2>1. peer[fd] \in 1..MaxPeers
    BY <1>4, Constants DEF SendService, Open, TypeOK
  <2>2. QED
    BY <1>4, <2>1 DEF SendService, TypeOK
<1>5. CASE AnswerGet
  <2>1. toModem # <<>> /\ Head(toModem).op = "get"
    BY <1>5 DEF AnswerGet
  <2>2. ASSUME NEW c \in {Head(toModem).client[1]} \X Ids, owner[c] = 0,
               owner' = [owner EXCEPT ![c] = Head(toModem).peer],
               DeliverControl([Head(toModem) EXCEPT !.client = c], TRUE)
        PROVE  TypeOK'
    <3> DEFINE a == [Head(toModem) EXCEPT !.client = c]
    <3>1. c \in Clients
      BY <2>1, <2>2, HeadOfPipe DEF Clients
    <3>2. a.peer \in 0..MaxPeers /\ a.op = "get" /\ a.client \in Clients
      BY <2>1, <3>1, HeadOfPipe DEF Request
    <3>3. owner' \in [Clients -> 0..MaxPeers]
      BY <2>1, <2>2, HeadOfPipe DEF TypeOK
    <3> HIDE DEF a
    <3>4. DeliverControl(a, TRUE)
      BY <2>2 DEF a
    <3>5. QED
      BY <1>5, <2>1, <3>2, <3>3, <3>4, DeliverType DEF AnswerGet, TypeOK
  <2>3. ASSUME UNCHANGED owner, DeliverControl(Head(toModem), FALSE) PROVE TypeOK'
    <3>1. Head(toModem).peer \in 0..MaxPeers /\ Head(toModem).op \in {"get", "release", "other"}
      BY <2>1, HeadOfPipe
    <3>2. QED
      BY <1>5, <2>1, <2>3, <3>1, DeliverType DEF AnswerGet, TypeOK
  <2>4. QED
    BY <1>5, <2>2, <2>3 DEF AnswerGet
<1>6. CASE AnswerRelease
  <2> DEFINE c == Head(toModem).client
  <2>1. toModem # <<>> /\ Head(toModem).op = "release"
    BY <1>6 DEF AnswerRelease
  <2>2. Head(toModem).peer \in 0..MaxPeers
    BY <2>1, HeadOfPipe
  <2>3. owner' = [owner EXCEPT ![c] = 0] /\ toServices' = {m \in toServices : m.client # c}
    BY <1>6 DEF AnswerRelease
  <2>4. DeliverControl(Head(toModem), owner[c] # 0) /\ (owner[c] # 0) \in BOOLEAN
    BY <1>6 DEF AnswerRelease
  <2> HIDE DEF c
  <2>5. owner' \in [Clients -> 0..MaxPeers]
    <3>1. owner \in [Clients -> 0..MaxPeers] /\ 0 \in 0..MaxPeers
      BY Constants DEF TypeOK
    <3>2. QED
      BY <2>3, <3>1
  <2>6. peer' = peer /\ UNCHANGED <<phase, accepted, requests, revoked>>
    BY <1>6 DEF AnswerRelease
  <2>7. /\ queue' \in Seq(Request) /\ toModem' \in Seq(Request)
        /\ clients' \in [Fds -> SUBSET Clients]
        /\ \A fd \in Fds : peer'[fd] = 0 => clients'[fd] = {}
        /\ delivered' \in [peer : 0..MaxPeers, to : SUBSET (1..MaxPeers)]
        /\ outOfStep' \in BOOLEAN
    BY <2>1, <2>2, <2>4, <2>6, DeliverType
  <2>8. QED
    BY <2>3, <2>5, <2>6, <2>7 DEF TypeOK
<1>7. CASE AnswerOther
  <2>1. toModem # <<>> /\ Head(toModem).op = "other"
    BY <1>7 DEF AnswerOther
  <2>2. Head(toModem).peer \in 0..MaxPeers
    BY <2>1, HeadOfPipe
  <2>3. QED
    BY <1>7, <2>1, <2>2, DeliverType DEF AnswerOther, TypeOK
<1>8. CASE Indication
  <2>1. PICK lost \in BOOLEAN : toModem' = SendHead(queue, toModem, lost)
    BY <1>8 DEF Indication
  <2>2. toModem' \in Seq(Request)
    BY <2>1, SendHeadType DEF TypeOK
  <2>3. QED
    BY <1>8, <2>2 DEF Indication, TypeOK
<1>9. ASSUME NEW m \in toServices, AnswerService(m) PROVE TypeOK'
  <2>1. m.peer \in 0..MaxPeers /\ Recipients(m.client) \subseteq 1..MaxPeers
    BY RecipientsType, Constants DEF TypeOK
  <2>2. delivered' \in [peer : 0..MaxPeers, to : SUBSET (1..MaxPeers)]
    BY <1>9, <2>1, WrittenTo DEF AnswerService
  <2>3. QED
    BY <1>9, <2>2 DEF AnswerService, TypeOK
<1>10. ASSUME NEW c \in Clients, ServiceIndication(c) PROVE TypeOK'
  <2>1. owner[c] \in 0..MaxPeers /\ Recipients(c) \subseteq 1..MaxPeers
    BY RecipientsType DEF TypeOK
  <2>2. delivered' \in [peer : 0..MaxPeers, to : SUBSET (1..MaxPeers)]
    BY <1>10, <2>1, WrittenTo DEF ServiceIndication
  <2>3. QED
    BY <1>10, <2>2 DEF ServiceIndication, TypeOK
<1>11. ASSUME NEW s \in Services, Broadcast(s) PROVE TypeOK'
  <2>1. 0 \in 0..MaxPeers /\ Recipients(<<s, 0>>) \subseteq 1..MaxPeers
    BY RecipientsType, Constants
  <2>2. delivered' \in [peer : 0..MaxPeers, to : SUBSET (1..MaxPeers)]
    BY <1>11, <2>1, WrittenTo DEF Broadcast
  <2>3. QED
    BY <1>11, <2>2 DEF Broadcast, TypeOK
<1>12. ASSUME NEW next \in {"down", "quit"}, LeaveLoop(next), revoked' \in BOOLEAN
       PROVE  TypeOK'
  <2>1. /\ peer' \in [Fds -> 0..MaxPeers] /\ owner' \in [Clients -> 0..MaxPeers]
        /\ clients' \in [Fds -> SUBSET Clients] /\ \A fd \in Fds : clients'[fd] = {}
    BY <1>12, Constants DEF LeaveLoop
  <2>2. queue' \in Seq(Request) /\ toModem' \in Seq(Request)
    BY <1>12, EmptySeq DEF LeaveLoop
  <2>3. QED
    BY <1>12, <2>1, <2>2 DEF LeaveLoop, TypeOK
<1>13. CASE RevokeAsResponse
  BY <1>12, <1>13 DEF RevokeAsResponse
<1>14. CASE RevokeUnnoticed
  <2>1. toModem' \in Seq(Request) /\ queue' \in Seq(Request)
    <3>1. queue' \in Seq(Request)
      <4>1. queue \in Seq(Request) /\ (queue # <<>> => Tail(queue) \in Seq(Request))
        BY HeadTailProperties DEF TypeOK
      <4>2. queue' = queue \/ (queue # <<>> /\ queue' = Tail(queue))
        BY <1>14 DEF RevokeUnnoticed
      <4>3. QED
        BY <4>1, <4>2
    <3>2. QED
      BY <1>14, <3>1, EmptySeq, SendHeadType DEF RevokeUnnoticed
  <2>2. /\ owner' \in [Clients -> 0..MaxPeers] /\ toServices' = {}
        /\ revoked' = TRUE /\ outOfStep' = TRUE
        /\ UNCHANGED <<phase, conns, requests, delivered>>
    BY <1>14, Constants DEF RevokeUnnoticed
  <2>3. QED
    BY <2>1, <2>2 DEF TypeOK
<1>15. CASE HangUp
  BY <1>12, <1>15 DEF HangUp, TypeOK
<1>16. CASE Interrupt
  BY <1>12, <1>16 DEF Interrupt, TypeOK
<1>17. CASE Restart
  <2>1. toModem' \in Seq(Request)
    <3>1. toModem' \in LeftByInit
      BY <1>17 DEF Restart
    <3>2. QED
      BY <3>1, LeftByInitType
  <2>2. delivered' \in [peer : 0..MaxPeers, to : SUBSET (1..MaxPeers)]
    BY <1>17, Constants DEF Restart, Nobody
  <2>3. QED
    BY <1>17, <2>1, <2>2 DEF Restart, TypeOK
<1>18. CASE UNCHANGED vars
  BY <1>18 DEF vars, TypeOK
<1>19. QED
  BY <1>1, <1>2, <1>3, <1>4, <1>5, <1>6, <1>7, <1>8, <1>9, <1>10, <1>11, <1>13, <1>14,
     <1>15, <1>16, <1>17, <1>18
     DEF Next, ClientStep, ModemStep, AnswerControl

\* Types of all variables, for any number of descriptors, services and client ids.
THEOREM TypeCorrect == Spec => []TypeOK
<1>1. QED
  BY InitType, TypeStep, PTL DEF Spec

-------------------------------------------------------------------------------
(* The inductive invariant.                                                 *)

InStep == Serving /\ ~outOfStep

\* Connections are numbered in the order of their arrival, and a number stands for one
\* connection.
ConnInv == /\ \A fd \in Fds : peer[fd] <= accepted
           /\ \A f, g \in Fds : Open(f) /\ peer[f] = peer[g] => f = g

\* Nothing is left when the loop has ended.
DownInv == ~Serving => /\ queue = <<>> /\ toServices = {}
                       /\ \A fd \in Fds : peer[fd] = 0
                       /\ \A c \in Clients : owner[c] = 0

\* Every queued request belongs to the connection that still has its descriptor, and no
\* client id is to be released twice.
QueueInv == InStep =>
  /\ \A i \in DOMAIN queue : /\ Open(queue[i].fd) /\ queue[i].peer = peer[queue[i].fd]
                             /\ queue[i].op = "release" => queue[i].client \in clients[queue[i].fd]
  /\ \A i, j \in DOMAIN queue :
       /\ queue[i].op = "release" /\ queue[j].op = "release"
       /\ queue[i].client = queue[j].client
       => i = j

\* Client ids are granted to connections there have been, and the modem works for the
\* connection that holds the client id.
GrantInv == InStep => /\ \A c \in Clients : owner[c] <= accepted
                      /\ \A m \in toServices : owner[m.client] = m.peer

IInv == /\ TypeOK /\ ConnInv /\ DownInv /\ QueueInv /\ GrantInv
        /\ OneInFlight /\ RegistryAgrees /\ ToOwnerOnly

\* The invariant holds at the start, in step or not.
LEMMA InitIInv == Init => IInv
<1> SUFFICES ASSUME Init PROVE IInv
  OBVIOUS
<1>1. TypeOK
  BY InitType
<1>2. ConnInv /\ DownInv
  BY Constants DEF Init, ConnInv, DownInv, Open, Serving
<1>3. QueueInv
  BY DEF Init, QueueInv, InStep
<1>4. GrantInv
  BY Constants DEF Init, GrantInv
<1>5. OneInFlight /\ RegistryAgrees /\ ToOwnerOnly
  BY Constants DEF Init, OneInFlight, RegistryAgrees, ToOwnerOnly, Open, Nobody
<1>6. QED
  BY <1>1, <1>2, <1>3, <1>4, <1>5 DEF IInv

\* Connections come and go without two of them sharing a number.
LEMMA ConnStep == IInv /\ [Next]_vars => ConnInv' /\ DownInv'
<1> SUFFICES ASSUME IInv, [Next]_vars PROVE ConnInv' /\ DownInv'
  OBVIOUS
<1> USE DEF conns, modem
<1>0. TypeOK /\ ConnInv /\ DownInv
  BY DEF IInv
<1>1. ASSUME UNCHANGED <<peer, accepted>>, Serving' PROVE ConnInv' /\ DownInv'
  BY <1>0, <1>1 DEF ConnInv, DownInv, Open
<1>2. ASSUME NEW fd \in Fds, Accept(fd) PROVE ConnInv' /\ DownInv'
  <2>1. /\ accepted \in Nat /\ accepted' = accepted + 1 /\ Serving'
        /\ peer' = [peer EXCEPT ![fd] = accepted + 1]
    BY <1>0, <1>2, Constants DEF Accept, TypeOK, Serving
  <2>2. \A f \in Fds : peer[f] \in Nat /\ peer[f] <= accepted
    BY <1>0, Constants DEF ConnInv, TypeOK
  <2>3. /\ peer'[fd] = accepted + 1
        /\ \A f \in Fds : f # fd => peer'[f] = peer[f]
    BY <1>0, <2>1 DEF TypeOK
  <2>4. QED
    BY <1>0, <2>1, <2>2, <2>3 DEF ConnInv, DownInv, Open
<1>3. ASSUME NEW fd \in Fds, cleanup_qmi_connection(fd) PROVE ConnInv' /\ DownInv'
  <2>1. /\ peer' = [peer EXCEPT ![fd] = 0] /\ accepted' = accepted /\ Serving'
    BY <1>3 DEF cleanup_qmi_connection, Serving
  <2>2. peer'[fd] = 0 /\ \A f \in Fds : f # fd => peer'[f] = peer[f]
    BY <1>0, <2>1 DEF TypeOK
  <2>3. accepted \in Nat
    BY <1>0, Constants DEF TypeOK
  <2>4. QED
    BY <1>0, <2>1, <2>2, <2>3 DEF ConnInv, DownInv, Open
<1>4. ASSUME NEW next \in {"down", "quit"}, LeaveLoop(next) PROVE ConnInv' /\ DownInv'
  <2>1. accepted' \in Nat /\ \A fd \in Fds : peer'[fd] = 0
    BY <1>0, <1>4, Constants DEF LeaveLoop, TypeOK
  <2>2. queue' = <<>> /\ toServices' = {} /\ \A c \in Clients : owner'[c] = 0
    BY <1>4 DEF LeaveLoop
  <2>3. QED
    BY <2>1, <2>2 DEF ConnInv, DownInv, Open
<1>5. ASSUME NEW fd \in Fds, NEW op, NEW c, SendControl(fd, op, c) PROVE ConnInv' /\ DownInv'
  BY <1>1, <1>5 DEF SendControl, Serving
<1>6. ASSUME NEW fd \in Fds, NEW c, SendService(fd, c) PROVE ConnInv' /\ DownInv'
  BY <1>1, <1>6 DEF SendService, Serving
<1>7. CASE AnswerGet
  BY <1>1, <1>7 DEF AnswerGet, Serving
<1>8. CASE AnswerRelease
  BY <1>1, <1>8 DEF AnswerRelease, Serving
<1>9. CASE AnswerOther
  BY <1>1, <1>9 DEF AnswerOther, Serving
<1>10. CASE Indication
  BY <1>1, <1>10 DEF Indication, Serving
<1>11. ASSUME NEW m, AnswerService(m) PROVE ConnInv' /\ DownInv'
  BY <1>1, <1>11 DEF AnswerService, Serving
<1>12. ASSUME NEW c, ServiceIndication(c) PROVE ConnInv' /\ DownInv'
  BY <1>1, <1>12 DEF ServiceIndication, Serving
<1>13. ASSUME NEW s, Broadcast(s) PROVE ConnInv' /\ DownInv'
  BY <1>1, <1>13 DEF Broadcast, Serving
<1>14. CASE RevokeAsResponse \/ HangUp \/ Interrupt
  BY <1>4, <1>14 DEF RevokeAsResponse, HangUp, Interrupt
<1>15. CASE RevokeUnnoticed
  BY <1>1, <1>15 DEF RevokeUnnoticed, Serving
<1>16. CASE Restart
  BY <1>1, <1>16 DEF Restart, Serving
<1>17. CASE UNCHANGED vars
  BY <1>0, <1>17 DEF vars, ConnInv, DownInv, Open, Serving
<1>18. QED
  BY <1>2, <1>3, <1>5, <1>6, <1>7, <1>8, <1>9, <1>10, <1>11, <1>12, <1>13, <1>14, <1>15,
     <1>16, <1>17 DEF Next, ClientStep, ModemStep, AnswerControl

\* In step, the request that is answered is the head of the queue, its connection is open
\* and gets the answer, and the next request goes to the modem.
LEMMA DeliverInStep ==
  ASSUME IInv, InStep, toModem # <<>>, NEW a, NEW ok \in BOOLEAN, DeliverControl(a, ok),
         ~outOfStep', UNCHANGED <<phase, peer>>
  PROVE  /\ queue # <<>> /\ 1 \in DOMAIN queue /\ Head(toModem) = queue[1]
         /\ Open(queue[1].fd) /\ queue[1].peer = peer[queue[1].fd]
         /\ send_qmi_to_client(a.peer, {peer[queue[1].fd]})
         /\ clients' = IF ok THEN [clients EXCEPT ![queue[1].fd] = Register(@, a.op, a.client)]
                       ELSE clients
         /\ queue' = Tail(queue)
         /\ OneInFlight'
<1>0. /\ queue \in Seq(Request)
      /\ toModem = IF queue = <<>> THEN <<>> ELSE <<Head(queue)>>
  BY DEF IInv, TypeOK, OneInFlight, InStep
<1>1. queue # <<>> /\ toModem = <<Head(queue)>>
  BY <1>0
<1>2. Head(queue) = queue[1] /\ Head(toModem) = queue[1] /\ Tail(toModem) = <<>>
  BY <1>0, <1>1
<1>3. 1 \in DOMAIN queue
  BY <1>0, <1>1, EmptySeq, LenProperties
<1>4. Open(queue[1].fd) /\ queue[1].peer = peer[queue[1].fd]
  BY <1>3 DEF IInv, QueueInv
<1>5. queue' = Tail(queue) /\ Tail(queue) \in Seq(Request)
  <2>1. queue' = Tail(queue)
    BY <1>1 DEF DeliverControl
  <2>2. QED
    BY <1>0, <1>1, <2>1, HeadTailProperties
<1>6. /\ send_qmi_to_client(a.peer, {peer[queue[1].fd]})
      /\ clients' = IF ok THEN [clients EXCEPT ![queue[1].fd] = Register(@, a.op, a.client)]
                    ELSE clients
  BY <1>1, <1>2, <1>4 DEF DeliverControl
<1>7. toModem' = SendHead(queue', <<>>, FALSE)
  BY <1>1, <1>2 DEF DeliverControl
<1>8. OneInFlight'
  <2>1. CASE queue' = <<>>
    BY <1>7, <2>1 DEF SendHead, OneInFlight
  <2>2. CASE queue' # <<>>
    <3>1. 2 \in DOMAIN queue /\ Head(queue') = queue[2]
      BY <1>0, <1>1, <1>5, <2>2, HeadTailProperties, EmptySeq, LenProperties
    <3>2. Open(queue[2].fd)
      BY <3>1 DEF IInv, QueueInv
    <3>3. toModem' = <<Head(queue')>>
      BY <1>7, <2>2, <3>1, <3>2 DEF SendHead, send_qmi_to_cdc_wdm
    <3>4. QED
      BY <2>2, <3>3 DEF OneInFlight
  <2>3. QED
    BY <2>1, <2>2
<1>9. QED
  BY <1>1, <1>2, <1>3, <1>4, <1>5, <1>6, <1>8

\* When the head leaves the queue and at most the client id it releases is unregistered,
\* what is said of the queue stays true.
LEMMA TailQueue ==
  ASSUME IInv, InStep, queue # <<>>, queue' = Tail(queue), peer' = peer,
         \A fd \in Fds : \A d \in clients[fd] :
            d \in clients'[fd] \/ (queue[1].op = "release" /\ d = queue[1].client)
  PROVE  QueueInv'
<1>1. /\ DOMAIN queue = 1..Len(queue) /\ Len(queue) \in Nat
      /\ DOMAIN queue' = 1..(Len(queue) - 1)
      /\ \A i \in 1..(Len(queue) - 1) : queue'[i] = queue[i+1]
  BY HeadTailProperties, LenProperties DEF IInv, TypeOK
<1>2. ASSUME NEW i \in DOMAIN queue' PROVE i+1 \in DOMAIN queue /\ i+1 # 1 /\ queue'[i] = queue[i+1]
  BY <1>1
<1>3. 1 \in DOMAIN queue
  BY <1>1, EmptySeq DEF IInv, TypeOK
<1>4. ASSUME NEW i \in DOMAIN queue'
      PROVE  /\ Open(queue[i].fd)' /\ queue'[i].peer = peer'[queue'[i].fd]
             /\ queue'[i].op = "release" => queue'[i].client \in clients'[queue'[i].fd]
  <2> DEFINE r == queue[i+1]
  <2>1. /\ Open(r.fd) /\ r.peer = peer[r.fd]
        /\ r.op = "release" => r.client \in clients[r.fd]
    BY <1>2 DEF IInv, QueueInv
  <2>2. r.op = "release" /\ queue[1].op = "release" => r.client # queue[1].client
    BY <1>2, <1>3 DEF IInv, QueueInv
  <2>3. r.op = "release" => r.client \in clients'[r.fd]
    BY <2>1, <2>2 DEF Open
  <2>4. QED
    BY <1>2, <2>1, <2>3 DEF Open
<1>5. ASSUME NEW i \in DOMAIN queue', NEW j \in DOMAIN queue',
             queue'[i].op = "release", queue'[j].op = "release",
             queue'[i].client = queue'[j].client
      PROVE  i = j
  <2>1. i+1 = j+1
    BY <1>2, <1>5 DEF IInv, QueueInv
  <2>2. i \in Int /\ j \in Int
    BY <1>1
  <2>3. QED
    BY <2>1, <2>2
<1>6. QED
  BY <1>4, <1>5 DEF QueueInv

\* What the invariant says of a proxy in step with its modem.
InStepInv == QueueInv /\ GrantInv /\ OneInFlight /\ RegistryAgrees /\ ToOwnerOnly

\* A granted client id is registered for the connection that asked for it.
LEMMA GetInStep == IInv /\ InStep /\ AnswerGet /\ ~outOfStep' => InStepInv'
<1> SUFFICES ASSUME IInv, InStep, AnswerGet, ~outOfStep' PROVE InStepInv'
  OBVIOUS
<1> USE DEF conns, modem
<1> DEFINE fd == queue[1].fd
<1>0. /\ TypeOK /\ ConnInv /\ QueueInv /\ GrantInv /\ RegistryAgrees
      /\ toModem # <<>> /\ Head(toModem).op = "get"
      /\ UNCHANGED <<phase, peer, accepted, toServices>> /\ Serving'
  BY DEF IInv, AnswerGet, Serving
<1>1. ASSUME NEW c \in {Head(toModem).client[1]} \X Ids, owner[c] = 0,
             owner' = [owner EXCEPT ![c] = Head(toModem).peer],
             DeliverControl([Head(toModem) EXCEPT !.client = c], TRUE)
      PROVE  InStepInv'
  <2> DEFINE a == [Head(toModem) EXCEPT !.client = c]
  <2>1. c \in Clients /\ a.peer = Head(toModem).peer /\ a.op = "get" /\ a.client = c
    BY <1>0, <1>1, HeadOfPipe DEF Clients, Request
  <2> HIDE DEF a
  <2>2. DeliverControl(a, TRUE)
    BY <1>1 DEF a
  <2>3. /\ queue # <<>> /\ Head(toModem) = queue[1]
        /\ Open(fd) /\ queue[1].peer = peer[fd]
        /\ send_qmi_to_client(a.peer, {peer[fd]})
        /\ clients' = [clients EXCEPT ![fd] = Register(@, a.op, a.client)]
        /\ queue' = Tail(queue) /\ OneInFlight'
    BY <1>0, <2>2, DeliverInStep
  <2> HIDE DEF fd
  <2>4. /\ fd \in Fds /\ clients'[fd] = clients[fd] \cup {c}
        /\ \A f \in Fds : f # fd => clients'[f] = clients[f]
    BY <1>0, <2>1, <2>3 DEF Register, Open, TypeOK
  <2>5. owner'[c] = peer[fd] /\ \A d \in Clients : d # c => owner'[d] = owner[d]
    BY <1>0, <1>1, <2>1, <2>3 DEF TypeOK
  <2>6. QueueInv'
    BY <1>0, <2>3, <2>4, TailQueue
  <2>7. GrantInv'
    <3>1. \A d \in Clients : owner'[d] <= accepted'
      BY <1>0, <2>4, <2>5 DEF GrantInv, ConnInv
    <3>2. ASSUME NEW m \in toServices' PROVE owner'[m.client] = m.peer
      <4>1. m \in toServices /\ m.client \in Clients /\ m.peer # 0 /\ owner[m.client] = m.peer
        BY <1>0, <3>2, Constants DEF TypeOK, GrantInv
      <4>2. QED
        BY <1>1, <2>5, <4>1
    <3>3. QED
      BY <3>1, <3>2 DEF GrantInv
  <2>8. RegistryAgrees'
    <3>1. ASSUME NEW f \in Fds, Open(f)'
          PROVE  clients'[f] = {d \in Clients : owner'[d] = peer'[f]}
      <4>1. peer[f] # 0 /\ Open(f) /\ clients[f] = {d \in Clients : owner[d] = peer[f]}
        BY <1>0, <3>1 DEF RegistryAgrees, Open, InStep
      <4>2. CASE f = fd
        BY <1>0, <2>1, <2>4, <2>5, <4>1, <4>2
      <4>3. CASE f # fd
        <5>1. peer[f] # peer[fd]
          BY <1>0, <2>4, <4>1, <4>3 DEF ConnInv
        <5>2. QED
          BY <1>0, <1>1, <2>4, <2>5, <4>1, <4>3, <5>1
      <4>4. QED
        BY <4>2, <4>3
    <3>2. QED
      BY <3>1 DEF RegistryAgrees
  <2>9. ToOwnerOnly'
    BY <2>1, <2>3, WrittenTo DEF ToOwnerOnly
  <2>10. QED
    BY <2>3, <2>6, <2>7, <2>8, <2>9 DEF InStepInv
<1>2. ASSUME UNCHANGED owner, DeliverControl(Head(toModem), FALSE) PROVE InStepInv'
  <2>1. /\ queue # <<>> /\ Head(toModem) = queue[1]
        /\ Open(fd) /\ queue[1].peer = peer[fd]
        /\ send_qmi_to_client(Head(toModem).peer, {peer[fd]})
        /\ clients' = clients /\ queue' = Tail(queue) /\ OneInFlight'
    BY <1>0, <1>2, DeliverInStep
  <2>2. QueueInv'
    BY <1>0, <2>1, TailQueue
  <2>3. GrantInv' /\ RegistryAgrees'
    BY <1>0, <1>2, <2>1 DEF GrantInv, RegistryAgrees, Open, InStep
  <2>4. ToOwnerOnly'
    BY <2>1, WrittenTo DEF ToOwnerOnly
  <2>5. QED
    BY <2>1, <2>2, <2>3, <2>4 DEF InStepInv
<1>3. QED
  BY <1>1, <1>2 DEF AnswerGet

\* A released client id leaves both books, with the work in progress for it.
LEMMA ReleaseInStep == IInv /\ InStep /\ AnswerRelease /\ ~outOfStep' => InStepInv'
<1> SUFFICES ASSUME IInv, InStep, AnswerRelease, ~outOfStep' PROVE InStepInv'
  OBVIOUS
<1> USE DEF conns, modem
<1> DEFINE fd == queue[1].fd
           c == Head(toModem).client
           ok == owner[c] # 0
<1>0. /\ TypeOK /\ ConnInv /\ QueueInv /\ GrantInv /\ RegistryAgrees
      /\ toModem # <<>> /\ Head(toModem).op = "release"
      /\ UNCHANGED <<phase, peer, accepted>> /\ Serving'
      /\ owner' = [owner EXCEPT ![c] = 0]
      /\ toServices' = {m \in toServices : m.client # c}
      /\ DeliverControl(Head(toModem), ok) /\ ok \in BOOLEAN
  BY DEF IInv, AnswerRelease, Serving
<1> HIDE DEF ok
<1>1. /\ queue # <<>> /\ 1 \in DOMAIN queue /\ Head(toModem) = queue[1]
      /\ Open(fd) /\ queue[1].peer = peer[fd]
      /\ send_qmi_to_client(Head(toModem).peer, {peer[fd]})
      /\ clients' = IF ok THEN [clients EXCEPT ![fd] = Register(@, "release", c)] ELSE clients
      /\ queue' = Tail(queue) /\ OneInFlight'
  BY <1>0, DeliverInStep
<1>2. c \in clients[fd]
  BY <1>0, <1>1 DEF QueueInv
<1> HIDE DEF fd, c
<1>3. fd \in Fds /\ c \in Clients /\ owner[c] = peer[fd] /\ peer[fd] # 0
  BY <1>0, <1>1, <1>2 DEF RegistryAgrees, InStep, Open, TypeOK
<1>4. /\ clients'[fd] = clients[fd] \ {c}
      /\ \A f \in Fds : f # fd => clients'[f] = clients[f]
  BY <1>0, <1>1, <1>3 DEF Register, TypeOK, ok
<1>5. owner'[c] = 0 /\ \A d \in Clients : d # c => owner'[d] = owner[d]
  BY <1>0, <1>3 DEF TypeOK
<1>6. QueueInv'
  <2>1. \A f \in Fds : \A d \in clients[f] :
          d \in clients'[f] \/ (queue[1].op = "release" /\ d = queue[1].client)
    BY <1>0, <1>1, <1>4 DEF c
  <2>2. QED
    BY <1>0, <1>1, <2>1, TailQueue
<1>7. GrantInv'
  <2>1. \A d \in Clients : owner'[d] <= accepted'
    BY <1>0, <1>3, <1>5, Constants DEF GrantInv, TypeOK
  <2>2. \A m \in toServices' : owner'[m.client] = m.peer
    BY <1>0, <1>5 DEF GrantInv, TypeOK
  <2>3. QED
    BY <2>1, <2>2 DEF GrantInv
<1>8. RegistryAgrees'
  <2>1. ASSUME NEW f \in Fds, Open(f)'
        PROVE  clients'[f] = {d \in Clients : owner'[d] = peer'[f]}
    <3>1. peer[f] # 0 /\ Open(f) /\ clients[f] = {d \in Clients : owner[d] = peer[f]}
      BY <1>0, <2>1 DEF RegistryAgrees, Open, InStep
    <3>2. CASE f = fd
      BY <1>0, <1>4, <1>5, <3>1, <3>2
    <3>3. CASE f # fd
      <4>1. peer[f] # peer[fd]
        BY <1>0, <1>3, <3>1, <3>3 DEF ConnInv
      <4>2. QED
        BY <1>0, <1>3, <1>4, <1>5, <3>1, <3>3, <4>1
    <3>4. QED
      BY <3>2, <3>3
  <2>2. QED
    BY <2>1 DEF RegistryAgrees
<1>9. ToOwnerOnly'
  BY <1>1, WrittenTo DEF ToOwnerOnly
<1>10. QED
  BY <1>1, <1>6, <1>7, <1>8, <1>9 DEF InStepInv

\* Any other answer changes nothing but the queue.
LEMMA OtherInStep == IInv /\ InStep /\ AnswerOther /\ ~outOfStep' => InStepInv'
<1> SUFFICES ASSUME IInv, InStep, AnswerOther, ~outOfStep' PROVE InStepInv'
  OBVIOUS
<1> USE DEF conns, modem
<1>0. /\ TypeOK /\ GrantInv /\ RegistryAgrees
      /\ toModem # <<>> /\ Head(toModem).op = "other"
      /\ UNCHANGED <<phase, peer, accepted, owner, toServices>>
      /\ DeliverControl(Head(toModem), TRUE)
  BY DEF IInv, AnswerOther
<1>1. /\ queue # <<>> /\ Head(toModem) = queue[1] /\ Open(queue[1].fd)
      /\ queue[1].peer = peer[queue[1].fd]
      /\ send_qmi_to_client(Head(toModem).peer, {peer[queue[1].fd]})
      /\ clients' = [clients EXCEPT ![queue[1].fd] = Register(@, "other", Head(toModem).client)]
      /\ queue' = Tail(queue) /\ OneInFlight'
  BY <1>0, DeliverInStep
<1>2. clients' = clients
  BY <1>0, <1>1 DEF Register, TypeOK, Open
<1>3. QueueInv'
  BY <1>0, <1>1, <1>2, TailQueue
<1>4. GrantInv' /\ RegistryAgrees'
  BY <1>0, <1>2 DEF GrantInv, RegistryAgrees, Open, InStep
<1>5. ToOwnerOnly'
  BY <1>1, WrittenTo DEF ToOwnerOnly
<1>6. QED
  BY <1>1, <1>3, <1>4, <1>5 DEF InStepInv

\* The recipients of a message for a client id in use are its holder at most.
LEMMA RecipientIsHolder ==
  ASSUME IInv, InStep, NEW c \in Clients, owner[c] # 0
  PROVE  Recipients(c) \subseteq {owner[c]}
<1>1. ASSUME NEW fd \in Fds, NEW d \in clients[fd], d[1] = c[1] /\ c[2] \in {0, d[2]}
      PROVE  peer[fd] = owner[c]
  <2>1. d \in Clients /\ Open(fd)
    BY <1>1 DEF IInv, TypeOK, Open
  <2>2. d = c
    <3>1. c[2] # 0
      BY Constants DEF Clients
    <3>2. QED
      BY <1>1, <2>1, <3>1 DEF Clients
  <2>3. owner[d] = peer[fd]
    BY <2>1 DEF IInv, RegistryAgrees, InStep
  <2>4. QED
    BY <2>2, <2>3
<1>2. QED
  BY <1>1 DEF Recipients

\* A new connection has a number of its own and no client ids.
LEMMA AcceptInStep ==
  ASSUME IInv, InStep, NEW fd \in Fds, Accept(fd), ~outOfStep'
  PROVE  InStepInv'
<1> USE DEF conns, modem
<1>0. /\ TypeOK /\ ConnInv /\ QueueInv /\ GrantInv /\ RegistryAgrees /\ OneInFlight /\ ToOwnerOnly
      /\ ~Open(fd) /\ accepted' = accepted + 1 /\ accepted \in Nat
      /\ peer' = [peer EXCEPT ![fd] = accepted + 1] /\ clients' = [clients EXCEPT ![fd] = {}]
      /\ UNCHANGED <<phase, queue, toModem, toServices, owner, delivered, outOfStep>>
  BY Constants DEF IInv, Accept, TypeOK
<1>1. /\ peer'[fd] = accepted + 1 /\ clients'[fd] = {}
      /\ \A f \in Fds : f # fd => peer'[f] = peer[f] /\ clients'[f] = clients[f]
  BY <1>0 DEF TypeOK
<1>2. QueueInv'
  <2>1. \A i \in DOMAIN queue : queue[i].fd \in Fds /\ queue[i].fd # fd
    BY <1>0 DEF QueueInv, Open
  <2>2. QED
    BY <1>0, <1>1, <2>1 DEF QueueInv, Open
<1>3. \A c \in Clients : owner[c] \in Nat /\ owner[c] <= accepted
  BY <1>0, Constants DEF GrantInv, TypeOK
<1>4. GrantInv'
  BY <1>0, <1>3 DEF GrantInv
<1>5. RegistryAgrees'
  <2>1. \A c \in Clients : owner[c] # accepted + 1
    BY <1>0, <1>3
  <2>2. QED
    BY <1>0, <1>1, <2>1 DEF RegistryAgrees, Open, InStep
<1>6. OneInFlight' /\ ToOwnerOnly'
  BY <1>0 DEF OneInFlight, ToOwnerOnly, InStep
<1>7. QED
  BY <1>2, <1>4, <1>5, <1>6 DEF InStepInv

\* A client that leaves takes its one request with it, which was not in flight.
LEMMA CleanupInStep ==
  ASSUME IInv, InStep, NEW fd \in Fds, cleanup_qmi_connection(fd), ~outOfStep'
  PROVE  InStepInv'
<1> USE DEF conns, modem
<1>0. /\ TypeOK /\ QueueInv /\ GrantInv /\ RegistryAgrees /\ OneInFlight /\ ToOwnerOnly
      /\ queue \in Seq(Request) /\ Len(queue) \in Nat /\ DOMAIN queue = 1..Len(queue)
      /\ peer' = [peer EXCEPT ![fd] = 0] /\ clients' = [clients EXCEPT ![fd] = {}]
      /\ queue' = RemoveRequestOf(fd)
      /\ 1 \notin QueuedBy(fd) /\ \A i, j \in QueuedBy(fd) : i = j
      /\ UNCHANGED <<phase, accepted, toModem, toServices, owner, delivered>>
  BY LenProperties DEF IInv, cleanup_qmi_connection, TypeOK
<1>1. /\ peer'[fd] = 0 /\ clients'[fd] = {}
      /\ \A f \in Fds : f # fd => peer'[f] = peer[f] /\ clients'[f] = clients[f]
  BY <1>0 DEF TypeOK
<1>2. GrantInv'
  BY <1>0 DEF GrantInv, InStep
<1>3. RegistryAgrees'
  BY <1>0, <1>1 DEF RegistryAgrees, Open, InStep
<1>4. ToOwnerOnly'
  BY <1>0 DEF ToOwnerOnly, InStep
<1>5. QueueInv' /\ OneInFlight'
  <2>1. CASE QueuedBy(fd) = {} /\ queue' = queue
    <3>1. \A i \in DOMAIN queue : queue[i].fd \in Fds /\ queue[i].fd # fd
      BY <1>0, <2>1 DEF QueueInv, Open, QueuedBy
    <3>2. QueueInv'
      BY <1>0, <1>1, <2>1, <3>1 DEF QueueInv, Open
    <3>3. OneInFlight'
      BY <1>0, <2>1 DEF OneInFlight, InStep
    <3>4. QED
      BY <3>2, <3>3
  <2>2. ASSUME NEW k \in QueuedBy(fd), queue' = RemoveAt(queue, k)
        PROVE  QueueInv' /\ OneInFlight'
    <3> DEFINE old(i) == IF i < k THEN i ELSE i+1
    <3>1. k \in 2..Len(queue) /\ queue[k].fd = fd
      BY <1>0, <2>2 DEF QueuedBy
    <3>2. /\ queue' \in Seq(Request) /\ Len(queue') = Len(queue) - 1
          /\ DOMAIN queue' = 1..(Len(queue) - 1)
          /\ \A i \in 1..(Len(queue) - 1) : queue'[i] = IF i < k THEN queue[i] ELSE queue[i+1]
      <4>1. k \in 1..Len(queue)
        BY <3>1
      <4>2. /\ queue' \in Seq(Request) /\ Len(queue') = Len(queue) - 1
            /\ \A i \in 1..Len(queue) - 1 :
                 queue'[i] = IF i < k THEN queue[i] ELSE queue[i+1]
        <5>1. queue \in Seq(Request)
          BY <1>0 DEF TypeOK
        <5>2. /\ RemoveAt(queue, k) \in Seq(Request)
              /\ Len(RemoveAt(queue, k)) = Len(queue) - 1
              /\ \A i \in 1..Len(queue) - 1 :
                   RemoveAt(queue, k)[i] = IF i < k THEN queue[i] ELSE queue[i+1]
          BY <4>1, <5>1, RemoveOne
        <5>3. QED
          BY <2>2, <5>2
      <4>3. DOMAIN queue' = 1..Len(queue')
        BY <4>2, LenProperties
      <4>4. QED
        BY <4>2, <4>3
    <3>3. ASSUME NEW i \in DOMAIN queue'
          PROVE  /\ old(i) \in DOMAIN queue /\ queue'[i] = queue[old(i)] /\ old(i) # k
                 /\ i \in Int
      BY <1>0, <3>1, <3>2
    <3>4. ASSUME NEW i \in DOMAIN queue', NEW j \in DOMAIN queue', old(i) = old(j)
          PROVE  i = j
      BY <1>0, <3>1, <3>2, <3>4
    <3> HIDE DEF old
    <3>5. ASSUME NEW i \in DOMAIN queue'
          PROVE  /\ queue'[i].fd \in Fds /\ peer'[queue'[i].fd] # 0
                 /\ queue'[i].peer = peer'[queue'[i].fd]
                 /\ queue'[i].op = "release" => queue'[i].client \in clients'[queue'[i].fd]
      <4>1. queue[old(i)].fd # fd
        <5>1. old(i) \notin QueuedBy(fd)
          BY <1>0, <2>2, <3>3
        <5>2. QED
          BY <3>3, <5>1 DEF QueuedBy
      <4>2. QED
        BY <1>0, <1>1, <3>3, <4>1 DEF QueueInv, Open
    <3>6. QueueInv'
      <4>1. ASSUME NEW i \in DOMAIN queue', NEW j \in DOMAIN queue',
                   queue'[i].op = "release", queue'[j].op = "release",
                   queue'[i].client = queue'[j].client
            PROVE  i = j
        <5>1. old(i) = old(j)
          BY <1>0, <3>3, <4>1 DEF QueueInv
        <5>2. QED
          BY <3>4, <5>1
      <4>2. QED
        BY <3>5, <4>1 DEF QueueInv, Open
    <3>7. queue # <<>> /\ queue' # <<>> /\ Head(queue') = Head(queue)
      <4>1. 1 \in 1..(Len(queue) - 1) /\ 1 < k
        BY <1>0, <3>1
      <4>2. queue'[1] = queue[1]
        BY <3>2, <4>1
      <4>3. queue # <<>> /\ queue' # <<>>
        BY <1>0, <3>1, <3>2, EmptySeq
      <4>4. QED
        BY <1>0, <3>2, <4>2, <4>3
    <3>8. OneInFlight'
      BY <1>0, <3>7 DEF OneInFlight, InStep
    <3>9. QED
      BY <3>6, <3>8
  <2>3. QED
    BY <1>0, <2>1, <2>2, RemovedRequest
<1>6. QED
  BY <1>2, <1>3, <1>4, <1>5 DEF InStepInv

\* A new request queues up behind the others, or goes to the modem when it is the only one.
LEMMA SendControlInStep ==
  ASSUME IInv, InStep, NEW fd \in Fds, NEW op \in {"get", "release", "other"},
         NEW c \in Services \X (Ids \cup {0}), SendControl(fd, op, c), ~outOfStep'
  PROVE  InStepInv'
<1> USE DEF conns, modem
<1> DEFINE r == [n |-> requests + 1, fd |-> fd, peer |-> peer[fd], op |-> op, client |-> c]
<1>0. /\ TypeOK /\ ConnInv /\ QueueInv /\ GrantInv /\ RegistryAgrees /\ OneInFlight /\ ToOwnerOnly
      /\ queue \in Seq(Request) /\ Len(queue) \in Nat /\ DOMAIN queue = 1..Len(queue)
      /\ Open(fd) /\ MayAsk(fd, op, c)
      /\ UNCHANGED <<phase, conns, modem, delivered>>
      /\ outOfStep' = outOfStep
  BY LenProperties DEF IInv, SendControl, TypeOK, InStep
<1>1. /\ r \in Request /\ r.fd = fd /\ r.peer = peer[fd] /\ r.op = op /\ r.client = c
      /\ queue' = Append(queue, r)
  BY <1>0, Constants DEF SendControl, Request, TypeOK
<1>2. toModem' = IF queue = <<>> THEN Append(toModem, r) ELSE toModem
  BY DEF SendControl, send_qmi_to_cdc_wdm
<1> HIDE DEF r
<1>3. /\ DOMAIN queue' = 1..(Len(queue) + 1) /\ queue'[Len(queue) + 1] = r
      /\ \A i \in 1..Len(queue) : queue'[i] = queue[i]
      /\ queue' # <<>> /\ Head(queue') = IF queue = <<>> THEN r ELSE Head(queue)
  <2>1. /\ queue' \in Seq(Request) /\ Len(queue') = Len(queue) + 1
        /\ queue'[Len(queue) + 1] = r /\ \A i \in 1..Len(queue) : queue'[i] = queue[i]
        /\ queue' # <<>>
    BY <1>0, <1>1, AppendProperties
  <2>2. Head(queue') = IF queue = <<>> THEN r ELSE Head(queue)
    BY <1>0, <1>1, HeadTailAppend
  <2>3. QED
    BY <2>1, <2>2, LenProperties
<1>4. OneInFlight'
  <2>1. toModem = IF queue = <<>> THEN <<>> ELSE <<Head(queue)>>
    BY <1>0 DEF OneInFlight, InStep
  <2>2. CASE queue = <<>>
    <3>1. toModem' = Append(<<>>, r) /\ Head(queue') = r /\ queue' # <<>>
      BY <1>2, <1>3, <2>1, <2>2
    <3>2. Append(<<>>, r) = <<r>>
      OBVIOUS
    <3>3. QED
      BY <3>1, <3>2 DEF OneInFlight
  <2>3. CASE queue # <<>>
    BY <1>2, <1>3, <2>1, <2>3 DEF OneInFlight
  <2>4. QED
    BY <2>2, <2>3
<1>5. ASSUME NEW i \in DOMAIN queue, queue[i].op = "release", op = "release"
      PROVE  queue[i].client # c
  <2>1. c \in clients[fd] /\ (i \in QueuedBy(fd) => queue[i].client # c)
    BY <1>0, <1>5 DEF MayAsk
  <2>2. CASE queue[i].fd = fd
    BY <2>1, <2>2 DEF QueuedBy
  <2>3. CASE queue[i].fd # fd
    <3> DEFINE f == queue[i].fd
    <3>1. Open(f) /\ f \in Fds /\ queue[i].client \in clients[f]
      BY <1>0, <1>5 DEF QueueInv, Open
    <3>2. peer[f] # peer[fd]
      BY <1>0, <2>3, <3>1 DEF ConnInv
    <3>3. owner[c] = peer[fd] /\ owner[queue[i].client] = peer[f]
      BY <1>0, <2>1, <3>1 DEF RegistryAgrees, InStep
    <3>4. QED
      BY <3>2, <3>3
  <2>4. QED
    BY <2>2, <2>3
<1>6. QueueInv'
  <2>1. ASSUME NEW i \in DOMAIN queue'
        PROVE  /\ queue'[i].fd \in Fds /\ peer[queue'[i].fd] # 0
               /\ queue'[i].peer = peer[queue'[i].fd]
               /\ queue'[i].op = "release" => queue'[i].client \in clients[queue'[i].fd]
    <3>1. CASE i \in 1..Len(queue)
      BY <1>0, <1>3, <3>1 DEF QueueInv, Open
    <3>2. CASE i = Len(queue) + 1
      BY <1>0, <1>1, <1>3, <3>2 DEF MayAsk, Open
    <3>3. QED
      BY <1>0, <1>3, <3>1, <3>2
  <2>2. ASSUME NEW i \in DOMAIN queue', NEW j \in DOMAIN queue',
               queue'[i].op = "release", queue'[j].op = "release",
               queue'[i].client = queue'[j].client
        PROVE  i = j
    <3>1. CASE i \in 1..Len(queue) /\ j \in 1..Len(queue)
      BY <1>0, <1>3, <2>2, <3>1 DEF QueueInv
    <3>2. CASE i \in 1..Len(queue) /\ j = Len(queue) + 1
      BY <1>0, <1>1, <1>3, <1>5, <2>2, <3>2
    <3>3. CASE i = Len(queue) + 1 /\ j \in 1..Len(queue)
      BY <1>0, <1>1, <1>3, <1>5, <2>2, <3>3
    <3>4. QED
      BY <1>0, <1>3, <3>1, <3>2, <3>3
  <2>3. QED
    BY <1>0, <2>1, <2>2 DEF QueueInv, Open
<1>7. GrantInv' /\ RegistryAgrees' /\ ToOwnerOnly'
  BY <1>0 DEF GrantInv, RegistryAgrees, ToOwnerOnly, Open, InStep
<1>8. QED
  BY <1>4, <1>6, <1>7 DEF InStepInv

\* The proxy stays in step, or gets back in step by the restart.
LEMMA InStepStep == IInv /\ [Next]_vars => InStepInv'
<1> SUFFICES ASSUME IInv, [Next]_vars PROVE InStepInv'
  OBVIOUS
<1> USE DEF conns, modem
<1>0. TypeOK /\ DownInv /\ QueueInv /\ GrantInv /\ OneInFlight /\ RegistryAgrees /\ ToOwnerOnly
  BY DEF IInv
<1>1. CASE outOfStep'
  BY <1>1 DEF InStepInv, QueueInv, GrantInv, OneInFlight, RegistryAgrees, ToOwnerOnly, InStep
<1>2. ASSUME Serving, Serving', outOfStep' = outOfStep, UNCHANGED <<conns, queue, toModem>>,
             \A c \in Clients : owner'[c] = owner[c],
             InStep => \A m \in toServices' : owner[m.client] = m.peer /\ m.client \in Clients,
             InStep /\ delivered'.peer # 0 => delivered'.to \subseteq {delivered'.peer}
      PROVE  InStepInv'
  <2>1. QueueInv' /\ GrantInv'
    BY <1>0, <1>2 DEF QueueInv, GrantInv, Open, InStep
  <2>2. OneInFlight' /\ RegistryAgrees'
    BY <1>0, <1>2 DEF OneInFlight, RegistryAgrees, Open, InStep
  <2>3. ToOwnerOnly'
    BY <1>2 DEF ToOwnerOnly, InStep
  <2>4. QED
    BY <2>1, <2>2, <2>3 DEF InStepInv
<1>3. ASSUME NEW fd \in Fds, NEW c \in Clients, SendService(fd, c) PROVE InStepInv'
  <2>1. InStep => owner[c] = peer[fd]
    BY <1>0, <1>3 DEF SendService, RegistryAgrees, InStep
  <2>2. InStep => \A m \in toServices' : owner[m.client] = m.peer /\ m.client \in Clients
    BY <1>0, <1>3, <2>1 DEF SendService, GrantInv, TypeOK
  <2>3. InStep /\ delivered'.peer # 0 => delivered'.to \subseteq {delivered'.peer}
    BY <1>0, <1>3 DEF SendService, ToOwnerOnly, InStep
  <2>4. QED
    BY <1>2, <1>3, <2>2, <2>3 DEF SendService, Serving
<1>4. ASSUME NEW m \in toServices, AnswerService(m) PROVE InStepInv'
  <2>1. m.client \in Clients /\ m.peer # 0 /\ (InStep => owner[m.client] = m.peer)
    BY <1>0, Constants DEF GrantInv, TypeOK
  <2>2. InStep => Recipients(m.client) \subseteq {m.peer}
    BY <2>1, RecipientIsHolder
  <2>3. InStep => \A k \in toServices' : owner[k.client] = k.peer /\ k.client \in Clients
    BY <1>0, <1>4 DEF AnswerService, GrantInv, TypeOK
  <2>4. InStep /\ delivered'.peer # 0 => delivered'.to \subseteq {delivered'.peer}
    BY <1>4, <2>2, WrittenTo DEF AnswerService
  <2>5. QED
    BY <1>2, <1>4, <2>3, <2>4 DEF AnswerService, Serving
<1>5. ASSUME NEW c \in Clients, ServiceIndication(c) PROVE InStepInv'
  <2>1. InStep => Recipients(c) \subseteq {owner[c]}
    BY <1>5, RecipientIsHolder DEF ServiceIndication
  <2>2. InStep => \A k \in toServices' : owner[k.client] = k.peer /\ k.client \in Clients
    BY <1>0, <1>5 DEF ServiceIndication, GrantInv, TypeOK
  <2>3. InStep /\ delivered'.peer # 0 => delivered'.to \subseteq {delivered'.peer}
    BY <1>5, <2>1, WrittenTo DEF ServiceIndication
  <2>4. QED
    BY <1>2, <1>5, <2>2, <2>3 DEF ServiceIndication, Serving
<1>6. ASSUME NEW s \in Services, Broadcast(s) PROVE InStepInv'
  <2>1. InStep => \A k \in toServices' : owner[k.client] = k.peer /\ k.client \in Clients
    BY <1>0, <1>6 DEF Broadcast, GrantInv, TypeOK
  <2>2. delivered'.peer = 0
    BY <1>6, WrittenTo DEF Broadcast
  <2>3. QED
    BY <1>2, <1>6, <2>1, <2>2 DEF Broadcast, Serving
<1>7. ASSUME NEW next \in {"down", "quit"}, LeaveLoop(next) PROVE InStepInv'
  <2>1. ~Serving' /\ UNCHANGED <<delivered, outOfStep>>
    BY <1>7 DEF LeaveLoop, Serving
  <2>2. QED
    BY <1>0, <2>1 DEF InStepInv, QueueInv, GrantInv, OneInFlight, RegistryAgrees, ToOwnerOnly, InStep
<1>8. CASE RevokeAsResponse \/ HangUp \/ Interrupt
  BY <1>7, <1>8 DEF RevokeAsResponse, HangUp, Interrupt
<1>9. CASE RevokeUnnoticed
  BY <1>1, <1>9 DEF RevokeUnnoticed
<1>10. CASE Indication
  <2>1. CASE queue # <<>>
    BY <1>1, <1>10, <2>1 DEF Indication
  <2>2. CASE queue = <<>>
    <3>1. toModem' = toModem /\ outOfStep' = outOfStep
      BY <1>0, <1>10, <2>2 DEF Indication, SendHead, TypeOK
    <3>2. InStep => \A k \in toServices' : owner[k.client] = k.peer /\ k.client \in Clients
      BY <1>0, <1>10 DEF Indication, GrantInv, TypeOK
    <3>3. InStep /\ delivered'.peer # 0 => delivered'.to \subseteq {delivered'.peer}
      BY <1>0, <1>10 DEF Indication, ToOwnerOnly, InStep
    <3>4. QED
      BY <1>2, <1>10, <3>1, <3>2, <3>3 DEF Indication, Serving
  <2>3. QED
    BY <2>1, <2>2
<1>11. ASSUME Restart, ~outOfStep' PROVE InStepInv'
  <2>1. /\ ~Serving /\ toModem' = <<>> /\ delivered' = Nobody
        /\ UNCHANGED <<conns, queue, modem>>
    BY <1>11 DEF Restart, Serving
  <2>2. /\ queue' = <<>> /\ toServices' = {} /\ \A fd \in Fds : peer'[fd] = 0
        /\ \A c \in Clients : owner'[c] = 0
    BY <1>0, <2>1 DEF DownInv
  <2>3. QueueInv' /\ OneInFlight'
    BY <2>1, <2>2 DEF QueueInv, OneInFlight
  <2>4. GrantInv'
    <3>1. accepted' \in Nat
      BY <1>0, <2>1, Constants DEF TypeOK
    <3>2. QED
      BY <2>2, <3>1 DEF GrantInv
  <2>5. RegistryAgrees' /\ ToOwnerOnly'
    BY <2>1, <2>2 DEF RegistryAgrees, ToOwnerOnly, Open, Nobody
  <2>6. QED
    BY <2>3, <2>4, <2>5 DEF InStepInv
<1>12. CASE UNCHANGED vars
  BY <1>0, <1>12
     DEF vars, InStepInv, QueueInv, GrantInv, OneInFlight, RegistryAgrees, ToOwnerOnly,
         InStep, Open, Serving
<1>13. ASSUME Serving, ~outOfStep PROVE InStep
  BY <1>13 DEF InStep
<1>14. ASSUME NEW fd \in Fds, Accept(fd), ~outOfStep' PROVE InStepInv'
  BY <1>13, <1>14, AcceptInStep DEF Accept
<1>15. ASSUME NEW fd \in Fds, cleanup_qmi_connection(fd), ~outOfStep' PROVE InStepInv'
  BY <1>13, <1>15, CleanupInStep DEF cleanup_qmi_connection
<1>16. ASSUME NEW fd \in Fds, NEW op \in {"get", "release", "other"},
              NEW c \in Services \X (Ids \cup {0}), SendControl(fd, op, c), ~outOfStep'
       PROVE  InStepInv'
  <2>1. Serving /\ ~outOfStep
    BY <1>16 DEF SendControl
  <2>2. QED
    BY <1>13, <1>16, <2>1, SendControlInStep
<1>17. ASSUME NEW a, NEW ok, DeliverControl(a, ok), ~outOfStep' PROVE ~outOfStep
  BY <1>17 DEF DeliverControl
<1>18. ASSUME AnswerGet, ~outOfStep' PROVE InStepInv'
  <2>1. Serving /\ ~outOfStep
    BY <1>17, <1>18 DEF AnswerGet
  <2>2. QED
    BY <1>13, <1>18, <2>1, GetInStep
<1>19. ASSUME AnswerRelease, ~outOfStep' PROVE InStepInv'
  <2>1. Serving /\ ~outOfStep
    BY <1>17, <1>19 DEF AnswerRelease
  <2>2. QED
    BY <1>13, <1>19, <2>1, ReleaseInStep
<1>20. ASSUME AnswerOther, ~outOfStep' PROVE InStepInv'
  <2>1. Serving /\ ~outOfStep
    BY <1>17, <1>20 DEF AnswerOther
  <2>2. QED
    BY <1>13, <1>20, <2>1, OtherInStep
<1>21. QED
  BY <1>1, <1>3, <1>4, <1>5, <1>6, <1>8, <1>9, <1>10, <1>11, <1>12, <1>14, <1>15, <1>16,
     <1>18, <1>19, <1>20 DEF Next, ClientStep, ModemStep, AnswerControl

-------------------------------------------------------------------------------
(* The results.                                                             *)

\* The inductive invariant holds in every reachable state.
THEOREM Invariance == Spec => []IInv
<1>1. IInv /\ [Next]_vars => IInv'
  BY TypeStep, ConnStep, InStepStep DEF IInv, InStepInv
<1>2. QED
  BY InitIInv, <1>1, PTL DEF Spec

\* While nothing was lost, repeated or orphaned, the modem works on the head of the queue
\* and on nothing else: the answer needs no transaction id.
THEOREM OneRequestInFlight == Spec => []OneInFlight
<1>1. IInv => OneInFlight
  BY DEF IInv
<1>2. QED
  BY Invariance, <1>1, PTL

\* The client ids registered for a connection are those the modem granted through it.
THEOREM RegistryIsRight == Spec => []RegistryAgrees
<1>1. IInv => RegistryAgrees
  BY DEF IInv
<1>2. QED
  BY Invariance, <1>1, PTL

\* No program gets a message for another one, descriptors and client ids reused or not.
THEOREM OwnersOnly == Spec => []ToOwnerOnly
<1>1. IInv => ToOwnerOnly
  BY DEF IInv
<1>2. QED
  BY Invariance, <1>1, PTL

\* When the head of a queue is taken off, it alone may be missing afterwards.
LEMMA TailRemoves ==
  ASSUME NEW S, NEW s \in Seq(S), s # <<>>, NEW x \in ToSet(s) \ ToSet(Tail(s))
  PROVE  x = Head(s)
<1>1. /\ DOMAIN s = 1..Len(s) /\ Len(s) \in Nat
      /\ DOMAIN Tail(s) = 1..(Len(s) - 1) /\ Head(s) = s[1]
      /\ \A i \in 1..(Len(s) - 1) : Tail(s)[i] = s[i+1]
  BY HeadTailProperties, LenProperties
<1>2. PICK i \in DOMAIN s : x = s[i]
  BY DEF ToSet
<1>3. CASE i = 1
  BY <1>1, <1>2, <1>3
<1>4. CASE i # 1
  <2>1. i-1 \in DOMAIN Tail(s) /\ Tail(s)[i-1] = s[i]
    BY <1>1, <1>4
  <2>2. QED
    BY <1>2, <2>1 DEF ToSet
<1>5. QED
  BY <1>3, <1>4

\* When one place of a queue is taken out, what stood there alone may be missing.
LEMMA RemoveRemoves ==
  ASSUME NEW S, NEW s \in Seq(S), NEW k \in 1..Len(s),
         NEW x \in ToSet(s) \ ToSet(RemoveAt(s, k))
  PROVE  x = s[k]
<1>1. /\ DOMAIN s = 1..Len(s) /\ Len(s) \in Nat
      /\ DOMAIN RemoveAt(s, k) = 1..(Len(s) - 1)
      /\ \A i \in 1..(Len(s) - 1) : RemoveAt(s, k)[i] = IF i < k THEN s[i] ELSE s[i+1]
  BY RemoveOne, LenProperties
<1>2. PICK i \in DOMAIN s : x = s[i]
  BY DEF ToSet
<1>3. CASE i = k
  BY <1>2, <1>3
<1>4. CASE i # k
  <2>1. \E j \in DOMAIN RemoveAt(s, k) : RemoveAt(s, k)[j] = s[i]
    <3>1. CASE i < k
      <4>1. i \in DOMAIN RemoveAt(s, k) /\ RemoveAt(s, k)[i] = s[i]
        BY <1>1, <3>1
      <4>2. QED
        BY <4>1
    <3>2. CASE i > k
      <4>1. i-1 \in DOMAIN RemoveAt(s, k) /\ RemoveAt(s, k)[i-1] = s[i]
        BY <1>1, <3>2
      <4>2. QED
        BY <4>1
    <3>3. QED
      BY <1>1, <1>4, <3>1, <3>2
  <2>2. QED
    BY <1>2, <2>1 DEF ToSet
<1>5. QED
  BY <1>3, <1>4

\* In step, the connection of the head is open.
LEMMA HeadIsOpen ==
  ASSUME IInv, InStep, queue # <<>>
  PROVE  Open(Head(queue).fd) /\ Head(queue).peer = peer[Head(queue).fd]
<1>1. queue \in Seq(Request)
  BY DEF IInv, TypeOK
<1>2. Head(queue) = queue[1] /\ 1 \in DOMAIN queue
  BY <1>1, EmptySeq, LenProperties
<1>3. QED
  BY <1>2 DEF IInv, QueueInv

\* Whatever becomes of the write of the next request, the answer to the head of the queue
\* is written to the program that sent it or to nobody.
LEMMA AnswerReaches ==
  ASSUME IInv, InStep, toModem # <<>>, NEW a, a.peer = Head(toModem).peer, NEW ok,
         DeliverControl(a, ok), peer' = peer
  PROVE  /\ queue # <<>> /\ queue' = Tail(queue) /\ Head(toModem) = Head(queue)
         /\ delivered'.peer = Head(queue).peer /\ delivered'.to \subseteq {Head(queue).peer}
<1>1. queue # <<>> /\ Head(toModem) = Head(queue) /\ queue \in Seq(Request)
  <2>1. toModem = IF queue = <<>> THEN <<>> ELSE <<Head(queue)>>
    BY DEF IInv, OneInFlight, InStep
  <2>2. QED
    BY <2>1 DEF IInv, TypeOK
<1>2. Open(Head(queue).fd) /\ Head(queue).peer = peer[Head(queue).fd]
  BY <1>1, HeadIsOpen
<1>3. queue' = Tail(queue) /\ send_qmi_to_client(a.peer, {Head(queue).peer})
  BY <1>1, <1>2 DEF DeliverControl
<1>4. QED
  BY <1>1, <1>3, WrittenTo

\* A control request leaves the queue of a proxy in step with the modem's answer to that
\* request, which is written to its program or, when it does not take it in 5 seconds, to
\* nobody; the requests of a program that leaves go with it.
THEOREM NoRequestPassedOver == Spec => LeavesWithAnswer
<1> DEFINE Gone(r) == \/ peer'[r.fd] # r.peer
                      \/ /\ r = Head(queue) /\ AnswerControl /\ Head(toModem).n = r.n
                         /\ delivered'.peer = r.peer /\ delivered'.to \subseteq {r.peer}
<1>1. IInv /\ [Next]_vars =>
        [~outOfStep /\ Serving /\ Serving' => \A r \in ToSet(queue) \ ToSet(queue') : Gone(r)]_vars
  <2> SUFFICES ASSUME IInv, [Next]_vars, InStep, Serving',
                      NEW r \in ToSet(queue) \ ToSet(queue')
               PROVE  Gone(r)
    BY DEF InStep
  <2> USE DEF conns, modem
  <2>0. queue \in Seq(Request)
    BY DEF IInv, TypeOK
  <2>1. ASSUME AnswerControl, NEW a, a.peer = Head(toModem).peer, NEW ok, toModem # <<>>,
               DeliverControl(a, ok), peer' = peer
        PROVE  Gone(r)
    <3>1. /\ queue # <<>> /\ queue' = Tail(queue) /\ Head(toModem) = Head(queue)
          /\ delivered'.peer = Head(queue).peer /\ delivered'.to \subseteq {Head(queue).peer}
      BY <2>1, AnswerReaches
    <3>2. r = Head(queue)
      BY <2>0, <3>1, TailRemoves
    <3>3. QED
      BY <2>1, <3>1, <3>2
  <2>2. CASE AnswerGet
    <3>1. ASSUME NEW c PROVE [Head(toModem) EXCEPT !.client = c].peer = Head(toModem).peer
      BY <2>2, HeadOfPipe DEF AnswerGet, IInv, Request
    <3>2. QED
      BY <2>1, <2>2, <3>1 DEF AnswerControl, AnswerGet
  <2>3. CASE AnswerRelease \/ AnswerOther
    BY <2>1, <2>3 DEF AnswerControl, AnswerRelease, AnswerOther
  <2>4. ASSUME NEW fd \in Fds, cleanup_qmi_connection(fd) PROVE Gone(r)
    <3>1. PICK k \in QueuedBy(fd) : queue' = RemoveAt(queue, k)
      BY <2>0, <2>4, RemovedRequest DEF cleanup_qmi_connection
    <3>2. k \in DOMAIN queue /\ queue[k].fd = fd
      BY DEF QueuedBy
    <3>3. r = queue[k]
      BY <2>0, <3>1, <3>2, RemoveRemoves, LenProperties
    <3>4. r.fd = fd /\ r.peer # 0
      BY <3>2, <3>3 DEF IInv, QueueInv, Open
    <3>5. peer'[fd] = 0
      BY <2>4 DEF cleanup_qmi_connection, IInv, TypeOK
    <3>6. QED
      BY <3>4, <3>5
  <2>5. ASSUME NEW fd \in Fds, NEW op, NEW c, SendControl(fd, op, c) PROVE FALSE
    <3>1. PICK x \in Request : queue' = Append(queue, x)
      <4>1. queue' \in Seq(Request)
        BY TypeStep DEF IInv, TypeOK
      <4>2. QED
        BY <2>0, <2>5, <4>1, AppendProperties, ElementOfSeq DEF SendControl
    <3>2. \A i \in DOMAIN queue : i \in DOMAIN queue' /\ queue'[i] = queue[i]
      BY <2>0, <3>1, AppendProperties, LenProperties
    <3>3. QED
      BY <3>2 DEF ToSet
  <2>6. CASE UNCHANGED queue
    BY <2>6
  <2>7. CASE RevokeUnnoticed
    BY <2>6, <2>7, HeadIsOpen DEF RevokeUnnoticed, HeadOpen
  <2>8. QED
    BY <2>2, <2>3, <2>4, <2>5, <2>6, <2>7 DEF Next, ClientStep, ModemStep, AnswerControl, Accept,
       SendService, Indication, AnswerService, ServiceIndication, Broadcast, RevokeAsResponse,
       HangUp, Interrupt, LeaveLoop, Restart, InStep, Serving, vars
<1>2. QED
  BY <1>1, Invariance, PTL DEF Spec, LeavesWithAnswer

\* While the proxy is in step nobody overtakes: an answer of the modem brings every waiting
\* request one place nearer to the head, and all else that happens leaves it in its place
\* or brings it nearer, unless its own program goes.
ServedInTurn ==
  [][InStep /\ InStep' => \A i \in DOMAIN queue :
       IF AnswerControl THEN i > 1 => i-1 \in DOMAIN queue' /\ queue'[i-1] = queue[i]
       ELSE \/ peer'[queue[i].fd] # queue[i].peer
            \/ \E j \in 1..i : j \in DOMAIN queue' /\ queue'[j] = queue[i]]_vars

\* Taking one place out of a queue leaves everybody else in place or one place nearer.
LEMMA RemoveMovesUp ==
  ASSUME NEW S, NEW s \in Seq(S), NEW k \in 1..Len(s), NEW i \in DOMAIN s, i # k
  PROVE  \E j \in 1..i : j \in DOMAIN RemoveAt(s, k) /\ RemoveAt(s, k)[j] = s[i]
<1>1. /\ DOMAIN s = 1..Len(s) /\ Len(s) \in Nat
      /\ DOMAIN RemoveAt(s, k) = 1..(Len(s) - 1)
      /\ \A m \in 1..(Len(s) - 1) : RemoveAt(s, k)[m] = IF m < k THEN s[m] ELSE s[m+1]
  BY RemoveOne, LenProperties
<1>2. CASE i < k
  <2>1. i \in 1..i /\ i \in DOMAIN RemoveAt(s, k) /\ RemoveAt(s, k)[i] = s[i]
    BY <1>1, <1>2
  <2>2. QED
    BY <2>1
<1>3. CASE i > k
  <2>1. i-1 \in 1..i /\ i-1 \in DOMAIN RemoveAt(s, k) /\ RemoveAt(s, k)[i-1] = s[i]
    BY <1>1, <1>3
  <2>2. QED
    BY <2>1
<1>4. QED
  BY <1>1, <1>2, <1>3

\* With OneRequestInFlight, by which the modem always has the head to answer: a request is
\* answered after as many answers as there are requests before it, whatever other programs
\* do meanwhile.  This is what RequestsServed rests on.
THEOREM QueueMovesUp == Spec => ServedInTurn
<1> DEFINE Turn(i) ==
      IF AnswerControl THEN i > 1 => i-1 \in DOMAIN queue' /\ queue'[i-1] = queue[i]
      ELSE \/ peer'[queue[i].fd] # queue[i].peer
           \/ \E j \in 1..i : j \in DOMAIN queue' /\ queue'[j] = queue[i]
<1>1. IInv /\ [Next]_vars => [InStep /\ InStep' => \A i \in DOMAIN queue : Turn(i)]_vars
  <2> SUFFICES ASSUME IInv, [Next]_vars, InStep, InStep', NEW i \in DOMAIN queue
               PROVE  Turn(i)
    OBVIOUS
  <2> USE DEF conns, modem
  <2>0. queue \in Seq(Request) /\ DOMAIN queue = 1..Len(queue) /\ Len(queue) \in Nat
    BY LenProperties DEF IInv, TypeOK
  <2>1. CASE AnswerControl
    <3>1. queue # <<>> /\ queue' = Tail(queue)
      <4>1. toModem # <<>> /\ UNCHANGED <<phase, peer>>
        BY <2>1 DEF AnswerControl, AnswerGet, AnswerRelease, AnswerOther
      <4>2. toModem = IF queue = <<>> THEN <<>> ELSE <<Head(queue)>>
        BY DEF IInv, OneInFlight, InStep
      <4>3. PICK a, ok : DeliverControl(a, ok)
        BY <2>1 DEF AnswerControl, AnswerGet, AnswerRelease, AnswerOther
      <4>4. QED
        BY <4>1, <4>2, <4>3 DEF DeliverControl
    <3>2. /\ DOMAIN queue' = 1..(Len(queue) - 1)
          /\ \A m \in 1..(Len(queue) - 1) : queue'[m] = queue[m+1]
      BY <2>0, <3>1, HeadTailProperties, LenProperties
    <3>3. i > 1 => i-1 \in DOMAIN queue' /\ queue'[i-1] = queue[i]
      <4>1. i > 1 => i-1 \in 1..(Len(queue) - 1) /\ (i-1)+1 = i
        BY <2>0
      <4>2. QED
        BY <3>2, <4>1
    <3>4. QED
      BY <2>1, <3>3
  <2>2. CASE ~AnswerControl
    <3> SUFFICES \/ peer'[queue[i].fd] # queue[i].peer
                 \/ \E j \in 1..i : j \in DOMAIN queue' /\ queue'[j] = queue[i]
      BY <2>2
    <3>0. i \in 1..i
      BY <2>0
    <3>1. ASSUME NEW fd \in Fds, cleanup_qmi_connection(fd)
          PROVE  \/ peer'[queue[i].fd] # queue[i].peer
                 \/ \E j \in 1..i : j \in DOMAIN queue' /\ queue'[j] = queue[i]
      <4>1. CASE queue' = queue
        BY <3>0, <4>1
      <4>2. CASE queue' # queue
        <5>1. PICK k \in QueuedBy(fd) : queue' = RemoveAt(queue, k)
          BY <2>0, <3>1, <4>2, RemovedRequest DEF cleanup_qmi_connection
        <5>2. k \in 1..Len(queue) /\ queue[k].fd = fd
          BY <2>0 DEF QueuedBy
        <5>3. CASE i = k
          <6>1. Open(fd) /\ queue[i].peer = peer[fd] /\ queue[i].fd = fd
            BY <5>2, <5>3 DEF IInv, QueueInv
          <6>2. peer'[fd] = 0
            BY <3>1 DEF cleanup_qmi_connection, IInv, TypeOK
          <6>3. QED
            BY <6>1, <6>2 DEF Open
        <5>4. CASE i # k
          BY <2>0, <5>1, <5>2, <5>4, RemoveMovesUp
        <5>5. QED
          BY <5>3, <5>4
      <4>3. QED
        BY <4>1, <4>2
    <3>2. ASSUME NEW fd \in Fds, NEW op, NEW c, SendControl(fd, op, c)
          PROVE  i \in DOMAIN queue' /\ queue'[i] = queue[i]
      <4>1. PICK x \in Request : queue' = Append(queue, x)
        <5>1. queue' \in Seq(Request)
          BY TypeStep DEF IInv, TypeOK
        <5>2. QED
          BY <2>0, <3>2, <5>1, AppendProperties, ElementOfSeq DEF SendControl
      <4>2. QED
        BY <2>0, <4>1, AppendProperties, LenProperties
    <3>3. CASE UNCHANGED queue
      BY <3>0, <3>3
    <3>4. CASE RevokeUnnoticed
      BY <3>3, <3>4, HeadIsOpen DEF RevokeUnnoticed, HeadOpen
    <3>5. QED
      BY <2>2, <3>0, <3>1, <3>2, <3>3, <3>4 DEF Next, ClientStep, ModemStep, Accept,
         SendService, Indication, AnswerService, ServiceIndication, Broadcast, RevokeAsResponse,
         HangUp, Interrupt, LeaveLoop, Restart, InStep, Serving, vars
  <2>3. QED
    BY <2>1, <2>2
<1>2. QED
  BY <1>1, Invariance, PTL DEF Spec, ServedInTurn
===============================================================================
