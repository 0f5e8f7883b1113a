------------------------------- MODULE QmiProxy -------------------------------
(***************************************************************************)
(* The server side of quectel-qmi-proxy (qmi_proxy_loop): several programs *)
(* share one QMI device.  Each connection is a local socket with the       *)
(* client ids the modem granted through it.  Control requests pass one at  *)
(* a time: they wait in qmi_proxy_ctl_msg, the head is the one sent to the *)
(* modem, and a control answer belongs to the head, whatever its           *)
(* transaction id.  Service messages are routed by service and client id.  *)
(*                                                                         *)
(* The loop is one thread, a step handles one event of poll.  The pipe to  *)
(* the modem keeps the order, so that the modem's serving a control        *)
(* request and the proxy's reading the answer are one step.  The kernel    *)
(* hands out a descriptor again as soon as it is closed.                   *)
(***************************************************************************)
EXTENDS Integers, SequencesExt

CONSTANTS
  Fds,        \* descriptors the kernel hands out, lowest first
  Services,   \* QMI services
  Ids,        \* client ids of a service
  MaxPeers,   \* bound: connections accepted
  MaxReqs,    \* bound: control requests sent by the clients
  MaxPipe     \* bound: control requests in the pipe when an indication arrives

ASSUME Constants ==
  /\ Fds \subseteq Nat /\ Ids \subseteq Nat \ {0}
  /\ MaxPeers \in Nat /\ MaxReqs \in Nat /\ MaxPipe \in Nat

Clients == Services \X Ids

\* A control request: its number and the connection it came through, none of which
\* the messages on the pipe carry, and the client or service it is about.
Request == [n : 0..MaxReqs, fd : Fds \cup {0}, peer : 0..MaxPeers,
            op : {"get", "release", "other"}, client : Services \X (Ids \cup {0})]

VARIABLES
  phase,      \* "serving" in the loop, "down" after it, "quit" by SIGINT
  peer,       \* per descriptor: number of the connection it stands for, 0 when closed
  clients,    \* per descriptor: client_qnode, the client ids registered
  queue,      \* qmi_proxy_ctl_msg
  toModem,    \* control requests in the pipe or being served
  toServices, \* service requests the modem works on: [peer, client]
  owner,      \* modem: number of the connection that was granted a client id, or 0
  accepted, requests,  \* connections and control requests so far
  delivered,  \* history: the last message to clients: whose it is, who got it
  outOfStep,  \* history: a request was lost, sent twice or orphaned
  revoked     \* history: the modem has revoked the client ids

conns == <<peer, clients, accepted>>
modem == <<toServices, owner>>
vars == <<phase, conns, queue, toModem, modem, requests, delivered, outOfStep, revoked>>

Nobody == [peer |-> 0, to |-> {}]

\* qmi_proxy_init repeats an unanswered request: answers may come later (here one).
InitRequest(svc) == [n |-> 0, fd |-> 0, peer |-> 0, op |-> "other", client |-> <<svc, 0>>]

LeftByInit == {<<>>} \cup {<<InitRequest(s)>> : s \in Services}

Init ==
  /\ phase = "serving" /\ accepted = 0 /\ requests = 0
  /\ peer = [fd \in Fds |-> 0] /\ clients = [fd \in Fds |-> {}]
  /\ queue = <<>> /\ toServices = {} /\ owner = [c \in Clients |-> 0]
  /\ toModem \in LeftByInit /\ outOfStep = (toModem # <<>>)
  /\ delivered = Nobody /\ revoked = FALSE

-------------------------------------------------------------------------------

Serving == phase = "serving"
Open(fd) == fd \in Fds /\ peer[fd] # 0

\* Write r to the device.  When poll times out or the write fails it is lost: nobody
\* looks at the result.
send_qmi_to_cdc_wdm(pipe, r, lost) == IF lost THEN pipe ELSE Append(pipe, r)

\* The end of recv_qmi for control messages: the head of the queue goes to the modem if
\* its connection is open.  Mutant: it waits for the next event.
SendHeadLater(q, pipe, lost) == pipe
SendHead(q, pipe, lost) ==
  IF q # <<>> /\ Open(Head(q).fd) THEN send_qmi_to_cdc_wdm(pipe, Head(q), lost) ELSE pipe

\* accept_qmi_connection
Accept(fd) ==
  /\ Serving /\ accepted < MaxPeers
  /\ ~Open(fd) /\ \A f \in Fds : f < fd => Open(f)
  /\ accepted' = accepted + 1
  /\ peer' = [peer EXCEPT ![fd] = accepted + 1]
  /\ clients' = [clients EXCEPT ![fd] = {}]
  /\ UNCHANGED <<phase, queue, toModem, modem, requests, delivered, outOfStep, revoked>>

\* cleanup_qmi_connection: the client closed its socket or died.  Of its control
\* requests only the first is taken from the queue.  The modem is not told.
QueuedBy(fd) == {i \in DOMAIN queue : queue[i].fd = fd}
RemoveRequestOf(fd) == RemoveFirstMatch(queue, LAMBDA r : r.fd = fd)
\* Mutant: the client ids stay in the list.
cleanup_qmi_connectionKeepsClients(fd) ==
  /\ Serving /\ Open(fd)
  /\ peer' = [peer EXCEPT ![fd] = 0]
  /\ queue' = RemoveRequestOf(fd)
  /\ outOfStep' = (outOfStep \/ 1 \in QueuedBy(fd) \/ \E i, j \in QueuedBy(fd) : i # j)
  /\ UNCHANGED <<phase, clients, accepted, toModem, modem, requests, delivered, revoked>>
cleanup_qmi_connection(fd) ==
  /\ Serving /\ Open(fd)
  /\ peer' = [peer EXCEPT ![fd] = 0]
  /\ clients' = [clients EXCEPT ![fd] = {}]
  /\ queue' = RemoveRequestOf(fd)
  /\ outOfStep' = (outOfStep \/ 1 \in QueuedBy(fd) \/ \E i, j \in QueuedBy(fd) : i # j)
  /\ UNCHANGED <<phase, accepted, toModem, modem, requests, delivered, revoked>>

\* What a client asks for: a client id, the release of one it holds and has not asked to
\* release before (QmiWwanInit, QmiWwanDeInit), or something else (the version).
MayAsk(fd, op, c) ==
  \/ op \in {"get", "other"} /\ c[2] = 0
  \/ /\ op = "release" /\ c \in clients[fd]
     /\ \A i \in QueuedBy(fd) : queue[i].op = "release" => queue[i].client # c

\* send_qmi for a control message: to the modem if no other is queued, and queue it.
\* Mutant: the queue does not hold it back.
SendControlAtOnce(fd, op, c) ==
  /\ Serving /\ Open(fd) /\ requests < MaxReqs
  /\ MayAsk(fd, op, c)
  /\ requests' = requests + 1
  /\ LET r == [n |-> requests + 1, fd |-> fd, peer |-> peer[fd], op |-> op, client |-> c]
     IN /\ queue' = Append(queue, r)
        /\ \E lost \in BOOLEAN :
             /\ toModem' = send_qmi_to_cdc_wdm(toModem, r, lost)
             /\ outOfStep' = (outOfStep \/ lost)
  /\ UNCHANGED <<phase, conns, modem, delivered, revoked>>
SendControl(fd, op, c) ==
  /\ Serving /\ Open(fd) /\ requests < MaxReqs
  /\ MayAsk(fd, op, c)
  /\ requests' = requests + 1
  /\ LET r == [n |-> requests + 1, fd |-> fd, peer |-> peer[fd], op |-> op, client |-> c]
     IN /\ queue' = Append(queue, r)
        /\ \E lost \in {FALSE, queue = <<>>} :
             /\ toModem' = IF queue = <<>> THEN send_qmi_to_cdc_wdm(toModem, r, lost)
                           ELSE toModem
             /\ outOfStep' = (outOfStep \/ lost)
  /\ UNCHANGED <<phase, conns, modem, delivered, revoked>>

\* send_qmi for any other message.
SendService(fd, c) ==
  /\ Serving /\ Open(fd) /\ c \in clients[fd]
  /\ toServices' = toServices \cup {[peer |-> peer[fd], client |-> c]}
  /\ UNCHANGED <<phase, conns, queue, toModem, owner, requests, delivered, outOfStep, revoked>>

-------------------------------------------------------------------------------
(* What comes from the modem: recv_qmi.                                     *)

\* get_client_id and release_client_id: update the list of the connection.
\* Mutant: a released id stays in the list.
RegisterNoRelease(held, op, c) == IF op = "get" THEN held \cup {c} ELSE held
Register(held, op, c) == CASE op = "get" -> held \cup {c}
                           [] op = "release" -> held \ {c}
                           [] OTHER -> held

\* send_qmi_to_client, for the connections of a message: one that does not take it within
\* 5 seconds gets nothing, and nobody looks at the result.
send_qmi_to_client(about, to) == \E got \in SUBSET to : delivered' = [peer |-> about, to |-> got]

\* The answer with the client id it carries goes to the connection at the head of the
\* queue; written or not, that request is done and the next one is sent.
DeliverControl(answer, ok) ==
  IF queue = <<>> THEN UNCHANGED <<clients, queue, delivered>>
                       /\ toModem' = Tail(toModem) /\ UNCHANGED outOfStep
  ELSE LET fd == Head(queue).fd IN
       /\ queue' = Tail(queue)
       /\ \/ /\ Open(fd)
             /\ send_qmi_to_client(answer.peer, {peer[fd]})
             /\ clients' = IF ok THEN [clients EXCEPT ![fd] = Register(@, answer.op, answer.client)]
                           ELSE clients
          \/ /\ ~Open(fd) /\ UNCHANGED <<clients, delivered>>
       /\ \E lost \in {FALSE, queue' # <<>>} :
            /\ toModem' = SendHead(queue', Tail(toModem), lost)
            /\ outOfStep' = (outOfStep \/ lost)

\* The modem serves the first request of the pipe: it grants a free id or refuses,
\* releases an id with the work in progress for it, or answers something else.
AnswerGet ==
  /\ Serving /\ toModem # <<>> /\ Head(toModem).op = "get"
  /\ \/ \E c \in {Head(toModem).client[1]} \X Ids :
          /\ owner[c] = 0
          /\ owner' = [owner EXCEPT ![c] = Head(toModem).peer]
          /\ DeliverControl([Head(toModem) EXCEPT !.client = c], TRUE)
     \/ /\ UNCHANGED owner
        /\ DeliverControl(Head(toModem), FALSE)
  /\ UNCHANGED <<phase, peer, accepted, toServices, requests, revoked>>
AnswerRelease ==
  /\ Serving /\ toModem # <<>> /\ Head(toModem).op = "release"
  /\ LET c == Head(toModem).client IN
       /\ owner' = [owner EXCEPT ![c] = 0]
       /\ toServices' = {m \in toServices : m.client # c}
       /\ DeliverControl(Head(toModem), owner[c] # 0)
  /\ UNCHANGED <<phase, peer, accepted, requests, revoked>>
AnswerOther ==
  /\ Serving /\ toModem # <<>> /\ Head(toModem).op = "other"
  /\ DeliverControl(Head(toModem), TRUE)
  /\ UNCHANGED <<phase, peer, accepted, modem, requests, revoked>>

\* A control indication: it answers nothing, yet the head of the queue is sent again.
Indication ==
  /\ Serving /\ Len(toModem) < MaxPipe
  /\ \E lost \in {FALSE, queue # <<>>} : toModem' = SendHead(queue, toModem, lost)
  /\ outOfStep' = (outOfStep \/ queue # <<>>)
  /\ UNCHANGED <<phase, conns, queue, modem, requests, delivered, revoked>>

\* The connections that hold the client id of a service message, or any of the service
\* when it carries none.  Mutant: the client id is not compared.
RecipientsByService(c) == {peer[fd] : fd \in {f \in Fds : \E d \in clients[f] : d[1] = c[1]}}
Recipients(c) ==
  {peer[fd] : fd \in {f \in Fds : \E d \in clients[f] : d[1] = c[1] /\ c[2] \in {0, d[2]}}}

AnswerService(m) ==
  /\ Serving /\ m \in toServices
  /\ toServices' = toServices \ {m}
  /\ send_qmi_to_client(m.peer, Recipients(m.client))
  /\ UNCHANGED <<phase, conns, queue, toModem, owner, requests, outOfStep, revoked>>
ServiceIndication(c) ==
  /\ Serving /\ owner[c] # 0
  /\ send_qmi_to_client(owner[c], Recipients(c))
  /\ UNCHANGED <<phase, conns, queue, toModem, modem, requests, outOfStep, revoked>>
Broadcast(svc) ==
  /\ Serving
  /\ send_qmi_to_client(0, Recipients(<<svc, 0>>))
  /\ UNCHANGED <<phase, conns, queue, toModem, modem, requests, outOfStep, revoked>>

-------------------------------------------------------------------------------
(* The end of the loop and the restart in main.                             *)

\* qmi_proxy_loop_exit: every connection is closed.
LeaveLoop(next) ==
  /\ phase' = next
  /\ peer' = [fd \in Fds |-> 0] /\ clients' = [fd \in Fds |-> {}] /\ queue' = <<>>
  /\ toModem' = <<>> /\ toServices' = {} /\ owner' = [c \in Clients |-> 0]
  /\ UNCHANGED <<accepted, requests, delivered, outOfStep>>

\* QMICTL_REVOKE_CLIENT_ID_IND: the modem has reset and dropped its clients.  The loop
\* looks for it among the responses only, and there at a head whose connection is open.  A
\* response takes the head off all the same.
HeadOpen == queue # <<>> /\ Open(Head(queue).fd)
RevokeAsResponse ==
  /\ Serving /\ HeadOpen /\ revoked' = TRUE
  /\ LeaveLoop("down")
RevokeUnnoticed ==
  /\ Serving /\ revoked' = TRUE
  /\ owner' = [c \in Clients |-> 0] /\ toServices' = {}
  /\ \/ UNCHANGED queue
     \/ queue # <<>> /\ ~HeadOpen /\ queue' = Tail(queue)
  /\ toModem' = SendHead(queue', <<>>, FALSE)
  /\ outOfStep' = TRUE
  /\ UNCHANGED <<phase, conns, requests, delivered>>

\* The device is gone; SIGINT, or the SIGPIPE of a write to a client that has just closed
\* its socket, which nobody handles.
HangUp == Serving /\ LeaveLoop("down") /\ UNCHANGED revoked
Interrupt == Serving /\ LeaveLoop("quit") /\ UNCHANGED revoked

\* main: open the device, qmi_proxy_init makes the modem forget its clients, serve.
Restart ==
  /\ phase = "down" /\ phase' = "serving"
  /\ toModem' \in LeftByInit /\ outOfStep' = (toModem' # <<>>)
  /\ delivered' = Nobody /\ revoked' = FALSE
  /\ UNCHANGED <<conns, queue, modem, requests>>

-------------------------------------------------------------------------------

ClientStep == \E fd \in Fds :
  \/ Accept(fd) \/ cleanup_qmi_connection(fd)
  \/ \E op \in {"get", "release", "other"}, c \in Services \X (Ids \cup {0}) :
       SendControl(fd, op, c)
  \/ \E c \in Clients : SendService(fd, c)
AnswerControl == AnswerGet \/ AnswerRelease \/ AnswerOther
ModemStep == \/ AnswerControl \/ Indication
             \/ \E m \in toServices : AnswerService(m)
             \/ \E c \in Clients : ServiceIndication(c)
             \/ \E s \in Services : Broadcast(s)
             \/ RevokeAsResponse \/ RevokeUnnoticed

Next == ClientStep \/ ModemStep \/ HangUp \/ Interrupt \/ Restart

Spec == Init /\ [][Next]_vars

-------------------------------------------------------------------------------
(* Properties.                                                              *)

TypeOK ==
  /\ phase \in {"serving", "down", "quit"}
  /\ peer \in [Fds -> 0..MaxPeers]
  /\ clients \in [Fds -> SUBSET Clients]
  /\ \A fd \in Fds : peer[fd] = 0 => clients[fd] = {}
  /\ queue \in Seq(Request) /\ toModem \in Seq(Request)
  /\ toServices \subseteq [peer : 1..MaxPeers, client : Clients]
  /\ owner \in [Clients -> 0..MaxPeers]
  /\ accepted \in 0..MaxPeers /\ requests \in 0..MaxReqs
  /\ delivered \in [peer : 0..MaxPeers, to : SUBSET (1..MaxPeers)]
  /\ outOfStep \in BOOLEAN /\ revoked \in BOOLEAN

\* The modem works on one control request at a time, the head of the queue, and it does
\* so whenever the queue is not empty: the answer can be matched without its
\* transaction id.  Only a lost write, a control indication while a request is queued, a
\* client that leaves with a request in flight or with several queued, and a late answer
\* to qmi_proxy_init break this.
OneInFlight ==
  Serving /\ ~outOfStep => toModem = IF queue = <<>> THEN <<>> ELSE <<Head(queue)>>

\* The client ids registered for a connection are those the modem has granted through
\* it, so that no id is registered for two connections, descriptors reused or not.
RegistryAgrees ==
  Serving /\ ~outOfStep =>
    \A fd \in Fds : Open(fd) => clients[fd] = {c \in Clients : owner[c] = peer[fd]}

\* An answer, or an indication for a client id, reaches the program it is for or nobody,
\* not another one that got its descriptor or its client id.
ToOwnerOnly ==
  ~outOfStep /\ delivered.peer # 0 => delivered.to \subseteq {delivered.peer}

\* No control request is passed over: while the proxy is in step and serves, a request leaves
\* the queue because its program has closed its connection, or from the head and with the
\* modem's own answer to it, which its program gets and no other.  It gets it if it reads in
\* time: an answer that send_qmi_to_client gives up is lost, and the request with it.
LeavesWithAnswer ==
  [][~outOfStep /\ Serving /\ Serving' =>
       \A r \in ToSet(queue) \ ToSet(queue') :
         \/ peer'[r.fd] # r.peer
         \/ /\ r = Head(queue) /\ AnswerControl /\ Head(toModem).n = r.n
            /\ delivered'.peer = r.peer /\ delivered'.to \subseteq {r.peer}]_vars

\* While the proxy is in step and the modem answers, every control request leaves the
\* queue: none waits for an event that need not come.
Queued(n) == \E i \in DOMAIN queue : queue[i].n = n
RequestsServed ==
  WF_vars(AnswerControl) /\ []~outOfStep =>
    \A n \in 1..MaxReqs : Queued(n) ~> ~Queued(n)

\* "DO RESTART IN 20s IF MODEM RESET ITSELF" (quectel-qmi-proxy.c:1535): the loop does
\* not go on serving once the modem has revoked the client ids.
ResetRestarts == revoked => ~Serving
===============================================================================
