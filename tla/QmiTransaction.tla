---------------------------- MODULE QmiTransaction ----------------------------
(***************************************************************************)
(* The QMI transaction layer of quectelCM: QmiThreadSendQMITimeout and     *)
(* QmiThreadRecvQMI (QMIThread.c), the sliced condition wait (util.c) and  *)
(* the read thread and send operation of the qmi_wwan back end             *)
(* (QmiWwanCM.c).                                                          *)
(*                                                                         *)
(* Two threads share s_pRequest, s_pResponse, s_commandmutex and           *)
(* s_commandcond.  The main thread sends a request and sleeps on the       *)
(* condition variable; the reader thread matches what arrives from the     *)
(* modem with s_pRequest, stores the answer and signals, or aborts the     *)
(* pending request with QmiThreadRecvQMI(NULL).  The modem may answer      *)
(* late, after the caller gave up, or never.                               *)
(***************************************************************************)
EXTENDS Integers, FiniteSets

CONSTANTS
  Services,   \* (QMIType, ClientId) pairs that requests address
  Ctl,        \* the control service, which has its own transaction ids
  Clients,    \* services whose qmiclientId is not 0
  MaxCtlTid,  \* 0xFF in GetQCTLTransactionId
  MaxMuxTid,  \* 0xFFFF in GetQMUXTransactionId
  Slices,     \* condition waits per call in pthread_cond_timeout_np (4)
  EventCap,   \* events that fit the socket pair to the main loop
  MaxCalls,   \* bound: requests composed
  MaxInds,    \* bound: indications the modem sends
  NULL

ASSUME Constants ==
  /\ Ctl \in Services /\ Clients \subseteq Services
  /\ MaxCtlTid \in Nat \ {0} /\ MaxMuxTid \in Nat \ {0}
  /\ Slices \in Nat \ {0} /\ EventCap \in Nat
  /\ MaxCalls \in Nat /\ MaxInds \in Nat

Family(s) == IF s = Ctl THEN "ctl" ELSE "mux"
MaxTid == [ctl |-> MaxCtlTid, mux |-> MaxMuxTid]

\* A request and the answer to it carry the same header; n numbers the request,
\* a serial the program does not see.  want is ppResponse # NULL.
Request == [n : 1..MaxCalls, svc : Services, tid : Nat \ {0}, want : BOOLEAN]

ASSUME NullIsNoRequest == NULL \notin Request

VARIABLES
  lastTid,   \* the two static TransactionId counters
  calls,     \* requests composed so far
  mainPc,    \* where the main thread is in QmiThreadSendQMITimeout
  req,       \* pRequest, the argument of the current or last call
  slice,     \* index i of the current condition wait
  mutex,     \* holder of s_commandmutex
  sRequest, sResponse,  \* s_pRequest, s_pResponse
  live,      \* numbers of the request buffers malloc'ed and not freed
  copies,    \* numbers of the answer copies nobody has freed or taken over
  last,      \* what the last call returned: [n, ret, rsp]
  wdmOpen,   \* cdc_wdm_fd # -1
  toModem,   \* requests the modem has received and not answered
  served,    \* numbers of the requests the modem has answered
  toHost,    \* answers in the cdc_wdm pipe
  inds,      \* indications in the cdc_wdm pipe
  indsSent,  \* indications sent so far
  rdPc,      \* where the reader thread is
  rdMsg,     \* the answer it is handling, NULL for an indication
  quitWait,  \* wait_for_request_quit
  control,   \* unread events from main to the reader
  events     \* number of unread events from the reader to main

mainVars   == <<lastTid, calls, req, slice, last>>
modemVars  == <<toModem, served, toHost, inds, indsSent>>
readerVars == <<rdMsg, quitWait, wdmOpen>>
slots      == <<sRequest, sResponse, live, copies>>
vars == <<mainVars, mainPc, mutex, slots, modemVars, readerVars, rdPc, control, events>>

Init ==
  /\ lastTid = [ctl |-> 0, mux |-> 0] /\ calls = 0
  /\ mainPc = "idle" /\ req = NULL /\ slice = 1 /\ mutex = "free"
  /\ sRequest = NULL /\ sResponse = NULL /\ live = {} /\ copies = {}
  /\ last = [n |-> 0, ret |-> "none", rsp |-> NULL]
  /\ wdmOpen = TRUE /\ toModem = {} /\ served = {} /\ toHost = {} /\ inds = 0 /\ indsSent = 0
  /\ rdPc = "poll" /\ rdMsg = NULL /\ quitWait = FALSE /\ control = {} /\ events = 0

-------------------------------------------------------------------------------
(* The main thread.                                                         *)

\* Mutant: the counter runs past the width of its field.
NextTidUnwrapped(fam) == lastTid[fam] + 1
NextTid(fam) == IF lastTid[fam] + 1 > MaxTid[fam] THEN 1 ELSE lastTid[fam] + 1

SameHeader(a, b) == a.svc = b.svc /\ a.tid = b.tid

\* Requests and answers that are still somewhere between the two ends.
InFlight == toModem \cup toHost \cup {rdMsg}

\* ComposeQMUXMsg, ComposeQCTLMsg.  The last conjunct is a premise on the
\* environment: no answer is so late that its 8 or 16 bit transaction id is
\* handed out again while it is in flight.
Compose(s, want) ==
  /\ mainPc = "idle" /\ calls < MaxCalls
  /\ s \in Clients
  /\ LET fam == Family(s)
         r   == [n |-> calls + 1, svc |-> s, tid |-> NextTid(fam), want |-> want]
     IN /\ \A m \in InFlight \ {NULL} : ~SameHeader(m, r)
        /\ lastTid' = [lastTid EXCEPT ![fam] = NextTid(fam)]
        /\ calls' = calls + 1
        /\ req' = r
        /\ live' = live \cup {r.n}
  /\ mainPc' = "lock"
  /\ UNCHANGED <<slice, last, mutex, sRequest, sResponse, copies,
                 modemVars, readerVars, rdPc, control, events>>

Return(ret, rsp) == /\ mainPc' = "idle"
                    /\ last' = [n |-> req.n, ret |-> ret, rsp |-> rsp]

\* A service without client id composes nothing: QmiThreadSendQMI(NULL, ...) is -EINVAL.
ComposeRefused(s) ==
  /\ mainPc = "idle"
  /\ s \in Services \ Clients
  /\ last' = [n |-> 0, ret |-> "EINVAL", rsp |-> NULL]
  /\ UNCHANGED <<lastTid, calls, req, slice, mainPc, mutex, slots,
                 modemVars, readerVars, rdPc, control, events>>

\* s_pRequest = pRequest, s_pResponse = NULL.
\* Mutant: the previous answer stays in place.
InstallKeepingAnswer == sRequest' = req /\ UNCHANGED sResponse
Install == sRequest' = req /\ sResponse' = NULL

\* Lock, install the request and enter qmidev_send, which looks at cdc_wdm_fd
\* first.  On -ENODEV the call returns and the request stays installed.
BeginSend ==
  /\ mainPc = "lock" /\ mutex = "free"
  /\ Install
  /\ \/ /\ wdmOpen
        /\ mainPc' = "write" /\ mutex' = "main"
        /\ UNCHANGED last
     \/ /\ ~wdmOpen
        /\ Return("ENODEV", NULL) /\ UNCHANGED mutex
  /\ UNCHANGED <<lastTid, calls, req, slice, live, copies,
                 modemVars, readerVars, rdPc, control, events>>

\* pthread_cond_timeout_np: give up the mutex and sleep for the first slice.
StartWait == mainPc' = "asleep" /\ slice' = 1 /\ mutex' = "free"

\* poll reports POLLOUT and the whole message is written.
Written ==
  /\ mainPc = "write" /\ wdmOpen
  /\ toModem' = toModem \cup {req}
  /\ StartWait
  /\ UNCHANGED <<lastTid, calls, req, last, slots, served, toHost, inds, indsSent,
                 readerVars, rdPc, control, events>>

\* poll times out: QmiWwanSendQMI returns its result 0, taken for success.
PollTimeout ==
  /\ mainPc = "write"
  /\ StartWait
  /\ UNCHANGED <<lastTid, calls, req, last, slots, modemVars, readerVars, rdPc, control, events>>

\* A short or failed write, POLLERR or a descriptor closed meanwhile.
SendFails ==
  /\ mainPc = "write"
  /\ mutex' = "free" /\ Return("EIO", NULL)
  /\ UNCHANGED <<lastTid, calls, req, slice, slots, modemVars, readerVars, rdPc, control, events>>

\* pthread_cond_timedwait: the slice runs out, or POSIX allows it to return early.
SliceExpires ==
  /\ mainPc = "asleep" /\ mainPc' = "expired"
  /\ UNCHANGED <<mainVars, mutex, slots, modemVars, readerVars, rdPc, control, events>>
SpuriousWakeup ==
  /\ mainPc = "asleep" /\ mainPc' = "woken"
  /\ UNCHANGED <<mainVars, mutex, slots, modemVars, readerVars, rdPc, control, events>>

\* It has the mutex back after ETIMEDOUT: wait for the next slice, looking at nothing.
\* Mutant: the slice is not counted.
NextSliceUncounted ==
  /\ mainPc = "expired" /\ mutex = "free" /\ slice < Slices
  /\ mainPc' = "asleep"
  /\ UNCHANGED <<mainVars, mutex, slots, modemVars, readerVars, rdPc, control, events>>
NextSlice ==
  /\ mainPc = "expired" /\ mutex = "free" /\ slice < Slices
  /\ slice' = slice + 1 /\ mainPc' = "asleep"
  /\ UNCHANGED <<lastTid, calls, req, last, mutex, slots, modemVars, readerVars,
                 rdPc, control, events>>

\* After the last slice the call returns ETIMEDOUT; s_pRequest stays installed.
TimedOut ==
  /\ mainPc = "expired" /\ mutex = "free" /\ slice = Slices
  /\ Return("ETIMEDOUT", NULL)
  /\ UNCHANGED <<lastTid, calls, req, slice, mutex, slots, modemVars, readerVars,
                 rdPc, control, events>>

\* It has the mutex back after a wakeup: hand the answer over, or free it.
WakeReturn ==
  /\ mainPc = "woken" /\ mutex = "free"
  /\ Return("ok", IF req.want THEN sResponse ELSE NULL)
  /\ copies' = IF sResponse = NULL THEN copies ELSE copies \ {sResponse.n}
  /\ sResponse' = IF req.want THEN sResponse ELSE NULL
  /\ UNCHANGED <<lastTid, calls, req, slice, mutex, sRequest, live, modemVars,
                 readerVars, rdPc, control, events>>

\* The event loop between calls: read an event, ask the reader to quit.
DrainEvent ==
  /\ mainPc = "idle" /\ events > 0
  /\ events' = events - 1
  /\ UNCHANGED <<mainVars, mainPc, mutex, slots, modemVars, readerVars, rdPc, control>>
RequestQuit ==
  /\ mainPc = "idle" /\ control' = control \cup {"QUIT"}
  /\ UNCHANGED <<mainVars, mainPc, mutex, slots, modemVars, readerVars, rdPc, events>>

\* ql_sigaction runs at any point of the main thread.
StopSignal ==
  /\ control' = control \cup {"STOP"}
  /\ UNCHANGED <<mainVars, mainPc, mutex, slots, modemVars, readerVars, rdPc, events>>

-------------------------------------------------------------------------------
(* The reader thread.                                                       *)

\* pthread_cond_signal.  Mutant: no signal.
NoSignal == UNCHANGED mainPc
Signal == mainPc' = IF mainPc = "asleep" THEN "woken" ELSE mainPc

\* free(s_pRequest); s_pRequest = NULL.  Mutants: one of the two is missing.
FreeRequestDangling == live' = live \ {sRequest.n} /\ UNCHANGED sRequest
FreeRequestLeaking == sRequest' = NULL /\ UNCHANGED live
FreeRequest == live' = live \ {sRequest.n} /\ sRequest' = NULL

\* QmiThreadRecvQMI(NULL).  Mutant: it clears s_pResponse without asking for a request.
AbortAlways ==
  /\ sRequest' = NULL /\ sResponse' = NULL
  /\ live' = IF sRequest = NULL THEN live ELSE live \ {sRequest.n}
  /\ Signal
  /\ UNCHANGED copies
AbortPending ==
  \/ /\ sRequest # NULL
     /\ FreeRequest /\ sResponse' = NULL
     /\ Signal
     /\ UNCHANGED copies
  \/ /\ sRequest = NULL
     /\ UNCHANGED <<slots, mainPc>>

ReadStop ==
  /\ rdPc = "poll" /\ "STOP" \in control
  /\ quitWait' = TRUE /\ control' = control \ {"STOP"}
  /\ UNCHANGED <<mainVars, mainPc, mutex, slots, modemVars, rdPc, rdMsg, wdmOpen, events>>
ReadQuit ==
  /\ rdPc = "poll" /\ "QUIT" \in control /\ "STOP" \notin control
  /\ rdPc' = "close" /\ control' = control \ {"QUIT"}
  /\ UNCHANGED <<mainVars, mainPc, mutex, slots, modemVars, readerVars, events>>

\* POLLHUP or POLLNVAL on the device: the modem is gone.
Hangup ==
  /\ rdPc = "poll" /\ rdPc' = "close"
  /\ UNCHANGED <<mainVars, mainPc, mutex, slots, modemVars, readerVars, control, events>>

ReadAnswer(m) ==
  /\ rdPc = "poll" /\ m \in toHost
  /\ toHost' = toHost \ {m} /\ rdMsg' = m /\ rdPc' = "recv"
  /\ UNCHANGED <<mainVars, mainPc, mutex, slots, toModem, served, inds, indsSent,
                 quitWait, wdmOpen, control, events>>
ReadIndication ==
  /\ rdPc = "poll" /\ inds > 0
  /\ inds' = inds - 1 /\ rdMsg' = NULL /\ rdPc' = "recv"
  /\ UNCHANGED <<mainVars, mainPc, mutex, slots, toModem, served, toHost, indsSent,
                 quitWait, wdmOpen, control, events>>

\* After SIG_EVENT_STOP every second without traffic aborts the pending request.
IdleTick ==
  /\ rdPc = "poll" /\ quitWait
  /\ control = {} /\ toHost = {} /\ inds = 0
  /\ rdPc' = "tick"
  /\ UNCHANGED <<mainVars, mainPc, mutex, slots, modemVars, readerVars, control, events>>
RecvTick ==
  /\ rdPc = "tick" /\ mutex = "free"
  /\ AbortPending
  /\ rdPc' = "poll"
  /\ UNCHANGED <<mainVars, mutex, modemVars, readerVars, control, events>>

\* Mutant: the transaction id is not compared.
is_responseByClient(r, m) == r # NULL /\ m # NULL /\ r.svc = m.svc
is_response(r, m) == r # NULL /\ m # NULL /\ SameHeader(r, m)

\* The answer to the installed request: free the request, keep a copy, signal.
RecvAnswer ==
  /\ rdPc = "recv" /\ mutex = "free"
  /\ is_response(sRequest, rdMsg)
  /\ FreeRequest
  /\ sResponse' = rdMsg /\ copies' = copies \cup {rdMsg.n}
  /\ Signal
  /\ rdPc' = "poll" /\ rdMsg' = NULL
  /\ UNCHANGED <<mainVars, mutex, modemVars, quitWait, wdmOpen, control, events>>

\* Nobody waits for this answer: it is dropped, or taken for the indication that has the
\* type of its message, as a late answer of WDS or NAS may be.
RecvUnmatched ==
  /\ rdPc = "recv" /\ mutex = "free"
  /\ rdMsg # NULL /\ ~is_response(sRequest, rdMsg)
  /\ rdMsg' = NULL
  /\ \/ rdPc' = "poll" /\ UNCHANGED mutex
     \/ rdMsg.svc # Ctl /\ rdPc' = "notify" /\ mutex' = "reader"
  /\ UNCHANGED <<mainVars, mainPc, slots, modemVars, quitWait, wdmOpen, control, events>>

\* An indication: write an event to the main loop while holding the mutex.  The
\* socket blocks: the write waits for room.
RecvIndication ==
  /\ rdPc = "recv" /\ mutex = "free" /\ rdMsg = NULL
  /\ mutex' = "reader" /\ rdPc' = "notify"
  /\ UNCHANGED <<mainVars, mainPc, slots, modemVars, readerVars, control, events>>
NotifyMain ==
  /\ rdPc = "notify" /\ events < EventCap
  /\ events' = events + 1 /\ mutex' = "free" /\ rdPc' = "poll"
  /\ UNCHANGED <<mainVars, mainPc, slots, modemVars, readerVars, control>>

\* __QmiWwanThread_quit: close the device, tell main, abort what it may wait for.
CloseDevice ==
  /\ rdPc = "close" /\ wdmOpen' = FALSE /\ rdPc' = "report"
  /\ UNCHANGED <<mainVars, mainPc, mutex, slots, modemVars, rdMsg, quitWait, control, events>>
ReportDisconnected ==
  /\ rdPc = "report" /\ events < EventCap
  /\ events' = events + 1 /\ rdPc' = "abort"
  /\ UNCHANGED <<mainVars, mainPc, mutex, slots, modemVars, readerVars, control>>
RecvAbort ==
  /\ rdPc = "abort" /\ mutex = "free"
  /\ AbortPending
  /\ rdPc' = "exited"
  /\ UNCHANGED <<mainVars, mutex, modemVars, readerVars, control, events>>

-------------------------------------------------------------------------------
(* The modem: answers in any order, late or never, and sends indications.   *)

Answer(m) ==
  /\ m \in toModem
  /\ toModem' = toModem \ {m} /\ toHost' = toHost \cup {m} /\ served' = served \cup {m.n}
  /\ UNCHANGED <<mainVars, mainPc, mutex, slots, inds, indsSent, readerVars, rdPc, control, events>>
Ignore(m) ==
  /\ m \in toModem
  /\ toModem' = toModem \ {m}
  /\ UNCHANGED <<mainVars, mainPc, mutex, slots, served, toHost, inds, indsSent,
                 readerVars, rdPc, control, events>>
Indicate ==
  /\ indsSent < MaxInds
  /\ indsSent' = indsSent + 1 /\ inds' = inds + 1
  /\ UNCHANGED <<mainVars, mainPc, mutex, slots, toModem, served, toHost,
                 readerVars, rdPc, control, events>>

-------------------------------------------------------------------------------

MainCall == \/ BeginSend \/ Written \/ PollTimeout \/ SendFails
            \/ NextSlice \/ TimedOut \/ WakeReturn
Main == \/ \E s \in Services, want \in BOOLEAN : Compose(s, want)
        \/ \E s \in Services : ComposeRefused(s)
        \/ MainCall \/ SliceExpires \/ SpuriousWakeup
        \/ DrainEvent \/ RequestQuit \/ StopSignal
ReaderStep == \/ ReadStop \/ ReadQuit \/ (\E m \in toHost : ReadAnswer(m)) \/ ReadIndication
              \/ IdleTick \/ RecvTick \/ RecvAnswer \/ RecvUnmatched
              \/ RecvIndication \/ NotifyMain
              \/ CloseDevice \/ ReportDisconnected \/ RecvAbort
Modem == \/ \E m \in toModem : Answer(m) \/ Ignore(m)
         \/ Indicate

Next == Main \/ ReaderStep \/ Hangup \/ Modem

Spec == Init /\ [][Next]_vars

\* The threads are scheduled, the timer of a slice runs out and the main loop reads
\* its events.  Nothing is assumed of the modem, the user or the cable.
Fairness == /\ WF_vars(MainCall) /\ WF_vars(SliceExpires) /\ WF_vars(ReaderStep)
            /\ WF_vars(DrainEvent)

FairSpec == Spec /\ Fairness

-------------------------------------------------------------------------------
(* Properties.                                                              *)

Maybe(S) == S \cup {NULL}

Result == [n : 0..MaxCalls, rsp : Maybe(Request),
           ret : {"none", "ok", "EINVAL", "ENODEV", "EIO", "ETIMEDOUT"}]

TypeOK ==
  /\ lastTid \in [{"ctl", "mux"} -> Nat] /\ \A f \in {"ctl", "mux"} : lastTid[f] <= MaxTid[f]
  /\ calls \in 0..MaxCalls
  /\ mainPc \in {"idle", "lock", "write", "asleep", "expired", "woken"}
  /\ req \in Maybe(Request) /\ (mainPc # "idle" => req # NULL)
  /\ slice \in 1..Slices
  /\ mutex \in {"free", "main", "reader"}
  /\ sRequest \in Maybe(Request) /\ sResponse \in Maybe(Request)
  /\ live \subseteq 1..MaxCalls /\ copies \subseteq 1..MaxCalls
  /\ last \in Result
  /\ wdmOpen \in BOOLEAN
  /\ toModem \subseteq Request /\ served \subseteq 1..MaxCalls /\ toHost \subseteq Request
  /\ inds \in Nat /\ indsSent \in 0..MaxInds
  /\ rdPc \in {"poll", "recv", "tick", "notify", "close", "report", "abort", "exited"}
  /\ rdMsg \in Maybe(Request)
  /\ quitWait \in BOOLEAN /\ control \subseteq {"STOP", "QUIT"}
  /\ events \in 0..EventCap

\* An answer that a call hands to its caller is the modem's answer to the request
\* of that call, although late answers to requests given up before keep arriving
\* and transaction ids wrap around.
AnswerMatchesCall == last.rsp # NULL => last.rsp.n = last.n

\* s_pRequest never dangles and the sender never reads a request that the reader
\* has freed: the request of a call that failed stays installed and allocated.
RequestAlive == /\ sRequest # NULL => sRequest.n \in live
                /\ mainPc \in {"lock", "write"} => req.n \in live

\* A call that returns its answer has left behind neither its request nor a copy of
\* the answer; only calls that return without an answer leak.
AnsweredCallsLeakNothing == last.rsp # NULL => last.n \notin live \cup copies

\* Once the reader has stored an answer and woken the caller, nothing (an abort on
\* the quit path, a second message) takes the answer away before the call returns it.
AnswerKept ==
  [][mainPc = "woken" /\ sResponse # NULL =>
       \/ mainPc' = "woken" /\ sResponse' = sResponse
       \/ mainPc' = "idle" /\ last'.ret = "ok"
          /\ (req.want => last'.rsp = sResponse)]_vars

\* When the reader thread has exited, the caller can be asleep on the condition
\* variable only if the abort's signal fell between two slices of its wait.
ExitReleasesMainInSlice == rdPc = "exited" /\ mainPc = "asleep" => slice > 1

\* "main thread may pending on QmiThreadSendQMI()" (QmiWwanCM.c:371): the abort of
\* the exiting reader releases a pending caller, which is then never left asleep.
ExitReleasesMain == rdPc = "exited" => mainPc # "asleep"

\* How far a call is from its return: the lock, the write, two steps for each slice of
\* the wait, or one after a wakeup.
CallRank == CASE mainPc = "lock"    -> 2 * Slices + 3
              [] mainPc = "write"   -> 2 * Slices + 2
              [] mainPc = "asleep"  -> 2 * (Slices - slice) + 3
              [] mainPc = "expired" -> 2 * (Slices - slice) + 2
              [] mainPc = "woken"   -> 1
              [] OTHER              -> 0

\* Whoever moves a call, its own thread, the timer of a slice or a signal of the reader,
\* brings it nearer to its return: no order of expired slices, lost signals, late
\* answers and aborts makes it wait longer than its slices.
CallProgress ==
  [][mainPc # "idle" /\ <<mainPc, slice>>' # <<mainPc, slice>> => CallRank' < CallRank]_vars

\* Every call returns, whatever the modem, the user and the cable do, as long as the
\* events written during a call fit the socket.
CallReturns == mainPc # "idle" ~> mainPc = "idle"

\* The layer implements remote calls whose answers are never mixed up.
RPC == INSTANCE QmiRpc WITH
         Calls <- 1..MaxCalls,
         pending <- IF mainPc = "idle" THEN 0 ELSE req.n,
         outcome <- IF last.rsp = NULL THEN NULL ELSE last.rsp.n
ImplementsRpc == RPC!Spec
===============================================================================
