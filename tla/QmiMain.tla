-------------------------------- MODULE QmiMain --------------------------------
(***************************************************************************)
(* The dial-up loop of quectelCM: qmi_main (main.c).  It starts the reader *)
(* thread, keeps one data call per enabled IP family up, brings the        *)
(* network interface up and down with the calls, retries with a delay,     *)
(* starts over when the modem is replugged or resets, and quits on a       *)
(* signal.                                                                 *)
(*                                                                         *)
(* A handler of the loop is one step.  QMI calls (module QmiTransaction)   *)
(* appear by their results; one that is woken without an answer returns 0  *)
(* without a response.  Signals, the alarm, the reader thread, the modem   *)
(* and the cable act between the steps.                                    *)
(***************************************************************************)
EXTENDS Integers, Sequences

CONSTANTS
  Enabled,    \* IP families of the command line: subset of {"v4", "v6"}
  MainLoop,   \* option -l: start over when the modem is unplugged
  SigCap,     \* bound: length of the signal queue
  MaxInds,    \* bound: indications in the event queue
  MaxFaults   \* bound: SIGINTs and SIGTERMs, modem resets, pulled cables, lost calls

ASSUME Constants ==
  /\ Enabled \subseteq {"v4", "v6"} /\ Enabled # {} /\ MainLoop \in BOOLEAN
  /\ SigCap \in Nat \ {0}
  /\ MaxInds \in Nat /\ MaxFaults \in Nat

Families == {"v4", "v6"}

VARIABLES
  pc,        \* where qmi_main is
  main_loop,
  channel,   \* profile->qmichannel is set
  sigq,      \* signal_control_fd: signals not read yet
  evq,       \* qmidevice_control_fd: events to main not read yet
  turn,      \* "ev": poll reported both queues and the signal is handled
  fam,       \* per family: what the program and the modem know of the call
  attached,  \* PSAttachedState == 1
  loopback,  \* profile->loopback_state
  held,      \* SetupCallAllowTime lies in the future
  alarm,     \* a SIGALRM is due
  s_link,    \* -1, 0 or 1
  net,       \* the interface is up: udhcpc_start without udhcpc_stop since
  reader,    \* the reader thread: "none", "running", "quitting", "exited"
  plugged,   \* the modem is there
  faults,    \* what the user, the modem and the cable have done so far
  stopped,   \* history: a SIGINT or SIGTERM was received
  wasReset   \* history: the loop has handled a modem reset

queues  == <<sigq, evq, turn>>
dialer  == <<fam, attached, loopback, held, alarm>>
netVars == <<s_link, net>>
world   == <<plugged, faults, stopped, wasReset>>
vars == <<pc, main_loop, channel, queues, dialer, netVars, reader, world>>

\* status: IPv4/IPv6ConnectionStatus; handle: WdsConnectionHandle # 0; up: the modem has
\* the call; addr: the profile holds an address; blind, history: the last dial passed for a
\* success or started a call, but the modem did not answer with an address.  The last two
\* are kept for IPv4 only: nobody compares an IPv6 address.
NoCall == [status |-> "unknown", handle |-> FALSE, addr |-> FALSE, up |-> FALSE,
           blind |-> FALSE]

\* PSAttachedState is an uninitialised local.
Init ==
  /\ pc = "start" /\ main_loop = MainLoop /\ channel = TRUE
  /\ sigq = <<>> /\ evq = <<>> /\ turn = "poll"
  /\ fam = [f \in Families |-> NoCall]
  /\ attached \in BOOLEAN /\ loopback = FALSE /\ held = FALSE /\ alarm = FALSE
  /\ s_link = -1 /\ net = FALSE
  /\ reader = "none"
  /\ plugged = TRUE /\ faults = 0 /\ stopped = FALSE /\ wasReset = FALSE

-------------------------------------------------------------------------------
(* The requests, by their results.                                          *)

Reachable == reader = "running" /\ plugged

\* A request is answered, fails (an error, a timeout) or is woken without an answer, by the
\* reader that aborts it or by nobody (the wait has no predicate).
Outcomes == {"failed", "aborted"} \cup (IF Reachable THEN {"answered"} ELSE {})

\* requestGetIPAddress: the address is cleared first; without a handle nothing is asked
\* and 0 returned; the modem tells the address only of a call it has.
GetIPAddress(c) ==
  IF ~c.handle THEN {[ok |-> TRUE, told |-> FALSE]}
  ELSE {[ok |-> o # "failed", told |-> o = "answered"] :
          o \in {p \in Outcomes : p = "answered" => c.up}}

\* requestSetupDataCall and requestGetIPAddress.  A request that fails may have
\* started the call all the same; an aborted one passes for a success.
SetupDataCall(c) ==
  {[d |-> [c EXCEPT !.handle = TRUE, !.up = TRUE], ok |-> TRUE] : o \in Outcomes \cap {"answered"}}
  \cup {[d |-> [c EXCEPT !.up = up, !.blind = @ \/ (up /\ ~c.up)], ok |-> o = "aborted"] :
          o \in Outcomes \ {"answered"}, up \in {c.up} \cup {c.up \/ Reachable}}
Dial(f, c) ==
  {IF f = "v4" THEN s.d ELSE [s.d EXCEPT !.blind = FALSE] :
     s \in {t \in SetupDataCall(c) : ~t.ok}}
  \cup UNION {{[s.d EXCEPT !.addr = (f = "v4" /\ a.told), !.blind = (f = "v4" /\ ~a.told),
                           !.status = IF a.ok THEN "conn" ELSE @] :
                 a \in GetIPAddress(s.d)} : s \in {t \in SetupDataCall(c) : t.ok}}

\* requestQueryDataCall: of a call it has the modem may also report that it is suspended or
\* unknown, or to be set up again, which reads as disconnected.
Query(c) ==
  {c : o \in Outcomes \ {"answered"}}
  \cup {[c EXCEPT !.status = s, !.handle = @ /\ s # "disc"] :
          s \in IF ~Reachable THEN {} ELSE IF c.up THEN {"conn", "unknown", "disc"} ELSE {"disc"}}

\* requestDeactivateDefaultPDP: without an answer the modem may have ended the call or not.
Deactivate(c) ==
  IF ~c.handle THEN {c}
  ELSE {c, [c EXCEPT !.up = @ /\ ~Reachable]}
       \cup {[c EXCEPT !.handle = FALSE, !.up = FALSE] : o \in Outcomes \cap {"answered"}}

\* check_ipv4_address: TRUE when the modem reports the address of the profile.
AddressMatches(c) ==
  {a.ok /\ a.told = c.addr : a \in GetIPAddress(c)}
  \cup (IF c.handle /\ c.up /\ Reachable THEN {FALSE} ELSE {})

\* SIG_EVENT_CHECK for one family.  Mutant: the address is not compared.
CheckFamilyNoAddress(f, c) == IF f \in Enabled THEN Query(c) ELSE {[c EXCEPT !.status = "disc"]}
CheckFamily(f, c) ==
  IF f \notin Enabled THEN {[c EXCEPT !.status = "disc"]}
  ELSE UNION {IF f = "v6" \/ q.status # "conn" THEN {q}
              ELSE {q : m \in AddressMatches(q) \cap {TRUE}}
                   \cup UNION {{[d EXCEPT !.status = "disc"] : d \in Deactivate(q)} :
                                 m \in AddressMatches(q) \cap {FALSE}} : q \in Query(c)}

Connected(fm) == \E f \in Families : fm[f].status = "conn"
Disconnected(fm) == \E f \in Enabled : fm[f].status = "disc"

-------------------------------------------------------------------------------
(* Helpers of the loop.                                                     *)

\* usbnet_link_change; udhcpc_start and udhcpc_stop configure the interface.
\* Mutant: only the state is kept, as in usbnet_link_state.
usbnet_link_changeStateOnly(link) == s_link' = link /\ net' = (net \/ link = 1)
usbnet_link_change(link) ==
  IF s_link = link THEN UNCHANGED netVars ELSE s_link' = link /\ net' = (link = 1)

\* Read a signo; alarm(0); the events poll reported with it are handled next.
ReadSigno(signo) ==
  /\ pc = "loop" /\ turn = "poll"
  /\ sigq # <<>> /\ Head(sigq) = signo
  /\ turn' = IF evq # <<>> THEN "ev" ELSE "poll"
  /\ UNCHANGED evq

\* Mutant: poll's second report is not used up.
ReadEventKeepsTurn(event) ==
  /\ pc = "loop" /\ (turn = "ev" \/ sigq = <<>>)
  /\ evq # <<>> /\ Head(evq) = event
  /\ evq' = Tail(evq) /\ UNCHANGED turn
ReadEvent(event) ==
  /\ pc = "loop" /\ (turn = "ev" \/ sigq = <<>>)
  /\ evq # <<>> /\ Head(evq) = event
  /\ evq' = Tail(evq) /\ turn' = "poll"

SendSigno(q, signo) == sigq' = Append(q, signo)

\* requestRegistrationState leaves PSAttachedState alone unless it is answered.
RegistrationState ==
  \/ UNCHANGED attached
  \/ "answered" \in Outcomes /\ attached' \in BOOLEAN

-------------------------------------------------------------------------------
(* __main_loop: start and start over.                                       *)

\* New socket pairs; what was in the old ones is never read.
CreateSockets ==
  /\ pc = "start"
  /\ sigq' = <<>> /\ evq' = <<>> /\ turn' = "poll"
  /\ pc' = IF channel THEN "thread" ELSE "detect"
  /\ UNCHANGED <<main_loop, channel, dialer, netVars, reader, world>>

\* while (!profile->qmichannel): without a modem the loop spins.
Detect ==
  /\ pc = "detect" /\ plugged
  /\ channel' = TRUE /\ pc' = "thread"
  /\ UNCHANGED <<main_loop, queues, dialer, netVars, reader, world>>

\* Create the reader and wait for its first event.
StartReader ==
  /\ pc = "thread"
  /\ IF plugged THEN reader' = "running" /\ pc' = "init"
                ELSE reader' = "exited" /\ pc' = "exited"
  /\ UNCHANGED <<main_loop, channel, queues, dialer, netVars, world>>

\* qmi_ops->init and the requests up to the first SIG_EVENT_CHECK; a loopback state is
\* handed to the modem and forgotten.
InitDevice ==
  /\ pc = "init"
  /\ RegistrationState /\ loopback' = FALSE
  /\ SendSigno(sigq, "CHECK") /\ pc' = "loop"
  /\ UNCHANGED <<main_loop, channel, evq, turn, fam, held, alarm, netVars, reader, world>>
InitFails ==
  /\ pc = "init" /\ pc' = "exited"
  /\ UNCHANGED <<main_loop, channel, queues, dialer, netVars, reader, world>>

-------------------------------------------------------------------------------
(* The event loop.                                                          *)

\* 15 seconds without events.
PollTimeout ==
  /\ pc = "loop" /\ turn = "poll" /\ sigq = <<>> /\ evq = <<>>
  /\ SendSigno(sigq, "CHECK")
  /\ UNCHANGED <<pc, main_loop, channel, evq, turn, dialer, netVars, reader, world>>

\* SIG_EVENT_START: not attached, too early, or dial the families that are not connected.
MayDial == attached \/ loopback
StartIgnored ==
  /\ ReadSigno("START") /\ ~MayDial
  /\ sigq' = Tail(sigq) /\ alarm' = FALSE
  /\ UNCHANGED <<pc, main_loop, channel, fam, attached, loopback, held, netVars, reader, world>>
StartTooEarly ==
  /\ ReadSigno("START") /\ MayDial /\ held
  /\ sigq' = Tail(sigq) /\ alarm' = TRUE
  /\ UNCHANGED <<pc, main_loop, channel, fam, attached, loopback, held, netVars, reader, world>>
StartDials ==
  /\ ReadSigno("START") /\ MayDial /\ ~held
  /\ sigq' = Tail(sigq)
  /\ \E v4 \in Dial("v4", fam["v4"]), v6 \in Dial("v6", fam["v6"]) :
       fam' = [f \in Families |->
                 IF f \notin Enabled \/ fam[f].status = "conn" THEN fam[f]
                 ELSE IF f = "v4" THEN v4 ELSE v6]
  /\ held' = Disconnected(fam') /\ alarm' = Disconnected(fam')
  /\ UNCHANGED <<pc, main_loop, channel, attached, loopback, netVars, reader, world>>

\* SIG_EVENT_CHECK.  Mutant: it leaves the redial to the alarm.
RedialByAlarm(fm) == sigq' = Tail(sigq)
Redial(fm) == IF Disconnected(fm) THEN SendSigno(Tail(sigq), "START") ELSE sigq' = Tail(sigq)
CheckCalls ==
  /\ ReadSigno("CHECK") /\ alarm' = FALSE
  /\ \E v4 \in CheckFamily("v4", fam["v4"]), v6 \in CheckFamily("v6", fam["v6"]) :
       fam' = [f \in Families |-> IF f = "v4" THEN v4 ELSE v6]
  /\ IF \A f \in Families : fam'[f].status = "disc" THEN usbnet_link_change(0)
     ELSE IF Connected(fam') THEN usbnet_link_change(1)
     ELSE UNCHANGED netVars
  /\ Redial(fam')
  /\ UNCHANGED <<pc, main_loop, channel, attached, loopback, held, reader, world>>

\* SIG_EVENT_STOP: end the calls, take the interface down, release the clients, tell
\* the reader to quit.
Stop ==
  /\ ReadSigno("STOP") /\ alarm' = FALSE /\ sigq' = Tail(sigq)
  /\ \E v4 \in Deactivate(fam["v4"]), v6 \in Deactivate(fam["v6"]) :
       fam' = [f \in Families |->
                 IF f \notin Enabled \/ fam[f].status # "conn" THEN fam[f]
                 ELSE IF f = "v4" THEN v4 ELSE v6]
  /\ usbnet_link_change(0)
  /\ reader' = IF reader = "running" THEN "quitting" ELSE reader
  /\ pc' = "quit"
  /\ UNCHANGED <<main_loop, channel, attached, loopback, held, world>>

\* RIL_INDICATE_DEVICE_DISCONNECTED
Disconnect ==
  /\ ReadEvent("DISCONNECTED")
  /\ usbnet_link_change(0)
  /\ pc' = IF main_loop THEN "join" ELSE "quit"
  /\ UNCHANGED <<main_loop, channel, sigq, dialer, reader, world>>

\* pthread_join, forget the channel and goto __main_loop.
Rejoin ==
  /\ pc = "join" /\ reader = "exited"
  /\ channel' = FALSE /\ pc' = "start"
  /\ UNCHANGED <<main_loop, queues, dialer, netVars, reader, world>>

\* RIL_UNSOL_RESPONSE_VOICE_NETWORK_STATE_CHANGED
NetworkChanged ==
  /\ ReadEvent("NETWORK")
  /\ RegistrationState
  /\ IF attached' THEN UNCHANGED held ELSE held' = FALSE
  /\ IF attached' /\ Disconnected(fam) THEN SendSigno(sigq, "START") ELSE UNCHANGED sigq
  /\ UNCHANGED <<pc, main_loop, channel, fam, loopback, alarm, netVars, reader, world>>

\* RIL_UNSOL_DATA_CALL_LIST_CHANGED
DataCallChanged ==
  /\ ReadEvent("DATACALL")
  /\ held' = (held \/ Connected(fam))
  /\ SendSigno(sigq, "CHECK")
  /\ UNCHANGED <<pc, main_loop, channel, fam, attached, loopback, alarm, netVars, reader, world>>

\* RIL_UNSOL_LOOPBACK_CONFIG_IND
LoopbackConfig ==
  /\ ReadEvent("LOOPBACK")
  /\ loopback' \in BOOLEAN
  /\ IF loopback' THEN SendSigno(sigq, "START") ELSE UNCHANGED sigq
  /\ UNCHANGED <<pc, main_loop, channel, fam, attached, held, alarm, netVars, reader, world>>

\* MODEM_REPORT_RESET_EVENT: tell the reader to quit, forget the link without touching
\* the interface, close the descriptors one by one.
ModemReset ==
  /\ ReadEvent("RESET")
  /\ reader' = IF reader = "running" THEN "quitting" ELSE reader
  /\ s_link' = 0 /\ UNCHANGED net
  /\ pc' = "closing" /\ wasReset' = TRUE
  /\ UNCHANGED <<main_loop, channel, sigq, dialer, plugged, faults, stopped>>
\* close(qmidevice_control_fd[1]), the reader's end, comes last.
CloseReaderEnd ==
  /\ pc = "closing" /\ pc' = "resetWait"
  /\ sigq' = <<>> /\ evq' = <<>>
  /\ UNCHANGED <<main_loop, channel, turn, dialer, netVars, reader, world>>
\* The 20 seconds are over (time enough for the reader to exit) or the node is gone.
RestartAfterReset ==
  /\ pc = "resetWait" /\ reader = "exited" /\ plugged
  /\ pc' = "start"
  /\ UNCHANGED <<main_loop, channel, queues, dialer, netVars, reader, world>>
NodeDisappeared ==
  /\ pc = "resetWait" /\ ~plugged
  /\ pc' = "quit"
  /\ UNCHANGED <<main_loop, channel, queues, dialer, netVars, reader, world>>

\* __main_quit
Quit ==
  /\ pc = "quit" /\ reader = "exited"
  /\ usbnet_link_change(0)
  /\ pc' = "exited"
  /\ UNCHANGED <<main_loop, channel, queues, dialer, reader, world>>

-------------------------------------------------------------------------------
(* The signal handler, the reader thread, the modem and the cable.          *)

\* The process has been started and its sockets are open.
Alive == pc \notin {"exited", "killed"}
Open == Alive /\ pc \notin {"closing", "resetWait"}

Fault == Alive /\ faults < MaxFaults /\ faults' = faults + 1

\* ql_sigaction.  A signal that finds the sockets closed writes nowhere.  The reader is told
\* too and aborts the pending request, see Outcomes.
\* Mutant: main_loop stays.
StopSignalKeepsLoop ==
  /\ Fault /\ stopped' = TRUE
  /\ IF Open THEN SendSigno(sigq, "STOP") ELSE UNCHANGED sigq
  /\ UNCHANGED <<pc, main_loop, channel, evq, turn, dialer, netVars, reader,
                 plugged, wasReset>>
StopSignal ==
  /\ Fault /\ stopped' = TRUE /\ main_loop' = FALSE
  /\ IF Open THEN SendSigno(sigq, "STOP") ELSE UNCHANGED sigq
  /\ UNCHANGED <<pc, channel, evq, turn, dialer, netVars, reader,
                 plugged, wasReset>>
AlarmSignal ==
  /\ Alive /\ alarm /\ Len(sigq) < SigCap
  /\ alarm' = FALSE
  /\ IF Open THEN SendSigno(sigq, "START") ELSE UNCHANGED sigq
  /\ UNCHANGED <<pc, main_loop, channel, evq, turn, fam, attached, loopback, held,
                 netVars, reader, world>>
AllowTimePasses ==
  /\ Alive /\ held /\ held' = FALSE
  /\ UNCHANGED <<pc, main_loop, channel, queues, fam, attached, loopback, alarm,
                 netVars, reader, world>>

\* What the reader writes to main.  Between the last two closes of ModemReset its end
\* has no peer any more and SIGPIPE, which nobody handles, kills the process.
Report(event) ==
  IF pc = "closing" THEN pc' = "killed" /\ UNCHANGED evq
  ELSE UNCHANGED pc /\ evq' = IF Open THEN Append(evq, event) ELSE evq

Indication(event) ==
  /\ Alive /\ Reachable /\ Len(evq) < MaxInds /\ Len(sigq) < SigCap
  /\ Report(event)
  /\ UNCHANGED <<main_loop, channel, sigq, turn, dialer, netVars, reader, world>>
\* QMICTL_REVOKE_CLIENT_ID_IND: the modem has dropped its clients and their calls.
ResetIndication ==
  /\ Fault /\ Reachable
  /\ Report("RESET")
  /\ fam' = [f \in Families |-> [fam[f] EXCEPT !.up = FALSE]]
  /\ UNCHANGED <<main_loop, channel, sigq, turn, attached, loopback, held, alarm,
                 netVars, reader, plugged, stopped, wasReset>>
\* The reader exits on RIL_REQUEST_QUIT, or when poll reports that the device is gone.
ReaderExits ==
  /\ Alive /\ \/ reader = "quitting"
              \/ reader = "running" /\ ~plugged
  /\ reader' = "exited"
  /\ Report("DISCONNECTED")
  /\ UNCHANGED <<main_loop, channel, sigq, turn, dialer, netVars, world>>

CallDropped(f) ==
  /\ Fault /\ fam[f].up
  /\ fam' = [fam EXCEPT ![f].up = FALSE]
  /\ UNCHANGED <<pc, main_loop, channel, queues, attached, loopback, held, alarm,
                 netVars, reader, plugged, stopped, wasReset>>
Unplug ==
  /\ Fault /\ plugged /\ plugged' = FALSE
  /\ fam' = [f \in Families |-> [fam[f] EXCEPT !.up = FALSE]]
  /\ UNCHANGED <<pc, main_loop, channel, queues, attached, loopback, held, alarm,
                 netVars, reader, stopped, wasReset>>
Plug ==
  /\ Alive /\ ~plugged /\ reader # "running"
  /\ plugged' = TRUE
  /\ UNCHANGED <<pc, main_loop, channel, queues, dialer, netVars, reader,
                 faults, stopped, wasReset>>

-------------------------------------------------------------------------------

HandleSigno == StartIgnored \/ StartTooEarly \/ StartDials \/ CheckCalls \/ Stop
HandleEvent == \/ Disconnect \/ NetworkChanged \/ DataCallChanged \/ LoopbackConfig
               \/ ModemReset
Restart == \/ CreateSockets \/ Detect \/ StartReader \/ InitDevice \/ InitFails
           \/ Rejoin \/ CloseReaderEnd \/ RestartAfterReset \/ NodeDisappeared
Main == HandleSigno \/ HandleEvent \/ Restart \/ PollTimeout \/ Quit
Timers == AlarmSignal \/ AllowTimePasses
World == \/ StopSignal \/ ResetIndication
         \/ \E e \in {"NETWORK", "DATACALL", "LOOPBACK"} : Indication(e)
         \/ \E f \in Enabled : CallDropped(f)
         \/ Unplug \/ Plug

Next == Main \/ Timers \/ ReaderExits \/ World

Spec == Init /\ [][Next]_vars

\* The threads run and time passes; nothing is assumed of the modem and the user.
Fairness == /\ WF_vars(Main) /\ WF_vars(ReaderExits)
            /\ WF_vars(AlarmSignal) /\ WF_vars(AllowTimePasses)

FairSpec == Spec /\ Fairness

-------------------------------------------------------------------------------
(* Properties.                                                              *)

Call == [status : {"unknown", "conn", "disc"}, handle : BOOLEAN, addr : BOOLEAN,
         up : BOOLEAN, blind : BOOLEAN]

TypeOK ==
  /\ pc \in {"start", "detect", "thread", "init", "loop", "join", "closing",
             "resetWait", "quit", "exited", "killed"}
  /\ main_loop \in BOOLEAN /\ channel \in BOOLEAN
  /\ sigq \in Seq({"START", "CHECK", "STOP"})
  /\ evq \in Seq({"DISCONNECTED", "NETWORK", "DATACALL", "LOOPBACK", "RESET"})
  /\ turn \in {"poll", "ev"} /\ (turn = "ev" => evq # <<>>)
  /\ fam \in [Families -> Call]
  /\ attached \in BOOLEAN /\ loopback \in BOOLEAN /\ held \in BOOLEAN /\ alarm \in BOOLEAN
  /\ s_link \in {-1, 0, 1} /\ net \in BOOLEAN
  /\ reader \in {"none", "running", "quitting", "exited"} /\ plugged \in BOOLEAN
  /\ faults \in 0..MaxFaults /\ stopped \in BOOLEAN /\ wasReset \in BOOLEAN

\* A status, a handle or an address that has outlived its call (in a restart, an unplugging,
\* behind a lost indication) does not start DHCP: check_ipv4_address asks the modem and
\* compares.  That holds only of calls whose dial was answered: after a dial that was not
\* (blind) the profile holds the address 0, an unanswered request returns 0 as well, the two
\* agree, and DHCP is started without a call.  For IPv6 nothing is compared at all.
NoDhcpOnStaleCall ==
  [][s_link # 1 /\ s_link' = 1 /\ fam'["v4"].status = "conn"
       => fam'["v4"].up \/ fam'["v4"].blind]_vars

\* However the program ends, the interface is down, unless a modem reset made it
\* forget the link on purpose (the notice at MODEM_REPORT_RESET_EVENT).
NetDownAtExit == /\ s_link = 1 => net
                 /\ pc \in {"exited", "killed"} /\ net => wasReset

\* While an enabled family has no call and dialling is allowed the loop keeps dialling,
\* although every signal it reads cancels the alarm of the retry.
Redials ==
  <>[](pc = "loop" /\ evq = <<>> /\ MayDial /\ Disconnected(fam)) => []<><<StartDials>>_vars

\* A SIGINT or SIGTERM the loop can still read ends the program, also when the modem
\* is unplugged before it is read; only a modem reset can swallow it.
Pending(signo) == \E i \in DOMAIN sigq : sigq[i] = signo
StopQuits == pc = "loop" /\ Pending("STOP") ~> pc \in {"exited", "closing", "killed"}

\* A SIGINT or SIGTERM in the queue of the loop is not lost, put off or overtaken.  While
\* it waits at place i, each turn of the loop brings it nearer, by a signal before it or
\* by the one event that poll may have reported with that signal, and nothing the modem,
\* the timers or more signals do puts it back.  The loop is left to quit or by a modem
\* reset, never to start over, not even when the modem is unplugged meanwhile.
StepsTo(i) == 2 * i + (IF turn = "ev" THEN 1 ELSE 0)
StopNearer ==
  [][pc = "loop" =>
       \A i \in DOMAIN sigq : sigq[i] = "STOP" =>
         \/ pc' \in {"quit", "closing"}
         \/ /\ pc' = "loop"
            /\ \E j \in DOMAIN sigq' :
                 /\ sigq'[j] = "STOP" /\ StepsTo(j)' <= StepsTo(i)
                 /\ Main => StepsTo(j)' < StepsTo(i)]_vars

\* "signal trigger quit event" (main.c:374): SIGINT and SIGTERM end the program.
EverySignalQuits == stopped ~> ~Alive

\* "close FDs, for we want restart" (main.c:708): a modem reset restarts the program, it
\* never kills it.
ResetNeverKills == pc # "killed"
================================================================================
