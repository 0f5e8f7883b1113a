# TLA+ models of quectelCM and of the camera demo's RTSP relay

The repository is a collection of test and demo programs for Forlinx boards
(OK3568, T527). Most of them are short sequences of system calls. Two parts have
logic of their own that is hard to get right, and are modelled here:

* **quectelCM** (`src/forlinx_cmd_demo_527/quectelCM`), the program that dials a
  4G/5G modem over QMI or MBIM: threads that share a request slot, a modem that
  answers late or never, signals, alarms, replugging, modem resets, and a proxy that
  shares one modem between several programs;
* the **RTSP relay** of the camera demo (`src/forlinx_cmd_demo_527/fltest_v4l2_npu`):
  an encoder's thread and a server's event loop that share a socket and a plain int.

File names below are relative to the quectelCM directory unless they start with
`src/`; in what is said of the relay they are relative to `fltest_v4l2_npu`.

## Inventory

| part | state it keeps | operations | how it interacts | what is hard | what makes it correct |
|---|---|---|---|---|---|
| QMI transactions (`QMIThread.c`, `QmiWwanCM.c`, `util.c`) | `s_pRequest`, `s_pResponse`, mutex and condition, `cdc_wdm_fd`, transaction counters | `QmiThreadSendQMITimeout`, `QmiThreadRecvQMI`, `QmiWwanSendQMI`, `QmiWwanThread` | main thread calls, reader thread answers or aborts; events over a socket pair | late answers, aborts, sliced waits, blocking writes under a lock | a caller gets its own answer or none; nothing is freed twice or used after; every call returns |
| dial-up loop (`main.c`, `request*` of `QMIThread.c`) | connection status, handles, addresses, `s_link`, `main_loop`, `SetupCallAllowTime`, two socket pairs | signals START/CHECK/STOP, reader events, restart, quit | signal handler and reader write to its sockets; it calls the transaction layer and DHCP | signals during a restart, stale state after it, cancelled alarms, resets | no DHCP on what is left of an ended call; redial while disconnected; interface down at the end; signals end it |
| QMI proxy (`quectel-qmi-proxy.c`) | connections with client ids, queue of control requests | accept, cleanup, `send_qmi`, `recv_qmi`, restart | clients over a local socket, the modem over `cdc-wdm` | clients that leave with work in flight, re-sent requests, reused descriptors | answers reach the client that asked or nobody; ids belong to one client; no request waits for ever |
| GobiNet back end (`GobiNetCM.c`) | one descriptor per service | send, reader thread | same as `QmiWwanCM.c` | many descriptors in one poll | as above |
| MBIM commands (`mbim-cm.c`) | `mbim_pRequest`, `mbim_pResponse`, `TransactionId`, mutex and condition | `mbim_send_command`, `mbim_recv_command` | main thread asks, reader thread answers or aborts | ids start over at every open, answers of the open before, sliced waits | a command gets its own answer or none; no freed request is compared with; every command returns |
| MBIM dialler (`mbim-cm.c`) | ready, register, packet service and activation state, `mbim_open_state`, `mbim_quit`, `read_tid` | `mbim_main`, indications, `_notify_state_chage`, `wait_state_change`, `ql_sigaction` | both threads write the states; the handler interrupts either | news between a test and its wait, answers older than indications, a mutex locked in a handler | beliefs follow the modem; interface up only with a call, down at the end; redial; reopen; signals end it |
| DHCP, bridge, detection (`udhcpc.c`, `qmap_bridge_mode.c`, `device.c`) | none that lasts | external commands, sysfs | called by the loops | - | - |
| RTSP relay (`src/forlinx_cmd_demo_527/fltest_v4l2_npu/fltest_v4l2_npu.cpp`, `Live555RTSPServer.cpp`) | `send_status`, `rtsp_index`, stored header, stream socket, the shared stream of live555 | `encoderDataReady`; create, read and stop the stream | encoder's thread writes, event loop reads, both block | a status seen once per packet, remains of the last stream, two sources on one socket, a blocking read in the event loop | what is sent can be decoded; who plays gets a key frame; neither side blocks for ever |
| other video programs (`src/forlinx_cmd_demo_527/*_test`, `fltest_csitest`, `AWISPDemo`) | positions in a file | capture, encode or decode a file | vendor codecs | - | - |
| serial, CAN, SPI, watchdog tests (`src/forlinx_cmd`, `src/forlinx_cmd_demo_527`) | buffer indices, counters | read/write loops | devices | short and failed reads | indices stay in the buffer |
| dashboards, TCP samples (`src/forlinx_cmd/unit_tests`) | little | HTTP and socket handlers | vendored mongoose | - | - |
| scripts, vendored libraries, duplicate trees | - | - | - | - | - |

`PROJECT.json` lists the parts with their status, and the hazards at their lines.

## Modules

| module | models |
|---|---|
| `QmiRpc` | abstract: one remote call at a time, whose answer, if any, is its own |
| `QmiTransaction` | the QMI transaction layer and the `qmi_wwan` reader thread; implements `QmiRpc` |
| `QmiMain` | the QMI dial-up loop, `qmi_main` |
| `QmiProxy` | the server loop of `quectel-qmi-proxy` |
| `MbimCommand` | the MBIM command layer and its reader thread; implements `QmiRpc` |
| `MbimMain` | the MBIM dialler: `mbim_main`, indications, notifications, the signal handler |
| `RtspRelay` | encoder callback, stream socket and RTSP server of the camera demo |
| `MC*` | the instances TLC checks |
| `*Proofs` | the inductive invariants and theorems about the module of that name; `MbimBeliefProofs` and `MbimRoundProofs` continue `MbimMainProofs` |

The layers are composed through their interfaces. `QmiMain` and `MbimMain` do not repeat
the request slots: to them a request is answered (perhaps with a failure), fails,
or is aborted, which is what `QmiTransaction` and `MbimCommand` show of theirs. That an aborted QMI
call returns 0 without a response, which the request functions take for success, comes
from `WakeReturn` of `QmiTransaction` and is what `QmiMain` is about. That an answer waits in
`mbim_pResponse` while the reader handles what came later is what `MbimMain` is about.

### QmiTransaction

| variables | code |
|---|---|
| `lastTid` | static `TransactionId` of `GetQCTLTransactionId`, `GetQMUXTransactionId` |
| `req`, `mainPc`, `slice`, `last` | the running `QmiThreadSendQMITimeout`: argument, program point, index of the wait, result |
| `sRequest`, `sResponse`, `mutex` | `s_pRequest`, `s_pResponse`, `s_commandmutex` |
| `live`, `copies` | malloc'ed requests, copied answers not yet freed |
| `rdPc`, `rdMsg`, `quitWait`, `wdmOpen` | `QmiWwanThread`: program point, message read, `wait_for_request_quit`, `cdc_wdm_fd` |
| `control`, `events` | the two directions of `qmidevice_control_fd` |
| `toModem`, `served`, `toHost`, `inds` | the modem and the pipe (external) |

Every lock-protected section is a step. The send operation takes two steps (enter,
write), because the descriptor can be closed in between. The four
condition waits of `pthread_cond_timeout_np` are steps of their own: the time
between the end of one and the start of the next is where a signal is lost. The reader
writes to main in a step of its own, holding the mutex when the
code does, and waits when the socket is full. An answer that nobody waits for any more is dropped, or
taken for an indication, of which main hears: `QMIThread.c:669` looks at the type of the message, and
some answers have the type of one.

Premise: an answer is not so late that its 8 or 16 bit transaction id is handed out
again while it is under way (a conjunct of `Compose`). The code can only hope so too.

### QmiMain

A handler is a step; `pc` is the place in `qmi_main`. `fam` holds per family what the
program knows (status, handle, address) and what is true in the modem (`up`). `turn`
is the second descriptor of a poll whose first one has just been handled.
`usbnet_link_change` drives `net`, the state of the interface. The 20 seconds
after a reset and the closes before them are steps, because signals and the
reader thread act between them; `PSAttachedState` starts with any value, as it is
uninitialised. `main_loop = FALSE`, and signals, are inputs.

Every request may fail and may come back without a response, aborted by the reader or woken for nothing
(`util.c:61`): it then returns 0, which its caller takes for success. A dial without an answer leaves a call that is
"connected" with handle 0 and address 0, whether or not the modem has set it up; the history bit `blind` of `fam`
marks it. `check_ipv4_address` does not see through it: without a call its own request has no address to report,
0 is 0, and DHCP starts.
`held` abstracts `SetupCallAllowTime > now`; the lengths of the delays
(5 to 60 s) are not modelled, `SetupCallFail` therefore neither. The second attempt with
the other authentication has the results of one attempt.

### QmiProxy

One step per event of the proxy's single-threaded poll loop. The modem serves control
requests in the order of the pipe, so a request's service and the proxy's reading of the
answer are one step. Connections are numbered (`peer`) beside their descriptor, since the kernel
reuses descriptors, and the control queue remembers the descriptor only.
`outOfStep` is a history variable that four events set and nothing else: a
write to the modem that is lost, a control indication while requests are queued (it sends the
head again), a client that leaves with its request in flight or more than one queued,
and an answer to `qmi_proxy_init` that comes when the server is up. The
invariants say that these are the *only* ways in which the matching by queue
position goes wrong. What the code does afterwards is modelled too, it is just not correct.

A client that does not take a message within 5 seconds does not get it (`send_qmi_to_client`), and the result is ignored:
an answer is lost, and its request is done with all the same. A client that has closed its end when the message is
written ends the proxy by SIGPIPE (`Interrupt`). A modem reset is noticed only in a response, and there only if the
connection at the head of the queue is still open (`RevokeAsResponse`, otherwise `RevokeUnnoticed`).

### MbimCommand

| variables | code |
|---|---|
| `TransactionId` | the static of that name, set to 1 before every open |
| `calls`, `epoch` | numbers of commands and opens, which the program does not see |
| `phase`, `open_state` | where `mbim_main` is: before the open, in the loop, on its way out; `mbim_open_state` |
| `req`, `mainPc`, `slice`, `last` | the running `mbim_send_command` |
| `pRequest`, `pResponse` | `mbim_pRequest`, `mbim_pResponse` |
| `rdPc`, `rdMsg` | `mbim_read_thread` |
| `toModem`, `served`, `pipe` | the modem and the device's queue (external) |

The caller is modelled only as far as it decides which ids can meet: it opens
(ids start over at 1), asks, leaves at the first command that fails, with one exception, the
version query, whose failure it ignores. An answer that is late by a whole session has to meet a request with the
id it carries; the exception is the only command that can be unanswered when
the next one is sent within a session. Whether the modem, when it is opened, drops what it has not yet
answered is a constant (`Discards`): MBIM asks for it, the program relies on it.

### MbimMain

| variables | code |
|---|---|
| `pc`, `op`, `rsp` | the place in `mbim_main`, the command in progress, its answer in `mbim_pResponse` |
| `wt`, `slice` | the wait of `_wait_state_change`: 24 h, 30 s or the second one of 1 s; its slice |
| `quit`, `open_state`, `st` | `mbim_quit`, `mbim_open_state`; ready, register, packet service and activation state |
| `net` | the interface, as `mbim_ifconfig` leaves it |
| `rd`, `rdMsg` | `mbim_read_thread` and its message; "exited" is `read_tid == 0` |
| `m`, `toModem`, `pipe` | the modem: its true states, commands it has, what it has said (external) |
| `newer`, `wrong`, `raced`, `hungUp` | history, see below |

A command is issued in one step and its answer applied in another; the reader handles
indications in between, and every test of a round is a step that looks at the variables at that moment.
Indications take the reader through its program: assign, then (if the value changed) lock, signal,
unlock. `mbim_state_mutex` is modelled by who holds it, since the signal handler locks
it in whatever thread it interrupts; when that thread is the holder it is "stuck".
MBIM_CID_REGISTER_STATE has no `break`: the reader goes on and takes the registration state
for a packet service state (`AsPacketService`, `mbim-cm.c:1482`). The values of a state are those its tests tell apart, so
that one of them stands for several of the code's, and such a misreading has several outcomes; a change between two
of the code's values that read the same is no change here, and its notification, which only wakes the main
thread for another round, is left out. An error message in place of an
answer is read past its end, so what the caller learns from it is any value.

Four history variables name what the code gets wrong, so that the invariants can say that
nothing else does: `wrong` are the variables last set from an answer older than an indication handled already, or
from the wrong message; `raced` says that the interface was configured after
the end of the call had been handled; `newer` are the indications handled since the answer arrived, which
decide the two; `hungUp` that the device failed under the reader.

### RtspRelay

| variables | code |
|---|---|
| `h264headerflags`, `rtsp_index`, `out` | those of `encoderDataReady`; what of the current packet is still to be written |
| `sock` | the local stream socket, as items: header and frames |
| `send_status` | the int that `createNewRTPSink` and `doStopGettingFrames` set and the callback polls |
| `loop`, `stream`, `clients` | live555's event loop (external) as the two overridden classes see it; the stream its clients share |
| `probe`, `sdp` | the source that is played for the SDP line (`getAuxSDPLine`), and whether it has come (`fAuxSDPLine`) |
| `prevSent`, `cut`, `keyed` | history: the packet before was relayed; one source has cleared `send_status` under the other; the stream has had a key frame |

A frame knows whether the frame before it in the video is the item before it in the stream
(`linked`): a predicted frame that is not cannot be decoded. The header and a key
frame are written in two blocking writes, steps of their own. live555 shares one stream between all clients
(`reuseFirstSource`). For the first DESCRIBE it plays a source of its own, the probe, until it has
seen the header, in an event loop inside the one that serves the request: other requests are served meanwhile.
Nothing makes a client send DESCRIBE before SETUP. If one does not, the stream and a later probe
read from the same socket, each item goes to whichever reads first, and the end of either
calls `doStopGettingFrames`, which clears the one `send_status` of both. The probe may also miss its header then, which
the relay sends only when it starts: it goes on reading until the relay starts again.

## Runs

| run | question | bounds | result |
|---|---|---|---|
| `qmi_txn` | safety of the transaction layer, and that it implements `QmiRpc` | 3 services (one without client id), 2 calls, 2 slices, ids wrap at 1 and 2, 1 indication, 2 socket slots | holds |
| `qmi_txn_live` | does every call return | 2 services (one without client id), 2 calls, 4 slices, 1 indication, 3 socket slots | holds |
| `qmi_txn_exit` | does the exiting reader release the caller | 1 call, 4 slices | **no** |
| `qmi_main` | no DHCP on a stale call, interface down at the end, no stop signal overtaken | IPv4 and IPv6, 1 queued signal from alarm, 1 indication, 2 faults | holds |
| `qmi_main_live` | redialling, ending on a signal | IPv4, 2 signals, 1 indication, 2 faults | holds |
| `qmi_main_stop` | does every SIGINT/SIGTERM end the program | IPv4, 1 fault | **no** |
| `qmi_main_reset` | does a modem reset always restart it | IPv4, 1 fault | **no** |
| `qmi_proxy` | matching, ownership of ids, routing, progress, no request passed over | 2 descriptors, 2 connections, 2 ids of one service, 3 control requests, 2 in the pipe | holds |
| `qmi_proxy_reset` | does the proxy notice a modem reset | 1 id, 2 requests | **no** |
| `mbim_cmd` | are answers matched across opens, does every command return, does it implement `QmiRpc` | 2 slices, 9 commands, a modem that discards at an open | holds |
| `mbim_main` | do beliefs and interface follow the modem; signals, redialling, reopening | 2 slices, 1 change of the modem or suspend, 1 signal | holds |
| `rtsp_relay` | is the stream decodable, does a player get a key frame, do the blocking calls end | 4 items in the socket, 3 clients | holds |

Why the bounds are enough: two calls let an answer to a call given up meet the next
one, with ids that wrap at 1 and 2 both calls use every id value; two slices give
one gap between waits, and the liveness run has the four of the code and room for every event that can be written in
it (an indication, a late answer taken for one, and the report of the exit). Two faults
let a signal, a reset or a replugging hit another one. Three control requests let a
client get an id, release it and another one get the same id. Nine MBIM commands are a
session up to the version query and the command that reuses its place, then a
second session that gets past that id: the first point where ids of two opens could be
confused. One change of the modem is up to three indications at once (a lost registration ends
attachment and call), each of which can be handled before, while or
after the main thread takes an answer; the first session without a change provides the live call that it ends.
The invariants of `MbimMain` were also explored with three changes, without the liveness properties,
which takes too long to be repeated in every run. Four items are two pairs of header and key frame: a new
stream can find the remains of the last one. With three clients a stream can lose one and keep the
others, and be set up before or beside the probe. Deadlock is not
checked: all the programs may stop, and the modem may go silent for ever.

What the violations show (PROJECT.json quotes the comments):

* `ExitReleasesMain`: `pthread_cond_timeout_np` waits in four slices without a predicate. A
  reader that exits between two of them frees the request and signals nobody; the caller
  sleeps for the rest of its 30 or 120 seconds. `ExitReleasesMainInSlice` states what remains
  true, and `CallReturns` that it does return in the end.
* `EverySignalQuits`: SIG_EVENT_STOP is written to sockets that `__main_loop` replaces,
  or that are closed. `StopQuits` states what remains true: a signal the loop
  can still read does end the program.
* `ResetNeverKills`: the reader may write between the last two `close` calls of the reset
  handler: SIGPIPE.
* `ResetRestarts`: `modem_reset_flag` is set for responses only, the message is an
  indication.

## Properties

*Transactions.* `AnswerMatchesCall`, `RequestAlive`, `AnsweredCallsLeakNothing`,
`ExitReleasesMainInSlice`; `AnswerKept` (a step may not take a stored answer away);
`CallProgress`: every change of place of a call, by itself, by the timer or by a signal of the reader, brings
it nearer to its return; `CallReturns`; refinement `ImplementsRpc`.
*Loop.* `NoDhcpOnStaleCall`: status, handle and address outlive the call and the restarts of the loop; DHCP is not
started on them once an IPv4 call that was answered has ended, because `check_ipv4_address` asks the modem and compares
the address. It is no guard against a dial that was never answered (`blind`, above): that one is exempt, the
code does start DHCP without a call after it. IPv6 has no such check. `NetDownAtExit`:
the interface is down however the program ends, except when a modem reset made it forget the
link (which the code does on purpose, `main.c:703`). `StopNearer`: a SIG_EVENT_STOP in the socket of the loop is
not lost, put off or overtaken, and the loop is left to quit or by a modem reset only. `Redials`, `StopQuits`.
*Proxy.* `OneInFlight`, `RegistryAgrees`, `ToOwnerOnly`, `RequestsServed`, see above; `LeavesWithAnswer`: in step,
a control request leaves the queue with its program, or from the head and for the modem's answer to it, which goes to
its program or, if that does not read in time, to nobody.
*MBIM commands.* `AnswerMatchesCall`: ids start over at every open, yet no command gets an answer to
another one, if the modem discards; `RequestAlive`, `AnswerKept`, `CallReturns` (also when the
reader has gone before the command was sent); refinement `ImplementsRpc`.
*MBIM dialler.* `BeliefAgrees`: what is believed of an open modem is true or news of it is on its way,
except for the variables in `wrong`; `NetNeedsCall`: the interface is up only with a call, or
while the indication of its end is on its way, except after a suspend and after the race of `raced`;
`NetDownAtExit`; `SignalQuits` (also for a signal between the test of `mbim_quit` and the wait;
the exception is the handler that waits for its own thread's mutex); `QuitProgress`: once `mbim_quit` is set
the main thread finishes its round and at most one wait; `Redials`; `Reopens`.
*Relay.* `Decodable`: what is in the socket, followed by what is still being written, can be decoded
wherever clients came and went; `ReadsEnd`: the read in which the event loop hears no client comes to its end, unless
one source has ended under the other (`cut`); `PlayersSee`: with the same exception, who plays while there is no
probe gets a key frame to begin with, whatever the stream before has left in the socket and though the encoder may not
have seen it end; `WritesEnd`: the encoder waits for room only while nothing is played.

Several invariants leave out, by a history variable or a state of its own, what the code is known to get wrong: `blind` (DHCP after
a dial without an answer), `wrong` and `raced` (above), `cut` (SETUP before DESCRIBE), `stuck` (the
handler that hangs on its own mutex), `outOfStep`. They show that nothing else goes wrong in the same way, not that these cases
do not matter; the hazards of PROJECT.json say of each what covers it.

## Fairness

Weak fairness of the threads (they are scheduled and the mutex is not held for ever), of the
timer of a condition wait, of the alarm and of the end of a delay. Nothing is assumed of
users and cables. In `QmiProxy` progress needs a modem that answers: that is a premise of
`RequestsServed`, not of the specification. `CallReturns` holds with
`EventCap` at least the number of events written while a call runs: when the socket between
the threads is full, the reader waits for room holding `s_commandmutex` and the main thread
waits for the mutex. The real socket holds tens of thousands of events.
`Redials` of `QmiMain` speaks of behaviours in which the reader stops reporting events, as an endless
stream of data call indications can postpone dialling for ever (`main.c:692`).

`MbimCommand` and `MbimMain` assume weak fairness of the main thread's steps, of the reader's, of the end of a
slice and of the time limit of a command (`CommandFails`); the modem may be silent. `RtspRelay` assumes weak
fairness of the two threads where they can go on, and strong fairness of key frames: the
encoder makes one every so many frames, but in between it is busy with others, during which a
key frame is not enabled. Nothing is assumed of the clients, not even their order
of requests, but two of them can hold up the camera, and are the exceptions of the properties. One that sets a stream up
and never plays it leaves the encoder blocked (`WritesEnd`). One that sends SETUP before any DESCRIBE has been answered
(`ReadsEnd`, `PlayersSee`): when the probe of a later DESCRIBE ends, `send_status` is 0 under the stream that is
playing, the encoder stops relaying, and the next read blocks the event loop, which can hear nobody any more, for ever.

## Proofs

All theorems hold for every value of the constants that satisfies the assumptions. Each
proof module states the inductive invariant `IInv`, proves it of the initial states and of every
step (one lemma per part or per group of actions), and derives the properties from it.

**QmiTransactionProofs**: `TypeOK`, `AnswerMatchesCall`, `RequestAlive`,
`AnsweredCallsLeakNothing`, `ExitReleasesMainInSlice`, the action properties `AnswerKept` and `CallProgress` and the
refinement `ImplementsRpc`. The argument:

* requests in the pipe, in the modem and in the reader's hand with equal numbers are
  equal, and two with the same header are the same request; with the premise on
  transaction ids this makes the answer that `is_response` accepts the one to `s_pRequest`;
* the request in `s_pRequest` is the current or the last one composed, so that the answer
  stored by the reader is the current caller's, or is discarded by the next
  `Install`;
* `s_pRequest` is allocated while it is installed; a stored answer means that the request
  has been freed and, until the caller takes it, that exactly its copy is counted;
* a reader that exits has freed `s_pRequest` and woken whoever slept; only a caller
  that was between slices (slice > 1 afterwards) sleeps again;
* for the refinement, `ServedInv`: whatever answer is about, its request is among those the
  modem has served.

These facts are needed because none of the properties is inductive: `AnswerMatchesCall`,
for one, says nothing about answers on their way.

**QmiMainProofs**: `TypeOK`, `NetDownAtExit`, `NoDhcpOnStaleCall`. `NetInv` ties `s_link`, the
interface and the place in the program: only the loop keeps the interface up, and the reset
handler is the only one to forget a link that is up. `TurnInv` says that the closes of that
handler happen with no second descriptor left to serve. On the queue of signals rest `StopNearer` and,
by the same lemma (`SignoNearer`: a signal is read or keeps its place, and each turn of the loop brings it
nearer), `RetryNearer`; `RetryInv` is inductive by itself. `NoDhcpOnStaleCall` needs `AddressInv`: the profile of a
family that is connected, and whose dial was answered, has an address, which agrees with what the modem reports only
while the call is there.

**QmiProxyProofs**: `TypeOK`, `OneInFlight`, `RegistryAgrees`, `ToOwnerOnly`, `LeavesWithAnswer`, for any number
of clients. While queue and modem are in step: the queued requests belong to the connection
that still has their descriptor and no id is to be released twice (`QueueInv`); ids are granted to
connections there have been, and the modem works for the connection that holds the id
(`GrantInv`); descriptors belong to one connection (`ConnInv`) and nothing outlives the loop
(`DownInv`). The last three properties need each other, so they are parts of `IInv`.

**MbimCommandProofs**: `TypeOK`, `RequestAlive`, `AnswerMatchesCall`; and, if the modem discards
at an open (`ASSUME Discards`), `AnswerKept` and `ImplementsRpc`. Ids advance with
serial numbers while the modem is not opened again (`FlightInv`); each answer is in one place
(`OnceInv`); what is left of an earlier open is the version query alone, and only until the answer to
the new open is taken, or on the way out, whose ids are smaller (`OldInv`, `LoopInv`, `OrderInv`).

**MbimMainProofs**: `TypeOK`, `NetDownAtExit`. What is under way has the type of the variable it
will reach, a registration state read as a packet service state included (`WireInv`); the reader
leaves only when the device has failed or the main thread has passed the disconnect
(`LeaveInv`), so that the last `mbim_ifconfig` is reached on every other way out. Mutual exclusion on
`mbim_state_mutex` is part of `TypeOK`.

**MbimBeliefProofs**: `BeliefAgrees`, `NetNeedsCall`. The invariant follows the news of each variable
from the modem to the program. There is one command, and one place where it or its answer is
(`FlightInv`). A modem that is not open says nothing, but refuses the next command, and this
refusal comes after everything it said before (`OpenInv`). For each variable, the newest
value in the device is the modem's own; if the device has none, the message in the reader's
hands has it; if that is about something else, the answer waiting for the main thread; and
otherwise the variable itself (`FieldInv`). For the interface: when the call has
ended and the interface is up, or an address configuration is still on its way, the end of the call is
behind it (`CallInv`).

**RtspRelayProofs**: `TypeOK`, `Decodable`. A relay that is going on has relayed
the packet before (`LinkInv`). `GoodConcat` is the lemma on sequences behind
`Decodable`: two decodable pieces make one, as the first does not end with a header. `SendInv` says
that `send_status` is 1 while there is a source, unless one has ended under the other; `ApartInv`, that with
clients who wait for the SDP line (`Polite`) there are never two.

**Ranking arguments.** Liveness under fairness is out of the prover's reach, but what can go wrong with it in
this code is mostly safety: a step that takes back what another has achieved, or a thread that waits for
something nobody will do. For each of the loops there is a theorem that says this cannot happen, for every value of the constants;
what TLC adds on its instances is that the steps are then taken.

| theorem | behind | what it says |
|---|---|---|
| `CallsProgress`, `CallersBlockedByEvents` (`QmiTransactionProofs`) | `CallReturns` | a call has at most 2 * `Slices` + 3 changes of place before it, and only a reader that writes an event keeps the mutex from the caller |
| `CallsProgress` (`MbimCommandProofs`) | `CallReturns` | the same of a command, with 2 * `Slices` + 2; here the mutex is never held beyond a step |
| `StopGetsNearer` (`QmiMainProofs`) | `StopQuits` | each turn of the loop brings a pending stop nearer, by `StepsTo` |
| `RetryIsKept`, `RetryGetsNearer` (`QmiMainProofs`) | `Redials` | while a call is wanted (known to be down, dialling allowed) the alarm is set or a start or check waits in the socket (`RetryInv`), without any help of `poll`'s timeout; each turn brings it nearer, up to the dialling or, while `held`, a new alarm (`RetryNearer`) |
| `ReaderIsToldToExit` (`QmiMainProofs`) | `StopQuits` | where the main thread joins the reader or counts on its end, the reader has gone, has lost its device, or has been told |
| `NoRequestPassedOver`, `QueueMovesUp` (`QmiProxyProofs`) | `RequestsServed` | an answer brings every queued request one place nearer, nothing else takes it back, and from the head it leaves with the answer to it (though its program may miss that); by `OneRequestInFlight` the modem always has the head |
| `QuitGetsNearer` (`MbimMainProofs`) | `SignalQuits` | with `mbim_quit` set, every move of the main thread in the loop lowers `QuitRank` |
| `NoDeadlockUnlessSignalled` (`MbimMainProofs`) | `SignalQuits` | whoever waits for `mbim_state_mutex` waits for a thread whose next step gives it back; only a handler run by the holder can hang (`StuckInv`) |
| `ReopenGetsNearer` (`MbimRoundProofs`) | `Reopens` | with a modem that is not open, every move of the main thread in the loop lowers `LoopRank`, its distance to the head of the loop, where it opens the modem; only news or a signal in the one-second wait puts it off |
| `RedialGetsNearer` (`MbimRoundProofs`) | `Redials` (`MbimMain`) | with a call known to be down and the modem attached, the same of `DialRank`, the distance to the connect command: a round does not end in a wait before it |
| `BlockedReadIsFed`, `PoliteClientsAreFed` (`RtspRelayProofs`) | `ReadsEnd` | while the event loop is in `read`, `send_status` is 1 and the next key frame is relayed, unless one source has ended under the other (`SendInv`, `ReaderFed`); which takes a client that joins before the SDP line is known |
| `WriterIsServed` (`RtspRelayProofs`) | `WritesEnd` | while a source is played, no step makes the way of a blocked writer longer, the writes and the reads of a full socket make it shorter (`WriteRank`), and writer and reader do not wait for each other (`SomebodyMoves`) |

`CallProgress` of the transactions, `StopNearer`, `LeavesWithAnswer` and `QuitProgress` are also properties of runs. The formulas
that appear in proof modules only (`OnlyNotifyBlocks`, `JoinEnds`, `ServedInTurn`, `StuckInv`, `MutexComes`, `SendInv`, `ApartInv`,
`ReaderFed`, `RetryInv`, `RetryNearer`, `ReopenNearer`, `DialNearer`, `WriterNearer`, `SomebodyMoves`,
and `CallProgress` of the MBIM commands) held in the instances of the runs before they were proved.
`JoinEnds` needs `NewReaderInv`: a new reader does not meet the report that the one before has left. `StopNearer` needs
`StopInv`: while a stop waits, `main_loop` is FALSE for good, so that no handler starts the loop over.

What the retry of a QMI call rests on is not obvious from the code: every signal read calls `alarm(0)`, and
a start that is read before the network is there is dropped. `RetryInv` holds because each handler that can
make a call wanted sends a signal of its own: a check that finds the call gone, the network
indication that attaches, the loopback indication that is switched on, the start of the loop; and a start
that does not succeed sets the alarm after it was cancelled. In the MBIM loop nothing of the kind is kept; there
the argument is the rank, which falls through a round and its two waits although the state variables change
under the tests: the second wait may begin again, once for each notification that falls into it.

Assumptions on the constants: bounds and widths are naturals (widths at least 1), `Ctl` is a service,
`NULL` is no request, answer or message. TLC evaluates them in every run.

Only model-checked: the liveness properties (`CallReturns`, `Redials`, `StopQuits`, `RequestsServed`,
`SignalQuits`, `Reopens`, `ReadsEnd`, `PlayersSee`, `WritesEnd`): fairness and ENABLED are beyond the prover. Proved of them is
what the table above says.

## Not modelled

Of quectelCM: contents of messages (TLVs, APN, addresses beyond "equal or not"), logging, the
command line, the daemon mode (`CONFIG_BACKGROUND_WHEN_GET_IP` is off), malloc failures,
`kill_brothers`, and the SIM and profile requests before the loop, which change no state of it.
Of the proxy: detection of the device, QMAP settings, the 64 connection limit of its poll table and
more than one late answer to its initialisation. `GobiNetCM.c` has a descriptor per service below the
same transaction layer and adds no state that a call can observe. DHCP, bridge and
detection run external commands; what they do to the interface is in `QmiMain` and `MbimMain`.

Of the camera demo: capture, scaling, detection and the vendor codecs; the bytes of a frame and
how a read cuts them (live555's framer puts them together again).

The rest of the tree: the single-file encoder, decoder and player programs, the UART, SPI, ADC, key,
backlight and watchdog tests are a few sequential calls or one loop around one call, with no state that
two actors share or that outlives a call; a model would restate the loop. The CAN FD test's two threads
share only counters printed at the end. The dashboards run a command and
return its output. The scripts call external programs. By far the most lines of the repository are
vendored (mongoose three times, live555, SDK headers) or copies of the trees named
above (`demo_example`, `openharmony_cmd`), so that the models cover a small share of the
lines though they cover the concurrent programs.

To check: `tlc -config qmi_txn.cfg MCQmiTransaction.tla` and so on (PROJECT.json pairs
modules and configurations); `tlapm QmiTransactionProofs.tla` and so on for the proofs.
