-------------------------------- MODULE MbimMain --------------------------------
(***************************************************************************)
(* The MBIM dialler: mbim_main, the reader thread's treatment of           *)
(* indications, the state change notification and the signal handler       *)
(* (mbim-cm.c).  The main thread takes the modem through SIM ready,        *)
(* registered, attached and connected, looking at four state variables     *)
(* that its own commands and the reader thread's indications both set, and *)
(* sleeps on a condition variable in between.                              *)
(*                                                                         *)
(* A command (module MbimCommand) is issued in one step and its answer     *)
(* applied in another: the reader may handle indications between the two.  *)
(* The main thread's tests between two commands are steps of their own.    *)
(***************************************************************************)
EXTENDS Integers, Sequences

CONSTANTS
  Slices,      \* condition waits per wait_state_change (4)
  MaxChanges,  \* bound: what the SIM, the network and the modem do of themselves
  MaxSignals,  \* bound: SIGINT, SIGTERM and SIGHUP
  NULL

ASSUME Constants ==
  /\ Slices \in Nat \ {0} /\ MaxChanges \in Nat /\ MaxSignals \in Nat

\* ReadyState, RegisterState, PacketServiceState, ActivationState.  Values that the code
\* treats alike are one: roaming is "home", deregistered and denied are "searching",
\* attaching (and what is no state) is "detaching", deactivating is "deactivated".
Values == [ready |-> {"no", "yes"},
           reg   |-> {"unknown", "searching", "home"},
           ps    |-> {"unknown", "attached", "detaching", "detached"},
           act   |-> {"unknown", "activated", "activating", "deactivated"}]
Fields == DOMAIN Values
State == {s \in [Fields -> UNION {Values[f] : f \in Fields}] : \A f \in Fields : s[f] \in Values[f]}

\* mbim_reset_state
Unset == [ready |-> "no", reg |-> "unknown", ps |-> "unknown", act |-> "unknown"]

\* What the values of a MBIM_REGISTER_STATE_E are as a MBIM_PACKET_SERVICE_STATE_E:
\* searching reads as attached, roaming as detached.
AsPacketService == [unknown   |-> {"unknown"},
                    searching |-> {"attached", "detaching"},
                    home      |-> {"detaching", "detached"}]

\* The commands, the state variable that the answer to one sets, and where the main
\* thread goes on.  "init" stands for those between the open and the loop proper.
Queries == {"queryReady", "queryReg", "queryPs", "attach", "queryConnect", "connect"}
Ops == Queries \cup {"open", "init", "ip", "disconnect", "close"}
Sets == [queryReady |-> "ready", queryReg |-> "reg", queryPs |-> "ps", attach |-> "ps",
         queryConnect |-> "act", connect |-> "act", disconnect |-> "act"]
After == [queryReady |-> "ready2", queryReg |-> "reg2", queryPs |-> "ps2", attach |-> "ps3",
          queryConnect |-> "act2", connect |-> "act3"]

\* What an answer or an indication can say.
AllValues == UNION {Values[f] : f \in Fields}
Words == AllValues \cup {"failed", "not_opened", "ok", "config", "none"}

\* NULL is neither an answer nor a message.
ASSUME NullIsNothing ==
  /\ NULL \notin Words
  /\ NULL \notin [f : Fields \cup {"none"}, v : Words, op : Ops \cup {"none"}, fell : BOOLEAN]

VARIABLES
  pc,          \* where mbim_main is
  op, rsp,     \* the command in progress, its answer once the reader has stored it
  wt, slice,   \* the current wait: "long" (24 h), "retry" (30 s) or "settle" (1 s)
  quit,        \* mbim_quit # 0
  open_state,  \* mbim_open_state
  st,          \* the four state variables
  net,         \* the interface is configured and up
  rd, rdMsg,   \* the reader thread (read_tid is 0 when it has "exited"), its message
  m,           \* the modem: the true states, and whether it is open
  toModem,     \* commands it has received and not executed
  pipe,        \* its answers and indications not read yet
  changes, signals,  \* used up of the two bounds
  hungUp,      \* history: the device failed under the reader
  newer,       \* history: states an indication has set since rsp was stored
  wrong,       \* history: states last set by a stale answer or from the wrong message
  raced        \* history: the interface was configured after the end of the call was handled

command == <<op, rsp, toModem>>
waiting == <<wt, slice>>
beliefs == <<open_state, st, net>>
reader  == <<rd, rdMsg>>
world   == <<m, changes, signals, hungUp>>
history == <<newer, wrong, raced>>
vars == <<pc, command, waiting, quit, beliefs, reader, pipe, world, history>>

\* The network attaches only who is registered, and connects only who is attached.
Consistent(s) == /\ s.reg = "home" => s.ready = "yes"
                 /\ s.ps = "attached" => s.reg = "home"
                 /\ s.act \in {"activated", "activating"} => s.ps = "attached"
Modem == {s \in State : Consistent(s) /\ s.reg # "unknown" /\ s.ps \in {"attached", "detached"}
                        /\ s.act # "unknown"}

\* A call may have survived the last run of the program.
Init ==
  /\ pc = "head" /\ op = "none" /\ rsp = NULL /\ wt = "long" /\ slice = 1
  /\ quit = FALSE /\ open_state = FALSE /\ st = Unset /\ net = FALSE
  /\ rd = "poll" /\ rdMsg = NULL
  /\ \E s \in Modem : m = [is |-> s, opened |-> FALSE] /\ s.act # "activating"
  /\ toModem = <<>> /\ pipe = <<>> /\ changes = 0 /\ signals = 0
  /\ hungUp = FALSE /\ newer = {} /\ wrong = {} /\ raced = FALSE

\* The loop goes on.  Mutant: only the reader counts.
RunningWithReader == rd # "exited"
Running == ~quit /\ rd # "exited"

\* Who holds mbim_state_mutex.
MainHolds == pc \in {"locked", "signalled", "timedout", "stuck"}
ReaderHolds == rd \in {"holding", "lastHolding", "stuck"}
\* It can be locked.  Mutant: the reader does not wait for the main thread.
FreeOfReader == ~ReaderHolds
Free == ~MainHolds /\ ~ReaderHolds

-------------------------------------------------------------------------------
(* The main thread: commands.                                               *)

Issue(o) == /\ pc' = "wait" /\ op' = o /\ rsp' = NULL
            /\ toModem' = Append(toModem, o)
            /\ newer' = {}
           /\ UNCHANGED <<waiting, quit, reader, pipe, world>>

Goto(l) == /\ pc' = l /\ op' = "none" /\ rsp' = NULL /\ newer' = {}
           /\ UNCHANGED <<toModem, waiting, quit, reader, pipe, world>>

\* _wait_state_change with wait_time.
SleepFor(w) == /\ pc' = "sleep" /\ wt' = w /\ slice' = 1
               /\ op' = "none" /\ rsp' = NULL /\ newer' = {}
               /\ UNCHANGED <<toModem, quit, reader, pipe, world>>

Answered(o) == pc = "wait" /\ op = o /\ rsp # NULL

\* Where a command that fails leads: out of the loop, and there on to the end.
FailTo == IF op = "close" THEN "kill" ELSE "exit"

\* Timed out (perhaps with the answer there), not written, or aborted by the reader.
CommandFails ==
  /\ pc = "wait"
  /\ IF op = "disconnect" THEN Issue("close") ELSE Goto(FailTo)
  /\ UNCHANGED <<beliefs, wrong, raced>>

\* mbim_open_device; the commands that follow an open are "init".
OpenAnswered ==
  /\ Answered("open")
  /\ IF rsp = "ok" THEN Issue("init") /\ open_state' = TRUE /\ st' = Unset /\ wrong' = {}
                   ELSE Goto("exit") /\ UNCHANGED <<open_state, st, wrong>>
  /\ UNCHANGED <<net, raced>>

\* The caller reads an answer of MBIM_FUNCTION_ERROR_MSG past its end: the offsets and
\* counts in it can be anything.
InitAnswered ==
  /\ Answered("init")
  /\ open_state' = (open_state /\ rsp # "not_opened")
  /\ \/ Goto("ready")
     \/ rsp = "not_opened" /\ Goto("crashed")
  /\ UNCHANGED <<st, net, wrong, raced>>

\* A query or a set command: assign what the answer says.  One without information
\* leaves the variable alone; MBIM_FUNCTION_ERROR_MSG is read past its end.
\* Mutant: every answer is taken to have information.
LearnedUnchecked(f) == IF rsp \in {"failed", "not_opened"} THEN Values[f] ELSE {rsp}
Learned(f) == IF rsp = "failed" THEN {st[f]}
              ELSE IF rsp = "not_opened" THEN Values[f] ELSE {rsp}
Assign(f) ==
  /\ \E v \in Learned(f) : st' = [st EXCEPT ![f] = v]
  /\ open_state' = (open_state /\ rsp # "not_opened")
  /\ wrong' = IF rsp = "failed" THEN wrong
              ELSE IF f \in newer THEN wrong \cup {f} ELSE wrong \ {f}
  /\ UNCHANGED <<net, raced>>
QueryAnswered(o) == Answered(o) /\ Assign(Sets[o]) /\ Goto(After[o])

\* mbim_ip_config: configure the interface.
Configure ==
  \/ rsp \in {"config", "not_opened"} /\ net' = TRUE /\ raced' = ("act" \in newer)
  \/ rsp # "config" /\ UNCHANGED <<net, raced>>
IpAnswered ==
  /\ Answered("ip")
  /\ Configure
  /\ open_state' = (open_state /\ rsp # "not_opened")
  /\ \/ SleepFor("long")
     \/ rsp = "not_opened" /\ Goto("crashed")
  /\ UNCHANGED <<st, wrong>>

-------------------------------------------------------------------------------
(* The main thread: the loop.                                               *)

\* mbim_ifconfig without an address.
Deconfigure == net' = FALSE /\ raced' = FALSE

\* The condition of the loop.  Mutant: the modem is opened once.
LoopHeadOpenOnce ==
  /\ pc = "head"
  /\ \/ ~Running /\ Goto("exit") /\ UNCHANGED <<net, raced>>
     \/ Running /\ ~open_state /\ st = Unset /\ Issue("open") /\ Deconfigure
     \/ Running /\ (open_state \/ st # Unset) /\ Goto("ready") /\ UNCHANGED <<net, raced>>
  /\ UNCHANGED <<open_state, st, wrong>>
LoopHead ==
  /\ pc = "head"
  /\ \/ ~Running /\ Goto("exit") /\ UNCHANGED <<net, raced>>
     \/ Running /\ ~open_state /\ Issue("open") /\ Deconfigure
     \/ Running /\ open_state /\ Goto("ready") /\ UNCHANGED <<net, raced>>
  /\ UNCHANGED <<open_state, st, wrong>>

\* The tests of one round, each made on what the variables say at that moment.
Test(l, cond, then, else) == pc = l /\ IF cond THEN then ELSE else

\* Mutant: a call that went down is left alone.
MayConnectFirst == st.act = "unknown"
MayConnect == st.act \notin {"activated", "activating"}

Round ==
  /\ \/ Test("ready",  st.ready # "yes", Issue("queryReady"), Goto("reg"))
     \/ Test("ready2", st.ready # "yes", SleepFor("long"), Goto("reg"))
     \/ Test("reg",    st.reg # "home", Issue("queryReg"), Goto("ps"))
     \/ Test("reg2",   st.reg # "home", SleepFor("long"), Goto("ps"))
     \/ Test("ps",     st.ps # "attached", Issue("queryPs"), Goto("act"))
     \/ Test("ps2",    st.ps \in {"unknown", "detached"} /\ st.reg = "home",
                       Issue("attach"), Goto("ps3"))
     \/ Test("ps3",    st.ps # "attached", SleepFor("long"), Goto("act"))
     \/ Test("act",    st.act = "unknown", Issue("queryConnect"), Goto("act2"))
     \/ Test("act2",   MayConnect, Issue("connect"), SleepFor("long"))
     \/ Test("act3",   st.act = "activated", Issue("ip"), SleepFor("retry"))
  /\ UNCHANGED <<beliefs, wrong, raced>>

-------------------------------------------------------------------------------
(* The main thread: wait_state_change.                                      *)

Still == UNCHANGED <<command, quit, beliefs, pipe, world, history>>

Lock ==
  /\ pc = "sleep" /\ Free
  /\ pc' = "locked"
  /\ UNCHANGED <<waiting, reader>> /\ Still
Wait == pc = "locked" /\ pc' = "asleep" /\ UNCHANGED <<waiting, reader>> /\ Still

\* A slice of the wait is over; a signal is not heard until the next one begins.
SliceOver == pc = "asleep" /\ pc' = "gap" /\ UNCHANGED <<waiting, reader>> /\ Still
Relock ==
  /\ pc = "gap" /\ Free
  /\ IF slice < Slices THEN pc' = "locked" /\ slice' = slice + 1
                       ELSE pc' = "timedout" /\ UNCHANGED slice
  /\ UNCHANGED <<wt, reader>> /\ Still
Rewake == pc = "woken" /\ Free /\ pc' = "signalled" /\ UNCHANGED <<waiting, reader>> /\ Still

\* Unlock and return; the second wait ends the round when nothing happened for a second.
Return ==
  /\ pc \in {"signalled", "timedout"}
  /\ pc' = IF wt = "settle" /\ pc = "timedout" THEN "head" ELSE "settle"
  /\ slice' = 1
  /\ UNCHANGED <<wt, reader>> /\ Still
Settle ==
  /\ pc = "settle"
  /\ IF Running THEN pc' = "sleep" /\ wt' = "settle" ELSE pc' = "head" /\ UNCHANGED wt
  /\ UNCHANGED <<slice, reader>> /\ Still

-------------------------------------------------------------------------------
(* The main thread: exit.                                                   *)

\* End the call if one may be up, then close the modem, if the reader is there.
Exit ==
  /\ pc = "exit"
  /\ IF rd = "exited" THEN Goto("exited")
     ELSE IF st.act \in {"activated", "activating"} THEN Issue("disconnect") ELSE Issue("close")
  /\ UNCHANGED <<beliefs, wrong, raced>>
DisconnectAnswered ==
  /\ Answered("disconnect") /\ Assign("act") /\ Issue("close")
CloseAnswered ==
  /\ Answered("close")
  /\ open_state' = (open_state /\ rsp # "not_opened")
  /\ Goto("kill")
  /\ UNCHANGED <<st, net, wrong, raced>>

\* while (read_tid): the thread is signalled until it has gone, then the interface goes
\* down.  Mutant: only when a call is up.
DownIfConnected == IF st.act = "activated" THEN Deconfigure ELSE UNCHANGED <<net, raced>>
FinalDown == Deconfigure
WhileReader ==
  /\ pc = "kill"
  /\ \/ rd # "exited" /\ Goto("killing") /\ UNCHANGED <<net, raced>>
     \/ rd = "exited" /\ Goto("exited") /\ FinalDown
  /\ UNCHANGED <<open_state, st, wrong>>

\* pthread_kill(read_tid): the handler runs in the reader, which may hold the mutex that
\* the handler locks; poll is interrupted; a thread id that is 0 by now is no thread.
KillReader ==
  /\ pc = "killing"
  /\ pc' = IF rd = "exited" THEN "crashed" ELSE "kill"
  /\ rd' = CASE rd = "poll" -> "quitting"
             [] ReaderHolds -> "stuck"
             [] OTHER -> rd
  /\ quit' = TRUE
  /\ UNCHANGED <<command, waiting, beliefs, rdMsg, pipe, world, history>>

-------------------------------------------------------------------------------
(* The signal handler, in the main thread.                                  *)

Wake(l) == IF l = "asleep" THEN "woken" ELSE l

\* ql_sigaction: it locks mbim_state_mutex, which the main thread may hold itself.  (When
\* the reader holds it the handler waits.)
StopSignal ==
  /\ signals < MaxSignals /\ signals' = signals + 1
  /\ pc \notin {"exited", "crashed", "stuck"} /\ ~ReaderHolds
  /\ quit' = TRUE
  /\ pc' = IF MainHolds THEN "stuck" ELSE Wake(pc)
  /\ UNCHANGED <<command, waiting, beliefs, reader, pipe, m, changes, hungUp, history>>

-------------------------------------------------------------------------------
(* The reader thread.                                                       *)

Indication(f, v, fell) == [f |-> f, v |-> v, op |-> "none", fell |-> fell]
AnswerTo(o, v) == [f |-> "none", v |-> v, op |-> o, fell |-> FALSE]

Read ==
  /\ rd = "poll" /\ pipe # <<>>
  /\ rd' = "msg" /\ rdMsg' = Head(pipe) /\ pipe' = Tail(pipe)
  /\ UNCHANGED <<pc, command, waiting, quit, beliefs, world, history>>

\* The answer to the command in progress, or a late one.
Deliver ==
  /\ rd = "msg" /\ rdMsg.op # "none"
  /\ rd' = "poll" /\ rdMsg' = NULL
  /\ IF pc = "wait" /\ op = rdMsg.op /\ rsp = NULL
     THEN rsp' = rdMsg.v /\ newer' = {}
     ELSE UNCHANGED <<rsp, newer>>
  /\ UNCHANGED <<pc, op, toModem, waiting, quit, beliefs, pipe, world, wrong, raced>>

\* After an indication.  The case of MBIM_CID_REGISTER_STATE has no break: it goes on as a
\* MBIM_CID_PACKET_SERVICE message.
NextMessage ==
  IF rdMsg.f = "reg"
  THEN /\ rd' = "msg"
       /\ \E v \in AsPacketService[rdMsg.v] : rdMsg' = Indication("ps", v, TRUE)
  ELSE rd' = "poll" /\ rdMsg' = NULL

\* The end of a call takes the interface down.  Mutant: it does not.
DownNever == UNCHANGED <<net, raced>>
DownWithCall == IF rdMsg.f = "act" /\ rdMsg.v = "deactivated" THEN Deconfigure
                ELSE UNCHANGED <<net, raced>>

\* Set the variable; when that changes it, notify the main thread.
Indicated ==
  /\ rd = "msg" /\ rdMsg.op = "none"
  /\ DownWithCall
  /\ st' = [st EXCEPT ![rdMsg.f] = rdMsg.v]
  /\ newer' = IF rsp # NULL THEN newer \cup {rdMsg.f} ELSE newer
  /\ wrong' = IF rdMsg.fell THEN wrong \cup {rdMsg.f} ELSE wrong \ {rdMsg.f}
  /\ IF st[rdMsg.f] # rdMsg.v THEN rd' = "notify" /\ UNCHANGED rdMsg ELSE NextMessage
  /\ UNCHANGED <<pc, command, waiting, quit, open_state, pipe, world>>

\* _notify_state_chage: lock and signal; unlock.
Notify ==
  /\ rd \in {"notify", "lastNotify"} /\ Free
  /\ pc' = Wake(pc)
  /\ rd' = IF rd = "notify" THEN "holding" ELSE "lastHolding"
  /\ UNCHANGED <<command, waiting, quit, beliefs, rdMsg, pipe, world, history>>
Unlock ==
  /\ rd = "holding" /\ NextMessage
  /\ UNCHANGED <<pc, command, waiting, quit, beliefs, pipe, world, history>>

\* __quit: count, abort the command in progress (CommandFails), notify, read_tid = 0.
ReaderQuits ==
  /\ rd = "quitting" /\ rd' = "lastNotify" /\ quit' = TRUE
  /\ UNCHANGED <<pc, command, waiting, beliefs, rdMsg, pipe, world, history>>
LastUnlock ==
  /\ rd = "lastHolding" /\ rd' = "clear"
  /\ UNCHANGED <<pc, command, waiting, quit, beliefs, rdMsg, pipe, world, history>>
ReaderExits ==
  /\ rd = "clear" /\ rd' = "exited"
  /\ UNCHANGED <<pc, command, waiting, quit, beliefs, rdMsg, pipe, world, history>>

\* The device fails: poll reports an error.
Hangup ==
  /\ rd = "poll" /\ rd' = "quitting" /\ hungUp' = TRUE
  /\ UNCHANGED <<pc, command, waiting, quit, beliefs, rdMsg, pipe, m, changes, signals, history>>

-------------------------------------------------------------------------------
(* The modem (external).                                                    *)

\* What each command does to the modem's states, and the answers it can give.
Execute(o) ==
  IF ~m.opened /\ o # "open" THEN {[is |-> m.is, opened |-> FALSE, v |-> "not_opened"]}
  ELSE LET same(v) == [is |-> m.is, opened |-> TRUE, v |-> v]
           set(f, x) == [is |-> [m.is EXCEPT ![f] = x], opened |-> TRUE, v |-> x]
       IN CASE o = "open" -> {same("ok"), [is |-> m.is, opened |-> m.opened, v |-> "failed"]}
            [] o = "init" -> {same("ok")}
            [] o \in {"queryReady", "queryReg", "queryPs", "queryConnect"} ->
                 {same(m.is[Sets[o]]), same("failed")}
            [] o = "attach" ->
                 IF m.is.reg = "home" THEN {same("failed"), set("ps", "attached")}
                                      ELSE {same("failed")}
            [] o = "connect" ->
                 IF m.is.ps # "attached" THEN {same("failed")}
                 ELSE {same("failed"), set("act", "activated")}
                      \cup (IF m.is.act = "activated" THEN {} ELSE {set("act", "activating")})
            [] o = "ip" -> IF m.is.act = "activated" THEN {same("config"), same("none")}
                                                     ELSE {same("failed")}
            [] o = "disconnect" -> {set("act", "deactivated")}
            [] o = "close" -> {[is |-> [m.is EXCEPT !.act = "deactivated"], opened |-> FALSE,
                                v |-> "ok"]}

Serve ==
  /\ toModem # <<>> /\ toModem' = Tail(toModem)
  /\ \E e \in Execute(Head(toModem)) :
       /\ m' = [is |-> e.is, opened |-> e.opened]
       /\ pipe' = Append(pipe, AnswerTo(Head(toModem), e.v))
  /\ UNCHANGED <<pc, op, rsp, waiting, quit, beliefs, reader, changes, signals, hungUp, history>>
Ignore ==
  /\ toModem # <<>> /\ toModem' = Tail(toModem)
  /\ UNCHANGED <<pc, op, rsp, waiting, quit, beliefs, reader, pipe, world, history>>

\* What can happen of itself: the SIM gets ready, registration changes, the network
\* attaches or detaches, connects what is connecting, ends a call.
Lost(s) == [s EXCEPT !.ps = "detached", !.act = "deactivated"]
Successors(s) ==
  {t \in {[s EXCEPT !.ready = "yes"], [Lost(s) EXCEPT !.reg = "searching"],
          [s EXCEPT !.reg = "home"], [s EXCEPT !.ps = "attached"], Lost(s),
          [s EXCEPT !.act = "deactivated"]}
         \cup (IF s.act = "activating" THEN {[s EXCEPT !.act = "activated"]} ELSE {}) :
     t # s /\ Consistent(t)}

Notice(s, t, f) == IF s[f] = t[f] THEN <<>> ELSE <<Indication(f, t[f], FALSE)>>
Notices(s, t) == Notice(s, t, "ready") \o Notice(s, t, "reg")
                 \o Notice(s, t, "ps") \o Notice(s, t, "act")

\* An open modem indicates every change, in order.
Change ==
  /\ changes < MaxChanges /\ changes' = changes + 1
  /\ \E t \in Successors(m.is) :
       /\ m' = [is |-> t, opened |-> m.opened]
       /\ pipe' = IF m.opened THEN pipe \o Notices(m.is, t) ELSE pipe
  /\ UNCHANGED <<pc, command, waiting, quit, beliefs, reader, signals, hungUp, history>>

\* Suspend and resume: the modem is not open any more and says nothing.
Suspend ==
  /\ changes < MaxChanges /\ changes' = changes + 1
  /\ m.opened
  /\ m' = [is |-> [m.is EXCEPT !.act = "deactivated"], opened |-> FALSE]
  /\ UNCHANGED <<pc, command, waiting, quit, beliefs, reader, pipe, signals, hungUp, history>>

-------------------------------------------------------------------------------

CommandDone == \/ OpenAnswered \/ InitAnswered \/ IpAnswered
               \/ (\E o \in Queries : QueryAnswered(o))
               \/ DisconnectAnswered \/ CloseAnswered
MainStep == \/ LoopHead \/ Round \/ CommandDone
            \/ Lock \/ Wait \/ Relock \/ Rewake \/ Return \/ Settle
            \/ Exit \/ WhileReader \/ KillReader
ReaderStep == \/ Read \/ Deliver \/ Indicated \/ Notify \/ Unlock
              \/ ReaderQuits \/ LastUnlock \/ ReaderExits

Next == \/ MainStep \/ CommandFails \/ SliceOver \/ StopSignal
        \/ ReaderStep \/ Hangup
        \/ Serve \/ Ignore \/ Change \/ Suspend

Spec == Init /\ [][Next]_vars

\* The threads are scheduled and the timers run out.  Nothing is assumed of the modem,
\* the network, the user and the cable.
FairSpec == /\ Spec
            /\ WF_vars(MainStep) /\ WF_vars(CommandFails) /\ WF_vars(SliceOver)
            /\ WF_vars(ReaderStep)

-------------------------------------------------------------------------------
(* Properties.                                                              *)

TypeOK ==
  /\ st \in State /\ m.is \in Modem /\ m.opened \in BOOLEAN
  /\ op \in Ops \cup {"none"} /\ (op # "none" <=> pc = "wait")
  /\ wt \in {"long", "retry", "settle"} /\ slice \in 1..Slices
  /\ quit \in BOOLEAN /\ open_state \in BOOLEAN /\ net \in BOOLEAN
  /\ newer \subseteq Fields /\ wrong \subseteq Fields
  /\ ~(MainHolds /\ ReaderHolds)

\* The main thread is in the loop, not on its way out.
InLoop == pc \notin {"exit", "kill", "killing", "exited", "crashed", "stuck"}
          /\ op \notin {"disconnect", "close"}

Messages == {pipe[i] : i \in DOMAIN pipe} \cup ({rdMsg} \ {NULL})
\* Something that will set f is between the modem and the variable.
UnderWay(f) == \/ \E x \in Messages : x.f = f \/ (x.op \in DOMAIN Sets /\ Sets[x.op] = f)
               \/ rsp # NULL /\ op \in DOMAIN Sets /\ Sets[op] = f

\* The interface is up only with a call in the modem, or while the indication that the
\* call has ended is under way.  The only exceptions: the modem was suspended, which it
\* does not tell, or the configuration raced with the indication, which the reader handled
\* while the answer to mbim_ip_config waited for the main thread.
NetNeedsCall ==
  net /\ InLoop /\ m.opened /\ ~raced => m.is.act = "activated" \/ UnderWay("act")

\* What the program believes of an open modem is true, or news of it is under way, although
\* two threads write the variables: except for a value that the main thread took from an
\* answer older than an indication handled already, and for a packet service state made
\* from a registration state.
BeliefAgrees ==
  InLoop /\ open_state /\ m.opened =>
    \A f \in Fields \ wrong : st[f] \in {Unset[f], m.is[f]} \/ UnderWay(f)

\* When the program ends, the interface is down, unless the device failed.
NetDownAtExit == pc = "exited" => ~net \/ hungUp

Ended == pc \in {"exited", "crashed", "stuck"} \/ rd = "stuck"

\* Every signal ends the program, also one that comes between the test of mbim_quit and the
\* wait, unless the handler waits for a mutex that its own thread holds.
SignalQuits == quit ~> Ended

\* The way from an open through a round to its wait, and through the slices of the wait to
\* the next test of mbim_quit: the steps that are left at most.
Place == IF pc = "wait" THEN op ELSE pc
OfRound == [open |-> 19, init |-> 18, ready |-> 17, queryReady |-> 16, ready2 |-> 15,
            reg |-> 14, queryReg |-> 13, reg2 |-> 12, ps |-> 11, queryPs |-> 10, ps2 |-> 9,
            attach |-> 8, ps3 |-> 7, act |-> 6, queryConnect |-> 5, act2 |-> 4, connect |-> 3,
            act3 |-> 2, ip |-> 1]
OfWait == [sleep |-> 3 * Slices + 4, locked |-> 3 * (Slices - slice) + 6,
           asleep |-> 3 * (Slices - slice) + 5, gap |-> 3 * (Slices - slice) + 4,
           woken |-> 4, signalled |-> 3, timedout |-> 3, settle |-> 2, head |-> 1]
QuitRank == IF Place \in DOMAIN OfRound THEN 3 * Slices + 4 + OfRound[Place] ELSE OfWait[Place]

\* Once mbim_quit is set the main thread only gets nearer to the end of its loop: it
\* finishes the round it is in, whatever indications change the variables meanwhile, and
\* one wait at most, whether the signal came before the wait, in it or between two of its
\* slices; it starts no other round and no second wait.
QuitProgress ==
  [][quit /\ InLoop /\ InLoop' /\ <<pc, op>>' # <<pc, op>> => QuitRank' < QuitRank]_vars

\* A call known to be down is dialled again, if the modem is attached as far as the program
\* knows, though the notification may come when nobody waits for it.
Dialable == st.ready = "yes" /\ st.reg = "home" /\ st.ps = "attached"
Redials == InLoop /\ st.act = "deactivated" ~>
             op = "connect" \/ st.act # "deactivated" \/ ~Dialable \/ ~InLoop

\* A modem that says it is not open is opened again.
Reopens == InLoop /\ ~open_state ~> op = "open" \/ ~InLoop
===============================================================================
