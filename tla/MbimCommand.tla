------------------------------ MODULE MbimCommand ------------------------------
(***************************************************************************)
(* The command layer of the MBIM dialler: mbim_send_command,               *)
(* mbim_recv_command and mbim_read_thread (mbim-cm.c) with the sliced      *)
(* condition wait (util.c), under the discipline of their caller,          *)
(* mbim_main: open the modem, ask, open it again when it says that it is   *)
(* not open, and leave at the first command that fails.                    *)
(*                                                                         *)
(* Opening the modem starts the transaction ids over at 1, so an answer    *)
(* that comes late could meet a request with the same id.  One command     *)
(* only can still be unanswered when the next one is sent: the version     *)
(* query, whose failure the caller ignores, and the commands of the exit.  *)
(***************************************************************************)
EXTENDS Integers, Sequences

CONSTANTS
  Slices,     \* condition waits per command in pthread_cond_timeout_np (4)
  Discards,   \* whether the modem, when it is opened, drops what it has not answered
  MaxCalls,   \* bound: commands sent
  NULL

ASSUME Constants ==
  /\ Slices \in Nat \ {0} /\ Discards \in BOOLEAN
  /\ MaxCalls \in Nat

\* The version query is the fourth command after MBIM_OPEN_MSG, capabilities and
\* services; the radio switch, the next one, has id 4 or 5.
VersionTid == 4

Kinds == {"open", "command", "version", "close"}

\* n numbers the request, a serial the program does not see; epoch counts the opens.
Request == [n : 1..MaxCalls, tid : Nat, epoch : Nat, kind : Kinds]

\* The answer to a request carries its id.  "failed" is the failure status of an open (the
\* status of another command does not matter here), "not_opened" is
\* MBIM_FUNCTION_ERROR_MSG with MBIM_ERROR_NOT_OPENED.  Indications have the id 0, which no
\* request has: module MbimMain treats them.
Verdicts == {"done", "failed", "not_opened"}
Answer == [to : Request, verdict : Verdicts]

ASSUME NullIsNothing == NULL \notin Request /\ NULL \notin Answer

VARIABLES
  TransactionId,  \* the id the next command gets
  calls, epoch,   \* commands and opens so far
  phase,          \* of mbim_main: "closed", "open", "exit", "closing", "gone"
  open_state,     \* mbim_open_state
  mainPc,         \* where the main thread is in mbim_send_command
  req,            \* pRequest, the argument of the current or last command
  slice,          \* index of the current condition wait
  pRequest, pResponse,  \* mbim_pRequest, mbim_pResponse
  last,           \* what the last command returned: [req, ret, rsp]
  rdPc, rdMsg,    \* the reader thread: program point, message read
  toModem,        \* requests the modem has received and not answered
  served,         \* numbers of the requests it has answered
  pipe            \* answers in the control device, oldest first

caller  == <<TransactionId, calls, epoch, phase, open_state, req>>
slots   == <<pRequest, pResponse>>
modem   == <<toModem, served, pipe>>
reader  == <<rdPc, rdMsg>>
vars == <<caller, mainPc, slice, slots, last, reader, modem>>

Init ==
  /\ TransactionId = 1 /\ calls = 0 /\ epoch = 0
  /\ phase = "closed" /\ open_state = FALSE
  /\ mainPc = "idle" /\ req = NULL /\ slice = 1
  /\ pRequest = NULL /\ pResponse = NULL
  /\ last = [req |-> NULL, ret |-> "none", rsp |-> NULL]
  /\ rdPc = "poll" /\ rdMsg = NULL
  /\ toModem = {} /\ served = {} /\ pipe = <<>>

-------------------------------------------------------------------------------
(* The caller: mbim_main and the functions that compose a command.          *)

\* compose_*_command: the request takes the next id.
Compose(kind, tid, ep) ==
  /\ mainPc = "idle" /\ calls < MaxCalls
  /\ req' = [n |-> calls + 1, tid |-> tid, epoch |-> ep, kind |-> kind]
  /\ TransactionId' = tid + 1 /\ calls' = calls + 1
  /\ mainPc' = "lock"
  /\ UNCHANGED <<slice, slots, last, reader, modem>>

\* TransactionId = 1 and mbim_open_device.
Open ==
  /\ phase = "closed"
  /\ Compose("open", 1, epoch + 1)
  /\ epoch' = epoch + 1 /\ phase' = "open" /\ open_state' = TRUE

Command ==
  /\ phase = "open"
  /\ Compose("command", TransactionId, epoch)
  /\ UNCHANGED <<epoch, phase, open_state>>
VersionQuery ==
  /\ phase = "open" /\ TransactionId = VersionTid
  /\ Compose("version", TransactionId, epoch)
  /\ UNCHANGED <<epoch, phase, open_state>>

\* The top of the loop is reached after the radio switch at the earliest.
AtLoopHead == phase = "open" /\ mainPc = "idle" /\ TransactionId > VersionTid

\* The modem said that it is not open.
Reopen ==
  /\ AtLoopHead /\ ~open_state
  /\ phase' = "closed"
  /\ UNCHANGED <<TransactionId, calls, epoch, open_state, req, mainPc, slice,
                 slots, last, reader, modem>>

\* A signal arrived or the reader is gone.
LeaveLoop ==
  /\ AtLoopHead /\ phase' = "exit"
  /\ UNCHANGED <<TransactionId, calls, epoch, open_state, req, mainPc, slice,
                 slots, last, reader, modem>>

\* exit: mbim_set_connect(0) if a call is up, then mbim_close_device.
Disconnect ==
  /\ phase = "exit"
  /\ Compose("command", TransactionId, epoch)
  /\ phase' = "closing" /\ UNCHANGED <<epoch, open_state>>
Close ==
  /\ phase \in {"exit", "closing"}
  /\ Compose("close", TransactionId, epoch)
  /\ phase' = "gone" /\ UNCHANGED <<epoch, open_state>>

-------------------------------------------------------------------------------
(* mbim_send_command.                                                       *)

\* mbim_check_err and its callers: no answer, or a refused open, ends the loop.
\* Mutant: the loop goes on, as it does after the version query.
NeverFailed(ret, rsp) == FALSE
Failed(ret, rsp) == \/ ret # "ok" \/ rsp = NULL
                    \/ req.kind = "open" /\ rsp # NULL /\ rsp.verdict # "done"

\* Both slots are cleared and the command returns; its caller then frees the request.
\* Mutant: the request stays installed, as QmiThreadSendQMITimeout leaves it.
ClearResponseOnly == pResponse' = NULL /\ UNCHANGED pRequest
ClearSlots == pRequest' = NULL /\ pResponse' = NULL

Return(ret, rsp) ==
  /\ mainPc' = "idle"
  /\ last' = [req |-> req, ret |-> ret, rsp |-> rsp]
  /\ open_state' = (open_state /\ (rsp # NULL => rsp.verdict # "not_opened"))
  /\ phase' = IF phase = "open" /\ req.kind # "version" /\ Failed(ret, rsp)
              THEN "exit" ELSE phase
  /\ ClearSlots
  /\ UNCHANGED <<TransactionId, calls, epoch, req>>

\* Install the request, write it and go to sleep: one step, as mbim_command_mutex is
\* held throughout and mbim_fd stays open while the loop runs.
Send ==
  /\ mainPc = "lock"
  /\ pRequest' = req /\ pResponse' = NULL
  /\ toModem' = toModem \cup {req}
  /\ mainPc' = "asleep" /\ slice' = 1
  /\ UNCHANGED <<caller, last, reader, served, pipe>>

\* A short or failed write.
WriteFails ==
  /\ mainPc = "lock"
  /\ Return("EIO", NULL)
  /\ UNCHANGED <<slice, reader, modem>>

\* pthread_cond_timedwait: the slice runs out, or POSIX allows it to return early.
SliceExpires ==
  /\ mainPc = "asleep" /\ mainPc' = "expired"
  /\ UNCHANGED <<caller, slice, slots, last, reader, modem>>
SpuriousWakeup ==
  /\ mainPc = "asleep" /\ mainPc' = "woken"
  /\ UNCHANGED <<caller, slice, slots, last, reader, modem>>

\* mbim_command_mutex is back after ETIMEDOUT: the next slice.  Mutants: it is not
\* counted; there is one more.
NextSliceUncounted ==
  /\ mainPc = "expired" /\ slice < Slices
  /\ mainPc' = "asleep" /\ UNCHANGED slice
  /\ UNCHANGED <<caller, slots, last, reader, modem>>
NextSliceExtra ==
  /\ mainPc = "expired" /\ slice =< Slices
  /\ mainPc' = "asleep" /\ slice' = slice + 1
  /\ UNCHANGED <<caller, slots, last, reader, modem>>
NextSlice ==
  /\ mainPc = "expired" /\ slice < Slices
  /\ mainPc' = "asleep" /\ slice' = slice + 1
  /\ UNCHANGED <<caller, slots, last, reader, modem>>

\* After the last slice: ETIMEDOUT, and an answer that is there is dropped.
TimedOut ==
  /\ mainPc = "expired" /\ slice = Slices
  /\ Return("ETIMEDOUT", NULL)
  /\ UNCHANGED <<slice, reader, modem>>

\* Woken: hand over the answer, if there is one.
WakeReturn ==
  /\ mainPc = "woken"
  /\ Return("ok", pResponse)
  /\ UNCHANGED <<slice, reader, modem>>

-------------------------------------------------------------------------------
(* The reader thread: mbim_read_thread and mbim_recv_command.               *)

Read ==
  /\ rdPc = "poll" /\ pipe # <<>>
  /\ rdMsg' = Head(pipe) /\ pipe' = Tail(pipe) /\ rdPc' = "recv"
  /\ UNCHANGED <<caller, mainPc, slice, slots, last, toModem, served>>

Signal == mainPc' = IF mainPc = "asleep" THEN "woken" ELSE mainPc

\* The transaction id is all that is compared.  Mutant: any answer will do.
MatchesAnyAnswer(m) == pRequest # NULL
Matches(m) == pRequest # NULL /\ pRequest.tid = m.to.tid

RecvAnswer ==
  /\ rdPc = "recv" /\ Matches(rdMsg)
  /\ pResponse' = rdMsg /\ Signal
  /\ rdPc' = "poll" /\ rdMsg' = NULL
  /\ UNCHANGED <<caller, slice, pRequest, last, modem>>

\* Nobody waits for this answer.
RecvOther ==
  /\ rdPc = "recv" /\ ~Matches(rdMsg)
  /\ rdPc' = "poll" /\ rdMsg' = NULL
  /\ UNCHANGED <<caller, mainPc, slice, slots, last, modem>>

\* poll fails, is interrupted by a signal or reports POLLHUP.
Hangup ==
  /\ rdPc = "poll" /\ rdPc' = "abort"
  /\ UNCHANGED <<caller, mainPc, slice, slots, last, rdMsg, modem>>

\* mbim_recv_command(NULL): only the signal.  Mutant: it takes the answer away.
AbortClearing == Signal /\ pResponse' = NULL
Abort == Signal /\ UNCHANGED pResponse
RecvAbort ==
  /\ rdPc = "abort"
  /\ Abort
  /\ rdPc' = "exited"
  /\ UNCHANGED <<caller, slice, pRequest, last, rdMsg, modem>>

-------------------------------------------------------------------------------
(* The modem (external).                                                    *)

\* It executes a request and answers it.  A modem that discards at an open forgets
\* what it had not answered then.
Serve(r) ==
  /\ r \in toModem
  /\ \E v \in IF r.kind = "open" THEN Verdicts ELSE Verdicts \ {"failed"} :
       pipe' = Append(pipe, [to |-> r, verdict |-> v])
  /\ served' = served \cup {r.n}
  /\ toModem' = IF r.kind = "open" /\ Discards THEN {} ELSE toModem \ {r}
  /\ UNCHANGED <<caller, mainPc, slice, slots, last, reader>>
Ignore(r) ==
  /\ r \in toModem
  /\ toModem' = toModem \ {r}
  /\ UNCHANGED <<caller, mainPc, slice, slots, last, reader, served, pipe>>

-------------------------------------------------------------------------------

Caller == Open \/ Command \/ VersionQuery \/ Reopen \/ LeaveLoop \/ Disconnect \/ Close
SendStep == Send \/ NextSlice \/ TimedOut \/ WakeReturn
ReaderStep == Read \/ RecvAnswer \/ RecvOther \/ RecvAbort
Modem == \E r \in toModem : Serve(r) \/ Ignore(r)

Next == \/ Caller
        \/ SendStep \/ WriteFails \/ SliceExpires \/ SpuriousWakeup
        \/ ReaderStep \/ Hangup
        \/ Modem

Spec == Init /\ [][Next]_vars

\* The threads are scheduled and the timer of a slice runs out.  Nothing is assumed of
\* the modem and the cable.
FairSpec == Spec /\ WF_vars(SendStep) /\ WF_vars(SliceExpires) /\ WF_vars(ReaderStep)

-------------------------------------------------------------------------------
(* Properties.                                                              *)

Maybe(S) == S \cup {NULL}

TypeOK ==
  /\ TransactionId \in Nat \ {0} /\ calls \in 0..MaxCalls /\ epoch \in 0..calls
  /\ phase \in {"closed", "open", "exit", "closing", "gone"} /\ open_state \in BOOLEAN
  /\ mainPc \in {"idle", "lock", "asleep", "expired", "woken"}
  /\ req \in Maybe(Request) /\ (mainPc # "idle" => req # NULL)
  /\ slice \in 1..Slices
  /\ pRequest \in Maybe(Request) /\ pResponse \in Maybe(Answer)
  /\ last.req \in Maybe(Request) /\ last.rsp \in Maybe(Answer)
  /\ last.ret \in {"none", "ok", "EIO", "ETIMEDOUT"}
  /\ rdPc \in {"poll", "recv", "abort", "exited"} /\ rdMsg \in Maybe(Answer)
  /\ toModem \subseteq Request /\ served \subseteq 1..MaxCalls
  /\ pipe \in Seq(Answer)

\* The reader never sees a request that its caller has freed: whatever ends a command,
\* mbim_pRequest points to the request of the command in progress or nowhere.
RequestAlive == pRequest # NULL => pRequest = req /\ mainPc \notin {"idle", "lock"}

\* The answer that a command hands to its caller is the modem's answer to that very
\* command, although the ids start over at every open and late answers stay in the
\* device: the modem answers an open only after everything older, an open that gets no
\* answer ends the loop, and what the exit sends has ids below that of the one command
\* that can be left behind.  A modem that keeps old requests across an open breaks it.
AnswerMatchesCall ==
  last.rsp # NULL => \/ last.rsp.to.n = last.req.n
                     \/ ~Discards /\ last.rsp.to.epoch < last.req.epoch

\* Once the reader has stored an answer and woken the sender, nothing (the abort of an
\* exiting reader, a second message) takes it away before the command returns it.
AnswerKept ==
  [][mainPc = "woken" /\ pResponse # NULL =>
       \/ mainPc' = "woken" /\ pResponse' = pResponse
       \/ mainPc' = "idle" /\ last'.ret = "ok" /\ last'.rsp = pResponse]_vars

\* Every command returns, whatever the modem and the cable do, also when the reader has
\* gone before the command was sent and nobody is left to wake the sender.
CallReturns == mainPc # "idle" ~> mainPc = "idle"

\* A modem that discards old requests at an open, and this layer, implement remote
\* calls whose answers are never mixed up.
RPC == INSTANCE QmiRpc WITH
         Calls <- 1..MaxCalls,
         pending <- IF mainPc = "idle" THEN 0 ELSE req.n,
         outcome <- IF last.rsp = NULL THEN NULL ELSE last.rsp.to.n
ImplementsRpc == RPC!Spec
===============================================================================
