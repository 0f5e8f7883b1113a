--------------------------- MODULE MbimCommandProofs ---------------------------
(***************************************************************************)
(* Proofs about MbimCommand, for every value of its constants.  The        *)
(* question is why transaction ids that start over at every open do not    *)
(* mix up answers.  IInv follows what is in flight: within one open, id    *)
(* and serial number of a request advance together; of an earlier open,    *)
(* with a modem that discards, only something with the id of the version   *)
(* query is left, and only until the answer to the open has come.          *)
(***************************************************************************)
EXTENDS MbimCommand, SequenceTheorems, TLAPS

Answers == {pipe[i] : i \in DOMAIN pipe} \cup ({rdMsg, pResponse} \ {NULL})
InFlight == toModem \cup {a.to : a \in Answers}

Leaving == {"exit", "closing", "gone"}

\* The request in progress, or the last one, is the latest.
ReqInv ==
  /\ phase # "closed" => TransactionId > 1
  /\ req # NULL => /\ req.tid = TransactionId - 1 /\ req.n = calls /\ req.epoch = epoch
                   /\ req.tid = 1 => req.kind = "open"
                   /\ req.kind = "version" => req.tid = VersionTid
  /\ mainPc # "idle" => phase # "closed" /\ phase # "exit"

\* The slots belong to the command in progress.
SlotInv ==
  /\ pRequest # NULL => pRequest = req /\ mainPc \notin {"idle", "lock"}
  /\ pResponse # NULL => pRequest # NULL /\ pResponse.to.tid = pRequest.tid
  /\ rdPc = "recv" => rdMsg # NULL

\* Ids advance with the serial numbers while the modem is not opened again.
FlightInv ==
  \A x \in InFlight : /\ x.n <= calls /\ x.epoch <= epoch
                      /\ x.tid = 1 => x.kind = "open"
                      /\ x.epoch = epoch => x.n - x.tid = calls + 1 - TransactionId
                      /\ mainPc = "lock" => x.n < calls

\* A request is answered once, so each answer is in one place.
OnceInv ==
  /\ \A n \in served : n <= calls /\ (mainPc = "lock" => n < calls)
  /\ \A r \in toModem : r.n \notin served /\ (\A s \in toModem : s.n = r.n => s = r)
  /\ \A a \in Answers : a.to.n \in served
  /\ \A i, j \in DOMAIN pipe : pipe[i].to.n = pipe[j].to.n => i = j
  /\ rdMsg # NULL => \A i \in DOMAIN pipe : pipe[i].to.n # rdMsg.to.n
  /\ pResponse # NULL => \A i \in DOMAIN pipe : pipe[i].to.n # pResponse.to.n
  /\ pResponse # NULL /\ rdMsg # NULL => rdMsg.to.n # pResponse.to.n

\* What is left of earlier opens, and until when.
Old(x) == x.epoch < epoch
OldInv ==
  \A x \in InFlight : Old(x) =>
    /\ x.tid = VersionTid
    /\ \/ phase = "open" /\ TransactionId = 2 /\ mainPc # "idle"
       \/ phase = "exit" /\ TransactionId = 2
       \/ phase = "closing" /\ TransactionId <= 3
       \/ phase = "gone" /\ TransactionId <= 4

\* What the loop has left unanswered.
LoopInv ==
  phase \in {"open", "closed"} =>
    \A x \in InFlight : x.epoch = epoch =>
      x.tid = VersionTid \/ (mainPc # "idle" /\ x.n = calls)

\* The answer to the open comes after everything older.
OpenAnswer(a) == a.to.kind = "open" /\ a.to.epoch = epoch
OrderInv ==
  /\ \A a \in Answers : OpenAnswer(a) => \A r \in toModem : ~Old(r)
  /\ \A i, j \in DOMAIN pipe : OpenAnswer(pipe[i]) /\ i < j => ~Old(pipe[j].to)
  /\ rdMsg # NULL => (OpenAnswer(rdMsg) => \A i \in DOMAIN pipe : ~Old(pipe[i].to))
  /\ pResponse # NULL =>
       (OpenAnswer(pResponse) => /\ \A i \in DOMAIN pipe : ~Old(pipe[i].to)
                                 /\ rdMsg # NULL => ~Old(rdMsg.to))

DiscardInv == Discards => OldInv /\ LoopInv /\ OrderInv

IInv == /\ TypeOK /\ ReqInv /\ SlotInv /\ FlightInv /\ OnceInv
        /\ DiscardInv /\ AnswerMatchesCall

-------------------------------------------------------------------------------
(* The steps, sorted by what they do to requests and answers.               *)

NewRequest == Open \/ Command \/ VersionQuery \/ Disconnect \/ Close
Leave == Reopen \/ LeaveLoop
Returns == WriteFails \/ TimedOut \/ WakeReturn
Quiet == /\ mainPc' = mainPc \/ {mainPc, mainPc'} \subseteq {"asleep", "expired", "woken"}
         /\ rdPc' = "recv" => rdPc = "recv"
         /\ UNCHANGED <<caller, slots, last, rdMsg, modem>>

\* Every step is one of these.
LEMMA StepKinds ==
  ASSUME [Next]_vars
  PROVE  \/ NewRequest \/ Leave \/ Send \/ Returns \/ Quiet \/ Read \/ RecvAnswer \/ RecvOther
         \/ \E r \in toModem : Serve(r) \/ Ignore(r)
<1>1. CASE SliceExpires \/ SpuriousWakeup \/ NextSlice \/ Hangup \/ UNCHANGED vars
  BY <1>1 DEF SliceExpires, SpuriousWakeup, NextSlice, Hangup, vars, Quiet, caller, slots, modem,
     reader
<1>2. CASE RecvAbort
  BY <1>2 DEF RecvAbort, Abort, Signal, Quiet, caller, slots, modem
<1>3. QED
  BY <1>1, <1>2 DEF Next, Caller, SendStep, ReaderStep, Modem, NewRequest, Leave, Returns

\* Every answer in the device has a type, and its fields have.
LEMMA AnswerTypes ==
  ASSUME TypeOK
  PROVE  /\ pipe \in Seq(Answer) /\ Len(pipe) \in Nat /\ DOMAIN pipe = 1..Len(pipe)
         /\ \A i \in DOMAIN pipe : pipe[i] \in Answer
         /\ Answers \subseteq Answer /\ InFlight \subseteq Request
         /\ \A a \in Answer : a.to \in Request
         /\ \A x \in Request : /\ x.n \in 1..MaxCalls /\ x.tid \in Nat
                              /\ x.epoch \in Nat /\ x.kind \in Kinds
<1>1. pipe \in Seq(Answer) /\ Len(pipe) \in Nat /\ DOMAIN pipe = 1..Len(pipe)
  BY LenProperties DEF TypeOK
<1>2. \A i \in DOMAIN pipe : pipe[i] \in Answer
  BY <1>1, ElementOfSeq
<1>3. Answers \subseteq Answer
  BY <1>2 DEF TypeOK, Maybe, Answers
<1>4. \A a \in Answer : a.to \in Request
  BY DEF Answer
<1>5. InFlight \subseteq Request
  BY <1>3, <1>4 DEF TypeOK, InFlight
<1>6. \A x \in Request : /\ x.n \in 1..MaxCalls /\ x.tid \in Nat
                       /\ x.epoch \in Nat /\ x.kind \in Kinds
  BY DEF Request
<1>7. QED
  BY <1>1, <1>2, <1>3, <1>4, <1>5, <1>6

\* The reader takes the oldest answer.
LEMMA ReadEffect ==
  ASSUME TypeOK, Read
  PROVE  /\ pipe' \in Seq(Answer) /\ rdMsg' \in Answer /\ rdMsg' = pipe[1] /\ 1 \in DOMAIN pipe
         /\ DOMAIN pipe' = 1..(Len(pipe)-1)
         /\ \A i \in DOMAIN pipe' : i+1 \in DOMAIN pipe /\ pipe'[i] = pipe[i+1]
         /\ Answers' \subseteq Answers /\ InFlight' \subseteq InFlight
<1>1. pipe \in Seq(Answer) /\ pipe # <<>> /\ pipe' = Tail(pipe) /\ rdMsg' = Head(pipe)
  BY DEF TypeOK, Read
<1>2. /\ Head(pipe) \in Answer /\ Tail(pipe) \in Seq(Answer) /\ Len(Tail(pipe)) = Len(pipe)-1
      /\ \A i \in 1..Len(Tail(pipe)) : Tail(pipe)[i] = pipe[i+1]
  BY <1>1, HeadTailProperties
<1>3. Len(pipe) \in Nat \ {0} /\ DOMAIN pipe = 1..Len(pipe)
  BY <1>1, EmptySeq, LenProperties
<1>4. DOMAIN Tail(pipe) = 1..(Len(pipe)-1)
  BY <1>2, LenProperties
<1>5. Head(pipe) = pipe[1]
  BY <1>1
<1>6. \A i \in DOMAIN pipe' : i+1 \in DOMAIN pipe /\ pipe'[i] = pipe[i+1]
  BY <1>1, <1>2, <1>3, <1>4
<1>7. Answers' \subseteq Answers
  <2>1. pResponse' = pResponse
    BY DEF Read, slots
  <2>2. \A i \in DOMAIN pipe' : pipe'[i] \in Answers
    BY <1>6 DEF Answers
  <2>3. rdMsg' \in Answers
    BY <1>1, <1>3, <1>5 DEF Answers
  <2>4. QED
    BY <2>1, <2>2, <2>3 DEF Answers
<1>8. InFlight' \subseteq InFlight
  BY <1>7 DEF Read, InFlight
<1>9. QED
  BY <1>1, <1>2, <1>3, <1>4, <1>5, <1>6, <1>7, <1>8

\* The modem puts its answer behind the others.
LEMMA ServeEffect ==
  ASSUME TypeOK, NEW r \in toModem, Serve(r)
  PROVE  /\ pipe' \in Seq(Answer) /\ DOMAIN pipe' = 1..(Len(pipe)+1)
         /\ \A i \in DOMAIN pipe : i \in DOMAIN pipe' /\ pipe'[i] = pipe[i]
         /\ pipe'[Len(pipe)+1] \in Answer /\ pipe'[Len(pipe)+1].to = r
         /\ Answers' = Answers \cup {pipe'[Len(pipe)+1]}
         /\ toModem' \subseteq toModem \ {r} /\ InFlight' \subseteq InFlight
<1>1. PICK v \in Verdicts : pipe' = Append(pipe, [to |-> r, verdict |-> v])
  BY DEF Serve
<1> DEFINE a == [to |-> r, verdict |-> v]
<1>2. a \in Answer /\ a.to = r
  BY DEF TypeOK, Answer
<1>3. pipe \in Seq(Answer) /\ Len(pipe) \in Nat /\ DOMAIN pipe = 1..Len(pipe)
  BY AnswerTypes
<1> HIDE DEF a
<1>4. /\ pipe' \in Seq(Answer) /\ Len(pipe') = Len(pipe)+1
      /\ \A i \in 1..Len(pipe) : pipe'[i] = pipe[i]
      /\ pipe'[Len(pipe)+1] = a
  BY <1>1, <1>2, <1>3, AppendProperties DEF a
<1>5. DOMAIN pipe' = 1..(Len(pipe)+1)
  BY <1>4, LenProperties
<1>6. pResponse' = pResponse /\ rdMsg' = rdMsg
  BY DEF Serve, slots, reader
<1>7. Answers' = Answers \cup {a}
  <2>1. \A i \in DOMAIN pipe' : pipe'[i] \in Answers \cup {a}
    BY <1>3, <1>4, <1>5 DEF Answers
  <2>2. a \in Answers'
    BY <1>3, <1>4, <1>5 DEF Answers
  <2>3. \A i \in DOMAIN pipe : pipe[i] \in Answers'
    BY <1>3, <1>4, <1>5 DEF Answers
  <2>4. QED
    BY <1>6, <2>1, <2>2, <2>3 DEF Answers
<1>8. toModem' \subseteq toModem \ {r}
  BY DEF Serve
<1>9. InFlight' \subseteq InFlight
  BY <1>2, <1>7, <1>8 DEF InFlight
<1>10. QED
  BY <1>2, <1>3, <1>4, <1>5, <1>7, <1>8, <1>9

\* The other steps bring no answer; Send brings a request.
LEMMA QuietEffect ==
  ASSUME NewRequest \/ Leave \/ Quiet
  PROVE  /\ UNCHANGED <<pipe, rdMsg, slots, toModem, served, last>>
         /\ Answers' = Answers /\ InFlight' = InFlight
<1>1. UNCHANGED <<pipe, rdMsg, slots, toModem, served, last>>
  BY DEF NewRequest, Leave, Quiet, Open, Command, VersionQuery, Disconnect, Close, Compose,
     Reopen, LeaveLoop, modem, reader, slots
<1>2. QED
  BY <1>1 DEF Answers, InFlight, slots

\* mbim_send_command only brings its own request on the way.
LEMMA SendEffect ==
  ASSUME Send
  PROVE  Answers' \subseteq Answers /\ InFlight' \subseteq InFlight \cup {req}
<1>1. UNCHANGED <<pipe, rdMsg>> /\ pResponse' = NULL /\ toModem' = toModem \cup {req}
  BY DEF Send, reader
<1>2. Answers' \subseteq Answers
  BY <1>1 DEF Answers
<1>3. QED
  BY <1>1, <1>2 DEF InFlight

\* A return clears the slots and hands over nothing but the answer it was woken with.
LEMMA ReturnsEffect ==
  ASSUME Returns
  PROVE  /\ UNCHANGED <<TransactionId, calls, epoch, req, pipe, rdMsg, rdPc, toModem, served>>
         /\ pRequest' = NULL /\ pResponse' = NULL /\ mainPc # "idle" /\ mainPc' = "idle"
         /\ Answers' \subseteq Answers /\ InFlight' \subseteq InFlight
         /\ last'.req = req
         /\ last'.rsp = NULL \/ (mainPc = "woken" /\ last'.rsp = pResponse)
         /\ \/ phase' = phase /\ (phase = "open" /\ req.kind # "version" => ~Failed(last'.ret, last'.rsp))
            \/ phase = "open" /\ phase' = "exit"
<1>1. PICK ret \in {"EIO", "ETIMEDOUT", "ok"}, rsp \in {NULL, pResponse} :
        /\ Return(ret, rsp) /\ UNCHANGED <<slice, reader, modem>>
        /\ mainPc \in {"lock", "expired", "woken"} /\ (rsp # NULL => mainPc = "woken")
  BY DEF Returns, WriteFails, TimedOut, WakeReturn
<1>2. UNCHANGED <<pipe, rdMsg, rdPc, toModem, served>>
  BY <1>1 DEF reader, modem
<1>3. Answers' \subseteq Answers
  BY <1>1, <1>2 DEF Return, ClearSlots, Answers
<1>4. InFlight' \subseteq InFlight
  BY <1>2, <1>3 DEF InFlight
<1>5. last'.req = req /\ last'.rsp = rsp /\ last'.ret = ret
  BY <1>1 DEF Return
<1>6. \/ phase' = phase /\ (phase = "open" /\ req.kind # "version" => ~Failed(ret, rsp))
      \/ phase = "open" /\ phase' = "exit"
  BY <1>1 DEF Return
<1>7. last'.rsp = NULL \/ (mainPc = "woken" /\ last'.rsp = pResponse)
  BY <1>1, <1>5
<1>8. \/ phase' = phase /\ (phase = "open" /\ req.kind # "version" => ~Failed(last'.ret, last'.rsp))
      \/ phase = "open" /\ phase' = "exit"
  BY <1>5, <1>6
<1>9. /\ UNCHANGED <<TransactionId, calls, epoch, req>> /\ mainPc' = "idle" /\ mainPc # "idle"
      /\ pRequest' = NULL /\ pResponse' = NULL
  BY <1>1 DEF Return, ClearSlots
<1>10. QED
  BY <1>2, <1>3, <1>4, <1>5, <1>7, <1>8, <1>9

\* mbim_recv_command consumes the message read, and may hand it to the waiting caller.
LEMMA RecvEffect ==
  ASSUME RecvAnswer \/ RecvOther
  PROVE  /\ UNCHANGED <<caller, pRequest, last, modem>>
         /\ rdPc' = "poll" /\ rdMsg' = NULL
         /\ Answers' \subseteq Answers /\ InFlight' \subseteq InFlight
         /\ mainPc' = mainPc \/ (mainPc = "asleep" /\ mainPc' = "woken")
         /\ pResponse' = pResponse \/ (RecvAnswer /\ pResponse' = rdMsg)
<1>1. /\ UNCHANGED <<caller, pRequest, last, modem>>
      /\ rdPc' = "poll" /\ rdMsg' = NULL
      /\ mainPc' = mainPc \/ (mainPc = "asleep" /\ mainPc' = "woken")
      /\ pResponse' = pResponse \/ (RecvAnswer /\ pResponse' = rdMsg)
  <2>1. CASE RecvAnswer
    BY <2>1 DEF RecvAnswer, Signal
  <2>2. CASE RecvOther
    BY <2>2 DEF RecvOther, slots
  <2>3. QED
    BY <2>1, <2>2
<1>2. Answers' \subseteq Answers
  BY <1>1 DEF Answers, modem
<1>3. QED
  BY <1>1, <1>2 DEF InFlight, modem

\* A request the modem ignores changes nothing else.
LEMMA IgnoreEffect ==
  ASSUME NEW r \in toModem, Ignore(r)
  PROVE  /\ UNCHANGED <<pipe, rdMsg, slots, served, last, caller, mainPc, rdPc>>
         /\ Answers' = Answers /\ InFlight' \subseteq InFlight /\ toModem' \subseteq toModem
<1>1. /\ UNCHANGED <<pipe, rdMsg, slots, served, last, caller, mainPc, rdPc>>
      /\ toModem' \subseteq toModem
  BY DEF Ignore, reader
<1>2. QED
  BY <1>1 DEF Answers, InFlight, slots

-------------------------------------------------------------------------------
(* IInv is inductive.                                                       *)

\* The invariant holds before the modem is opened.
LEMMA InitIInv == Init => IInv
<1> SUFFICES ASSUME Init PROVE IInv
  OBVIOUS
<1>1. Answers = {} /\ InFlight = {}
  BY EmptySeq DEF Init, Answers, InFlight
<1>2. TypeOK
  <2>1. pipe \in Seq(Answer) /\ slice \in 1..Slices
    BY EmptySeq, Constants DEF Init
  <2>2. last.req = NULL /\ last.rsp = NULL /\ last.ret = "none"
    BY DEF Init
  <2>3. /\ TransactionId \in Nat \ {0} /\ calls \in 0..MaxCalls /\ epoch \in 0..calls
        /\ phase = "closed" /\ mainPc = "idle" /\ rdPc = "poll"
        /\ req = NULL /\ pRequest = NULL /\ pResponse = NULL /\ rdMsg = NULL
        /\ toModem = {} /\ served = {}
    BY Constants DEF Init
  <2>4. open_state \in BOOLEAN
    BY DEF Init
  <2>5. QED
    BY <2>1, <2>2, <2>3, <2>4 DEF TypeOK, Maybe
<1>3. ReqInv /\ SlotInv /\ FlightInv /\ AnswerMatchesCall
  BY <1>1 DEF Init, ReqInv, SlotInv, FlightInv, AnswerMatchesCall
<1>4. OnceInv /\ OldInv /\ LoopInv /\ OrderInv
  BY <1>1, EmptySeq DEF Init, OnceInv, OldInv, LoopInv, OrderInv
<1>5. QED
  BY <1>2, <1>3, <1>4 DEF IInv, DiscardInv

\* A new request has the type of a request.
LEMMA ComposeType ==
  ASSUME TypeOK, NEW kind \in Kinds, NEW tid \in Nat, NEW ep \in Nat, Compose(kind, tid, ep)
  PROVE  /\ req' \in Request /\ req' # NULL /\ calls' \in 0..MaxCalls /\ calls' = calls + 1
         /\ TransactionId' \in Nat \ {0} /\ mainPc' = "lock"
         /\ UNCHANGED <<slice, slots, last, reader, modem>>
<1>1. req' \in Request /\ calls' \in 0..MaxCalls /\ calls' = calls + 1
  BY Constants DEF Compose, TypeOK, Request
<1>2. QED
  BY <1>1, NullIsNothing DEF Compose

\* Every step preserves the types.
LEMMA TypeStep == TypeOK /\ [Next]_vars => TypeOK'
<1> SUFFICES ASSUME TypeOK, [Next]_vars PROVE TypeOK'
  OBVIOUS
<1> USE DEF slots, modem, reader
<1>1. CASE NewRequest
  <2>1. PICK kind \in Kinds, tid \in Nat, ep \in Nat :
          /\ Compose(kind, tid, ep) /\ epoch' \in 0..calls+1 /\ open_state' \in BOOLEAN
          /\ phase' \in {"closed", "open", "exit", "closing", "gone"}
    <3>1. Kinds = {"open", "command", "version", "close"}
      BY DEF Kinds
    <3>2. TransactionId \in Nat /\ epoch \in 0..calls /\ calls \in Nat /\ 1 \in Nat
          /\ epoch \in Nat /\ epoch + 1 \in Nat /\ epoch + 1 \in 0..calls+1 /\ epoch \in 0..calls+1
      BY DEF TypeOK
    <3>3. open_state \in BOOLEAN /\ phase \in {"closed", "open", "exit", "closing", "gone"}
      BY DEF TypeOK
    <3>4. CASE Open
      BY <3>1, <3>2, <3>4 DEF Open
    <3>5. CASE Command
      BY <3>1, <3>2, <3>3, <3>5 DEF Command
    <3>6. CASE VersionQuery
      BY <3>1, <3>2, <3>3, <3>6 DEF VersionQuery
    <3>7. CASE Disconnect
      BY <3>1, <3>2, <3>3, <3>7 DEF Disconnect
    <3>8. CASE Close
      BY <3>1, <3>2, <3>3, <3>8 DEF Close
    <3>9. QED
      BY <1>1, <3>4, <3>5, <3>6, <3>7, <3>8 DEF NewRequest
  <2>2. /\ req' \in Request /\ req' # NULL /\ calls' \in 0..MaxCalls /\ calls' = calls + 1
        /\ TransactionId' \in Nat \ {0} /\ mainPc' = "lock"
        /\ UNCHANGED <<slice, slots, last, reader, modem>>
    BY <2>1, ComposeType
  <2>3. QED
    BY <2>1, <2>2 DEF TypeOK, Maybe
<1>2. CASE Leave
  BY <1>2 DEF Leave, Reopen, LeaveLoop, TypeOK
<1>3. CASE Send
  BY <1>3, Constants DEF Send, caller, TypeOK, Maybe
<1>4. CASE Returns
  <2>1. PICK ret \in {"EIO", "ETIMEDOUT", "ok"}, rsp \in {NULL, pResponse} :
          Return(ret, rsp) /\ UNCHANGED <<slice, reader, modem>>
    BY <1>4 DEF Returns, WriteFails, TimedOut, WakeReturn
  <2>2. /\ last'.req = req /\ last'.rsp = rsp /\ last'.ret = ret
        /\ mainPc' = "idle" /\ pRequest' = NULL /\ pResponse' = NULL
        /\ UNCHANGED <<TransactionId, calls, epoch, req>>
    BY <2>1 DEF Return, ClearSlots
  <2>3. open_state' \in BOOLEAN /\ phase' \in {"closed", "open", "exit", "closing", "gone"}
    <3>1. open_state' \in BOOLEAN
      BY <2>1 DEF Return
    <3>2. phase' \in {"closed", "open", "exit", "closing", "gone"}
      BY <2>1 DEF Return, TypeOK
    <3>3. QED
      BY <3>1, <3>2
  <2>4. QED
    BY <2>1, <2>2, <2>3 DEF TypeOK, Maybe
<1>5. CASE Read
  <2>1. pipe' \in Seq(Answer) /\ rdMsg' \in Answer
    BY <1>5, ReadEffect
  <2>2. QED
    BY <1>5, <2>1 DEF Read, caller, TypeOK, Maybe
<1>6. CASE RecvAnswer
  BY <1>6 DEF RecvAnswer, Signal, caller, TypeOK, Maybe
<1>7. CASE RecvOther
  BY <1>7 DEF RecvOther, caller, TypeOK, Maybe
<1>8. ASSUME NEW r \in toModem, Serve(r) PROVE TypeOK'
  <2>1. pipe' \in Seq(Answer) /\ toModem' \subseteq toModem
    BY <1>8, ServeEffect
  <2>2. r.n \in 1..MaxCalls
    BY AnswerTypes DEF TypeOK
  <2>3. QED
    BY <1>8, <2>1, <2>2 DEF Serve, caller, TypeOK
<1>9. ASSUME NEW r \in toModem, Ignore(r) PROVE TypeOK'
  BY <1>9 DEF Ignore, caller, TypeOK
<1>10. CASE SliceExpires \/ SpuriousWakeup \/ NextSlice \/ Hangup
  <2>1. slice' \in 1..Slices
    BY <1>10, Constants DEF SliceExpires, SpuriousWakeup, NextSlice, Hangup, TypeOK
  <2>2. QED
    BY <1>10, <2>1 DEF SliceExpires, SpuriousWakeup, NextSlice, Hangup, caller, TypeOK
<1>11. CASE RecvAbort
  BY <1>11 DEF RecvAbort, Abort, Signal, caller, TypeOK
<1>12. CASE UNCHANGED vars
  BY <1>12 DEF vars, caller, TypeOK
<1>13. QED
  BY <1>1, <1>2, <1>3, <1>4, <1>5, <1>6, <1>7, <1>8, <1>9, <1>10, <1>11, <1>12
  DEF Next, Caller, SendStep, ReaderStep, Modem, NewRequest, Leave, Returns

\* The request in progress stays the latest.
LEMMA ReqStep == IInv /\ [Next]_vars => ReqInv'
<1> SUFFICES ASSUME IInv, [Next]_vars PROVE ReqInv'
  OBVIOUS
<1>0. TypeOK /\ ReqInv
  BY DEF IInv
<1>1. CASE Open
  BY <1>0, <1>1, NullIsNothing DEF Open, Compose, ReqInv, TypeOK
<1>2. CASE Command
  BY <1>0, <1>2 DEF Command, Compose, ReqInv, TypeOK
<1>3. CASE VersionQuery
  BY <1>0, <1>3 DEF VersionQuery, Compose, ReqInv, TypeOK, VersionTid
<1>4. CASE Disconnect
  BY <1>0, <1>4 DEF Disconnect, Compose, ReqInv, TypeOK
<1>5. CASE Close
  BY <1>0, <1>5 DEF Close, Compose, ReqInv, TypeOK
<1>6. CASE Leave
  BY <1>0, <1>6 DEF Leave, Reopen, LeaveLoop, AtLoopHead, ReqInv
<1>7. CASE Send
  BY <1>0, <1>7 DEF Send, caller, ReqInv
<1>8. CASE Returns
  BY <1>0, <1>8, ReturnsEffect DEF ReqInv
<1>9. CASE Quiet
  BY <1>0, <1>9 DEF Quiet, caller, ReqInv
<1>10. CASE Read
  BY <1>0, <1>10 DEF Read, caller, ReqInv
<1>11. CASE RecvAnswer \/ RecvOther
  <2>1. UNCHANGED caller /\ (mainPc' # "idle" => mainPc # "idle")
    BY <1>11, RecvEffect
  <2>2. QED
    BY <1>0, <2>1 DEF caller, ReqInv
<1>12. ASSUME NEW r \in toModem, Serve(r) \/ Ignore(r) PROVE ReqInv'
  BY <1>0, <1>12 DEF Serve, Ignore, caller, ReqInv
<1>13. QED
  BY <1>1, <1>2, <1>3, <1>4, <1>5, <1>6, <1>7, <1>8, <1>9, <1>10, <1>11, <1>12, StepKinds
  DEF NewRequest

\* The slots stay with the command in progress.
LEMMA SlotStep == IInv /\ [Next]_vars => SlotInv'
<1> SUFFICES ASSUME IInv, [Next]_vars PROVE SlotInv'
  OBVIOUS
<1>0. TypeOK /\ SlotInv
  BY DEF IInv
<1>1. CASE NewRequest
  <2>1. UNCHANGED <<slots, rdPc, rdMsg>> /\ mainPc = "idle"
    BY <1>1 DEF NewRequest, Open, Command, VersionQuery, Disconnect, Close, Compose, reader
  <2>2. QED
    BY <1>0, <2>1 DEF SlotInv, slots
<1>2. CASE Leave
  BY <1>0, <1>2 DEF Leave, Reopen, LeaveLoop, slots, reader, SlotInv
<1>3. CASE Send
  BY <1>0, <1>3 DEF Send, caller, reader, SlotInv
<1>4. CASE Returns
  BY <1>0, <1>4, ReturnsEffect DEF SlotInv
<1>5. CASE Quiet
  <2>1. /\ UNCHANGED <<req, slots, rdMsg>> /\ (rdPc' = "recv" => rdPc = "recv")
        /\ mainPc \notin {"idle", "lock"} => mainPc' \notin {"idle", "lock"}
    BY <1>5 DEF Quiet, caller
  <2>2. QED
    BY <1>0, <2>1 DEF SlotInv, slots
<1>6. CASE Read
  <2>1. rdMsg' # NULL
    BY <1>0, <1>6, ReadEffect, NullIsNothing
  <2>2. QED
    BY <1>0, <1>6, <2>1 DEF Read, caller, slots, SlotInv
<1>7. CASE RecvAnswer
  BY <1>0, <1>7 DEF RecvAnswer, Matches, Signal, caller, SlotInv
<1>8. CASE RecvOther
  BY <1>0, <1>8 DEF RecvOther, caller, slots, SlotInv
<1>9. ASSUME NEW r \in toModem, Serve(r) \/ Ignore(r) PROVE SlotInv'
  BY <1>0, <1>9 DEF Serve, Ignore, caller, slots, reader, SlotInv
<1>10. QED
  BY <1>1, <1>2, <1>3, <1>4, <1>5, <1>6, <1>7, <1>8, <1>9, StepKinds

\* Ids keep in step with serial numbers.
LEMMA FlightStep == IInv /\ [Next]_vars => FlightInv'
<1> SUFFICES ASSUME IInv, [Next]_vars PROVE FlightInv'
  OBVIOUS
<1>0. TypeOK /\ ReqInv /\ FlightInv /\ OnceInv
  BY DEF IInv
<1>1. \A x \in InFlight : x.n \in Nat /\ x.tid \in Nat /\ x.epoch \in Nat
  BY <1>0, AnswerTypes
<1>2. calls \in Nat /\ epoch \in Nat /\ TransactionId \in Nat
  BY <1>0 DEF TypeOK
<1>3. CASE NewRequest
  <2>1. InFlight' = InFlight /\ calls' = calls + 1
    BY <1>3, QuietEffect DEF NewRequest, Open, Command, VersionQuery, Disconnect, Close, Compose
  <2>2. \/ epoch' = epoch + 1
        \/ epoch' = epoch /\ TransactionId' = TransactionId + 1
    BY <1>3 DEF NewRequest, Open, Command, VersionQuery, Disconnect, Close, Compose
  <2>3. QED
    BY <1>0, <1>1, <1>2, <2>1, <2>2 DEF FlightInv
<1>4. CASE Send
  <2>1. InFlight' \subseteq InFlight \cup {req} /\ UNCHANGED caller /\ mainPc' = "asleep"
    BY <1>4, SendEffect DEF Send
  <2>2. req # NULL /\ req \in Request
    BY <1>0, <1>4 DEF Send, TypeOK, Maybe
  <2>3. req.n = calls /\ req.epoch = epoch /\ req.tid = TransactionId - 1
        /\ (req.tid = 1 => req.kind = "open")
    BY <1>0, <2>2 DEF ReqInv
  <2>4. QED
    BY <1>0, <1>2, <2>1, <2>3 DEF FlightInv, caller
<1>5. CASE Leave
  <2>1. InFlight' = InFlight /\ UNCHANGED <<TransactionId, calls, epoch, mainPc>>
    BY <1>5, QuietEffect DEF Leave, Reopen, LeaveLoop
  <2>2. QED
    BY <1>0, <2>1 DEF FlightInv
<1>6. CASE ~(NewRequest \/ Send \/ Leave)
  <2>1. InFlight' \subseteq InFlight
    BY <1>0, <1>6, StepKinds, QuietEffect, ReturnsEffect, ReadEffect, RecvEffect, ServeEffect,
       IgnoreEffect
  <2>2. UNCHANGED <<TransactionId, calls, epoch>> /\ (mainPc' = "lock" => mainPc = "lock")
    <3>1. CASE Returns
      BY <3>1, ReturnsEffect
    <3>2. CASE Quiet
      BY <3>2 DEF Quiet, caller
    <3>3. CASE Read
      BY <3>3 DEF Read, caller
    <3>4. CASE RecvAnswer \/ RecvOther
      BY <3>4, RecvEffect DEF caller
    <3>5. ASSUME NEW r \in toModem, Serve(r) \/ Ignore(r)
          PROVE  UNCHANGED <<TransactionId, calls, epoch, mainPc>>
      BY <3>5 DEF Serve, Ignore, caller
    <3>6. QED
      BY <1>6, <3>1, <3>2, <3>3, <3>4, <3>5, StepKinds
  <2>3. QED
    BY <1>0, <2>1, <2>2 DEF FlightInv
<1>7. QED
  BY <1>3, <1>4, <1>5, <1>6

\* Every answer is in one place only.
LEMMA OnceStep == IInv /\ [Next]_vars => OnceInv'
<1> SUFFICES ASSUME IInv, [Next]_vars PROVE OnceInv'
  OBVIOUS
<1>0. TypeOK /\ ReqInv /\ SlotInv /\ FlightInv /\ OnceInv
  BY DEF IInv
<1>1. /\ calls \in Nat /\ served \subseteq Nat
      /\ \A x \in InFlight : x.n \in Nat
      /\ \A a \in Answers : a.to \in InFlight
      /\ \A i \in DOMAIN pipe : pipe[i] \in Answers
      /\ toModem \subseteq InFlight
      /\ Len(pipe) \in Nat /\ DOMAIN pipe = 1..Len(pipe)
  BY <1>0, AnswerTypes DEF TypeOK, Answers, InFlight
<1>2. rdMsg # NULL => rdMsg \in Answers
  BY DEF Answers
<1>3. pResponse # NULL => pResponse \in Answers
  BY DEF Answers
<1>4. CASE NewRequest
  <2>1. UNCHANGED <<pipe, rdMsg, slots, toModem, served>> /\ Answers' = Answers
    BY <1>4, QuietEffect
  <2>2. calls' = calls + 1
    BY <1>4 DEF NewRequest, Open, Command, VersionQuery, Disconnect, Close, Compose
  <2>3. QED
    BY <1>0, <1>1, <2>1, <2>2 DEF OnceInv, slots
<1>5. CASE Leave \/ Quiet
  <2>1. UNCHANGED <<pipe, rdMsg, slots, toModem, served>> /\ Answers' = Answers
    BY <1>5, QuietEffect
  <2>2. calls' = calls /\ (mainPc' = "lock" => mainPc = "lock")
    BY <1>5 DEF Leave, Reopen, LeaveLoop, Quiet, caller
  <2>3. QED
    BY <1>0, <2>1, <2>2 DEF OnceInv, slots
<1>6. CASE Send
  <2>1. /\ UNCHANGED <<calls, served, pipe, rdMsg>> /\ pResponse' = NULL
        /\ toModem' = toModem \cup {req} /\ mainPc = "lock" /\ mainPc' = "asleep"
    BY <1>6 DEF Send, caller, reader
  <2>2. req.n = calls
    BY <1>0, <2>1 DEF TypeOK, ReqInv
  <2>3. req.n \notin served /\ \A x \in InFlight : x.n # req.n
    BY <1>0, <1>1, <2>1, <2>2 DEF OnceInv, FlightInv
  <2>4. \A r \in toModem' : r.n \notin served' /\ (\A s \in toModem' : s.n = r.n => s = r)
    BY <1>0, <1>1, <2>1, <2>3 DEF OnceInv
  <2>5. Answers' \subseteq Answers
    BY <1>6, SendEffect
  <2>6. QED
    BY <1>0, <2>1, <2>4, <2>5 DEF OnceInv
<1>7. CASE Returns
  <2>1. /\ UNCHANGED <<calls, served, pipe, rdMsg, toModem>> /\ pResponse' = NULL
        /\ mainPc' = "idle" /\ Answers' \subseteq Answers
    BY <1>7, ReturnsEffect
  <2>2. QED
    BY <1>0, <2>1 DEF OnceInv
<1>8. CASE Read
  <2>1. /\ UNCHANGED <<calls, served, toModem, pResponse, mainPc>>
    BY <1>8 DEF Read, caller, slots
  <2>2. /\ rdMsg' = pipe[1] /\ 1 \in DOMAIN pipe /\ Answers' \subseteq Answers
        /\ DOMAIN pipe' = 1..(Len(pipe)-1)
        /\ \A i \in DOMAIN pipe' : i+1 \in DOMAIN pipe /\ pipe'[i] = pipe[i+1]
    BY <1>0, <1>8, ReadEffect
  <2>3. \A i, j \in DOMAIN pipe' : pipe'[i].to.n = pipe'[j].to.n => i = j
    <3>1. SUFFICES ASSUME NEW i \in DOMAIN pipe', NEW j \in DOMAIN pipe',
                          pipe'[i].to.n = pipe'[j].to.n
                   PROVE  i = j
      OBVIOUS
    <3>2. i+1 = j+1
      BY <1>0, <2>2, <3>1 DEF OnceInv
    <3>3. QED
      BY <2>2, <3>2
  <2>4. \A i \in DOMAIN pipe' : pipe'[i].to.n # rdMsg'.to.n
    <3>1. SUFFICES ASSUME NEW i \in DOMAIN pipe', pipe'[i].to.n = rdMsg'.to.n PROVE FALSE
      OBVIOUS
    <3>2. i+1 = 1
      BY <1>0, <2>2, <3>1 DEF OnceInv
    <3>3. QED
      BY <2>2, <3>2
  <2>5. pResponse' # NULL => /\ \A i \in DOMAIN pipe' : pipe'[i].to.n # pResponse'.to.n
                             /\ rdMsg'.to.n # pResponse'.to.n
    BY <1>0, <2>1, <2>2 DEF OnceInv
  <2>6. QED
    BY <1>0, <2>1, <2>2, <2>3, <2>4, <2>5 DEF OnceInv
<1>9. CASE RecvAnswer \/ RecvOther
  <2>1. /\ UNCHANGED <<calls, served, toModem, pipe>> /\ rdMsg' = NULL /\ Answers' \subseteq Answers
        /\ pResponse' = pResponse \/ (RecvAnswer /\ pResponse' = rdMsg)
        /\ mainPc' = "lock" => mainPc = "lock"
    BY <1>9, RecvEffect DEF caller, modem
  <2>2. RecvAnswer => rdMsg # NULL
    BY <1>0 DEF RecvAnswer, SlotInv
  <2>3. QED
    BY <1>0, <2>1, <2>2 DEF OnceInv
<1>10. ASSUME NEW r \in toModem, Serve(r) PROVE OnceInv'
  <2>1. UNCHANGED <<calls, mainPc, rdMsg, pResponse>> /\ served' = served \cup {r.n}
    BY <1>10 DEF Serve, caller, slots, reader
  <2> DEFINE k == Len(pipe)+1
  <2>2. /\ DOMAIN pipe' = 1..k
        /\ \A i \in DOMAIN pipe : pipe'[i] = pipe[i]
        /\ pipe'[k].to = r /\ Answers' = Answers \cup {pipe'[k]} /\ toModem' \subseteq toModem \ {r}
    BY <1>0, <1>10, ServeEffect
  <2>3. r.n \notin served /\ r.n <= calls /\ (mainPc = "lock" => r.n < calls)
    BY <1>0, <1>1 DEF OnceInv, FlightInv
  <2>4. \A n \in served' : n <= calls' /\ (mainPc' = "lock" => n < calls')
    BY <1>0, <2>1, <2>3 DEF OnceInv
  <2>5. \A s \in toModem' : s.n \notin served' /\ (\A t \in toModem' : t.n = s.n => t = s)
    BY <1>0, <2>1, <2>2 DEF OnceInv
  <2>6. \A a \in Answers' : a.to.n \in served'
    BY <1>0, <2>1, <2>2 DEF OnceInv
  <2>7. \A a \in Answers : a.to.n # pipe'[k].to.n
    BY <1>0, <2>2, <2>3 DEF OnceInv
  <2>8. \A i \in DOMAIN pipe' : i = k \/ (i \in DOMAIN pipe /\ pipe'[i] \in Answers)
    BY <1>1, <2>2
  <2>9. \A i, j \in DOMAIN pipe' : pipe'[i].to.n = pipe'[j].to.n => i = j
    <3>1. SUFFICES ASSUME NEW i \in DOMAIN pipe', NEW j \in DOMAIN pipe',
                          pipe'[i].to.n = pipe'[j].to.n
                   PROVE  i = j
      OBVIOUS
    <3>2. CASE i = k \/ j = k
      BY <2>7, <2>8, <3>1, <3>2
    <3>3. CASE i # k /\ j # k
      <4>1. i \in DOMAIN pipe /\ j \in DOMAIN pipe /\ pipe'[i] = pipe[i] /\ pipe'[j] = pipe[j]
        BY <2>2, <2>8, <3>3
      <4>2. QED
        BY <1>0, <3>1, <4>1 DEF OnceInv
    <3>4. QED
      BY <3>2, <3>3
  <2>10. rdMsg' # NULL => \A i \in DOMAIN pipe' : pipe'[i].to.n # rdMsg'.to.n
    <3>1. SUFFICES ASSUME rdMsg # NULL, NEW i \in DOMAIN pipe' PROVE pipe'[i].to.n # rdMsg.to.n
      BY <2>1
    <3>2. QED
      BY <1>0, <1>2, <2>2, <2>7, <2>8, <3>1 DEF OnceInv
  <2>11. pResponse' # NULL => /\ \A i \in DOMAIN pipe' : pipe'[i].to.n # pResponse'.to.n
                              /\ rdMsg' # NULL => rdMsg'.to.n # pResponse'.to.n
    <3>1. SUFFICES ASSUME pResponse # NULL
                   PROVE  /\ \A i \in DOMAIN pipe' : pipe'[i].to.n # pResponse.to.n
                          /\ rdMsg # NULL => rdMsg.to.n # pResponse.to.n
      BY <2>1
    <3>2. \A i \in DOMAIN pipe' : pipe'[i].to.n # pResponse.to.n
      BY <1>0, <1>3, <2>2, <2>7, <2>8, <3>1 DEF OnceInv
    <3>3. QED
      BY <1>0, <3>1, <3>2 DEF OnceInv
  <2> HIDE DEF k
  <2>12. QED
    BY <2>4, <2>5, <2>6, <2>9, <2>10, <2>11 DEF OnceInv
<1>11. ASSUME NEW r \in toModem, Ignore(r) PROVE OnceInv'
  <2>1. /\ UNCHANGED <<pipe, rdMsg, pResponse, served, calls, mainPc>>
        /\ Answers' = Answers /\ toModem' \subseteq toModem
    BY <1>11, IgnoreEffect DEF slots, caller
  <2>2. QED
    BY <1>0, <2>1 DEF OnceInv
<1>12. QED
  BY <1>4, <1>5, <1>6, <1>7, <1>8, <1>9, <1>10, <1>11, StepKinds

\* The stored answer is to the command in progress; only a modem that keeps requests over
\* an open can have answered an older one.
LEMMA StoredAnswer ==
  ASSUME IInv, pResponse # NULL
  PROVE  /\ req # NULL /\ pResponse \in Answers /\ pResponse.to \in InFlight
         /\ pResponse.to.tid = req.tid /\ req.n = calls /\ req.epoch = epoch
         /\ Discards => pResponse.to.epoch = epoch
         /\ pResponse.to.epoch # epoch => pResponse.to.epoch < epoch
         /\ pResponse.to.epoch = epoch => pResponse.to.n = calls
<1>0. TypeOK /\ ReqInv /\ SlotInv /\ FlightInv /\ DiscardInv
  BY DEF IInv
<1>1. pResponse \in Answers /\ pResponse.to \in InFlight
  BY DEF Answers, InFlight
<1> DEFINE x == pResponse.to
<1>2. x.n \in Nat /\ x.tid \in Nat /\ x.epoch \in Nat
  BY <1>0, <1>1, AnswerTypes
<1>3. calls \in Nat /\ epoch \in Nat /\ TransactionId \in Nat
  BY <1>0 DEF TypeOK
<1>4. req # NULL /\ x.tid = req.tid /\ mainPc # "idle"
  BY <1>0 DEF SlotInv
<1>5. req.tid = TransactionId - 1 /\ req.n = calls /\ req.epoch = epoch /\ phase # "exit"
  BY <1>0, <1>4 DEF ReqInv
<1>6. x.epoch <= epoch /\ (x.epoch = epoch => x.n - x.tid = calls + 1 - TransactionId)
  BY <1>0, <1>1 DEF FlightInv
<1> HIDE DEF x
<1>7. x.epoch = epoch => x.n = calls
  BY <1>2, <1>3, <1>4, <1>5, <1>6
<1>8. Discards => x.epoch = epoch
  <2>1. SUFFICES ASSUME Discards, x.epoch < epoch PROVE FALSE
    BY <1>2, <1>3, <1>6
  <2>2. x.tid = VersionTid /\ TransactionId <= VersionTid
    BY <1>0, <1>1, <1>3, <1>5, <2>1 DEF DiscardInv, OldInv, Old, VersionTid, x
  <2>3. QED
    BY <1>3, <1>4, <1>5, <2>2 DEF VersionTid
<1>9. x.epoch # epoch => x.epoch < epoch
  BY <1>2, <1>3, <1>6
<1>10. QED
  BY <1>1, <1>4, <1>5, <1>7, <1>8, <1>9 DEF x

\* A command returns the answer that was stored.
LEMMA AnswerStep == IInv /\ [Next]_vars => AnswerMatchesCall'
<1> SUFFICES ASSUME IInv, [Next]_vars PROVE AnswerMatchesCall'
  OBVIOUS
<1>1. CASE Returns
  <2>1. SUFFICES ASSUME last'.rsp = pResponse, last'.req = req, pResponse # NULL
                 PROVE  AnswerMatchesCall'
    BY <1>1, ReturnsEffect DEF AnswerMatchesCall
  <2>2. QED
    BY <2>1, StoredAnswer, Constants DEF AnswerMatchesCall
<1>2. CASE ~Returns
  <2>1. last' = last
    BY <1>2, StepKinds, QuietEffect, RecvEffect, IgnoreEffect DEF Send, Read, Serve
  <2>2. QED
    BY <2>1 DEF IInv, AnswerMatchesCall
<1>3. QED
  BY <1>1, <1>2

\* What is left of earlier opens stays the version query.
LEMMA OldStep == IInv /\ Discards /\ [Next]_vars => OldInv'
<1> SUFFICES ASSUME IInv, Discards, [Next]_vars PROVE OldInv'
  OBVIOUS
<1>0. TypeOK /\ ReqInv /\ SlotInv /\ FlightInv /\ OldInv /\ LoopInv /\ OrderInv
  BY DEF IInv, DiscardInv
<1>1. /\ epoch \in Nat /\ TransactionId \in Nat \ {0}
      /\ \A x \in InFlight : x.epoch \in Nat /\ x.epoch <= epoch
  BY <1>0, AnswerTypes DEF TypeOK, FlightInv
<1>2. CASE Open
  <2>1. /\ InFlight' = InFlight /\ phase = "closed" /\ phase' = "open" /\ TransactionId' = 2
        /\ mainPc = "idle" /\ mainPc' = "lock" /\ epoch' = epoch + 1
    BY <1>2, QuietEffect DEF NewRequest, Open, Compose
  <2>2. \A x \in InFlight : x.epoch = epoch
    BY <1>0, <1>1, <2>1 DEF OldInv, Old
  <2>3. \A x \in InFlight : x.tid = VersionTid
    BY <1>0, <2>1, <2>2 DEF LoopInv
  <2>4. QED
    BY <2>1, <2>3 DEF OldInv
<1>3. CASE Command \/ VersionQuery \/ Leave
  <2>1. InFlight' = InFlight /\ epoch' = epoch /\ phase = "open" /\ mainPc = "idle"
    BY <1>3, QuietEffect
    DEF NewRequest, Command, VersionQuery, Compose, Leave, Reopen, LeaveLoop, AtLoopHead
  <2>2. QED
    BY <1>0, <2>1 DEF OldInv, Old
<1>4. CASE Disconnect
  <2>1. /\ InFlight' = InFlight /\ epoch' = epoch /\ phase = "exit" /\ phase' = "closing"
        /\ TransactionId' = TransactionId + 1
    BY <1>4, QuietEffect DEF NewRequest, Disconnect, Compose
  <2>2. QED
    BY <1>0, <1>1, <2>1 DEF OldInv, Old
<1>5. CASE Close
  <2>1. /\ InFlight' = InFlight /\ epoch' = epoch /\ phase \in {"exit", "closing"} /\ phase' = "gone"
        /\ TransactionId' = TransactionId + 1
    BY <1>5, QuietEffect DEF NewRequest, Close, Compose
  <2>2. QED
    BY <1>0, <1>1, <2>1 DEF OldInv, Old
<1>6. CASE Returns
  <2>1. /\ UNCHANGED <<TransactionId, calls, epoch, req, pipe, rdMsg, toModem>>
        /\ pResponse' = NULL /\ InFlight' \subseteq InFlight /\ mainPc # "idle"
    BY <1>6, ReturnsEffect
  <2>2. CASE phase' = "exit" \/ phase # "open" \/ TransactionId # 2
    <3>1. phase' = phase \/ (phase = "open" /\ phase' = "exit")
      BY <1>6, ReturnsEffect
    <3>2. QED
      BY <1>0, <2>1, <2>2, <3>1 DEF OldInv, Old
  <2>3. CASE phase' # "exit" /\ phase = "open" /\ TransactionId = 2
    <3>1. req.kind = "open" /\ req.tid = 1
      <4>1. req # NULL
        BY <1>0, <2>1 DEF TypeOK
      <4>2. QED
        BY <1>0, <2>3, <4>1 DEF ReqInv
    <3>2. pResponse # NULL /\ last'.rsp = pResponse
      BY <1>6, <2>3, <3>1, ReturnsEffect DEF Failed
    <3>3. pResponse \in Answers /\ pResponse.to \in InFlight /\ pResponse.to.epoch = epoch
          /\ pResponse.to.tid = 1
      BY <3>1, <3>2, StoredAnswer
    <3>4. OpenAnswer(pResponse)
      BY <1>0, <3>3 DEF OpenAnswer, FlightInv
    <3>5. \A x \in InFlight' : ~Old(x)
      <4>1. \A r \in toModem : ~Old(r)
        BY <1>0, <3>3, <3>4 DEF OrderInv
      <4>2. \A i \in DOMAIN pipe : ~Old(pipe[i].to)
        BY <1>0, <3>2, <3>4 DEF OrderInv
      <4>3. rdMsg # NULL => ~Old(rdMsg.to)
        BY <1>0, <3>2, <3>4 DEF OrderInv
      <4>4. \A a \in Answers' : ~Old(a.to)
        BY <2>1, <4>2, <4>3 DEF Answers
      <4>5. QED
        BY <2>1, <4>1, <4>4 DEF InFlight
    <3>6. QED
      BY <2>1, <3>5 DEF OldInv, Old
  <2>4. QED
    BY <2>2, <2>3
<1>7. CASE Send
  <2>1. InFlight' \subseteq InFlight \cup {req} /\ UNCHANGED <<TransactionId, epoch, phase>>
        /\ mainPc = "lock" /\ mainPc' = "asleep"
    BY <1>7, SendEffect DEF Send, caller
  <2>2. req.epoch = epoch
    BY <1>0, <2>1 DEF TypeOK, ReqInv
  <2>3. QED
    BY <1>0, <1>1, <2>1, <2>2 DEF OldInv, Old
<1>8. CASE Quiet \/ Read \/ RecvAnswer \/ RecvOther \/ (\E r \in toModem : Serve(r) \/ Ignore(r))
  <2>1. InFlight' \subseteq InFlight
    BY <1>0, <1>8, QuietEffect, ReadEffect, RecvEffect, ServeEffect, IgnoreEffect
  <2>2. UNCHANGED caller /\ (mainPc # "idle" => mainPc' # "idle")
    <3>1. CASE Quiet
      BY <3>1 DEF Quiet
    <3>2. CASE RecvAnswer \/ RecvOther
      BY <3>2, RecvEffect
    <3>3. CASE Read \/ \E r \in toModem : Serve(r) \/ Ignore(r)
      BY <3>3 DEF Read, Serve, Ignore
    <3>4. QED
      BY <1>8, <3>1, <3>2, <3>3
  <2>3. QED
    BY <1>0, <2>1, <2>2 DEF OldInv, Old, caller
<1>9. QED
  BY <1>2, <1>3, <1>4, <1>5, <1>6, <1>7, <1>8, StepKinds DEF NewRequest

\* The loop leaves nothing unanswered but the version query.
LEMMA LoopStep == IInv /\ Discards /\ [Next]_vars => LoopInv'
<1> SUFFICES ASSUME IInv, Discards, [Next]_vars PROVE LoopInv'
  OBVIOUS
<1>0. TypeOK /\ ReqInv /\ SlotInv /\ FlightInv /\ OnceInv /\ LoopInv
  BY DEF IInv, DiscardInv
<1>1. epoch \in Nat /\ \A x \in InFlight : x.epoch \in Nat /\ x.epoch <= epoch
  BY <1>0, AnswerTypes DEF TypeOK, FlightInv
<1>2. CASE Open
  <2>1. InFlight' = InFlight /\ epoch' = epoch + 1
    BY <1>2, QuietEffect DEF NewRequest, Open, Compose
  <2>2. QED
    BY <1>1, <2>1 DEF LoopInv
<1>3. CASE Command \/ VersionQuery \/ Leave
  <2>1. InFlight' = InFlight /\ epoch' = epoch /\ phase = "open" /\ mainPc = "idle"
    BY <1>3, QuietEffect
    DEF NewRequest, Command, VersionQuery, Compose, Leave, Reopen, LeaveLoop, AtLoopHead
  <2>2. QED
    BY <1>0, <2>1 DEF LoopInv
<1>4. CASE Disconnect \/ Close
  BY <1>4 DEF Disconnect, Close, LoopInv
<1>5. CASE Returns
  <2>1. /\ UNCHANGED <<TransactionId, calls, epoch, req, pipe, rdMsg, toModem, served>>
        /\ pResponse' = NULL /\ InFlight' \subseteq InFlight /\ mainPc # "idle"
    BY <1>5, ReturnsEffect
  <2>2. SUFFICES ASSUME phase' = "open", phase = "open",
                        NEW x \in InFlight', x.epoch = epoch, x.tid # VersionTid
                 PROVE  FALSE
    BY <1>0, <1>5, <2>1, ReturnsEffect DEF LoopInv, ReqInv
  <2>3. x.n = calls
    BY <1>0, <2>1, <2>2 DEF LoopInv
  <2>4. x.tid = req.tid /\ req # NULL
    <3>1. req # NULL /\ req.tid = TransactionId - 1
      BY <1>0, <2>1 DEF TypeOK, ReqInv
    <3>2. x.n - x.tid = calls + 1 - TransactionId
      BY <1>0, <2>1, <2>2 DEF FlightInv
    <3>3. x.tid \in Nat /\ x.n \in Nat /\ calls \in Nat /\ TransactionId \in Nat
      BY <1>0, <2>1, AnswerTypes DEF TypeOK
    <3>4. QED
      BY <2>3, <3>1, <3>2, <3>3
  <2>5. req.kind # "version"
    BY <1>0, <2>2, <2>4 DEF ReqInv
  <2>6. pResponse # NULL
    BY <1>5, <2>2, <2>5, ReturnsEffect DEF Failed
  <2>7. pResponse \in Answers /\ pResponse.to.n = calls
    BY <2>6, StoredAnswer
  <2>8. \A r \in toModem : r.n # calls
    BY <1>0, <2>7 DEF OnceInv
  <2>9. \A a \in Answers' : a.to.n # calls
    <3>1. \A i \in DOMAIN pipe : pipe[i].to.n # calls
      BY <1>0, <2>6, <2>7 DEF OnceInv
    <3>2. rdMsg # NULL => rdMsg.to.n # calls
      BY <1>0, <2>6, <2>7 DEF OnceInv
    <3>3. QED
      BY <2>1, <3>1, <3>2 DEF Answers
  <2>10. QED
    BY <2>1, <2>2, <2>3, <2>8, <2>9 DEF InFlight
<1>6. CASE Send
  <2>1. InFlight' \subseteq InFlight \cup {req} /\ UNCHANGED <<calls, epoch, phase>>
        /\ mainPc = "lock" /\ mainPc' = "asleep"
    BY <1>6, SendEffect DEF Send, caller
  <2>2. req.n = calls
    BY <1>0, <2>1 DEF TypeOK, ReqInv
  <2>3. QED
    BY <1>0, <2>1, <2>2 DEF LoopInv
<1>7. CASE Quiet \/ Read \/ RecvAnswer \/ RecvOther \/ (\E r \in toModem : Serve(r) \/ Ignore(r))
  <2>1. InFlight' \subseteq InFlight
    BY <1>0, <1>7, QuietEffect, ReadEffect, RecvEffect, ServeEffect, IgnoreEffect
  <2>2. UNCHANGED caller /\ (mainPc # "idle" => mainPc' # "idle")
    <3>1. CASE Quiet
      BY <3>1 DEF Quiet
    <3>2. CASE RecvAnswer \/ RecvOther
      BY <3>2, RecvEffect
    <3>3. CASE Read \/ \E r \in toModem : Serve(r) \/ Ignore(r)
      BY <3>3 DEF Read, Serve, Ignore
    <3>4. QED
      BY <1>7, <3>1, <3>2, <3>3
  <2>3. QED
    BY <1>0, <2>1, <2>2 DEF LoopInv, caller
<1>8. QED
  BY <1>2, <1>3, <1>4, <1>5, <1>6, <1>7, StepKinds DEF NewRequest

\* Nothing older comes after the answer to the open.
LEMMA OrderStep == IInv /\ Discards /\ [Next]_vars => OrderInv'
<1> SUFFICES ASSUME IInv, Discards, [Next]_vars PROVE OrderInv'
  OBVIOUS
<1>0. TypeOK /\ ReqInv /\ SlotInv /\ FlightInv /\ OrderInv
  BY DEF IInv, DiscardInv
<1>1. /\ epoch \in Nat /\ \A x \in InFlight : x.epoch \in Nat /\ x.epoch <= epoch
      /\ \A a \in Answers : a.to \in InFlight
      /\ \A i \in DOMAIN pipe : pipe[i] \in Answers
      /\ toModem \subseteq InFlight
      /\ Len(pipe) \in Nat /\ DOMAIN pipe = 1..Len(pipe)
  BY <1>0, AnswerTypes DEF TypeOK, FlightInv, Answers, InFlight
<1>2. rdMsg # NULL => rdMsg \in Answers
  BY DEF Answers
<1>3. pResponse # NULL => pResponse \in Answers
  BY DEF Answers
<1>4. CASE Open
  <2>1. UNCHANGED <<pipe, rdMsg, pResponse, toModem>> /\ Answers' = Answers /\ epoch' = epoch + 1
    BY <1>4, QuietEffect DEF NewRequest, Open, Compose, slots
  <2>2. \A a \in Answers' : ~(a.to.epoch = epoch')
    BY <1>1, <2>1
  <2>3. \A i \in DOMAIN pipe' : pipe'[i] \in Answers'
    BY <1>1, <2>1
  <2>4. /\ rdMsg' # NULL => rdMsg' \in Answers'
        /\ pResponse' # NULL => pResponse' \in Answers'
    BY <1>2, <1>3, <2>1
  <2>5. QED
    BY <2>2, <2>3, <2>4 DEF OrderInv, OpenAnswer
<1>5. CASE Command \/ VersionQuery \/ Disconnect \/ Close \/ Leave \/ Quiet
  <2>1. UNCHANGED <<pipe, rdMsg, pResponse, toModem>> /\ Answers' = Answers
    BY <1>5, QuietEffect DEF NewRequest, slots
  <2>2. epoch' = epoch
    BY <1>5 DEF Command, VersionQuery, Disconnect, Close, Leave, Reopen, LeaveLoop, Quiet, caller
  <2>3. QED
    BY <1>0, <2>1, <2>2 DEF OrderInv, OpenAnswer, Old
<1>6. CASE Send \/ Returns
  <2>1. UNCHANGED <<pipe, rdMsg, epoch>> /\ pResponse' = NULL /\ Answers' \subseteq Answers
    BY <1>6, SendEffect, ReturnsEffect DEF Send, reader, caller
  <2>2. toModem' = toModem \/ toModem' = toModem \cup {req}
    BY <1>6, ReturnsEffect DEF Send
  <2>3. toModem' # toModem => req.epoch = epoch
    <3>1. toModem' # toModem => mainPc = "lock"
      BY <1>6, ReturnsEffect DEF Send
    <3>2. QED
      BY <1>0, <3>1 DEF TypeOK, ReqInv
  <2>4. \A r \in toModem' : r \in toModem \/ ~(r.epoch < epoch)
    BY <1>1, <2>2, <2>3
  <2>5. QED
    BY <1>0, <2>1, <2>4 DEF OrderInv, OpenAnswer, Old
<1>7. CASE Read
  <2>1. UNCHANGED <<epoch, toModem, pResponse>>
    BY <1>7 DEF Read, caller, slots
  <2>2. /\ rdMsg' = pipe[1] /\ 1 \in DOMAIN pipe /\ Answers' \subseteq Answers
        /\ DOMAIN pipe' = 1..(Len(pipe)-1)
        /\ \A i \in DOMAIN pipe' : i+1 \in DOMAIN pipe /\ pipe'[i] = pipe[i+1]
    BY <1>0, <1>7, ReadEffect
  <2>3. \A a \in Answers' : OpenAnswer(a)' => \A r \in toModem' : ~Old(r)'
    BY <1>0, <2>1, <2>2 DEF OrderInv, OpenAnswer, Old
  <2>4. ASSUME NEW i \in DOMAIN pipe', NEW j \in DOMAIN pipe', OpenAnswer(pipe'[i]), i < j
        PROVE  ~(pipe'[j].to.epoch < epoch)
    <3>1. i+1 < j+1 /\ i+1 \in DOMAIN pipe /\ j+1 \in DOMAIN pipe
      BY <2>2, <2>4
    <3>2. OpenAnswer(pipe[i+1])
      BY <2>1, <2>2, <2>4 DEF OpenAnswer
    <3>3. ~Old(pipe[j+1].to)
      BY <1>0, <3>1, <3>2 DEF OrderInv
    <3>4. QED
      BY <2>2, <3>3 DEF Old
  <2>5. ASSUME OpenAnswer(pipe[1]), NEW j \in DOMAIN pipe'
        PROVE  ~(pipe'[j].to.epoch < epoch)
    <3>1. 1 < j+1 /\ j+1 \in DOMAIN pipe
      BY <2>2
    <3>2. ~Old(pipe[j+1].to)
      BY <1>0, <2>2, <2>5, <3>1 DEF OrderInv
    <3>3. QED
      BY <2>2, <3>2 DEF Old
  <2>6. ASSUME pResponse # NULL, OpenAnswer(pResponse)
        PROVE  /\ \A i \in DOMAIN pipe' : ~(pipe'[i].to.epoch < epoch)
               /\ ~(rdMsg'.to.epoch < epoch)
    <3>1. \A i \in DOMAIN pipe : ~(pipe[i].to.epoch < epoch)
      BY <1>0, <2>6 DEF OrderInv, Old
    <3>2. QED
      BY <2>2, <3>1
  <2>7. QED
    BY <2>1, <2>2, <2>3, <2>4, <2>5, <2>6 DEF OrderInv, OpenAnswer, Old
<1>8. CASE RecvAnswer \/ RecvOther
  <2>1. /\ UNCHANGED <<epoch, toModem, pipe>> /\ rdMsg' = NULL /\ Answers' \subseteq Answers
        /\ pResponse' = pResponse \/ (RecvAnswer /\ pResponse' = rdMsg)
    BY <1>8, RecvEffect DEF caller, modem
  <2>2. RecvAnswer => rdMsg # NULL
    BY <1>0 DEF RecvAnswer, SlotInv
  <2>3. QED
    BY <1>0, <2>1, <2>2 DEF OrderInv, OpenAnswer, Old
<1>9. ASSUME NEW r \in toModem, Serve(r) PROVE OrderInv'
  <2>1. UNCHANGED <<epoch, rdMsg, pResponse>>
    BY <1>9 DEF Serve, caller, slots, reader
  <2> DEFINE k == Len(pipe)+1
  <2>2. /\ DOMAIN pipe' = 1..k
        /\ \A i \in DOMAIN pipe : pipe'[i] = pipe[i]
        /\ pipe'[k].to = r /\ Answers' = Answers \cup {pipe'[k]} /\ toModem' \subseteq toModem \ {r}
    BY <1>0, <1>9, ServeEffect
  <2>3. r.kind = "open" => toModem' = {}
    BY <1>9 DEF Serve
  <2>4. \A i \in DOMAIN pipe' : i = k \/ (i \in DOMAIN pipe /\ pipe'[i] = pipe[i] /\ i < k)
    BY <1>1, <2>2
  <2>5. \A a \in Answers : OpenAnswer(a) => ~Old(r)
    BY <1>0 DEF OrderInv
  <2>6. \A a \in Answers' : OpenAnswer(a) => \A s \in toModem' : ~Old(s)
    BY <1>0, <2>2, <2>3 DEF OrderInv, OpenAnswer
  <2>7. \A i \in DOMAIN pipe : OpenAnswer(pipe[i]) => ~Old(r)
    BY <1>1, <2>5
  <2>8. ASSUME NEW i \in DOMAIN pipe', NEW j \in DOMAIN pipe', OpenAnswer(pipe'[i]), i < j
        PROVE  ~Old(pipe'[j].to)
    <3>1. i \in DOMAIN pipe /\ pipe'[i] = pipe[i]
      BY <1>1, <2>2, <2>4, <2>8
    <3>2. CASE j = k
      BY <2>2, <2>7, <2>8, <3>1, <3>2
    <3>3. CASE j # k
      <4>1. j \in DOMAIN pipe /\ pipe'[j] = pipe[j]
        BY <2>4, <3>3
      <4>2. QED
        BY <1>0, <2>8, <3>1, <4>1 DEF OrderInv
    <3>4. QED
      BY <3>2, <3>3
  <2>9. ASSUME rdMsg # NULL, OpenAnswer(rdMsg), NEW i \in DOMAIN pipe' PROVE ~Old(pipe'[i].to)
    BY <1>0, <1>2, <2>2, <2>4, <2>5, <2>9 DEF OrderInv
  <2>10. ASSUME pResponse # NULL, OpenAnswer(pResponse), NEW i \in DOMAIN pipe'
         PROVE  ~Old(pipe'[i].to)
    BY <1>0, <1>3, <2>2, <2>4, <2>5, <2>10 DEF OrderInv
  <2>11. pResponse # NULL /\ OpenAnswer(pResponse) /\ rdMsg # NULL => ~Old(rdMsg.to)
    BY <1>0 DEF OrderInv
  <2> HIDE DEF k
  <2>12. QED
    BY <2>1, <2>6, <2>8, <2>9, <2>10, <2>11 DEF OrderInv, OpenAnswer, Old
<1>10. ASSUME NEW r \in toModem, Ignore(r) PROVE OrderInv'
  <2>1. /\ UNCHANGED <<pipe, rdMsg, pResponse, epoch>>
        /\ Answers' = Answers /\ toModem' \subseteq toModem
    BY <1>10, IgnoreEffect DEF slots, caller
  <2>2. QED
    BY <1>0, <2>1 DEF OrderInv, OpenAnswer, Old
<1>11. QED
  BY <1>4, <1>5, <1>6, <1>7, <1>8, <1>9, <1>10, StepKinds DEF NewRequest

\* Every step preserves the invariant.
LEMMA IInvStep == IInv /\ [Next]_vars => IInv'
<1> SUFFICES ASSUME IInv, [Next]_vars PROVE IInv'
  OBVIOUS
<1>1. Discards => OldInv' /\ LoopInv' /\ OrderInv'
  BY OldStep, LoopStep, OrderStep
<1>2. DiscardInv'
  BY <1>1 DEF DiscardInv
<1>3. QED
  BY <1>2, TypeStep, ReqStep, SlotStep, FlightStep, OnceStep, AnswerStep DEF IInv

-------------------------------------------------------------------------------
(* The theorems.                                                            *)

\* IInv holds in every reachable state of the command layer.
THEOREM Invariance == Spec => []IInv
BY InitIInv, IInvStep, PTL DEF Spec

\* The slots of mbim-cm.c hold requests and answers, whatever arrives when.
THEOREM TypeCorrect == Spec => []TypeOK
<1>1. IInv => TypeOK
  BY DEF IInv
<1>2. QED
  BY <1>1, Invariance, PTL

\* mbim_pRequest never points to a request that its caller has freed.
THEOREM RequestsAlive == Spec => []RequestAlive
<1>1. IInv => RequestAlive
  BY DEF IInv, SlotInv, RequestAlive
<1>2. QED
  BY <1>1, Invariance, PTL

\* No command hands out the answer to another one, although the transaction ids start
\* over at every open; with a modem that keeps requests over an open only one of an
\* earlier open can be taken for it.
THEOREM AnswersMatch == Spec => []AnswerMatchesCall
<1>1. IInv => AnswerMatchesCall
  BY DEF IInv
<1>2. QED
  BY <1>1, Invariance, PTL

\* A stored answer reaches its caller: neither the abort of an exiting reader nor another
\* message touches it, as no other answer carries the id.
THEOREM AnswersKept == ASSUME Discards PROVE Spec => AnswerKept
<1> DEFINE Kept == mainPc = "woken" /\ pResponse # NULL =>
                     \/ mainPc' = "woken" /\ pResponse' = pResponse
                     \/ mainPc' = "idle" /\ last'.ret = "ok" /\ last'.rsp = pResponse
<1>1. IInv /\ [Next]_vars => [Kept]_vars
  <2> SUFFICES ASSUME IInv, [Next]_vars, mainPc = "woken", pResponse # NULL
               PROVE  \/ mainPc' = "woken" /\ pResponse' = pResponse
                      \/ mainPc' = "idle" /\ last'.ret = "ok" /\ last'.rsp = pResponse
    OBVIOUS
  <2>1. CASE WakeReturn
    BY <2>1 DEF WakeReturn, Return
  <2>2. ~RecvAnswer
    <3>1. SUFFICES ASSUME RecvAnswer PROVE FALSE
      OBVIOUS
    <3>2. TypeOK /\ SlotInv /\ FlightInv /\ OnceInv /\ OldInv /\ ReqInv
      BY DEF IInv, DiscardInv
    <3>3. rdMsg # NULL /\ rdMsg.to.tid = req.tid /\ rdMsg \in Answers /\ rdMsg.to \in InFlight
      BY <3>1, <3>2 DEF RecvAnswer, Matches, SlotInv, Answers, InFlight
    <3>4. req # NULL /\ req.tid = TransactionId - 1 /\ phase # "exit"
      BY <3>2 DEF TypeOK, ReqInv
    <3>5. rdMsg.to.n \in Nat /\ rdMsg.to.tid \in Nat /\ rdMsg.to.epoch \in Nat
          /\ calls \in Nat /\ epoch \in Nat /\ TransactionId \in Nat
      BY <3>2, <3>3, AnswerTypes DEF TypeOK
    <3>6. ~Old(rdMsg.to)
      BY <3>2, <3>3, <3>4, <3>5 DEF OldInv, VersionTid
    <3>7. rdMsg.to.epoch = epoch
      BY <3>2, <3>3, <3>5, <3>6 DEF Old, FlightInv
    <3>8. rdMsg.to.n - rdMsg.to.tid = calls + 1 - TransactionId
      BY <3>2, <3>3, <3>7 DEF FlightInv
    <3>9. rdMsg.to.n = calls
      BY <3>3, <3>4, <3>5, <3>8
    <3>10. pResponse.to.n = calls
      BY StoredAnswer
    <3>11. QED
      BY <3>2, <3>3, <3>9, <3>10 DEF OnceInv
  <2>3. CASE UNCHANGED <<mainPc, pResponse>>
    BY <2>3
  <2>4. QED
    BY <2>1, <2>2, <2>3
    DEF Next, Caller, SendStep, ReaderStep, Modem, vars, caller, slots, modem, reader,
        Open, Command, VersionQuery, Disconnect, Close, Compose, Reopen, LeaveLoop, Send,
        WriteFails, TimedOut, NextSlice, SliceExpires, SpuriousWakeup, Read, RecvOther, Hangup,
        RecvAbort, Abort, Signal, Serve, Ignore
<1>2. QED
  BY <1>1, Invariance, PTL DEF Spec, AnswerKept

\* With a modem that discards old requests at an open, the layer implements calls that
\* each return the answer to their own request or none.
THEOREM Implements == ASSUME Discards PROVE Spec => ImplementsRpc
<1>1. Init => RPC!Init
  BY DEF Init, RPC!Init
<1>2. IInv /\ [Next]_vars => [RPC!Next]_RPC!vars
  <2> SUFFICES ASSUME IInv, [Next]_vars PROVE [RPC!Next]_RPC!vars
    OBVIOUS
  <2> USE DEF RPC!Next, RPC!vars
  <2>0. TypeOK /\ ReqInv /\ OnceInv
    BY DEF IInv
  <2>1. CASE NewRequest
    <3>1. PICK n \in Nat : n = calls + 1
      BY <2>0 DEF TypeOK
    <3>2. /\ mainPc = "idle" /\ mainPc' = "lock" /\ req'.n = n /\ n \in 1..MaxCalls
          /\ UNCHANGED <<served, last>>
      <4>1. PICK kind, tid, ep : Compose(kind, tid, ep)
        BY <2>1 DEF NewRequest, Open, Command, VersionQuery, Disconnect, Close
      <4>2. calls \in Nat /\ calls < MaxCalls
        BY <2>0, <4>1 DEF Compose, TypeOK
      <4>3. UNCHANGED <<served, last>>
        BY <2>1, QuietEffect
      <4>4. QED
        BY <3>1, <4>1, <4>2, <4>3, Constants DEF Compose
    <3>3. n \notin served
      BY <2>0, <3>1 DEF OnceInv, TypeOK
    <3>4. RPC!Begin(n)
      BY <3>2, <3>3 DEF RPC!Begin
    <3>5. QED
      BY <3>2, <3>4
  <2>2. CASE Returns
    <3>1. /\ UNCHANGED <<req, served>> /\ mainPc # "idle" /\ mainPc' = "idle"
          /\ last'.rsp = NULL \/ (mainPc = "woken" /\ last'.rsp = pResponse)
      BY <2>2, ReturnsEffect
    <3>2. CASE last'.rsp = NULL
      <4>1. RPC!EndUnanswered
        BY <3>1, <3>2 DEF RPC!EndUnanswered
      <4>2. QED
        BY <4>1
    <3>3. CASE last'.rsp # NULL
      <4>1. pResponse \in Answers /\ pResponse.to.n = req.n /\ req.n = calls /\ req # NULL
        BY <3>1, <3>3, StoredAnswer
      <4>2. req.n \in served
        BY <2>0, <4>1 DEF OnceInv
      <4>3. req.n # 0
        BY <2>0, <4>1, AnswerTypes DEF TypeOK, Maybe
      <4>4. RPC!EndAnswered
        BY <3>1, <3>3, <4>1, <4>2, <4>3 DEF RPC!EndAnswered
      <4>5. QED
        BY <4>4
    <3>4. QED
      BY <3>2, <3>3
  <2>3. ASSUME NEW r \in toModem, Serve(r) PROVE RPC!Next
    <3>1. UNCHANGED <<mainPc, req, last>> /\ served' = served \cup {r.n} /\ r.n \notin served
      BY <2>0, <2>3 DEF Serve, caller, OnceInv
    <3>2. r.n \in 1..MaxCalls
      BY <2>0, AnswerTypes DEF TypeOK
    <3>3. RPC!Serve(r.n)
      BY <3>1 DEF RPC!Serve
    <3>4. QED
      BY <3>2, <3>3
  <2>4. CASE Leave \/ Send \/ Quiet \/ Read \/ RecvAnswer \/ RecvOther \/ \E r \in toModem : Ignore(r)
    <3>1. UNCHANGED <<req, last, served>> /\ (mainPc = "idle" <=> mainPc' = "idle")
      BY <2>4, RecvEffect
      DEF Leave, Reopen, LeaveLoop, Send, Quiet, Read, Ignore, caller, modem
    <3>2. QED
      BY <3>1
  <2>5. QED
    BY <2>1, <2>2, <2>3, <2>4, StepKinds
<1>3. QED
  BY <1>1, <1>2, Invariance, PTL DEF Spec, ImplementsRpc, RPC!Spec

\* How many changes of place a command can still go through.
CallRank == CASE mainPc = "idle" -> 0
              [] mainPc = "lock" -> 2 * Slices + 2
              [] mainPc = "asleep" -> 2 * (Slices - slice) + 3
              [] mainPc = "expired" -> 2 * (Slices - slice) + 2
              [] mainPc = "woken" -> 1

CallProgress ==
  [][mainPc # "idle" /\ <<mainPc, slice>>' # <<mainPc, slice>> => CallRank' < CallRank]_vars

\* A command is bounded: every step that moves it, its own, the timer's or the signal of
\* the reader, brings it nearer to its return, and there are at most 2 * Slices + 2 of
\* them.  This is what CallReturns rests on; here nothing holds mbim_command_mutex for
\* longer than a step.
THEOREM CallsProgress == Spec => CallProgress /\ [](CallRank \in 0..2 * Slices + 2)
<1>1. IInv => CallRank \in 0..2 * Slices + 2
  <2> SUFFICES ASSUME IInv PROVE CallRank \in 0..2 * Slices + 2
    OBVIOUS
  <2>1. /\ Slices \in Nat \ {0} /\ slice \in 1..Slices
        /\ mainPc \in {"idle", "lock", "asleep", "expired", "woken"}
    BY Constants DEF IInv, TypeOK
  <2>2. QED
    BY <2>1 DEF CallRank
<1>2. IInv /\ [Next]_vars =>
        [mainPc # "idle" /\ <<mainPc, slice>>' # <<mainPc, slice>> => CallRank' < CallRank]_vars
  <2> SUFFICES ASSUME IInv, [Next]_vars, mainPc # "idle",
                      ~UNCHANGED <<mainPc, slice>>
               PROVE  CallRank' < CallRank
    OBVIOUS
  <2>1. Slices \in Nat \ {0} /\ slice \in 1..Slices
    BY Constants DEF IInv, TypeOK
  <2>2. CASE Send
    BY <2>1, <2>2 DEF Send, CallRank
  <2>3. CASE WriteFails
    BY <2>1, <2>3 DEF WriteFails, Return, CallRank
  <2>4. CASE SliceExpires
    BY <2>1, <2>4 DEF SliceExpires, CallRank
  <2>5. CASE SpuriousWakeup
    BY <2>1, <2>5 DEF SpuriousWakeup, CallRank
  <2>6. CASE NextSlice
    BY <2>1, <2>6 DEF NextSlice, CallRank
  <2>7. CASE TimedOut \/ WakeReturn
    BY <2>1, <2>7 DEF TimedOut, WakeReturn, Return, CallRank
  <2>8. CASE RecvAnswer \/ RecvAbort
    <3>1. mainPc = "asleep" /\ mainPc' = "woken" /\ slice' = slice
      BY <2>8 DEF RecvAnswer, RecvAbort, Abort, Signal
    <3>2. QED
      BY <2>1, <3>1 DEF CallRank
  <2>9. QED
    BY <2>2, <2>3, <2>4, <2>5, <2>6, <2>7, <2>8
       DEF Next, Caller, SendStep, ReaderStep, Modem, vars, caller, slots, modem, reader,
           Open, Command, VersionQuery, Disconnect, Close, Compose, Reopen, LeaveLoop,
           Read, RecvOther, Hangup, Serve, Ignore
<1>3. QED
  BY <1>1, <1>2, Invariance, PTL DEF Spec, CallProgress
===============================================================================
