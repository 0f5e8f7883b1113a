------------------------- MODULE QmiTransactionProofs -------------------------
(***************************************************************************)
(* Proofs about QmiTransaction, for every value of its constants.  The     *)
(* inductive invariant IInv says who holds the mutex, which thread may     *)
(* still reach each request buffer and why two messages that carry the     *)
(* same header belong to the same request.                                 *)
(***************************************************************************)
EXTENDS QmiTransaction, TLAPS

\* The phases of a call in which s_pRequest can only be the caller's request.
InCall == {"write", "asleep", "expired", "woken"}

\* The mutex is held exactly in the two phases that block with it.
MutexInv == /\ mainPc = "write" <=> mutex = "main"
            /\ rdPc = "notify" <=> mutex = "reader"

\* Requests are numbered in the order of their composition; the installed request is
\* the current one or an older one, and is not freed while it is installed.
SlotInv == /\ req # NULL => req.n = calls
           /\ sRequest # NULL => sRequest.n \in live
           /\ mainPc = "lock" => /\ req.n \in live
                                 /\ sRequest # NULL => sRequest.n # req.n
           /\ mainPc = "write" => sRequest = req
           /\ mainPc \in InCall => sRequest \in {NULL, req}
           /\ mainPc = "asleep" /\ slice = 1 => sRequest = req
           /\ live \subseteq 1..calls /\ copies \subseteq 1..calls
           /\ last.n <= calls /\ (mainPc # "idle" => last.n < calls)

\* What is in flight under the header of r is r, or the answer to r.
Unique(r) == \A m \in InFlight \ {NULL} : SameHeader(m, r) => m.n = r.n

HeaderInv == /\ sRequest # NULL => Unique(sRequest)
             /\ mainPc = "lock" => Unique(req)
             /\ \A m \in InFlight \ {NULL} : m.n <= calls

\* An answer stored during a call is the answer to its request, which is gone then.
AnswerInv == /\ mainPc \in InCall /\ sResponse # NULL =>
                  sResponse.n = req.n /\ sRequest = NULL /\ req.n \notin live
             /\ last.rsp # NULL => last.rsp.n = last.n /\ last.n \notin live \cup copies

\* The reader closes the device before it takes the mutex to abort.
ExitInv == /\ rdPc \in {"report", "abort", "exited"} => ~wdmOpen
           /\ rdPc = "exited" => mainPc # "write"
           /\ rdPc = "exited" /\ mainPc = "asleep" => slice > 1

IInv == TypeOK /\ MutexInv /\ SlotInv /\ HeaderInv /\ AnswerInv /\ ExitInv

\* What a request is made of.
LEMMA RequestFields ==
  \A r \in Request : /\ r.n \in 1..MaxCalls /\ r.svc \in Services
                     /\ r.tid \in Nat \ {0} /\ r.want \in BOOLEAN
BY DEF Request

\* Every way a call returns yields a result record.
LEMMA ReturnResult ==
  ASSUME TypeOK, req # NULL, NEW rsp \in Maybe(Request),
         NEW ret \in {"ok", "ENODEV", "EIO", "ETIMEDOUT"}
  PROVE  [n |-> req.n, ret |-> ret, rsp |-> rsp] \in Result
<1>1. req.n \in 0..MaxCalls
  BY RequestFields DEF TypeOK, Maybe
<1>2. QED
  BY <1>1 DEF Result

\* The invariant holds before the first call.
LEMMA InitIInv == Init => IInv
<1> SUFFICES ASSUME Init PROVE IInv
  OBVIOUS
<1>1. TypeOK
  <2>1. last \in Result
    BY Constants DEF Init, Result, Maybe
  <2>2. lastTid \in [{"ctl", "mux"} -> Nat] /\ \A f \in {"ctl", "mux"} : lastTid[f] <= MaxTid[f]
    BY Constants DEF Init, MaxTid
  <2>3. calls \in 0..MaxCalls /\ slice \in 1..Slices /\ events \in 0..EventCap
        /\ inds \in Nat /\ indsSent \in 0..MaxInds
    BY Constants DEF Init
  <2>4. NULL \in Maybe(Request)
    BY DEF Maybe
  <2>5. QED
    BY <2>1, <2>2, <2>3, <2>4 DEF Init, TypeOK
<1>2. MutexInv /\ SlotInv /\ ExitInv
  BY Constants DEF Init, MutexInv, SlotInv, ExitInv, InCall
<1>3. HeaderInv /\ AnswerInv
  BY DEF Init, HeaderInv, AnswerInv, InCall, InFlight
<1>4. QED
  BY <1>1, <1>2, <1>3 DEF IInv

\* Every step preserves the types.
LEMMA TypeStep == TypeOK /\ [Next]_vars => TypeOK'
<1> SUFFICES ASSUME TypeOK, [Next]_vars PROVE TypeOK'
  OBVIOUS
<1> USE DEF mainVars, modemVars, readerVars, slots
<1>1. ASSUME NEW s \in Services, NEW want \in BOOLEAN, Compose(s, want) PROVE TypeOK'
  <2>1. NextTid(Family(s)) \in Nat \ {0} /\ NextTid(Family(s)) <= MaxTid[Family(s)]
    BY Constants DEF TypeOK, Family, NextTid, MaxTid
  <2>2. /\ lastTid' \in [{"ctl", "mux"} -> Nat]
        /\ \A f \in {"ctl", "mux"} : lastTid'[f] <= MaxTid[f]
    BY <1>1, <2>1 DEF Compose, TypeOK, Family
  <2>3. req' \in Request /\ calls' \in 1..MaxCalls /\ req'.n = calls'
    BY <1>1, <2>1, Constants DEF Compose, TypeOK, Request
  <2>4. live' \subseteq 1..MaxCalls /\ req' # NULL
    BY <1>1, <2>3, NullIsNoRequest DEF Compose, TypeOK
  <2>5. QED
    BY <1>1, <2>2, <2>3, <2>4 DEF Compose, TypeOK, Maybe
<1>2. ASSUME NEW s \in Services, ComposeRefused(s) PROVE TypeOK'
  <2>1. last' \in Result
    BY <1>2, Constants DEF ComposeRefused, Result, Maybe
  <2>2. QED
    BY <1>2, <2>1 DEF ComposeRefused, TypeOK
<1>3. ASSUME BeginSend PROVE TypeOK'
  <2>1. req # NULL /\ NULL \in Maybe(Request)
    BY <1>3 DEF BeginSend, TypeOK, Maybe
  <2>2. last' \in Result
    BY <1>3, <2>1, ReturnResult DEF BeginSend, Return, TypeOK
  <2>3. QED
    BY <1>3, <2>1, <2>2 DEF BeginSend, Install, Return, TypeOK
<1>4. ASSUME Written PROVE TypeOK'
  BY <1>4, Constants DEF Written, TypeOK, StartWait, Maybe
<1>5. ASSUME PollTimeout PROVE TypeOK'
  BY <1>5, Constants DEF PollTimeout, TypeOK, StartWait
<1>6. ASSUME SendFails PROVE TypeOK'
  <2>1. req # NULL /\ NULL \in Maybe(Request) /\ sResponse \in Maybe(Request)
    BY <1>6 DEF SendFails, TypeOK, Maybe
  <2>2. last' \in Result
    BY <1>6, <2>1, ReturnResult DEF SendFails, Return
  <2>3. QED
    BY <1>6, <2>1, <2>2 DEF SendFails, Return, TypeOK
<1>7. ASSUME NextSlice PROVE TypeOK'
  BY <1>7, Constants DEF NextSlice, TypeOK
<1>8. ASSUME TimedOut PROVE TypeOK'
  <2>1. req # NULL /\ NULL \in Maybe(Request) /\ sResponse \in Maybe(Request)
    BY <1>8 DEF TimedOut, TypeOK, Maybe
  <2>2. last' \in Result
    BY <1>8, <2>1, ReturnResult DEF TimedOut, Return
  <2>3. QED
    BY <1>8, <2>1, <2>2 DEF TimedOut, Return, TypeOK
<1>9. ASSUME WakeReturn PROVE TypeOK'
  <2>1. req # NULL /\ NULL \in Maybe(Request) /\ sResponse \in Maybe(Request)
    BY <1>9 DEF WakeReturn, TypeOK, Maybe
  <2>2. last' \in Result
    BY <1>9, <2>1, ReturnResult DEF WakeReturn, Return
  <2>3. QED
    BY <1>9, <2>1, <2>2 DEF WakeReturn, Return, TypeOK
<1>10. ASSUME SliceExpires PROVE TypeOK'
  BY <1>10 DEF SliceExpires, TypeOK
<1>11. ASSUME SpuriousWakeup PROVE TypeOK'
  BY <1>11 DEF SpuriousWakeup, TypeOK
<1>12. ASSUME DrainEvent PROVE TypeOK'
  BY <1>12, Constants DEF DrainEvent, TypeOK
<1>13. ASSUME RequestQuit PROVE TypeOK'
  BY <1>13 DEF RequestQuit, TypeOK
<1>14. ASSUME StopSignal PROVE TypeOK'
  BY <1>14 DEF StopSignal, TypeOK
<1>15. ASSUME ReadStop PROVE TypeOK'
  BY <1>15 DEF ReadStop, TypeOK
<1>16. ASSUME ReadQuit PROVE TypeOK'
  BY <1>16 DEF ReadQuit, TypeOK
<1>17. ASSUME NEW m \in toHost, ReadAnswer(m) PROVE TypeOK'
  BY <1>17 DEF ReadAnswer, TypeOK, Maybe
<1>18. ASSUME ReadIndication PROVE TypeOK'
  BY <1>18 DEF ReadIndication, TypeOK, Maybe
<1>19. ASSUME IdleTick PROVE TypeOK'
  BY <1>19 DEF IdleTick, TypeOK
<1>20. ASSUME RecvTick PROVE TypeOK'
  BY <1>20 DEF RecvTick, TypeOK, AbortPending, FreeRequest, Signal, Maybe
<1>21. ASSUME RecvAnswer PROVE TypeOK'
  BY <1>21, RequestFields DEF RecvAnswer, TypeOK, FreeRequest, Signal, Maybe, is_response
<1>22. ASSUME RecvUnmatched PROVE TypeOK'
  BY <1>22 DEF RecvUnmatched, TypeOK, Maybe
<1>23. ASSUME RecvIndication PROVE TypeOK'
  BY <1>23 DEF RecvIndication, TypeOK
<1>24. ASSUME NotifyMain PROVE TypeOK'
  BY <1>24, Constants DEF NotifyMain, TypeOK
<1>25. ASSUME CloseDevice PROVE TypeOK'
  BY <1>25 DEF CloseDevice, TypeOK
<1>26. ASSUME ReportDisconnected PROVE TypeOK'
  BY <1>26, Constants DEF ReportDisconnected, TypeOK
<1>27. ASSUME RecvAbort PROVE TypeOK'
  BY <1>27 DEF RecvAbort, TypeOK, AbortPending, FreeRequest, Signal, Maybe
<1>28. ASSUME Hangup PROVE TypeOK'
  BY <1>28 DEF Hangup, TypeOK
<1>29. ASSUME NEW m \in toModem, Answer(m) PROVE TypeOK'
  BY <1>29, RequestFields DEF Answer, TypeOK
<1>30. ASSUME NEW m \in toModem, Ignore(m) PROVE TypeOK'
  BY <1>30 DEF Ignore, TypeOK
<1>31. ASSUME Indicate PROVE TypeOK'
  BY <1>31, Constants DEF Indicate, TypeOK
<1>32. CASE UNCHANGED vars
  BY <1>32 DEF TypeOK, vars
<1>33. QED
  BY <1>1, <1>2, <1>3, <1>4, <1>5, <1>6, <1>7, <1>8, <1>9, <1>10, <1>11, <1>12, <1>13, <1>14,
     <1>15, <1>16, <1>17, <1>18, <1>19, <1>20, <1>21, <1>22, <1>23, <1>24, <1>25, <1>26, <1>27,
     <1>28, <1>29, <1>30, <1>31, <1>32 DEF Next, Main, MainCall, ReaderStep, Modem

\* The mutex changes hands only as the two blocking phases begin and end.
LEMMA MutexStep == MutexInv /\ [Next]_vars => MutexInv'
<1> SUFFICES ASSUME MutexInv, [Next]_vars PROVE MutexInv'
  OBVIOUS
<1> USE DEF mainVars, modemVars, readerVars, slots
<1>1. ASSUME NEW s \in Services, NEW want \in BOOLEAN, Compose(s, want) PROVE MutexInv'
  BY <1>1 DEF Compose, MutexInv
<1>2. ASSUME NEW s \in Services, ComposeRefused(s) PROVE MutexInv'
  BY <1>2 DEF ComposeRefused, MutexInv
<1>3. ASSUME BeginSend PROVE MutexInv'
  BY <1>3 DEF BeginSend, MutexInv, Install, Return
<1>4. ASSUME Written PROVE MutexInv'
  BY <1>4 DEF Written, MutexInv, StartWait
<1>5. ASSUME PollTimeout PROVE MutexInv'
  BY <1>5 DEF PollTimeout, MutexInv, StartWait
<1>6. ASSUME SendFails PROVE MutexInv'
  BY <1>6 DEF SendFails, MutexInv, Return
<1>7. ASSUME NextSlice PROVE MutexInv'
  BY <1>7 DEF NextSlice, MutexInv
<1>8. ASSUME TimedOut PROVE MutexInv'
  BY <1>8 DEF TimedOut, MutexInv, Return
<1>9. ASSUME WakeReturn PROVE MutexInv'
  BY <1>9 DEF WakeReturn, MutexInv, Return
<1>10. ASSUME SliceExpires PROVE MutexInv'
  BY <1>10 DEF SliceExpires, MutexInv
<1>11. ASSUME SpuriousWakeup PROVE MutexInv'
  BY <1>11 DEF SpuriousWakeup, MutexInv
<1>12. ASSUME DrainEvent PROVE MutexInv'
  BY <1>12 DEF DrainEvent, MutexInv
<1>13. ASSUME RequestQuit PROVE MutexInv'
  BY <1>13 DEF RequestQuit, MutexInv
<1>14. ASSUME StopSignal PROVE MutexInv'
  BY <1>14 DEF StopSignal, MutexInv
<1>15. ASSUME ReadStop PROVE MutexInv'
  BY <1>15 DEF ReadStop, MutexInv
<1>16. ASSUME ReadQuit PROVE MutexInv'
  BY <1>16 DEF ReadQuit, MutexInv
<1>17. ASSUME NEW m \in toHost, ReadAnswer(m) PROVE MutexInv'
  BY <1>17 DEF ReadAnswer, MutexInv
<1>18. ASSUME ReadIndication PROVE MutexInv'
  BY <1>18 DEF ReadIndication, MutexInv
<1>19. ASSUME IdleTick PROVE MutexInv'
  BY <1>19 DEF IdleTick, MutexInv
<1>20. ASSUME RecvTick PROVE MutexInv'
  BY <1>20 DEF RecvTick, MutexInv, AbortPending, Signal
<1>21. ASSUME RecvAnswer PROVE MutexInv'
  BY <1>21 DEF RecvAnswer, MutexInv, Signal
<1>22. ASSUME RecvUnmatched PROVE MutexInv'
  BY <1>22 DEF RecvUnmatched, MutexInv
<1>23. ASSUME RecvIndication PROVE MutexInv'
  BY <1>23 DEF RecvIndication, MutexInv
<1>24. ASSUME NotifyMain PROVE MutexInv'
  BY <1>24 DEF NotifyMain, MutexInv
<1>25. ASSUME CloseDevice PROVE MutexInv'
  BY <1>25 DEF CloseDevice, MutexInv
<1>26. ASSUME ReportDisconnected PROVE MutexInv'
  BY <1>26 DEF ReportDisconnected, MutexInv
<1>27. ASSUME RecvAbort PROVE MutexInv'
  BY <1>27 DEF RecvAbort, MutexInv, AbortPending, Signal
<1>28. ASSUME Hangup PROVE MutexInv'
  BY <1>28 DEF Hangup, MutexInv
<1>29. ASSUME NEW m \in toModem, Answer(m) PROVE MutexInv'
  BY <1>29 DEF Answer, MutexInv
<1>30. ASSUME NEW m \in toModem, Ignore(m) PROVE MutexInv'
  BY <1>30 DEF Ignore, MutexInv
<1>31. ASSUME Indicate PROVE MutexInv'
  BY <1>31 DEF Indicate, MutexInv
<1>32. CASE UNCHANGED vars
  BY <1>32 DEF MutexInv, vars
<1>33. QED
  BY <1>1, <1>2, <1>3, <1>4, <1>5, <1>6, <1>7, <1>8, <1>9, <1>10, <1>11, <1>12, <1>13, <1>14,
     <1>15, <1>16, <1>17, <1>18, <1>19, <1>20, <1>21, <1>22, <1>23, <1>24, <1>25, <1>26, <1>27,
     <1>28, <1>29, <1>30, <1>31, <1>32 DEF Next, Main, MainCall, ReaderStep, Modem

\* Every step keeps what the two threads know of the request buffers.
LEMMA SlotStep == IInv /\ [Next]_vars => SlotInv'
<1> SUFFICES ASSUME IInv, [Next]_vars PROVE SlotInv'
  OBVIOUS
<1> USE DEF mainVars, modemVars, readerVars, slots
<1>1. ASSUME NEW s \in Services, NEW want \in BOOLEAN, Compose(s, want) PROVE SlotInv'
  <2>1. req'.n = calls + 1 /\ calls' = calls + 1 /\ live' = live \cup {calls + 1}
    BY <1>1 DEF Compose
  <2>2. calls \in Nat /\ last.n \in Nat
    BY Constants DEF IInv, TypeOK, Result
  <2>3. live' \subseteq 1..calls' /\ copies' \subseteq 1..calls' /\ last'.n < calls'
    BY <1>1, <2>1, <2>2 DEF Compose, IInv, SlotInv
  <2>4. sRequest # NULL => sRequest.n \in live /\ sRequest.n # calls + 1
    BY <2>2 DEF IInv, SlotInv
  <2>5. QED
    BY <1>1, <2>1, <2>2, <2>3, <2>4 DEF Compose, SlotInv, InCall
<1>2. ASSUME NEW s \in Services, ComposeRefused(s) PROVE SlotInv'
  BY <1>2, Constants DEF ComposeRefused, IInv, SlotInv, TypeOK, InCall
<1>3. ASSUME BeginSend PROVE SlotInv'
  BY <1>3 DEF BeginSend, Install, Return, IInv, SlotInv, TypeOK, InCall
<1>4. ASSUME Written PROVE SlotInv'
  BY <1>4 DEF Written, StartWait, IInv, SlotInv, InCall
<1>5. ASSUME PollTimeout PROVE SlotInv'
  BY <1>5 DEF PollTimeout, StartWait, IInv, SlotInv, InCall
<1>6. ASSUME SendFails PROVE SlotInv'
  BY <1>6, Constants DEF SendFails, Return, IInv, SlotInv, TypeOK, InCall
<1>7. ASSUME NextSlice PROVE SlotInv'
  BY <1>7, Constants DEF NextSlice, IInv, SlotInv, TypeOK, InCall
<1>8. ASSUME TimedOut PROVE SlotInv'
  BY <1>8, Constants DEF TimedOut, Return, IInv, SlotInv, TypeOK, InCall
<1>9. ASSUME WakeReturn PROVE SlotInv'
  <2>1. req # NULL /\ req.n = calls /\ calls \in Nat
    BY <1>9, Constants DEF WakeReturn, IInv, TypeOK, SlotInv
  <2>2. copies' \subseteq copies
    BY <1>9 DEF WakeReturn
  <2>3. last'.n = calls /\ mainPc' = "idle"
    BY <1>9, <2>1 DEF WakeReturn, Return
  <2>4. UNCHANGED <<req, calls, sRequest, live>>
    BY <1>9 DEF WakeReturn
  <2>5. QED
    BY <2>1, <2>2, <2>3, <2>4 DEF IInv, SlotInv, InCall
<1>10. ASSUME SliceExpires PROVE SlotInv'
  BY <1>10 DEF SliceExpires, IInv, SlotInv, InCall
<1>11. ASSUME SpuriousWakeup PROVE SlotInv'
  BY <1>11 DEF SpuriousWakeup, IInv, SlotInv, InCall
<1>12. ASSUME RecvTick PROVE SlotInv'
  BY <1>12 DEF RecvTick, AbortPending, FreeRequest, Signal, IInv, MutexInv, SlotInv, TypeOK,
     InCall
<1>13. ASSUME RecvAnswer PROVE SlotInv'
  <2>1. rdMsg.n \in 1..calls
    BY <1>13, RequestFields, Constants DEF RecvAnswer, is_response, IInv, TypeOK, Maybe,
       HeaderInv, InFlight
  <2>2. live' \subseteq live /\ sRequest' = NULL /\ copies' = copies \cup {rdMsg.n}
    BY <1>13 DEF RecvAnswer, FreeRequest
  <2>3. mainPc # "write" /\ mainPc' = IF mainPc = "asleep" THEN "woken" ELSE mainPc
    BY <1>13 DEF RecvAnswer, Signal, IInv, MutexInv
  <2>4. mainPc' = "lock" => req.n \in live'
    BY <1>13, <2>3 DEF RecvAnswer, is_response, FreeRequest, IInv, SlotInv
  <2>5. UNCHANGED <<req, calls, last, slice>>
    BY <1>13 DEF RecvAnswer
  <2>6. live' \subseteq 1..calls /\ copies' \subseteq 1..calls
    BY <2>1, <2>2 DEF IInv, SlotInv
  <2>7. mainPc' \in InCall => mainPc \in InCall
    BY <2>3 DEF InCall
  <2>8. QED
    BY <2>2, <2>3, <2>4, <2>5, <2>6, <2>7 DEF IInv, SlotInv
<1>14. ASSUME RecvAbort PROVE SlotInv'
  BY <1>14 DEF RecvAbort, AbortPending, FreeRequest, Signal, IInv, MutexInv, SlotInv, TypeOK,
     InCall
<1>15. CASE UNCHANGED <<calls, mainPc, req, slice, sRequest, live, copies, last>>
  BY <1>15 DEF IInv, SlotInv, InCall
<1>16. QED
  BY <1>1, <1>2, <1>3, <1>4, <1>5, <1>6, <1>7, <1>8, <1>9, <1>10, <1>11, <1>12, <1>13, <1>14,
     <1>15 DEF Next, Main, MainCall, ReaderStep, Modem, vars, DrainEvent, RequestQuit, StopSignal,
     ReadStop, ReadQuit, ReadAnswer, ReadIndication, IdleTick, RecvUnmatched, RecvIndication,
     NotifyMain, CloseDevice, ReportDisconnected, Hangup, Answer, Ignore, Indicate

\* A fresh transaction id differs from those in flight, and nothing that happens later
\* brings a second request or answer under the header of the installed request.
LEMMA HeaderStep == IInv /\ [Next]_vars => HeaderInv'
<1> SUFFICES ASSUME IInv, [Next]_vars PROVE HeaderInv'
  OBVIOUS
<1> USE DEF mainVars, modemVars, readerVars, slots
<1>1. ASSUME NEW s \in Services, NEW want \in BOOLEAN, Compose(s, want) PROVE HeaderInv'
  <2>1. calls \in Nat /\ calls' = calls + 1 /\ mainPc' = "lock" /\ InFlight' = InFlight
    BY <1>1, Constants DEF Compose, IInv, TypeOK, InFlight
  <2>2. \A m \in InFlight \ {NULL} : ~SameHeader(m, req')
    BY <1>1 DEF Compose, SameHeader, InFlight
  <2>3. \A m \in InFlight \ {NULL} : m.n \in Nat /\ m.n <= calls
    BY RequestFields DEF IInv, HeaderInv, TypeOK, InFlight, Maybe
  <2>4. Unique(req)' /\ (\A m \in InFlight' \ {NULL} : m.n <= calls')
    BY <2>1, <2>2, <2>3 DEF Unique, SameHeader
  <2>5. sRequest # NULL => Unique(sRequest)'
    BY <1>1, <2>1 DEF Compose, IInv, HeaderInv, Unique, SameHeader
  <2>6. sRequest' = sRequest
    BY <1>1 DEF Compose
  <2>7. QED
    BY <2>4, <2>5, <2>6 DEF HeaderInv, Unique, SameHeader
<1>2. ASSUME BeginSend PROVE HeaderInv'
  BY <1>2 DEF BeginSend, Install, Return, IInv, HeaderInv, Unique, InFlight, SameHeader
<1>3. ASSUME Written PROVE HeaderInv'
  <2>1. InFlight' = InFlight \cup {req} /\ sRequest' = req /\ sRequest = req /\ req.n = calls
    BY <1>3 DEF Written, IInv, TypeOK, SlotInv, InFlight
  <2>2. mainPc' = "asleep" /\ calls' = calls /\ calls \in Nat
    BY <1>3, Constants DEF Written, StartWait, IInv, TypeOK
  <2>3. QED
    BY <1>3, <2>1, <2>2 DEF IInv, HeaderInv, Unique, SameHeader
<1>4. CASE /\ InFlight' \ {NULL} \subseteq InFlight /\ sRequest' \in {NULL, sRequest}
           /\ mainPc' = "lock" => mainPc = "lock" /\ req' = req
           /\ calls' = calls
  <2>1. sRequest' # NULL => Unique(sRequest)'
    BY <1>4 DEF IInv, HeaderInv, Unique, SameHeader
  <2>2. mainPc' = "lock" => Unique(req)'
    BY <1>4 DEF IInv, HeaderInv, Unique, SameHeader
  <2>3. \A m \in InFlight' \ {NULL} : m.n <= calls'
    BY <1>4 DEF IInv, HeaderInv
  <2>4. QED
    BY <2>1, <2>2, <2>3 DEF HeaderInv
<1>5. QED
  BY <1>1, <1>2, <1>3, <1>4 DEF Next, Main, MainCall, ReaderStep, Modem, vars, ComposeRefused,
     PollTimeout, SendFails, NextSlice, TimedOut, WakeReturn, SliceExpires, SpuriousWakeup,
     DrainEvent, RequestQuit, StopSignal, ReadStop, ReadQuit, ReadAnswer, ReadIndication, IdleTick,
     RecvTick, RecvAnswer, RecvUnmatched, RecvIndication, NotifyMain, CloseDevice,
     ReportDisconnected, RecvAbort, Hangup, Answer, Ignore, Indicate, InFlight, AbortPending,
     FreeRequest, Signal, StartWait, Return

\* The stored answer stays the one to the current request, and a call that hands it over
\* has nothing left to free.
LEMMA AnswerStep == IInv /\ [Next]_vars => AnswerInv'
<1> SUFFICES ASSUME IInv, [Next]_vars PROVE AnswerInv'
  OBVIOUS
<1> USE DEF mainVars, modemVars, readerVars, slots
<1>1. ASSUME NEW s \in Services, NEW want \in BOOLEAN, Compose(s, want) PROVE AnswerInv'
  <2>1. live' = live \cup {calls + 1} /\ mainPc' = "lock" /\ UNCHANGED <<last, copies>>
    BY <1>1 DEF Compose
  <2>2. last.n # calls + 1
    BY Constants DEF IInv, TypeOK, SlotInv, Result
  <2>3. QED
    BY <2>1, <2>2 DEF IInv, AnswerInv, InCall
<1>2. ASSUME NEW s \in Services, ComposeRefused(s) PROVE AnswerInv'
  BY <1>2 DEF ComposeRefused, IInv, AnswerInv, InCall
<1>3. ASSUME BeginSend PROVE AnswerInv'
  BY <1>3 DEF BeginSend, Install, Return, IInv, AnswerInv, InCall
<1>4. ASSUME Written PROVE AnswerInv'
  BY <1>4 DEF Written, StartWait, IInv, AnswerInv, InCall
<1>5. ASSUME PollTimeout PROVE AnswerInv'
  BY <1>5 DEF PollTimeout, StartWait, IInv, AnswerInv, InCall
<1>6. ASSUME SendFails PROVE AnswerInv'
  BY <1>6 DEF SendFails, Return, IInv, AnswerInv, InCall
<1>7. ASSUME NextSlice PROVE AnswerInv'
  BY <1>7 DEF NextSlice, IInv, AnswerInv, InCall
<1>8. ASSUME TimedOut PROVE AnswerInv'
  BY <1>8 DEF TimedOut, Return, IInv, AnswerInv, InCall
<1>9. ASSUME WakeReturn PROVE AnswerInv'
  BY <1>9 DEF WakeReturn, Return, IInv, AnswerInv, InCall
<1>10. ASSUME SliceExpires PROVE AnswerInv'
  BY <1>10 DEF SliceExpires, IInv, AnswerInv, InCall
<1>11. ASSUME SpuriousWakeup PROVE AnswerInv'
  BY <1>11 DEF SpuriousWakeup, IInv, AnswerInv, InCall
<1>12. ASSUME RecvTick PROVE AnswerInv'
  BY <1>12 DEF RecvTick, AbortPending, FreeRequest, Signal, IInv, MutexInv, SlotInv, AnswerInv,
     InCall
<1>13. ASSUME RecvAnswer PROVE AnswerInv'
  <2>1. rdMsg.n = sRequest.n /\ sRequest # NULL
    BY <1>13 DEF RecvAnswer, is_response, IInv, HeaderInv, Unique, InFlight, SameHeader
  <2>2. sResponse' = rdMsg /\ sRequest' = NULL /\ live' = live \ {sRequest.n}
    BY <1>13 DEF RecvAnswer, FreeRequest
  <2>3. mainPc' \in InCall => mainPc \in InCall
    BY <1>13 DEF RecvAnswer, Signal, InCall
  <2>4. mainPc \in InCall => sRequest = req
    BY <2>1 DEF IInv, SlotInv
  <2>5. last'.rsp # NULL => last'.n \notin live' \cup copies'
    BY <1>13, <2>1, <2>2 DEF RecvAnswer, IInv, AnswerInv, SlotInv
  <2>6. UNCHANGED <<req, last>>
    BY <1>13 DEF RecvAnswer
  <2>7. QED
    BY <2>1, <2>2, <2>3, <2>4, <2>5, <2>6 DEF IInv, AnswerInv
<1>14. ASSUME RecvAbort PROVE AnswerInv'
  BY <1>14 DEF RecvAbort, AbortPending, FreeRequest, Signal, IInv, MutexInv, SlotInv, AnswerInv,
     InCall
<1>15. CASE UNCHANGED <<mainPc, req, sRequest, sResponse, live, copies, last>>
  BY <1>15 DEF IInv, AnswerInv, InCall
<1>16. QED
  BY <1>1, <1>2, <1>3, <1>4, <1>5, <1>6, <1>7, <1>8, <1>9, <1>10, <1>11, <1>12, <1>13, <1>14,
     <1>15 DEF Next, Main, MainCall, ReaderStep, Modem, vars, DrainEvent, RequestQuit, StopSignal,
     ReadStop, ReadQuit, ReadAnswer, ReadIndication, IdleTick, RecvUnmatched, RecvIndication,
     NotifyMain, CloseDevice, ReportDisconnected, Hangup, Answer, Ignore, Indicate

\* Once the reader has closed the device no call can enter qmidev_send, so the only
\* calls its abort can miss are those between two slices.
LEMMA ExitStep == IInv /\ [Next]_vars => ExitInv'
<1> SUFFICES ASSUME IInv, [Next]_vars PROVE ExitInv'
  OBVIOUS
<1> USE DEF mainVars, modemVars, readerVars, slots
<1>1. ASSUME BeginSend PROVE ExitInv'
  BY <1>1 DEF BeginSend, Return, IInv, ExitInv
<1>2. ASSUME Written PROVE ExitInv'
  BY <1>2 DEF Written, StartWait, IInv, ExitInv
<1>3. ASSUME PollTimeout PROVE ExitInv'
  BY <1>3 DEF PollTimeout, StartWait, IInv, ExitInv
<1>4. ASSUME NextSlice PROVE ExitInv'
  BY <1>4, Constants DEF NextSlice, IInv, TypeOK, ExitInv
<1>5. ASSUME RecvAbort PROVE ExitInv'
  <2>1. mainPc' # "write" /\ ~wdmOpen'
    BY <1>5 DEF RecvAbort, AbortPending, Signal, IInv, MutexInv, ExitInv
  <2>2. ASSUME mainPc' = "asleep" PROVE slice' > 1
    <3>1. mainPc = "asleep" /\ sRequest = NULL /\ slice' = slice
      BY <1>5, <2>2 DEF RecvAbort, AbortPending, Signal
    <3>2. req # NULL
      BY <3>1 DEF IInv, TypeOK
    <3>3. slice # 1 /\ slice \in 1..Slices
      BY <3>1, <3>2 DEF IInv, SlotInv, TypeOK
    <3>4. QED
      BY <3>1, <3>3, Constants
  <2>3. QED
    BY <2>1, <2>2 DEF ExitInv
<1>6. CASE /\ rdPc' = "exited" => rdPc = "exited"
           /\ rdPc' \in {"report", "abort", "exited"} => ~wdmOpen'
           /\ mainPc' \in {"write", "asleep"} => mainPc' = mainPc /\ slice' = slice
  BY <1>6 DEF IInv, ExitInv
<1>7. CASE Main
  BY <1>1, <1>2, <1>3, <1>4, <1>6, <1>7 DEF Main, MainCall, Compose, ComposeRefused, SendFails,
     TimedOut, WakeReturn, Return, SliceExpires, SpuriousWakeup, DrainEvent, RequestQuit,
     StopSignal, IInv, ExitInv
<1>8. CASE ReaderStep
  BY <1>5, <1>6, <1>8 DEF ReaderStep, ReadStop, ReadQuit, ReadAnswer, ReadIndication, IdleTick,
     RecvTick, RecvAnswer, AbortPending, Signal, RecvUnmatched, RecvIndication, NotifyMain,
     CloseDevice, ReportDisconnected, IInv, ExitInv
<1>9. CASE Hangup \/ Modem \/ UNCHANGED vars
  BY <1>6, <1>9 DEF Hangup, Modem, Answer, Ignore, Indicate, vars, IInv, ExitInv
<1>10. QED
  BY <1>7, <1>8, <1>9 DEF Next

\* Every step preserves the invariant.
LEMMA IInvStep == IInv /\ [Next]_vars => IInv'
BY TypeStep, MutexStep, SlotStep, HeaderStep, AnswerStep, ExitStep DEF IInv

\* IInv holds in every reachable state of the transaction layer.
THEOREM Invariance == Spec => []IInv
BY InitIInv, IInvStep, PTL DEF Spec

\* The counters of QMIThread.c stay in the width of their fields, the shared pointers
\* hold requests and answers and the event socket never overflows.
THEOREM TypeCorrect == Spec => []TypeOK
<1>1. IInv => TypeOK
  BY DEF IInv
<1>2. QED
  BY <1>1, Invariance, PTL

\* A caller of QmiThreadSendQMITimeout is never handed the answer to another request:
\* is_response compares service and transaction id, and while a request is installed
\* whatever is in flight under its header belongs to it.
THEOREM AnswersMatch == Spec => []AnswerMatchesCall
<1>1. IInv => AnswerMatchesCall
  BY DEF IInv, AnswerInv, AnswerMatchesCall
<1>2. QED
  BY <1>1, Invariance, PTL

\* Neither thread reads a freed request: s_pRequest is cleared in the critical section
\* that frees it, and the request of the caller is not yet, or still, installed.
THEOREM RequestsAlive == Spec => []RequestAlive
<1>1. IInv => RequestAlive
  BY DEF IInv, TypeOK, SlotInv, RequestAlive
<1>2. QED
  BY <1>1, Invariance, PTL

\* The reader has freed the request, and the caller owns the copy, of every call that
\* returns an answer.
THEOREM NoLeakWithAnswer == Spec => []AnsweredCallsLeakNothing
<1>1. IInv => AnsweredCallsLeakNothing
  BY DEF IInv, AnswerInv, AnsweredCallsLeakNothing
<1>2. QED
  BY <1>1, Invariance, PTL

\* The abort of the exiting reader misses only a caller between two slices.
THEOREM ExitReleases == Spec => []ExitReleasesMainInSlice
<1>1. IInv => ExitReleasesMainInSlice
  BY DEF IInv, ExitInv, ExitReleasesMainInSlice
<1>2. QED
  BY <1>1, Invariance, PTL

\* A stored answer reaches its caller: the abort of the quit path frees only a pending
\* request, and none is pending once the answer is stored.
THEOREM AnswersKept == Spec => AnswerKept
<1> DEFINE Kept == mainPc = "woken" /\ sResponse # NULL =>
                     \/ mainPc' = "woken" /\ sResponse' = sResponse
                     \/ mainPc' = "idle" /\ last'.ret = "ok"
                        /\ (req.want => last'.rsp = sResponse)
<1>1. IInv /\ [Next]_vars => [Kept]_vars
  <2> SUFFICES ASSUME IInv, [Next]_vars, mainPc = "woken", sResponse # NULL
               PROVE  \/ mainPc' = "woken" /\ sResponse' = sResponse
                      \/ mainPc' = "idle" /\ last'.ret = "ok"
                         /\ (req.want => last'.rsp = sResponse)
    OBVIOUS
  <2> USE DEF mainVars, modemVars, readerVars, slots
  <2>1. sRequest = NULL
    BY DEF IInv, AnswerInv, InCall
  <2>2. CASE WakeReturn
    BY <2>2 DEF WakeReturn, Return
  <2>3. CASE UNCHANGED <<mainPc, sResponse>>
    BY <2>3
  <2>4. QED
    BY <2>1, <2>2, <2>3 DEF Next, Main, MainCall, ReaderStep, Modem, vars, Compose, ComposeRefused,
       BeginSend, Written, PollTimeout, SendFails, NextSlice, TimedOut, SliceExpires,
       SpuriousWakeup, DrainEvent, RequestQuit, StopSignal, ReadStop, ReadQuit, ReadAnswer,
       ReadIndication, IdleTick, RecvTick, RecvAnswer, RecvUnmatched, RecvIndication, NotifyMain,
       CloseDevice, ReportDisconnected, RecvAbort, Hangup, Answer, Ignore, Indicate,
       AbortPending, is_response
<1>2. QED
  BY <1>1, Invariance, PTL DEF Spec, AnswerKept

\* The rank of a call is a natural number, so that it cannot fall for ever; it is 0 when
\* there is no call and at most 2 * Slices + 3.
LEMMA RankBound ==
  TypeOK => /\ CallRank \in 0..2 * Slices + 3
            /\ CallRank = 0 <=> mainPc = "idle"
<1> SUFFICES ASSUME TypeOK
             PROVE  CallRank \in 0..2 * Slices + 3 /\ (CallRank = 0 <=> mainPc = "idle")
  OBVIOUS
<1>1. Slices \in Nat \ {0} /\ slice \in 1..Slices
  BY Constants DEF TypeOK
<1>2. mainPc \in {"idle", "lock", "write", "asleep", "expired", "woken"}
  BY DEF TypeOK
<1>3. QED
  BY <1>1, <1>2 DEF CallRank

\* Every change of the place of a call lowers its rank, whichever thread makes it: the
\* caller's own steps, the timer, and the signals of RecvAnswer, RecvTick and RecvAbort.
THEOREM CallsProgress == Spec => CallProgress
<1>1. IInv /\ [Next]_vars =>
        [mainPc # "idle" /\ <<mainPc, slice>>' # <<mainPc, slice>> => CallRank' < CallRank]_vars
  <2> SUFFICES ASSUME IInv, [Next]_vars, mainPc # "idle",
                      ~UNCHANGED <<mainPc, slice>>
               PROVE  CallRank' < CallRank
    OBVIOUS
  <2> USE DEF mainVars, modemVars, readerVars, slots
  <2>1. Slices \in Nat \ {0} /\ slice \in 1..Slices
    BY Constants DEF IInv, TypeOK
  <2>2. CASE BeginSend
    BY <2>1, <2>2 DEF BeginSend, Return, CallRank
  <2>3. CASE Written \/ PollTimeout \/ SendFails
    BY <2>1, <2>3 DEF Written, PollTimeout, SendFails, StartWait, Return, CallRank
  <2>4. CASE SliceExpires \/ SpuriousWakeup
    BY <2>1, <2>4 DEF SliceExpires, SpuriousWakeup, CallRank
  <2>5. CASE NextSlice
    BY <2>1, <2>5 DEF NextSlice, CallRank
  <2>6. CASE TimedOut \/ WakeReturn
    BY <2>1, <2>6 DEF TimedOut, WakeReturn, Return, CallRank
  <2>7. CASE RecvAnswer \/ RecvTick \/ RecvAbort
    <3>1. mainPc = "asleep" /\ mainPc' = "woken" /\ slice' = slice
      BY <2>7 DEF RecvAnswer, RecvTick, RecvAbort, AbortPending, Signal
    <3>2. QED
      BY <2>1, <3>1 DEF CallRank
  <2>8. QED
    BY <2>2, <2>3, <2>4, <2>5, <2>6, <2>7
       DEF Next, Main, MainCall, ReaderStep, Modem, vars, Compose, ComposeRefused,
       DrainEvent, RequestQuit, StopSignal, ReadStop, ReadQuit, ReadAnswer,
       ReadIndication, IdleTick, RecvUnmatched, RecvIndication, NotifyMain,
       CloseDevice, ReportDisconnected, Hangup, Answer, Ignore, Indicate
<1>2. QED
  BY <1>1, Invariance, PTL DEF Spec, CallProgress

\* A caller that needs the mutex waits for it only while the reader writes an event to
\* the main loop: nobody else holds s_commandmutex for longer than a step.
OnlyNotifyBlocks == mainPc \in {"lock", "expired", "woken"} =>
                      mutex = "free" \/ (mutex = "reader" /\ rdPc = "notify")

\* With CallsProgress: a call takes at most 2 * Slices + 3 steps, and what can hold up
\* each of them is a full event socket alone.
THEOREM CallersBlockedByEvents == Spec => []OnlyNotifyBlocks
<1>1. IInv => OnlyNotifyBlocks
  BY DEF IInv, TypeOK, MutexInv, OnlyNotifyBlocks
<1>2. QED
  BY <1>1, Invariance, PTL

\* What the modem has answered are requests made, and every answer comes from it.
ServedInv == /\ served \subseteq 1..calls
             /\ \A m \in (toHost \cup {rdMsg}) \ {NULL} : m.n \in served
             /\ mainPc \in InCall /\ sResponse # NULL => sResponse.n \in served

\* Every step keeps the account of the answered requests.
LEMMA ServedStep == IInv /\ ServedInv /\ [Next]_vars => ServedInv'
<1> SUFFICES ASSUME IInv, ServedInv, [Next]_vars PROVE ServedInv'
  OBVIOUS
<1> USE DEF mainVars, modemVars, readerVars, slots
<1>1. ASSUME NEW s \in Services, NEW want \in BOOLEAN, Compose(s, want) PROVE ServedInv'
  <2>1. served' \subseteq 1..calls'
    BY <1>1 DEF Compose, ServedInv, IInv, TypeOK
  <2>2. QED
    BY <1>1, <2>1 DEF Compose, ServedInv, InCall
<1>2. ASSUME BeginSend PROVE ServedInv'
  BY <1>2 DEF BeginSend, Install, Return, ServedInv, InCall
<1>3. CASE Written \/ PollTimeout
  BY <1>3 DEF Written, PollTimeout, StartWait, ServedInv, InCall
<1>4. ASSUME NEW m \in toHost, ReadAnswer(m) PROVE ServedInv'
  BY <1>4 DEF ReadAnswer, ServedInv, InCall
<1>5. CASE ReadIndication \/ RecvUnmatched
  BY <1>5 DEF ReadIndication, RecvUnmatched, ServedInv
<1>6. CASE RecvTick \/ RecvAbort
  BY <1>6 DEF RecvTick, RecvAbort, AbortPending, Signal, ServedInv, InCall
<1>7. CASE RecvAnswer
  BY <1>7 DEF RecvAnswer, is_response, Signal, ServedInv, InCall
<1>8. ASSUME NEW m \in toModem, Answer(m) PROVE ServedInv'
  <2>1. m # NULL /\ m \in InFlight
    BY NullIsNoRequest DEF IInv, TypeOK, InFlight
  <2>2. m.n \in 1..calls
    BY <2>1, RequestFields DEF IInv, TypeOK, HeaderInv
  <2>3. QED
    BY <1>8, <2>2 DEF Answer, ServedInv
<1>9. CASE /\ UNCHANGED <<served, calls, toHost, rdMsg, sResponse>>
           /\ mainPc' \in InCall => mainPc \in InCall
  BY <1>9 DEF ServedInv
<1>10. CASE WakeReturn
  BY <1>10 DEF WakeReturn, Return, ServedInv, InCall
<1>11. CASE Main
  BY <1>1, <1>2, <1>3, <1>9, <1>10, <1>11 DEF Main, MainCall, ComposeRefused, SendFails,
     NextSlice, TimedOut, Return, SliceExpires, SpuriousWakeup, DrainEvent, RequestQuit,
     StopSignal, InCall
<1>12. CASE ReaderStep
  BY <1>4, <1>5, <1>6, <1>7, <1>9, <1>12 DEF ReaderStep, ReadStop, ReadQuit, IdleTick,
     RecvIndication, NotifyMain, CloseDevice, ReportDisconnected
<1>13. CASE Hangup \/ Modem \/ UNCHANGED vars
  BY <1>8, <1>9, <1>13 DEF Hangup, Modem, Ignore, Indicate, vars
<1>14. QED
  BY <1>11, <1>12, <1>13 DEF Next

\* The layer of two threads, with its slots, slices, aborts and late answers, implements
\* calls that each return the modem's answer to their own request or none.
THEOREM Implements == Spec => ImplementsRpc
<1>1. Init => RPC!Init /\ ServedInv
  BY DEF Init, RPC!Init, ServedInv, InCall
<1>2. IInv /\ ServedInv /\ [Next]_vars => [RPC!Next]_RPC!vars
  <2> SUFFICES ASSUME IInv, ServedInv, [Next]_vars PROVE [RPC!Next]_RPC!vars
    OBVIOUS
  <2> USE DEF mainVars, modemVars, readerVars, slots, RPC!Next, RPC!vars
  <2>1. ASSUME NEW s \in Services, NEW want \in BOOLEAN, Compose(s, want)
        PROVE  [RPC!Next]_RPC!vars
    <3>1. calls + 1 \in 1..MaxCalls /\ calls + 1 \notin served
      BY <2>1, Constants DEF Compose, IInv, TypeOK, ServedInv
    <3>2. RPC!Begin(calls + 1)
      BY <2>1, <3>1 DEF Compose, RPC!Begin
    <3>3. QED
      BY <3>1, <3>2
  <2>2. ASSUME mainPc' = "idle", last'.rsp = NULL, UNCHANGED served
        PROVE  [RPC!Next]_RPC!vars
    BY <2>2 DEF RPC!EndUnanswered
  <2>3. CASE WakeReturn /\ last'.rsp # NULL
    <3>1. /\ mainPc = "woken" /\ mainPc' = "idle" /\ UNCHANGED served
          /\ last'.rsp = sResponse /\ sResponse # NULL
      BY <2>3 DEF WakeReturn, Return
    <3>2. sResponse.n = req.n /\ req.n \in served
      BY <3>1 DEF IInv, AnswerInv, ServedInv, InCall
    <3>3. req.n # 0
      BY <3>2 DEF IInv, TypeOK
    <3>4. RPC!EndAnswered
      BY <3>1, <3>2, <3>3 DEF RPC!EndAnswered
    <3>5. QED
      BY <3>4
  <2>4. ASSUME NEW m \in toModem, Answer(m) PROVE [RPC!Next]_RPC!vars
    <3>1. UNCHANGED <<mainPc, req, last>> /\ served' = served \cup {m.n}
      BY <2>4 DEF Answer
    <3>2. m.n \in 1..MaxCalls
      BY RequestFields DEF IInv, TypeOK
    <3>3. CASE m.n \in served
      BY <3>1, <3>3
    <3>4. CASE m.n \notin served
      <4>1. RPC!Serve(m.n)
        BY <3>1, <3>4 DEF RPC!Serve
      <4>2. QED
        BY <3>2, <4>1
    <3>5. QED
      BY <3>3, <3>4
  <2>5. CASE UNCHANGED <<req, last, served>> /\ (mainPc = "idle" <=> mainPc' = "idle")
    BY <2>5
  <2>6. CASE Main
    BY <2>1, <2>2, <2>3, <2>5, <2>6 DEF Main, MainCall, ComposeRefused, BeginSend, Written,
       PollTimeout, StartWait, SendFails, NextSlice, TimedOut, WakeReturn, Return, SliceExpires,
       SpuriousWakeup, DrainEvent, RequestQuit, StopSignal
  <2>7. CASE ReaderStep
    BY <2>5, <2>7 DEF ReaderStep, ReadStop, ReadQuit, ReadAnswer, ReadIndication, IdleTick,
       RecvTick, RecvAnswer, AbortPending, Signal, RecvUnmatched, RecvIndication, NotifyMain,
       CloseDevice, ReportDisconnected, RecvAbort
  <2>8. CASE Hangup \/ Modem \/ UNCHANGED vars
    BY <2>4, <2>5, <2>8 DEF Hangup, Modem, Ignore, Indicate, vars
  <2>9. QED
    BY <2>6, <2>7, <2>8 DEF Next
<1>3. QED
  BY <1>1, <1>2, ServedStep, Invariance, PTL DEF Spec, ImplementsRpc, RPC!Spec
===============================================================================
