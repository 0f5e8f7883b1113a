----------------------------- MODULE QmiMainProofs -----------------------------
(***************************************************************************)
(* Proofs about QmiMain, for every set of enabled families and any number  *)
(* of signals, indications and faults: the types, what is left of the      *)
(* interface when the program ends, on whose word DHCP is started, that a  *)
(* stop signal and the retry of a call are neither lost nor put off, and   *)
(* that the main thread does not wait for a reader nobody has told to go.  *)
(***************************************************************************)
EXTENDS QmiMain, SequenceTheorems, TLAPS

-------------------------------------------------------------------------------
(* Lemmas about the requests.                                               *)

LEMMA AddressType ==
  ASSUME NEW c \in Call
  PROVE  \A a \in GetIPAddress(c) : a.ok \in BOOLEAN /\ a.told \in BOOLEAN
<1>1. ASSUME NEW a \in GetIPAddress(c) PROVE a.ok \in BOOLEAN /\ a.told \in BOOLEAN
  <2>1. CASE a = [ok |-> TRUE, told |-> FALSE]
    BY <2>1
  <2>2. ASSUME NEW o, a = [ok |-> o # "failed", told |-> o = "answered"]
        PROVE  a.ok \in BOOLEAN /\ a.told \in BOOLEAN
    BY <2>2
  <2>3. QED
    BY <1>1, <2>1, <2>2 DEF GetIPAddress
<1>2. QED
  BY <1>1

\* Setting up a call leaves a call and a verdict.
LEMMA SetupType ==
  ASSUME NEW c \in Call
  PROVE  \A s \in SetupDataCall(c) : s.d \in Call /\ s.ok \in BOOLEAN
<1>1. [c EXCEPT !.handle = TRUE, !.up = TRUE] \in Call
  BY DEF Call
<1>2. ASSUME NEW up \in BOOLEAN, NEW blind \in BOOLEAN
      PROVE  [c EXCEPT !.up = up, !.blind = blind] \in Call
  BY DEF Call
<1>3. c.up \in BOOLEAN /\ c.blind \in BOOLEAN /\ Reachable \in BOOLEAN
  BY DEF Call, Reachable
<1>4. ASSUME NEW s \in SetupDataCall(c) PROVE s.d \in Call /\ s.ok \in BOOLEAN
  <2>1. CASE s = [d |-> [c EXCEPT !.handle = TRUE, !.up = TRUE], ok |-> TRUE]
    BY <1>1, <2>1
  <2>2. ASSUME NEW o, NEW up \in {c.up} \cup {c.up \/ Reachable},
               s = [d |-> [c EXCEPT !.up = up, !.blind = c.blind \/ (up /\ ~c.up)],
                    ok |-> o = "aborted"]
        PROVE  s.d \in Call /\ s.ok \in BOOLEAN
    BY <1>2, <1>3, <2>2
  <2>3. QED
    BY <1>4, <2>1, <2>2 DEF SetupDataCall
<1>5. QED
  BY <1>4

\* What dialling can leave of the family f: d of c.  The request for the call failed, or it
\* passed for a success and d keeps what was told of the address.
DialCases(f, c, d) ==
  \E s \in SetupDataCall(c) :
    \/ ~s.ok /\ d = IF f = "v4" THEN s.d ELSE [s.d EXCEPT !.blind = FALSE]
    \/ \E a \in GetIPAddress(s.d) :
         d = [s.d EXCEPT !.addr = (f = "v4" /\ a.told), !.blind = (f = "v4" /\ ~a.told),
                         !.status = IF a.ok THEN "conn" ELSE s.d.status]

LEMMA DialCase ==
  ASSUME NEW f, NEW c, NEW d \in Dial(f, c) PROVE DialCases(f, c, d)
<1> DEFINE Failed == {t \in SetupDataCall(c) : ~t.ok}
           Made   == {t \in SetupDataCall(c) : t.ok}
           Got(s) == {[s.d EXCEPT !.addr = (f = "v4" /\ a.told),
                                  !.blind = (f = "v4" /\ ~a.told),
                                  !.status = IF a.ok THEN "conn" ELSE s.d.status] :
                        a \in GetIPAddress(s.d)}
<1>1. Dial(f, c) = {IF f = "v4" THEN s.d ELSE [s.d EXCEPT !.blind = FALSE] : s \in Failed}
                   \cup UNION {Got(s) : s \in Made}
  BY DEF Dial
<1>2. CASE d \in {IF f = "v4" THEN s.d ELSE [s.d EXCEPT !.blind = FALSE] : s \in Failed}
  BY <1>2 DEF DialCases
<1>3. ASSUME NEW s \in Made, d \in Got(s) PROVE DialCases(f, c, d)
  BY <1>3 DEF DialCases
<1>4. QED
  BY <1>1, <1>2, <1>3

\* Dialling leaves a call.
LEMMA DialType ==
  ASSUME NEW f, NEW c \in Call PROVE Dial(f, c) \subseteq Call
<1> SUFFICES ASSUME NEW d \in Dial(f, c) PROVE d \in Call
  OBVIOUS
<1>0. DialCases(f, c, d)
  BY DialCase
<1>1. PICK s \in SetupDataCall(c) :
        \/ ~s.ok /\ d = IF f = "v4" THEN s.d ELSE [s.d EXCEPT !.blind = FALSE]
        \/ \E a \in GetIPAddress(s.d) :
             d = [s.d EXCEPT !.addr = (f = "v4" /\ a.told), !.blind = (f = "v4" /\ ~a.told),
                             !.status = IF a.ok THEN "conn" ELSE s.d.status]
  BY <1>0 DEF DialCases
<1>2. s.d \in Call
  BY SetupType
<1>3. [s.d EXCEPT !.blind = FALSE] \in Call
  BY <1>2 DEF Call
<1>4. ASSUME NEW addr \in BOOLEAN, NEW blind \in BOOLEAN,
             NEW status \in {"unknown", "conn", "disc"}
      PROVE  [s.d EXCEPT !.addr = addr, !.blind = blind, !.status = status] \in Call
  BY <1>2 DEF Call
<1>5. s.d.status \in {"unknown", "conn", "disc"}
  BY <1>2 DEF Call
<1>6. ASSUME NEW a \in GetIPAddress(s.d)
      PROVE  [s.d EXCEPT !.addr = (f = "v4" /\ a.told), !.blind = (f = "v4" /\ ~a.told),
                         !.status = IF a.ok THEN "conn" ELSE s.d.status] \in Call
  <2>1. a.told \in BOOLEAN /\ a.ok \in BOOLEAN
    BY <1>2, <1>6, AddressType
  <2>2. (IF a.ok THEN "conn" ELSE s.d.status) \in {"unknown", "conn", "disc"}
    BY <1>5
  <2>3. QED
    BY <1>4, <2>1, <2>2
<1>7. QED
  BY <1>1, <1>2, <1>3, <1>6

\* Querying leaves a call.
LEMMA QueryType ==
  ASSUME NEW c \in Call PROVE Query(c) \subseteq Call
<1>1. ASSUME NEW s \in {"conn", "unknown", "disc"}
      PROVE  [c EXCEPT !.status = s, !.handle = @ /\ s # "disc"] \in Call
  BY <1>1 DEF Call
<1>2. QED
  BY <1>1 DEF Query

\* Deactivating leaves a call.
LEMMA DeactivateType ==
  ASSUME NEW c \in Call PROVE Deactivate(c) \subseteq Call
BY DEF Deactivate, Call

\* What SIG_EVENT_CHECK can make of a family: d of c.
CheckCases(f, c, d) ==
  \/ d = [c EXCEPT !.status = "disc"]
  \/ \E q \in Query(c) :
       \/ d = q /\ (f = "v6" \/ q.status # "conn" \/ TRUE \in AddressMatches(q))
       \/ \E e \in Deactivate(q) : d = [e EXCEPT !.status = "disc"]

\* SIG_EVENT_CHECK does one of three things to a family.
LEMMA CheckFamilyCases ==
  ASSUME NEW f, NEW c, NEW d \in CheckFamily(f, c)
  PROVE  CheckCases(f, c, d)
<1> USE DEF CheckCases
<1>1. CASE f \notin Enabled
  BY <1>1 DEF CheckFamily
<1>2. CASE f \in Enabled
  <2>1. PICK q \in Query(c) :
          d \in IF f = "v6" \/ q.status # "conn" THEN {q}
                ELSE {q : m \in AddressMatches(q) \cap {TRUE}}
                     \cup UNION {{[e EXCEPT !.status = "disc"] : e \in Deactivate(q)} :
                                   m \in AddressMatches(q) \cap {FALSE}}
    BY <1>2 DEF CheckFamily
  <2>2. CASE f = "v6" \/ q.status # "conn"
    BY <2>1, <2>2
  <2>3. CASE ~(f = "v6" \/ q.status # "conn")
    <3>1. CASE d \in {q : m \in AddressMatches(q) \cap {TRUE}}
      BY <3>1
    <3>2. CASE d \in UNION {{[e EXCEPT !.status = "disc"] : e \in Deactivate(q)} :
                               m \in AddressMatches(q) \cap {FALSE}}
      BY <3>2
    <3>3. QED
      BY <2>1, <2>3, <3>1, <3>2
  <2>4. QED
    BY <2>2, <2>3
<1>3. QED
  BY <1>1, <1>2

\* SIG_EVENT_CHECK leaves a call.
LEMMA CheckFamilyType ==
  ASSUME NEW f \in Families, NEW c \in Call PROVE CheckFamily(f, c) \subseteq Call
<1>1. ASSUME NEW d \in Call PROVE [d EXCEPT !.status = "disc"] \in Call
  BY <1>1 DEF Call
<1>2. \A q \in Query(c) : q \in Call /\ Deactivate(q) \subseteq Call
  BY QueryType, DeactivateType
<1>3. ASSUME NEW d \in CheckFamily(f, c) PROVE d \in Call
  <2>1. CheckCases(f, c, d)
    BY <1>3, CheckFamilyCases
  <2>2. QED
    BY <1>1, <1>2, <2>1 DEF CheckCases
<1>4. QED
  BY <1>3

\* A family that SIG_EVENT_CHECK leaves connected with an IPv4 address has its call: the
\* modem has just reported the address.
LEMMA AddressMeansCall ==
  ASSUME NEW c \in Call, NEW d \in CheckFamily("v4", c), d.status = "conn", d.addr
  PROVE  d.up
<1>1. \A e \in Call : [e EXCEPT !.status = "disc"].status = "disc"
  BY DEF Call
<1>2. PICK q \in Query(c) : d = q /\ TRUE \in AddressMatches(q)
  <2>1. \A q \in Query(c) : Deactivate(q) \subseteq Call
    BY QueryType, DeactivateType
  <2>2. CheckCases("v4", c, d)
    BY CheckFamilyCases
  <2>3. \A e \in Call : d # [e EXCEPT !.status = "disc"]
    BY <1>1
  <2>4. QED
    BY <2>1, <2>2, <2>3 DEF CheckCases
<1>3. PICK a \in GetIPAddress(q) : a.told
  <2>1. PICK a \in GetIPAddress(q) : (a.ok /\ a.told = q.addr) = TRUE
    <3>1. TRUE \in {a.ok /\ a.told = q.addr : a \in GetIPAddress(q)}
      BY <1>2 DEF AddressMatches
    <3>2. QED
      BY <3>1
  <2>2. QED
    BY <1>2, <2>1
<1>4. q.up
  <2>1. CASE a = [ok |-> TRUE, told |-> FALSE]
    BY <1>3, <2>1
  <2>2. ASSUME NEW o \in {p \in Outcomes : p = "answered" => q.up},
               a = [ok |-> o # "failed", told |-> o = "answered"]
        PROVE  q.up
    BY <1>3, <2>2
  <2>3. QED
    BY <1>3, <2>1, <2>2 DEF GetIPAddress
<1>5. QED
  BY <1>2, <1>4

-------------------------------------------------------------------------------
(* The inductive invariant.                                                 *)

Signos == {"START", "CHECK", "STOP"}
Events == {"DISCONNECTED", "NETWORK", "DATACALL", "LOOPBACK", "RESET"}

\* poll's second report is used up before the descriptors are closed.
TurnInv == pc = "closing" => turn = "poll"

\* Only the loop itself keeps the interface up; the modem reset alone forgets a link that
\* is up, and is remembered.
NetInv == /\ s_link = 1 => net
          /\ net /\ ~wasReset => s_link = 1 /\ pc = "loop"
          /\ pc \in {"closing", "resetWait", "killed"} => wasReset

IInv == TypeOK /\ TurnInv /\ NetInv

\* The program starts in the invariant.
LEMMA InitIInv == Init => IInv
<1> SUFFICES ASSUME Init PROVE IInv
  OBVIOUS
<1>1. NoCall \in Call
  BY DEF NoCall, Call
<1>2. fam \in [Families -> Call]
  BY <1>1 DEF Init
<1>3. /\ sigq \in Seq({"START", "CHECK", "STOP"})
      /\ evq \in Seq({"DISCONNECTED", "NETWORK", "DATACALL", "LOOPBACK", "RESET"})
  BY EmptySeq DEF Init
<1>4. faults \in 0..MaxFaults /\ main_loop \in BOOLEAN
  BY Constants DEF Init
<1>5. s_link \in {-1, 0, 1}
  BY DEF Init
<1>6. TypeOK
  BY <1>2, <1>3, <1>4, <1>5 DEF Init, TypeOK
<1>7. TurnInv /\ NetInv
  BY DEF Init, TurnInv, NetInv
<1>8. QED
  BY <1>6, <1>7 DEF IInv

\* A signal leaves the queue, or joins it.
LEMMA SignoQueue ==
  ASSUME TypeOK
  PROVE  /\ sigq # <<>> => Tail(sigq) \in Seq(Signos)
         /\ \A q \in Seq(Signos) : \A s \in Signos : Append(q, s) \in Seq(Signos)
BY HeadTailProperties, AppendProperties DEF TypeOK, Signos

\* An event leaves the queue, or joins it.
LEMMA EventQueue ==
  ASSUME TypeOK
  PROVE  /\ evq # <<>> => Tail(evq) \in Seq(Events)
         /\ \A e \in Events : Append(evq, e) \in Seq(Events) /\ Append(evq, e) # <<>>
BY HeadTailProperties, AppendProperties DEF TypeOK, Events

\* The interface follows the link.
LEMMA LinkChange ==
  ASSUME NEW link \in {0, 1}, usbnet_link_change(link), TypeOK, NetInv
  PROVE  /\ s_link' = link /\ net' \in BOOLEAN
         /\ s_link' = 1 => net'
         /\ net' /\ ~wasReset => link = 1
BY DEF usbnet_link_change, netVars, NetInv, TypeOK

\* Reading a signal takes nothing else.
LEMMA ReadSignoType ==
  ASSUME TypeOK, NEW signo, ReadSigno(signo)
  PROVE  /\ pc = "loop" /\ Tail(sigq) \in Seq(Signos)
         /\ turn' \in {"poll", "ev"} /\ (turn' = "ev" => evq' # <<>>) /\ evq' = evq
BY SignoQueue DEF ReadSigno

\* Reading an event ends the turn.
LEMMA ReadEventType ==
  ASSUME TypeOK, NEW event, ReadEvent(event)
  PROVE  pc = "loop" /\ turn' = "poll" /\ evq' \in Seq(Events)
BY EventQueue DEF ReadEvent

\* The handlers of signals.
LEMMA SignoStep == IInv /\ HandleSigno => IInv'
<1> SUFFICES ASSUME IInv, HandleSigno PROVE IInv'
  OBVIOUS
<1> USE DEF IInv, queues, dialer, netVars, world
<1>1. ASSUME NEW f \in Families PROVE fam[f] \in Call
  BY DEF TypeOK
<1>2. "v4" \in Families /\ "v6" \in Families
  BY DEF Families
<1>3. ASSUME NEW signo, ReadSigno(signo), sigq' = Tail(sigq),
             UNCHANGED <<pc, main_loop, channel, attached, loopback, netVars, reader, world>>,
             fam' \in [Families -> Call], held' \in BOOLEAN, alarm' \in BOOLEAN
      PROVE  IInv'
  <2>1. TypeOK'
    BY <1>3, ReadSignoType DEF TypeOK, Signos
  <2>2. TurnInv' /\ NetInv'
    BY <1>3, ReadSignoType DEF TurnInv, NetInv
  <2>3. QED
    BY <2>1, <2>2
<1>4. CASE StartIgnored
  BY <1>3, <1>4 DEF StartIgnored, TypeOK
<1>5. CASE StartTooEarly
  BY <1>3, <1>5 DEF StartTooEarly, TypeOK
<1>6. CASE StartDials
  <2>1. PICK v4 \in Dial("v4", fam["v4"]), v6 \in Dial("v6", fam["v6"]) :
          fam' = [f \in Families |->
                    IF f \notin Enabled \/ fam[f].status = "conn" THEN fam[f]
                    ELSE IF f = "v4" THEN v4 ELSE v6]
    BY <1>6 DEF StartDials
  <2>2. v4 \in Call /\ v6 \in Call
    BY <1>1, <1>2, DialType
  <2>3. fam' \in [Families -> Call]
    BY <1>1, <2>1, <2>2
  <2>4. Disconnected(fam') \in BOOLEAN
    BY DEF Disconnected
  <2>5. QED
    BY <1>3, <1>6, <2>3, <2>4 DEF StartDials
<1>7. CASE CheckCalls
  <2>1. PICK v4 \in CheckFamily("v4", fam["v4"]), v6 \in CheckFamily("v6", fam["v6"]) :
          fam' = [f \in Families |-> IF f = "v4" THEN v4 ELSE v6]
    BY <1>7 DEF CheckCalls
  <2>2. v4 \in Call /\ v6 \in Call
    BY <1>1, <1>2, CheckFamilyType
  <2>3. fam' \in [Families -> Call]
    BY <2>1, <2>2
  <2>4. pc = "loop" /\ Tail(sigq) \in Seq(Signos) /\ turn' \in {"poll", "ev"}
        /\ (turn' = "ev" => evq' # <<>>) /\ evq' = evq
    BY <1>7, ReadSignoType DEF CheckCalls
  <2>5. sigq' \in Seq(Signos)
    <3>1. "START" \in Signos
      BY DEF Signos
    <3>2. QED
      BY <1>7, <2>4, <3>1, SignoQueue DEF CheckCalls, Redial, SendSigno
  <2>6. s_link' \in {-1, 0, 1} /\ net' \in BOOLEAN /\ (s_link' = 1 => net')
        /\ (net' /\ ~wasReset => s_link' = 1)
    <3>1. usbnet_link_change(0) \/ usbnet_link_change(1) \/ UNCHANGED netVars
      BY <1>7 DEF CheckCalls
    <3>2. QED
      BY <3>1, LinkChange DEF NetInv, TypeOK
  <2>7. /\ alarm' = FALSE
        /\ UNCHANGED <<pc, main_loop, channel, attached, loopback, held, reader, world>>
    BY <1>7 DEF CheckCalls
  <2>8. TypeOK'
    <3>1. /\ pc' = pc /\ main_loop' = main_loop /\ channel' = channel
          /\ attached' = attached /\ loopback' = loopback /\ held' = held
          /\ reader' = reader /\ plugged' = plugged
          /\ faults' = faults /\ stopped' = stopped /\ wasReset' = wasReset
      BY <2>7 DEF world
    <3>2. /\ sigq' \in Seq({"START", "CHECK", "STOP"})
          /\ evq' = evq /\ alarm' \in BOOLEAN
      BY <2>4, <2>5, <2>7 DEF Signos
    <3>3. QED
      BY <2>3, <2>4, <2>6, <3>1, <3>2 DEF TypeOK
  <2>9. TurnInv' /\ NetInv'
    BY <2>4, <2>6, <2>7 DEF TurnInv, NetInv
  <2>10. QED
    BY <2>8, <2>9
<1>8. CASE Stop
  <2>1. PICK v4 \in Deactivate(fam["v4"]), v6 \in Deactivate(fam["v6"]) :
          fam' = [f \in Families |->
                    IF f \notin Enabled \/ fam[f].status # "conn" THEN fam[f]
                    ELSE IF f = "v4" THEN v4 ELSE v6]
    BY <1>8 DEF Stop
  <2>2. v4 \in Call /\ v6 \in Call
    BY <1>1, <1>2, DeactivateType
  <2>3. fam' \in [Families -> Call]
    BY <1>1, <2>1, <2>2
  <2>4. pc = "loop" /\ sigq' \in Seq(Signos) /\ turn' \in {"poll", "ev"}
        /\ (turn' = "ev" => evq' # <<>>) /\ evq' = evq
    BY <1>8, ReadSignoType DEF Stop
  <2>5. s_link' = 0 /\ net' \in BOOLEAN /\ (net' => wasReset)
    BY <1>8, LinkChange DEF Stop
  <2>6. /\ alarm' = FALSE /\ pc' = "quit"
        /\ reader' \in {"none", "running", "quitting", "exited"}
        /\ UNCHANGED <<main_loop, channel, attached, loopback, held, world>>
    BY <1>8 DEF Stop, TypeOK
  <2>7. TypeOK'
    BY <2>3, <2>4, <2>5, <2>6 DEF TypeOK, Signos
  <2>8. TurnInv' /\ NetInv'
    BY <2>4, <2>5, <2>6 DEF TurnInv, NetInv
  <2>9. QED
    BY <2>7, <2>8
<1>9. QED
  BY <1>4, <1>5, <1>6, <1>7, <1>8 DEF HandleSigno

\* The handlers of events.
LEMMA EventStep == IInv /\ HandleEvent => IInv'
<1> SUFFICES ASSUME IInv, HandleEvent PROVE IInv'
  OBVIOUS
<1> USE DEF IInv, queues, dialer, netVars, world
<1>1. "START" \in Signos /\ "CHECK" \in Signos /\ sigq \in Seq(Signos)
  BY DEF Signos, TypeOK
<1>2. RegistrationState => attached' \in BOOLEAN
  BY DEF RegistrationState, TypeOK
<1>3. CASE Disconnect
  <2>1. pc = "loop" /\ turn' = "poll" /\ evq' \in Seq(Events)
    BY <1>3, ReadEventType DEF Disconnect
  <2>2. s_link' = 0 /\ net' \in BOOLEAN /\ (net' => wasReset)
    BY <1>3, LinkChange DEF Disconnect
  <2>3. pc' \in {"join", "quit"} /\ UNCHANGED <<main_loop, channel, sigq, dialer, reader, world>>
    BY <1>3 DEF Disconnect
  <2>4. TypeOK'
    BY <2>1, <2>2, <2>3 DEF TypeOK, Events
  <2>5. TurnInv' /\ NetInv'
    BY <2>1, <2>2, <2>3 DEF TurnInv, NetInv
  <2>6. QED
    BY <2>4, <2>5
<1>4. ASSUME NEW event, ReadEvent(event), sigq' \in Seq(Signos),
             attached' \in BOOLEAN, loopback' \in BOOLEAN, held' \in BOOLEAN,
             UNCHANGED <<pc, main_loop, channel, fam, alarm, netVars, reader, world>>
      PROVE  IInv'
  <2>1. TypeOK'
    BY <1>4, ReadEventType DEF TypeOK, Signos, Events
  <2>2. TurnInv' /\ NetInv'
    BY <1>4, ReadEventType DEF TurnInv, NetInv
  <2>3. QED
    BY <2>1, <2>2
<1>5. CASE NetworkChanged
  <2>1. sigq' \in Seq(Signos)
    BY <1>1, <1>5, SignoQueue DEF NetworkChanged, SendSigno
  <2>2. attached' \in BOOLEAN
    BY <1>2, <1>5 DEF NetworkChanged
  <2>3. held' \in BOOLEAN
    <3>1. held' = held \/ held' = FALSE
      BY <1>5 DEF NetworkChanged
    <3>2. QED
      BY <3>1 DEF TypeOK
  <2>4. loopback' \in BOOLEAN
    BY <1>5 DEF NetworkChanged, TypeOK
  <2>5. QED
    BY <1>4, <1>5, <2>1, <2>2, <2>3, <2>4 DEF NetworkChanged
<1>6. CASE DataCallChanged
  <2>1. sigq' \in Seq(Signos)
    BY <1>1, <1>6, SignoQueue DEF DataCallChanged, SendSigno
  <2>2. held' \in BOOLEAN
    BY <1>6 DEF DataCallChanged
  <2>3. QED
    BY <1>4, <1>6, <2>1, <2>2 DEF DataCallChanged, TypeOK
<1>7. CASE LoopbackConfig
  <2>1. sigq' \in Seq(Signos)
    BY <1>1, <1>7, SignoQueue DEF LoopbackConfig, SendSigno
  <2>2. QED
    BY <1>4, <1>7, <2>1 DEF LoopbackConfig, TypeOK
<1>8. CASE ModemReset
  <2>1. pc = "loop" /\ turn' = "poll" /\ evq' \in Seq(Events)
    BY <1>8, ReadEventType DEF ModemReset
  <2>2. /\ reader' \in {"none", "running", "quitting", "exited"}
        /\ s_link' = 0 /\ net' = net /\ pc' = "closing" /\ wasReset' = TRUE
        /\ UNCHANGED <<main_loop, channel, sigq, dialer, plugged, faults, stopped>>
    BY <1>8 DEF ModemReset, TypeOK
  <2>3. TypeOK'
    BY <2>1, <2>2 DEF TypeOK, Events
  <2>4. TurnInv' /\ NetInv'
    BY <2>1, <2>2 DEF TurnInv, NetInv
  <2>5. QED
    BY <2>3, <2>4
<1>9. QED
  BY <1>3, <1>5, <1>6, <1>7, <1>8 DEF HandleEvent

\* Starting, starting over and ending.
LEMMA RestartStep == IInv /\ (Restart \/ PollTimeout \/ Quit) => IInv'
<1> SUFFICES ASSUME IInv, Restart \/ PollTimeout \/ Quit PROVE IInv'
  OBVIOUS
<1> USE DEF IInv, queues, dialer, netVars, world
<1>1. "CHECK" \in Signos /\ sigq \in Seq(Signos)
  BY DEF Signos, TypeOK
<1>2. <<>> \in Seq(Signos) /\ <<>> \in Seq(Events)
  BY EmptySeq
<1>3. CASE CreateSockets
  <2>1. TypeOK'
    BY <1>2, <1>3 DEF CreateSockets, TypeOK, Signos, Events
  <2>2. TurnInv' /\ NetInv'
    BY <1>2, <1>3 DEF CreateSockets, TurnInv, NetInv
  <2>3. QED
    BY <2>1, <2>2
<1>4. CASE Detect
  BY <1>4 DEF Detect, TypeOK, TurnInv, NetInv
<1>5. CASE StartReader
  BY <1>5 DEF StartReader, TypeOK, TurnInv, NetInv
<1>6. CASE InitDevice
  <2>1. sigq' \in Seq(Signos)
    BY <1>1, <1>6, SignoQueue DEF InitDevice, SendSigno
  <2>2. attached' \in BOOLEAN
    BY <1>6 DEF InitDevice, RegistrationState, TypeOK
  <2>3. loopback' \in BOOLEAN
    BY <1>6 DEF InitDevice
  <2>4. QED
    BY <1>6, <2>1, <2>2, <2>3 DEF InitDevice, TypeOK, TurnInv, NetInv, Signos
<1>7. CASE InitFails
  BY <1>7 DEF InitFails, TypeOK, TurnInv, NetInv
<1>8. CASE Rejoin
  <2>1. TypeOK'
    <3>1. channel' \in BOOLEAN
      BY <1>8 DEF Rejoin
    <3>2. QED
      BY <1>8, <3>1 DEF Rejoin, TypeOK
  <2>2. TurnInv' /\ NetInv'
    BY <1>8 DEF Rejoin, TurnInv, NetInv
  <2>3. QED
    BY <2>1, <2>2
<1>9. CASE CloseReaderEnd
  BY <1>2, <1>9 DEF CloseReaderEnd, TypeOK, TurnInv, NetInv, Signos, Events
<1>10. CASE RestartAfterReset
  BY <1>10 DEF RestartAfterReset, TypeOK, TurnInv, NetInv
<1>11. CASE NodeDisappeared
  BY <1>11 DEF NodeDisappeared, TypeOK, TurnInv, NetInv
<1>12. CASE PollTimeout
  <2>1. sigq' \in Seq(Signos)
    BY <1>1, <1>12, SignoQueue DEF PollTimeout, SendSigno
  <2>2. QED
    BY <1>12, <2>1 DEF PollTimeout, TypeOK, TurnInv, NetInv, Signos
<1>13. CASE Quit
  <2>1. s_link' = 0 /\ net' \in BOOLEAN /\ (net' => wasReset)
    BY <1>13, LinkChange DEF Quit
  <2>2. pc' = "exited" /\ UNCHANGED <<main_loop, channel, queues, dialer, reader, world>>
    BY <1>13 DEF Quit
  <2>3. TypeOK'
    BY <2>1, <2>2 DEF TypeOK
  <2>4. TurnInv' /\ NetInv'
    BY <2>1, <2>2 DEF TurnInv, NetInv
  <2>5. QED
    BY <2>3, <2>4
<1>14. QED
  BY <1>3, <1>4, <1>5, <1>6, <1>7, <1>8, <1>9, <1>10, <1>11, <1>12, <1>13 DEF Restart

\* What happens beside the loop: it leaves the link alone, and an event sent between the
\* last two closes kills the program.
LEMMA WorldStep == IInv /\ (Timers \/ ReaderExits \/ World) => IInv'
<1> SUFFICES ASSUME IInv, Timers \/ ReaderExits \/ World PROVE IInv'
  OBVIOUS
<1> USE DEF IInv, queues, dialer, netVars, world
<1>1. "START" \in Signos /\ "STOP" \in Signos /\ sigq \in Seq(Signos)
  BY DEF Signos, TypeOK
<1>2. Fault => faults' \in 0..MaxFaults
  BY Constants DEF Fault, TypeOK
<1>3. [f \in Families |-> [fam[f] EXCEPT !.up = FALSE]] \in [Families -> Call]
  BY DEF TypeOK, Call
<1>4. ASSUME NEW event \in Events, Report(event)
      PROVE  /\ evq' \in Seq(Events) /\ (evq # <<>> => evq' # <<>>)
             /\ pc' \in {pc, "killed"} /\ (pc' # pc => pc = "closing")
  BY <1>4, EventQueue DEF Report, TypeOK, Events
<1>5. CASE StopSignal
  <2>1. sigq' \in Seq(Signos)
    BY <1>1, <1>5, SignoQueue DEF StopSignal, SendSigno, TypeOK
  <2>2. TypeOK'
    <3>1. main_loop' \in BOOLEAN /\ stopped' \in BOOLEAN
      BY <1>5 DEF StopSignal
    <3>2. QED
      BY <1>2, <1>5, <2>1, <3>1 DEF StopSignal, TypeOK, Signos
  <2>3. TurnInv' /\ NetInv'
    BY <1>2, <1>5 DEF StopSignal, TurnInv, NetInv
  <2>4. QED
    BY <2>2, <2>3
<1>6. CASE AlarmSignal
  <2>1. sigq' \in Seq(Signos)
    BY <1>1, <1>6, SignoQueue DEF AlarmSignal, SendSigno
  <2>2. TypeOK'
    <3>1. alarm' \in BOOLEAN
      BY <1>6 DEF AlarmSignal
    <3>2. QED
      BY <1>6, <2>1, <3>1 DEF AlarmSignal, TypeOK, Signos
  <2>3. TurnInv' /\ NetInv'
    BY <1>6 DEF AlarmSignal, TurnInv, NetInv
  <2>4. QED
    BY <2>2, <2>3
<1>7. CASE AllowTimePasses
  <2>1. TypeOK'
    <3>1. held' \in BOOLEAN
      BY <1>7 DEF AllowTimePasses
    <3>2. QED
      BY <1>7, <3>1 DEF AllowTimePasses, TypeOK
  <2>2. TurnInv' /\ NetInv'
    BY <1>7 DEF AllowTimePasses, TurnInv, NetInv
  <2>3. QED
    BY <2>1, <2>2
\* The three steps of the reader: an event is reported and the loop's state stays.
<1> DEFINE LoopStays == UNCHANGED <<main_loop, channel, sigq, turn, attached, loopback, held,
                                    alarm, s_link, net, stopped, wasReset, plugged>>
           Others    == /\ fam' \in [Families -> Call] /\ faults' \in 0..MaxFaults
                        /\ reader' \in {"none", "running", "quitting", "exited"}
<1>a. ASSUME NEW event \in Events, Report(event), LoopStays, Others PROVE IInv'
  <2>1. /\ evq' \in Seq(Events) /\ (evq # <<>> => evq' # <<>>)
        /\ pc' \in {pc, "killed"} /\ (pc' # pc => pc = "closing")
    BY <1>4, <1>a
  <2> HIDE DEF IInv
  <2>2. TypeOK /\ TurnInv /\ NetInv
    BY DEF IInv
  <2>3. TypeOK'
    <3>1. /\ pc' \in {"start", "detect", "thread", "init", "loop", "join", "closing",
                      "resetWait", "quit", "exited", "killed"}
          /\ main_loop' \in BOOLEAN /\ channel' \in BOOLEAN
          /\ sigq' \in Seq({"START", "CHECK", "STOP"})
      BY <1>a, <2>1, <2>2 DEF TypeOK
    <3>2. evq' \in Seq({"DISCONNECTED", "NETWORK", "DATACALL", "LOOPBACK", "RESET"})
      BY <2>1 DEF Events
    <3>3. turn' \in {"poll", "ev"} /\ (turn' = "ev" => evq' # <<>>)
      BY <1>a, <2>1, <2>2 DEF TypeOK
    <3>4. /\ attached' \in BOOLEAN /\ loopback' \in BOOLEAN /\ held' \in BOOLEAN
          /\ alarm' \in BOOLEAN /\ s_link' \in {-1, 0, 1} /\ net' \in BOOLEAN
          /\ plugged' \in BOOLEAN
          /\ stopped' \in BOOLEAN /\ wasReset' \in BOOLEAN
      BY <1>a, <2>2 DEF TypeOK
    <3>5. QED
      BY <1>a, <3>1, <3>2, <3>3, <3>4 DEF TypeOK
  <2>4. TurnInv'
    BY <1>a, <2>1, <2>2 DEF TurnInv
  <2>5. NetInv'
    BY <1>a, <2>1, <2>2 DEF NetInv
  <2>6. QED
    BY <2>3, <2>4, <2>5 DEF IInv
<1>b. /\ fam \in [Families -> Call] /\ faults \in 0..MaxFaults
      /\ reader \in {"none", "running", "quitting", "exited"}
  BY DEF TypeOK
<1>c. ASSUME NEW event \in {"NETWORK", "DATACALL", "LOOPBACK", "RESET", "DISCONNECTED"}
      PROVE  event \in Events
  BY DEF Events
<1> HIDE DEF IInv
<1>8. ASSUME NEW e \in {"NETWORK", "DATACALL", "LOOPBACK"}, Indication(e) PROVE IInv'
  BY <1>a, <1>b, <1>c, <1>8 DEF Indication
<1>9. CASE ResetIndication
  BY <1>2, <1>3, <1>a, <1>b, <1>c, <1>9 DEF ResetIndication
<1>10. CASE ReaderExits
  <2>1. Report("DISCONNECTED") /\ LoopStays
    BY <1>10 DEF ReaderExits
  <2>2. Others
    BY <1>b, <1>10 DEF ReaderExits
  <2> HIDE DEF LoopStays, Others
  <2>3. QED
    BY <1>a, <1>c, <2>1, <2>2
<1> USE DEF IInv
<1>11. ASSUME NEW f \in Enabled, CallDropped(f) PROVE IInv'
  <2>1. fam' \in [Families -> Call]
    <3>1. f \in Families /\ fam \in [Families -> Call]
      BY Constants DEF TypeOK, Families
    <3>2. fam' = [fam EXCEPT ![f] = [fam[f] EXCEPT !.up = FALSE]]
      BY <1>11 DEF CallDropped
    <3>3. [fam[f] EXCEPT !.up = FALSE] \in Call
      BY <3>1 DEF Call
    <3>4. QED
      BY <3>1, <3>2, <3>3
  <2>2. QED
    BY <1>2, <1>11, <2>1 DEF CallDropped, TypeOK, TurnInv, NetInv
<1>12. CASE Unplug
  <2>1. TypeOK'
    <3>1. plugged' \in BOOLEAN
      BY <1>12 DEF Unplug
    <3>2. QED
      BY <1>2, <1>3, <1>12, <3>1 DEF Unplug, TypeOK
  <2>2. TurnInv' /\ NetInv'
    BY <1>2, <1>3, <1>12 DEF Unplug, TurnInv, NetInv
  <2>3. QED
    BY <2>1, <2>2
<1>13. CASE Plug
  BY <1>13 DEF Plug, TypeOK, TurnInv, NetInv
<1>14. QED
  BY <1>5, <1>6, <1>7, <1>8, <1>9, <1>10, <1>11, <1>12, <1>13 DEF Timers, World

-------------------------------------------------------------------------------
(* The results.                                                             *)

\* The inductive invariant holds in every reachable state.
THEOREM Invariance == Spec => []IInv
<1>1. IInv /\ UNCHANGED vars => IInv'
  BY DEF IInv, TypeOK, TurnInv, NetInv, vars, queues, dialer, netVars, world
<1>2. IInv /\ [Next]_vars => IInv'
  BY <1>1, SignoStep, EventStep, RestartStep, WorldStep DEF Next, Main
<1>3. QED
  BY InitIInv, <1>2, PTL DEF Spec

\* Types of all variables; poll's second report never outlives the events it is about.
THEOREM TypeCorrect == Spec => []TypeOK
<1>1. IInv => TypeOK
  BY DEF IInv
<1>2. QED
  BY Invariance, <1>1, PTL

\* However the program ends, the interface is down unless a modem reset was handled.
THEOREM NetDown == Spec => []NetDownAtExit
<1>1. IInv => NetDownAtExit
  BY DEF IInv, NetInv, NetDownAtExit
<1>2. QED
  BY Invariance, <1>1, PTL

-------------------------------------------------------------------------------
(* On whose word DHCP is started.                                           *)

\* The profile holds the address of a call that is up, or that passes for one, unless the
\* last dial was not answered: only after such a dial does it hold the address 0, which an
\* unanswered request returns as well.
Told(c) == ~c.blind /\ (c.status = "conn" \/ c.up) => c.addr
AddressInv == Told(fam["v4"])

\* A dial that is answered notes the address; one that fails is remembered when it has
\* started a call all the same.
LEMMA DialTold ==
  ASSUME NEW c \in Call, Told(c), NEW d \in Dial("v4", c) PROVE Told(d)
<1>0. DialCases("v4", c, d)
  BY DialCase
<1>1. PICK s \in SetupDataCall(c) :
        \/ ~s.ok /\ d = s.d
        \/ \E a \in GetIPAddress(s.d) :
             d = [s.d EXCEPT !.addr = (TRUE /\ a.told), !.blind = (TRUE /\ ~a.told),
                             !.status = IF a.ok THEN "conn" ELSE s.d.status]
  BY <1>0 DEF DialCases
<1>2. s.d \in Call /\ s.ok \in BOOLEAN
  BY SetupType
<1>3. ASSUME NEW a \in GetIPAddress(s.d),
             d = [s.d EXCEPT !.addr = (TRUE /\ a.told), !.blind = (TRUE /\ ~a.told),
                             !.status = IF a.ok THEN "conn" ELSE s.d.status]
      PROVE  Told(d)
  <2>1. a.told \in BOOLEAN
    BY <1>2, AddressType
  <2>2. d.addr = a.told /\ d.blind = ~a.told
    BY <1>2, <1>3, <2>1 DEF Call
  <2>3. QED
    BY <2>1, <2>2 DEF Told
<1>4. CASE ~s.ok /\ d = s.d
  <2>1. ASSUME NEW up, s.d = [c EXCEPT !.up = up, !.blind = c.blind \/ (up /\ ~c.up)],
               up \in BOOLEAN
        PROVE  Told(d)
    <3>1. /\ s.d.up = up /\ s.d.blind = (c.blind \/ (up /\ ~c.up))
          /\ s.d.status = c.status /\ s.d.addr = c.addr
      BY <2>1 DEF Call
    <3>2. QED
      BY <1>4, <2>1, <3>1 DEF Told, Call
  <2>2. CASE s = [d |-> [c EXCEPT !.handle = TRUE, !.up = TRUE], ok |-> TRUE]
    BY <1>4, <2>2
  <2>3. ASSUME NEW o, NEW up \in {c.up} \cup {c.up \/ Reachable},
               s = [d |-> [c EXCEPT !.up = up, !.blind = c.blind \/ (up /\ ~c.up)],
                    ok |-> o = "aborted"]
        PROVE  Told(d)
    <3>1. up \in BOOLEAN
      BY DEF Call, Reachable
    <3>2. QED
      BY <2>1, <2>3, <3>1
  <2>4. s \in SetupDataCall(c)
    OBVIOUS
  <2>5. QED
    BY <2>2, <2>3, <2>4 DEF SetupDataCall
<1>5. QED
  BY <1>1, <1>3, <1>4

\* A query shows no call the modem has not, and a deactivation starts none.
LEMMA QueryTold ==
  ASSUME NEW c \in Call, Told(c), NEW d \in Query(c) \cup Deactivate(c) PROVE Told(d)
<1>1. CASE d \in Query(c)
  <2>1. \/ d = c
        \/ \E s \in IF c.up THEN {"conn", "unknown", "disc"} ELSE {"disc"} :
             d = [c EXCEPT !.status = s, !.handle = c.handle /\ s # "disc"]
    BY <1>1 DEF Query
  <2>2. QED
    BY <2>1 DEF Told, Call
<1>2. CASE d \in Deactivate(c)
  BY <1>2 DEF Deactivate, Told, Call
<1>3. QED
  BY <1>1, <1>2

\* What SIG_EVENT_CHECK leaves of the IPv4 call.
LEMMA CheckTold ==
  ASSUME NEW c \in Call, Told(c), NEW d \in CheckFamily("v4", c) PROVE Told(d)
<1>1. ASSUME NEW e \in Call, Told(e) PROVE Told([e EXCEPT !.status = "disc"])
  BY <1>1 DEF Told, Call
<1>2. \A q \in Query(c) : q \in Call /\ Told(q)
  BY QueryType, QueryTold
<1>3. \A q \in Query(c) : \A e \in Deactivate(q) : e \in Call /\ Told(e)
  BY <1>2, DeactivateType, QueryTold
<1>4. CheckCases("v4", c, d)
  BY CheckFamilyCases
<1>5. QED
  BY <1>1, <1>2, <1>3, <1>4 DEF CheckCases

\* Every step keeps the invariant.
LEMMA AddressStep == TypeOK /\ AddressInv /\ [Next]_vars => AddressInv'
<1> SUFFICES ASSUME TypeOK, AddressInv, [Next]_vars PROVE AddressInv'
  OBVIOUS
<1> USE DEF queues, dialer, netVars, world
<1>1. "v4" \in Families /\ fam["v4"] \in Call
  BY DEF TypeOK, Families
<1>2. fam' = fam => AddressInv'
  BY DEF AddressInv
<1>3. CASE StartDials
  <2>1. PICK v4 \in Dial("v4", fam["v4"]), v6 \in Dial("v6", fam["v6"]) :
          fam' = [f \in Families |->
                    IF f \notin Enabled \/ fam[f].status = "conn" THEN fam[f]
                    ELSE IF f = "v4" THEN v4 ELSE v6]
    BY <1>3 DEF StartDials
  <2>2. fam'["v4"] \in {fam["v4"], v4}
    BY <1>1, <2>1
  <2>3. QED
    BY <1>1, <2>1, <2>2, DialTold DEF AddressInv
<1>4. CASE CheckCalls
  <2>1. PICK v4 \in CheckFamily("v4", fam["v4"]), v6 \in CheckFamily("v6", fam["v6"]) :
          fam' = [f \in Families |-> IF f = "v4" THEN v4 ELSE v6]
    BY <1>4 DEF CheckCalls
  <2>2. QED
    BY <1>1, <2>1, CheckTold DEF AddressInv
<1>5. CASE Stop
  <2>1. PICK v4 \in Deactivate(fam["v4"]), v6 \in Deactivate(fam["v6"]) :
          fam' = [f \in Families |->
                    IF f \notin Enabled \/ fam[f].status # "conn" THEN fam[f]
                    ELSE IF f = "v4" THEN v4 ELSE v6]
    BY <1>5 DEF Stop
  <2>2. fam'["v4"] \in {fam["v4"], v4}
    BY <1>1, <2>1
  <2>3. QED
    BY <1>1, <2>1, <2>2, QueryTold DEF AddressInv
<1>6. ASSUME fam'["v4"] \in {fam["v4"], [fam["v4"] EXCEPT !.up = FALSE]} PROVE AddressInv'
  BY <1>1, <1>6 DEF AddressInv, Told, Call
<1>7. CASE ResetIndication \/ Unplug \/ \E f \in Enabled : CallDropped(f)
  BY <1>1, <1>6, <1>7 DEF ResetIndication, Unplug, CallDropped, TypeOK
<1>8. CASE StartIgnored \/ StartTooEarly \/ HandleEvent \/ Restart \/ PollTimeout \/ Quit
  <2>1. fam' = fam
    BY <1>8 DEF StartIgnored, StartTooEarly, HandleEvent, Disconnect, NetworkChanged,
       DataCallChanged, LoopbackConfig, ModemReset, Restart, CreateSockets, Detect, StartReader,
       InitDevice, InitFails, Rejoin, CloseReaderEnd, RestartAfterReset, NodeDisappeared,
       PollTimeout, Quit
  <2>2. QED
    BY <1>2, <2>1
<1>9. CASE \/ Timers \/ ReaderExits \/ StopSignal \/ Plug \/ UNCHANGED vars
           \/ \E e \in {"NETWORK", "DATACALL", "LOOPBACK"} : Indication(e)
  <2>1. fam' = fam
    BY <1>9 DEF Timers, AlarmSignal, AllowTimePasses, ReaderExits, StopSignal, Plug, Indication,
       vars
  <2>2. QED
    BY <1>2, <2>1
<1>10. QED
  BY <1>3, <1>4, <1>5, <1>7, <1>8, <1>9 DEF Next, Main, HandleSigno, World

\* DHCP is not started on a status, a handle or an address that has outlived its IPv4 call,
\* whatever was lost and however often the loop has started over; only a dial without an
\* answer can have it started without a call.
THEOREM StaleCallGetsNoDhcp == Spec => NoDhcpOnStaleCall
<1> DEFINE Dhcp == s_link # 1 /\ s_link' = 1 /\ fam'["v4"].status = "conn"
                     => fam'["v4"].up \/ fam'["v4"].blind
<1>1. ASSUME IInv, AddressInv, [Next]_vars PROVE Dhcp
  <2> SUFFICES ASSUME s_link # 1, s_link' = 1, fam'["v4"].status = "conn", ~fam'["v4"].blind
               PROVE  fam'["v4"].up
    OBVIOUS
  <2> USE DEF queues, dialer, netVars, world
  <2>1. CheckCalls
    <3>1. \A link : usbnet_link_change(link) => s_link' = s_link \/ s_link' = link
      BY DEF usbnet_link_change
    <3>2. ~Stop /\ ~Disconnect /\ ~Quit /\ ~ModemReset
      BY <3>1 DEF Stop, Disconnect, Quit, ModemReset
    <3>3. ~StartIgnored /\ ~StartTooEarly /\ ~StartDials /\ ~NetworkChanged /\ ~DataCallChanged
          /\ ~LoopbackConfig /\ ~PollTimeout
      BY DEF StartIgnored, StartTooEarly, StartDials, NetworkChanged, DataCallChanged,
             LoopbackConfig, PollTimeout
    <3>4. ~Restart
      BY DEF Restart, CreateSockets, Detect, StartReader, InitDevice, InitFails, Rejoin,
             CloseReaderEnd, RestartAfterReset, NodeDisappeared
    <3>5. ~Timers /\ ~ReaderExits
      BY DEF Timers, AlarmSignal, AllowTimePasses, ReaderExits
    <3>6. ~World
      BY DEF World, StopSignal, ResetIndication, Indication, CallDropped, Unplug, Plug
    <3>7. ~UNCHANGED vars
      BY DEF vars
    <3>8. QED
      BY <1>1, <3>2, <3>3, <3>4, <3>5, <3>6, <3>7 DEF Next, Main, HandleSigno, HandleEvent
  <2>2. PICK v4 \in CheckFamily("v4", fam["v4"]), v6 \in CheckFamily("v6", fam["v6"]) :
          fam' = [f \in Families |-> IF f = "v4" THEN v4 ELSE v6]
    BY <2>1 DEF CheckCalls
  <2>3. fam'["v4"] = v4 /\ fam["v4"] \in Call
    BY <1>1, <2>2 DEF IInv, TypeOK, Families
  <2>4. fam'["v4"].addr
    BY <1>1, <2>2, <2>3, CheckTold DEF AddressInv, Told
  <2>5. QED
    BY <2>2, <2>3, <2>4, AddressMeansCall
<1>2. Init => AddressInv
  BY DEF Init, AddressInv, Told, NoCall, Families
<1>3. IInv /\ AddressInv /\ [Next]_vars => AddressInv'
  BY AddressStep DEF IInv
<1>4. QED
  BY Invariance, <1>1, <1>2, <1>3, PTL DEF Spec, NoDhcpOnStaleCall

-------------------------------------------------------------------------------
(* How a signal travels through the queue of the loop.                      *)

\* A signal keeps its place when others join the queue, and moves up by one when the head
\* is read.
Keeps(q) == \A i \in DOMAIN sigq : i \in DOMAIN q /\ q[i] = sigq[i]
MovesUp(q) == \A i \in DOMAIN sigq : i # 1 => i-1 \in DOMAIN q /\ q[i-1] = sigq[i]
NoNewStop(q) == (\E j \in DOMAIN q : q[j] = "STOP") => Pending("STOP")

\* A signal that joins a queue leaves the others where they are.
LEMMA Joined ==
  ASSUME NEW q \in Seq(Signos), NEW s \in Signos
  PROVE  /\ \A i \in DOMAIN q : i \in DOMAIN Append(q, s) /\ Append(q, s)[i] = q[i]
         /\ \A j \in DOMAIN Append(q, s) : Append(q, s)[j] = s \/ (j \in DOMAIN q /\ Append(q, s)[j] = q[j])
<1>1. DOMAIN q = 1..Len(q) /\ Len(q) \in Nat /\ DOMAIN Append(q, s) = 1..(Len(q) + 1)
  BY LenProperties, AppendProperties
<1>2. Append(q, s)[Len(q) + 1] = s /\ \A i \in 1..Len(q) : Append(q, s)[i] = q[i]
  BY AppendProperties
<1>3. QED
  BY <1>1, <1>2

\* Reading the head of the queue.
LEMMA HeadRead ==
  ASSUME TypeOK, sigq # <<>>
  PROVE  MovesUp(Tail(sigq)) /\ NoNewStop(Tail(sigq)) /\ Tail(sigq) \in Seq(Signos)
<1>1. /\ DOMAIN sigq = 1..Len(sigq) /\ Len(sigq) \in Nat /\ Tail(sigq) \in Seq(Signos)
      /\ DOMAIN Tail(sigq) = 1..(Len(sigq) - 1)
      /\ \A i \in 1..(Len(sigq) - 1) : Tail(sigq)[i] = sigq[i+1]
  BY LenProperties, HeadTailProperties DEF TypeOK, Signos
<1>2. MovesUp(Tail(sigq))
  BY <1>1 DEF MovesUp
<1>3. NoNewStop(Tail(sigq))
  <2>1. \A j \in DOMAIN Tail(sigq) : j+1 \in DOMAIN sigq /\ Tail(sigq)[j] = sigq[j+1]
    BY <1>1
  <2>2. QED
    BY <2>1 DEF NoNewStop, Pending
<1>4. QED
  BY <1>1, <1>2, <1>3

\* Reading the head, with or without a signal the loop sends itself.
LEMMA SignosMoveUp ==
  ASSUME TypeOK, StartIgnored \/ StartTooEarly \/ StartDials \/ CheckCalls \/ Stop
  PROVE  /\ sigq # <<>> /\ MovesUp(sigq') /\ NoNewStop(sigq')
         /\ turn = "poll" /\ pc = "loop" /\ turn' \in {"poll", "ev"}
         /\ Head(sigq) = "STOP" \/ pc' = "loop"
         /\ pc' \in {"loop", "quit"} /\ main_loop' = main_loop
<1>1. /\ sigq # <<>> /\ turn = "poll" /\ pc = "loop" /\ turn' \in {"poll", "ev"}
      /\ Head(sigq) = "STOP" \/ pc' = "loop"
      /\ pc' \in {"loop", "quit"} /\ main_loop' = main_loop
      /\ sigq' = Tail(sigq) \/ sigq' = Append(Tail(sigq), "START")
  BY DEF StartIgnored, StartTooEarly, StartDials, CheckCalls, Stop, ReadSigno, Redial, SendSigno
<1>2. MovesUp(Tail(sigq)) /\ NoNewStop(Tail(sigq)) /\ Tail(sigq) \in Seq(Signos)
  BY <1>1, HeadRead
<1>3. MovesUp(Append(Tail(sigq), "START")) /\ NoNewStop(Append(Tail(sigq), "START"))
  <2>1. "START" \in Signos /\ "START" # "STOP"
    BY DEF Signos
  <2>2. QED
    BY <1>2, <2>1, Joined DEF MovesUp, NoNewStop
<1>4. QED
  BY <1>1, <1>2, <1>3

\* No other step but StopSignal sends a STOP, and none takes one from the queue while the
\* loop runs.
LEMMA OthersKeep ==
  ASSUME TypeOK, [Next]_vars, ~HandleSigno
  PROVE  /\ StopSignal \/ NoNewStop(sigq')
         /\ pc = "loop" => Keeps(sigq')
<1> USE DEF queues, dialer, netVars, world
<1>0. sigq \in Seq(Signos) /\ {"START", "CHECK", "STOP"} = Signos
  BY DEF TypeOK, Signos
<1>1. \A s \in Signos : Keeps(Append(sigq, s)) /\ (s # "STOP" => NoNewStop(Append(sigq, s)))
  BY <1>0, Joined DEF Keeps, NoNewStop, Pending
<1>2. Keeps(sigq) /\ NoNewStop(sigq) /\ NoNewStop(<<>>)
  BY DEF Keeps, NoNewStop, Pending
<1>3. \/ sigq' = sigq \/ (\E s \in {"START", "CHECK"} : sigq' = Append(sigq, s))
      \/ (sigq' = <<>> /\ pc # "loop") \/ (StopSignal /\ sigq' = Append(sigq, "STOP"))
  <2>1. CASE HandleEvent
    BY <2>1 DEF HandleEvent, Disconnect, NetworkChanged, DataCallChanged, LoopbackConfig,
       ModemReset, SendSigno
  <2>2. CASE Restart
    BY <2>2 DEF Restart, CreateSockets, Detect, StartReader, InitDevice, InitFails,
           Rejoin, CloseReaderEnd, RestartAfterReset, NodeDisappeared, SendSigno
  <2>3. CASE PollTimeout \/ Quit \/ Timers \/ ReaderExits
    BY <2>3 DEF PollTimeout, Quit, Timers, AlarmSignal, AllowTimePasses, ReaderExits, SendSigno
  <2>4. CASE World \/ UNCHANGED vars
    BY <2>4 DEF vars, World, StopSignal, ResetIndication, Indication, CallDropped, Unplug, Plug,
       SendSigno
  <2>5. QED
    BY <2>1, <2>2, <2>3, <2>4 DEF Next, Main
<1>4. QED
  BY <1>0, <1>1, <1>2, <1>3

\* The handler has cleared main_loop when its signal is in the queue.
StopInv == Pending("STOP") => ~main_loop

\* Nothing sets main_loop again, and only the handler sends a STOP.
LEMMA StopStep == TypeOK /\ StopInv /\ [Next]_vars => StopInv'
<1> SUFFICES ASSUME TypeOK, StopInv, [Next]_vars PROVE StopInv'
  OBVIOUS
<1> USE DEF queues, dialer, netVars, world
<1>1. ~StopSignal => main_loop' = main_loop
  <2>1. CASE HandleSigno \/ HandleEvent
    BY <2>1 DEF HandleSigno, StartIgnored, StartTooEarly, StartDials, CheckCalls, Stop,
       HandleEvent, Disconnect, NetworkChanged, DataCallChanged, LoopbackConfig, ModemReset
  <2>2. CASE Restart
    BY <2>2 DEF Restart, CreateSockets, Detect, StartReader, InitDevice, InitFails,
           Rejoin, CloseReaderEnd, RestartAfterReset, NodeDisappeared
  <2>3. CASE PollTimeout \/ Quit \/ Timers \/ ReaderExits
    BY <2>3 DEF PollTimeout, Quit, Timers, AlarmSignal, AllowTimePasses, ReaderExits
  <2>4. CASE World \/ UNCHANGED vars
    BY <2>4 DEF vars, World, ResetIndication, Indication, CallDropped, Unplug, Plug
  <2>5. QED
    BY <2>1, <2>2, <2>3, <2>4 DEF Next, Main
<1>2. StopSignal => main_loop' = FALSE
  BY DEF StopSignal
<1>3. ~StopSignal => NoNewStop(sigq')
  BY SignosMoveUp, OthersKeep DEF HandleSigno
<1>4. QED
  BY <1>1, <1>2, <1>3 DEF StopInv, NoNewStop, Pending

\* A signal in the queue of the running loop is not lost, put off or overtaken: it is read
\* or keeps its place, and every turn of the loop brings it nearer.
LEMMA SignoNearer ==
  ASSUME TypeOK, Next, pc = "loop", pc' = "loop", NEW i \in DOMAIN sigq
  PROVE  \/ \E j \in DOMAIN sigq' :
              /\ sigq'[j] = sigq[i] /\ StepsTo(j)' <= StepsTo(i)
              /\ Main => StepsTo(j)' < StepsTo(i)
         \/ i = 1 /\ HandleSigno /\ Head(sigq) = sigq[i]
<1> USE DEF queues, dialer, netVars, world
<1>0. i \in Nat /\ sigq # <<>> /\ Head(sigq) = sigq[1]
  <2>1. sigq \in Seq(Signos)
    BY DEF TypeOK, Signos
  <2>2. DOMAIN sigq = 1..Len(sigq) /\ Len(sigq) \in Nat
    BY <2>1, LenProperties
  <2>3. sigq # <<>>
    BY <2>2, EmptySeq
  <2>4. QED
    BY <2>1, <2>2, <2>3
<1>1. CASE HandleSigno
  <2>1. MovesUp(sigq') /\ turn = "poll" /\ turn' \in {"poll", "ev"}
    BY <1>1, SignosMoveUp DEF HandleSigno
  <2>2. CASE i = 1
    BY <1>0, <1>1, <2>2
  <2>3. CASE i # 1
    <3>1. i-1 \in DOMAIN sigq' /\ sigq'[i-1] = sigq[i]
      BY <2>1, <2>3 DEF MovesUp
    <3>2. \A j : j = i-1 => StepsTo(j)' < StepsTo(i) /\ StepsTo(j)' <= StepsTo(i)
      BY <1>0, <2>1 DEF StepsTo
    <3>3. QED
      BY <3>1, <3>2
  <2>4. QED
    BY <2>2, <2>3
<1>2. CASE HandleEvent
  <2>1. ~HandleSigno
    BY <1>0, <1>2 DEF HandleEvent, Disconnect, NetworkChanged, DataCallChanged, LoopbackConfig,
       ModemReset, ReadEvent, HandleSigno, StartIgnored, StartTooEarly, StartDials, CheckCalls,
       Stop, ReadSigno
  <2>2. turn = "ev" /\ turn' = "poll"
    BY <1>0, <1>2 DEF HandleEvent, Disconnect, NetworkChanged, DataCallChanged, LoopbackConfig,
       ModemReset, ReadEvent
  <2>3. i \in DOMAIN sigq' /\ sigq'[i] = sigq[i]
    BY <2>1, OthersKeep DEF Keeps
  <2>4. StepsTo(i)' < StepsTo(i) /\ StepsTo(i)' <= StepsTo(i)
    BY <1>0, <2>2 DEF StepsTo
  <2>5. QED
    BY <2>3, <2>4
<1>3. CASE Restart \/ PollTimeout \/ Quit
  BY <1>0, <1>3 DEF Restart, CreateSockets, Detect, StartReader, InitDevice, InitFails,
     Rejoin, CloseReaderEnd, RestartAfterReset, NodeDisappeared, PollTimeout, Quit
<1>4. CASE ~Main
  <2>1. turn' = turn
    BY <1>4 DEF Next, Timers, AlarmSignal, AllowTimePasses, ReaderExits, World,
       StopSignal, ResetIndication, Indication, CallDropped, Unplug, Plug
  <2>2. i \in DOMAIN sigq' /\ sigq'[i] = sigq[i]
    BY <1>4, OthersKeep DEF Keeps, Main
  <2>3. StepsTo(i)' <= StepsTo(i)
    BY <1>0, <2>1 DEF StepsTo
  <2>4. QED
    BY <1>4, <2>2, <2>3
<1>5. QED
  BY <1>1, <1>2, <1>3, <1>4 DEF Main

\* A stop signal the loop can read is reached within 2 * i + 1 turns and ends the program:
\* the queue keeps its order, poll's second report costs one turn at most, and main_loop
\* is cleared before the signal is written, so that a pulled cable cannot restart the loop.
THEOREM StopGetsNearer == Spec => StopNearer
<1> DEFINE Nearer(i) == \/ pc' \in {"quit", "closing"}
                        \/ /\ pc' = "loop"
                           /\ \E j \in DOMAIN sigq' :
                                /\ sigq'[j] = "STOP" /\ StepsTo(j)' <= StepsTo(i)
                                /\ Main => StepsTo(j)' < StepsTo(i)
<1>1. IInv /\ StopInv /\ [Next]_vars =>
        [pc = "loop" => \A i \in DOMAIN sigq : sigq[i] = "STOP" => Nearer(i)]_vars
  <2> SUFFICES ASSUME TypeOK, StopInv, Next, pc = "loop",
                      NEW i \in DOMAIN sigq, sigq[i] = "STOP"
               PROVE  Nearer(i)
    BY DEF IInv
  <2> USE DEF queues, dialer, netVars, world
  <2>1. ASSUME HandleSigno, Head(sigq) = "STOP" PROVE pc' = "quit"
    BY <2>1 DEF HandleSigno, StartIgnored, StartTooEarly, StartDials, CheckCalls, Stop, ReadSigno
  <2>2. CASE pc' = "loop"
    <3>1. \/ \E j \in DOMAIN sigq' :
               /\ sigq'[j] = sigq[i] /\ StepsTo(j)' <= StepsTo(i)
               /\ Main => StepsTo(j)' < StepsTo(i)
          \/ i = 1 /\ HandleSigno /\ Head(sigq) = sigq[i]
      BY <2>2, SignoNearer
    <3>2. QED
      BY <2>1, <2>2, <3>1
  <2>3. CASE pc' # "loop"
    <3>1. ~main_loop
      BY DEF StopInv, Pending
    <3>2. CASE HandleSigno
      BY <2>3, <3>2 DEF HandleSigno, StartIgnored, StartTooEarly, StartDials, CheckCalls, Stop
    <3>3. CASE HandleEvent
      BY <2>3, <3>1, <3>3 DEF HandleEvent, Disconnect, NetworkChanged, DataCallChanged,
         LoopbackConfig, ModemReset
    <3>4. CASE Restart \/ PollTimeout \/ Quit
      BY <2>3, <3>4 DEF Restart, CreateSockets, Detect, StartReader, InitDevice, InitFails,
         Rejoin, CloseReaderEnd, RestartAfterReset, NodeDisappeared, PollTimeout, Quit
    <3>5. CASE Timers \/ ReaderExits \/ World
      BY <2>3, <3>5 DEF Timers, AlarmSignal, AllowTimePasses, ReaderExits, Report, World,
         StopSignal, ResetIndication, Indication, CallDropped, Unplug, Plug
    <3>6. QED
      BY <3>2, <3>3, <3>4, <3>5 DEF Next, Main
  <2>4. QED
    BY <2>2, <2>3
<1>2. Init => StopInv
  BY DEF Init, StopInv, Pending
<1>3. IInv => TypeOK
  BY DEF IInv
<1>4. QED
  BY <1>1, <1>2, <1>3, StopStep, Invariance, PTL DEF Spec, StopNearer

-------------------------------------------------------------------------------
(* The end of the reader thread.                                            *)

\* What main waits for in pthread_join, or in the 20 seconds after a reset, comes: the
\* reader has exited, has been told to, or has lost the device.
JoinEnds == pc \in {"join", "quit", "closing", "resetWait"} =>
              reader \in {"quitting", "exited"} \/ (reader = "running" /\ ~plugged)

\* The reader reports the end of the device as it exits, and a new reader never meets the
\* report of the one before: the sockets are new.
NewReaderInv ==
  /\ \A i \in DOMAIN evq : evq[i] = "DISCONNECTED" => reader = "exited"
  /\ pc \in {"detect", "thread"} => evq = <<>>
  /\ pc \in {"start", "detect", "thread"} => reader \in {"none", "exited"}
  /\ pc \in {"init", "loop"} => reader # "none"

\* Reading an event leaves only events that were there, and reporting one adds only it.
LEMMA EventMoves ==
  ASSUME TypeOK
  PROVE  /\ evq # <<>> =>
              /\ Head(evq) = evq[1] /\ 1 \in DOMAIN evq
              /\ \A j \in DOMAIN Tail(evq) : \E i \in DOMAIN evq : Tail(evq)[j] = evq[i]
         /\ \A e \in Events : \A j \in DOMAIN Append(evq, e) :
              Append(evq, e)[j] = e \/ \E i \in DOMAIN evq : Append(evq, e)[j] = evq[i]
<1>1. evq \in Seq(Events) /\ DOMAIN evq = 1..Len(evq) /\ Len(evq) \in Nat
  BY LenProperties DEF TypeOK, Events
<1>2. ASSUME evq # <<>>
      PROVE  /\ Head(evq) = evq[1] /\ 1 \in DOMAIN evq
             /\ \A j \in DOMAIN Tail(evq) : \E i \in DOMAIN evq : Tail(evq)[j] = evq[i]
  <2>1. /\ DOMAIN Tail(evq) = 1..(Len(evq) - 1)
        /\ \A j \in 1..(Len(evq) - 1) : Tail(evq)[j] = evq[j+1]
    BY <1>1, <1>2, HeadTailProperties, LenProperties
  <2>2. Len(evq) # 0
    BY <1>1, <1>2, EmptySeq
  <2>3. Head(evq) = evq[1] /\ 1 \in DOMAIN evq
    BY <1>1, <1>2, <2>2
  <2>4. \A j \in DOMAIN Tail(evq) : j+1 \in DOMAIN evq /\ Tail(evq)[j] = evq[j+1]
    BY <1>1, <2>1
  <2>5. QED
    BY <2>3, <2>4
<1>3. ASSUME NEW e \in Events, NEW j \in DOMAIN Append(evq, e)
      PROVE  Append(evq, e)[j] = e \/ \E i \in DOMAIN evq : Append(evq, e)[j] = evq[i]
  <2>1. /\ DOMAIN Append(evq, e) = 1..(Len(evq) + 1)
        /\ Append(evq, e)[Len(evq) + 1] = e
        /\ \A i \in 1..Len(evq) : Append(evq, e)[i] = evq[i]
    BY <1>1, AppendProperties, LenProperties
  <2>2. j = Len(evq) + 1 \/ j \in 1..Len(evq)
    BY <1>1, <2>1
  <2>3. QED
    BY <1>1, <2>1, <2>2
<1>4. QED
  BY <1>2, <1>3

\* The steps of the loop.
LEMMA HandlerJoin ==
  ASSUME TypeOK, JoinEnds, NewReaderInv, HandleSigno \/ HandleEvent \/ PollTimeout
  PROVE  JoinEnds' /\ NewReaderInv'
<1> USE DEF queues, dialer, netVars, world
<1>1. pc = "loop" /\ reader # "none" /\ plugged' = plugged
  BY DEF HandleSigno, StartIgnored, StartTooEarly, StartDials, CheckCalls, Stop, HandleEvent,
     Disconnect, NetworkChanged, DataCallChanged, LoopbackConfig, ModemReset, PollTimeout,
     ReadSigno, ReadEvent, NewReaderInv
<1>2. reader \in {"running", "quitting", "exited"}
  BY <1>1 DEF TypeOK
<1>3. CASE HandleSigno \/ PollTimeout
  <2>1. /\ evq' = evq
        /\ \/ pc' = "loop" /\ reader' = reader
           \/ pc' = "quit" /\ reader' = IF reader = "running" THEN "quitting" ELSE reader
    BY <1>1, <1>3 DEF HandleSigno, StartIgnored, StartTooEarly, StartDials, CheckCalls, Stop,
       PollTimeout, ReadSigno
  <2>2. QED
    BY <1>1, <1>2, <2>1 DEF JoinEnds, NewReaderInv
<1>4. CASE HandleEvent
  <2>1. evq # <<>> /\ evq' = Tail(evq)
    BY <1>4 DEF HandleEvent, Disconnect, NetworkChanged, DataCallChanged, LoopbackConfig,
       ModemReset, ReadEvent
  <2>2. \/ pc' = "loop" /\ reader' = reader
        \/ Head(evq) = "DISCONNECTED" /\ pc' \in {"join", "quit"} /\ reader' = reader
        \/ pc' = "closing" /\ reader' = IF reader = "running" THEN "quitting" ELSE reader
    BY <1>1, <1>4 DEF HandleEvent, Disconnect, NetworkChanged, DataCallChanged, LoopbackConfig,
       ModemReset, ReadEvent
  <2>3. \A j \in DOMAIN evq' : evq'[j] = "DISCONNECTED" => reader = "exited"
    BY <2>1, EventMoves DEF NewReaderInv
  <2>4. Head(evq) = "DISCONNECTED" => reader = "exited"
    BY <2>1, EventMoves DEF NewReaderInv
  <2>5. QED
    BY <1>1, <1>2, <2>2, <2>3, <2>4 DEF JoinEnds, NewReaderInv
<1>5. QED
  BY <1>3, <1>4

\* Starting over and the end.
LEMMA RestartJoin ==
  ASSUME TypeOK, JoinEnds, NewReaderInv, Restart \/ Quit
  PROVE  JoinEnds' /\ NewReaderInv'
<1> USE DEF queues, dialer, netVars, world
<1>1. CASE CreateSockets
  BY <1>1 DEF CreateSockets, JoinEnds, NewReaderInv
<1>2. CASE Detect \/ StartReader
  BY <1>2 DEF Detect, StartReader, JoinEnds, NewReaderInv
<1>3. CASE InitDevice \/ InitFails
  BY <1>3 DEF InitDevice, InitFails, JoinEnds, NewReaderInv
<1>4. CASE Rejoin \/ RestartAfterReset
  BY <1>4 DEF Rejoin, RestartAfterReset, JoinEnds, NewReaderInv
<1>5. CASE CloseReaderEnd \/ NodeDisappeared
  BY <1>5 DEF CloseReaderEnd, NodeDisappeared, JoinEnds, NewReaderInv
<1>6. CASE Quit
  BY <1>6 DEF Quit, JoinEnds, NewReaderInv
<1>7. QED
  BY <1>1, <1>2, <1>3, <1>4, <1>5, <1>6 DEF Restart

\* The steps of the others.
LEMMA WorldJoin ==
  ASSUME TypeOK, JoinEnds, NewReaderInv, Timers \/ ReaderExits \/ World
  PROVE  JoinEnds' /\ NewReaderInv'
<1> USE DEF queues, dialer, netVars, world
<1>1. CASE Timers \/ StopSignal \/ (\E f \in Enabled : CallDropped(f))
  <2>1. UNCHANGED <<pc, evq, reader, plugged>>
    BY <1>1 DEF Timers, AlarmSignal, AllowTimePasses, StopSignal, CallDropped
  <2>2. QED
    BY <2>1 DEF JoinEnds, NewReaderInv
<1>2. CASE Unplug
  <2>1. UNCHANGED <<pc, evq, reader>> /\ plugged' = FALSE
    BY <1>2 DEF Unplug
  <2>2. QED
    BY <2>1 DEF JoinEnds, NewReaderInv
<1>3. CASE Plug
  <2>1. UNCHANGED <<pc, evq, reader>> /\ reader # "running"
    BY <1>3 DEF Plug
  <2>2. QED
    BY <2>1 DEF JoinEnds, NewReaderInv
<1>4. ASSUME NEW e \in Events, e # "DISCONNECTED", Reachable, Report(e), UNCHANGED <<reader, plugged>>
      PROVE  JoinEnds' /\ NewReaderInv'
  <2>1. reader = "running" /\ pc \notin {"start", "detect", "thread"}
    BY <1>4 DEF Reachable, NewReaderInv
  <2>2. pc' \in {pc, "killed"} /\ evq' \in {evq, Append(evq, e)}
    BY <1>4 DEF Report
  <2>3. \A j \in DOMAIN evq' : evq'[j] = "DISCONNECTED" => reader = "exited"
    BY <1>4, <2>2, EventMoves DEF NewReaderInv
  <2>4. QED
    BY <1>4, <2>1, <2>2, <2>3 DEF JoinEnds, NewReaderInv
<1>5. CASE ResetIndication \/ \E e \in {"NETWORK", "DATACALL", "LOOPBACK"} : Indication(e)
  BY <1>4, <1>5 DEF ResetIndication, Indication, Events
<1>6. CASE ReaderExits
  <2>1. /\ reader \in {"running", "quitting"} /\ reader' = "exited" /\ plugged' = plugged
        /\ pc \notin {"start", "detect", "thread"} /\ pc' \in {pc, "killed"}
    BY <1>6 DEF ReaderExits, Report, NewReaderInv
  <2>2. QED
    BY <2>1 DEF JoinEnds, NewReaderInv
<1>7. QED
  BY <1>1, <1>2, <1>3, <1>5, <1>6 DEF World

\* Main never waits for a reader that nobody has told to exit, on any of the ways that
\* lead to pthread_join: a stop signal, the end of the device, a modem reset, with the
\* modem pulled and plugged again at any time.
THEOREM ReaderIsToldToExit == Spec => []JoinEnds
<1>1. Init => JoinEnds /\ NewReaderInv
  BY DEF Init, JoinEnds, NewReaderInv
<1>2. IInv /\ JoinEnds /\ NewReaderInv /\ [Next]_vars => JoinEnds' /\ NewReaderInv'
  <2>1. JoinEnds /\ NewReaderInv /\ UNCHANGED vars => JoinEnds' /\ NewReaderInv'
    BY DEF vars, queues, dialer, netVars, world, JoinEnds, NewReaderInv
  <2>2. QED
    BY <2>1, HandlerJoin, RestartJoin, WorldJoin DEF IInv, Next, Main
<1>3. QED
  BY <1>1, <1>2, Invariance, PTL DEF Spec

-------------------------------------------------------------------------------
(* The retry of a call.                                                     *)

\* A call is wanted: an enabled family is known to have none and dialling is allowed.
Wanted == pc = "loop" /\ MayDial /\ Disconnected(fam)

\* The retry of a wanted call is always under way, without the timeout of poll: the alarm is
\* set or a signal that leads to the dialling waits, although every signal read cancels the
\* alarm and a start that comes while the modem is not attached is dropped.
RetryInv == Wanted => alarm \/ Pending("START") \/ Pending("CHECK")

\* While the call stays wanted, its retry gets nearer.  A start or a check in the queue is
\* not lost, put off or overtaken; a start that is read dials, or sets the alarm again when
\* it is too early to dial; a check that is read leaves a start; an alarm that is cancelled
\* or goes off leaves a start or is set again.
SignoKept(i) == \E j \in DOMAIN sigq' : /\ sigq'[j] = sigq[i] /\ StepsTo(j)' <= StepsTo(i)
                                       /\ Main => StepsTo(j)' < StepsTo(i)
RetryNearer ==
  [][Wanted /\ Wanted' =>
       /\ \A i \in DOMAIN sigq : sigq[i] = "START" =>
            SignoKept(i) \/ (i = 1 /\ alarm' /\ (StartDials \/ (StartTooEarly /\ held)))
       /\ \A i \in DOMAIN sigq : sigq[i] = "CHECK" =>
            SignoKept(i) \/ (i = 1 /\ CheckCalls /\ Pending("START")')
       /\ alarm => alarm' \/ Pending("START")']_vars

\* A signal that joins the queue is in it, and so are those that were.
LEMMA PendingJoined ==
  ASSUME NEW q \in Seq(Signos), NEW s \in Signos, sigq' = Append(q, s)
  PROVE  /\ \E j \in DOMAIN sigq' : sigq'[j] = s
         /\ \A i \in DOMAIN q : \E j \in DOMAIN sigq' : sigq'[j] = q[i]
<1>1. /\ Len(q) + 1 \in DOMAIN Append(q, s) /\ Append(q, s)[Len(q) + 1] = s
  BY AppendProperties, LenProperties
<1>2. QED
  BY <1>1, Joined

\* Signals pending in the daemon's queue stay pending when another joins it.
LEMMA PendingKept ==
  ASSUME TypeOK, NEW s \in Signos, sigq' = Append(sigq, s)
  PROVE  /\ Pending(s)'
         /\ Pending("START") => Pending("START")'
         /\ Pending("CHECK") => Pending("CHECK")'
<1>1. sigq \in Seq(Signos)
  BY DEF TypeOK, Signos
<1>2. QED
  BY <1>1, PendingJoined DEF Pending

\* A signal that the loop reads.
LEMMA SignoRetry ==
  ASSUME TypeOK, HandleSigno, Wanted'
  PROVE  alarm' \/ Pending("START")'
<1> USE DEF queues, dialer, netVars, world
<1>1. CASE StartIgnored
  BY <1>1 DEF StartIgnored, Wanted, MayDial
<1>2. CASE StartTooEarly
  BY <1>2 DEF StartTooEarly
<1>3. CASE StartDials
  BY <1>3 DEF StartDials, Wanted, Disconnected
<1>4. CASE CheckCalls
  <2>1. sigq' = Append(Tail(sigq), "START") /\ sigq # <<>>
    BY <1>4 DEF CheckCalls, ReadSigno, Redial, SendSigno, Wanted, Disconnected
  <2>2. Tail(sigq) \in Seq(Signos) /\ "START" \in Signos
    BY <2>1, HeadRead DEF Signos
  <2>3. QED
    BY <2>1, <2>2, PendingJoined DEF Pending
<1>5. CASE Stop
  BY <1>5 DEF Stop, Wanted
<1>6. QED
  BY <1>1, <1>2, <1>3, <1>4, <1>5 DEF HandleSigno

\* An event that the loop reads leaves the alarm and the signals, and sends a signal of its
\* own when it is what makes the call wanted.
LEMMA EventRetry ==
  ASSUME TypeOK, HandleEvent, Wanted'
  PROVE  /\ alarm' = alarm /\ (Wanted \/ Pending("START")' \/ Pending("CHECK")')
         /\ Pending("START") => Pending("START")'
         /\ Pending("CHECK") => Pending("CHECK")'
<1> USE DEF queues, dialer, netVars, world
<1>0. pc = "loop" /\ pc' = "loop" /\ alarm' = alarm /\ fam' = fam
  BY DEF HandleEvent, Disconnect, NetworkChanged, DataCallChanged, LoopbackConfig, ModemReset,
     ReadEvent, Wanted
<1>1. "START" \in Signos /\ "CHECK" \in Signos
  BY DEF Signos
<1>2. sigq' = sigq => /\ Pending("START") => Pending("START")'
                      /\ Pending("CHECK") => Pending("CHECK")'
  BY DEF Pending
<1>3. Disconnected(fam) /\ MayDial'
  BY <1>0 DEF Wanted, Disconnected
<1>4. CASE NetworkChanged
  <2>1. CASE attached'
    BY <1>0, <1>1, <1>3, <1>4, <2>1, PendingKept DEF NetworkChanged, SendSigno
  <2>2. CASE ~attached'
    BY <1>0, <1>2, <1>3, <1>4, <2>2 DEF NetworkChanged, MayDial, Wanted
  <2>3. QED
    BY <2>1, <2>2
<1>5. CASE DataCallChanged
  BY <1>0, <1>1, <1>5, PendingKept DEF DataCallChanged, SendSigno
<1>6. CASE LoopbackConfig
  <2>1. CASE loopback'
    BY <1>0, <1>1, <1>6, <2>1, PendingKept DEF LoopbackConfig, SendSigno
  <2>2. CASE ~loopback'
    BY <1>0, <1>2, <1>3, <1>6, <2>2 DEF LoopbackConfig, MayDial, Wanted
  <2>3. QED
    BY <2>1, <2>2
<1>7. ~Disconnect /\ ~ModemReset
  BY <1>0 DEF Disconnect, ModemReset
<1>8. QED
  BY <1>4, <1>5, <1>6, <1>7 DEF HandleEvent

\* Starting over: the loop begins with a check.
LEMMA RestartRetry ==
  ASSUME TypeOK, Restart \/ PollTimeout \/ Quit, Wanted'
  PROVE  Pending("CHECK")' /\ (Wanted => alarm' = alarm)
<1> USE DEF queues, dialer, netVars, world
<1>1. pc' = "loop"
  BY DEF Wanted
<1>2. (InitDevice \/ PollTimeout) /\ sigq' = Append(sigq, "CHECK") /\ alarm' = alarm
  BY <1>1 DEF Restart, CreateSockets, Detect, StartReader, InitDevice, InitFails,
     Rejoin, CloseReaderEnd, RestartAfterReset, NodeDisappeared, PollTimeout, Quit, SendSigno
<1>3. "CHECK" \in Signos
  BY DEF Signos
<1>4. QED
  BY <1>2, <1>3, PendingKept

\* What happens beside the loop does not tell it that a call has gone, and the alarm that
\* goes off sends a start.
LEMMA WorldRetry ==
  ASSUME TypeOK, Timers \/ ReaderExits \/ World \/ UNCHANGED vars, Wanted'
  PROVE  /\ Wanted /\ (alarm' = alarm \/ Pending("START")')
         /\ Pending("START") => Pending("START")'
         /\ Pending("CHECK") => Pending("CHECK")'
<1> USE DEF queues, dialer, netVars, world
<1>1. pc = "loop" /\ attached' = attached /\ loopback' = loopback
  BY DEF Wanted, Timers, AlarmSignal, AllowTimePasses, ReaderExits, Report, World,
     StopSignal, ResetIndication, Indication, CallDropped, Unplug, Plug, vars
<1>2. \A f \in Enabled : fam'[f].status = fam[f].status
  <2>1. fam \in [Families -> Call] /\ Enabled \subseteq Families
    BY Constants DEF TypeOK, Families
  <2>2. fam' = fam \/ ResetIndication \/ Unplug \/ \E f \in Enabled : CallDropped(f)
    BY DEF Timers, AlarmSignal, AllowTimePasses, ReaderExits, World,
       StopSignal, Indication, Plug, vars
  <2>3. CASE ResetIndication \/ Unplug
    <3>1. fam' = [f \in Families |-> [fam[f] EXCEPT !.up = FALSE]]
      BY <2>3 DEF ResetIndication, Unplug
    <3>2. QED
      BY <2>1, <3>1 DEF Call
  <2>4. ASSUME NEW g \in Enabled, CallDropped(g)
        PROVE  \A f \in Enabled : fam'[f].status = fam[f].status
    <3>1. fam' = [fam EXCEPT ![g] = [fam[g] EXCEPT !.up = FALSE]]
      BY <2>4 DEF CallDropped
    <3>2. QED
      BY <2>1, <3>1 DEF Call
  <2>5. QED
    BY <2>2, <2>3, <2>4
<1>3. Wanted
  BY <1>1, <1>2 DEF Wanted, MayDial, Disconnected
<1>4. "START" \in Signos /\ "STOP" \in Signos
  BY DEF Signos
<1>5. CASE AlarmSignal
  BY <1>1, <1>3, <1>4, <1>5, PendingKept DEF AlarmSignal, SendSigno, Open, Alive
<1>6. CASE StopSignal
  BY <1>1, <1>3, <1>4, <1>6, PendingKept DEF StopSignal, SendSigno, Open, Alive
<1>7. CASE ~AlarmSignal /\ ~StopSignal
  <2>1. alarm' = alarm /\ sigq' = sigq
    BY <1>7 DEF Timers, AllowTimePasses, ReaderExits, World,
       ResetIndication, Indication, CallDropped, Unplug, Plug, vars
  <2>2. QED
    BY <1>3, <2>1 DEF Pending
<1>8. QED
  BY <1>5, <1>6, <1>7

\* Every step keeps the retry under way.
LEMMA RetryStep == TypeOK /\ RetryInv /\ [Next]_vars => RetryInv'
<1> SUFFICES ASSUME TypeOK, RetryInv, [Next]_vars, Wanted'
             PROVE  alarm' \/ Pending("START")' \/ Pending("CHECK")'
  BY DEF RetryInv
<1>1. CASE HandleSigno
  BY <1>1, SignoRetry
<1>2. CASE HandleEvent
  BY <1>2, EventRetry DEF RetryInv
<1>3. CASE Restart \/ PollTimeout \/ Quit
  BY <1>3, RestartRetry
<1>4. CASE Timers \/ ReaderExits \/ World \/ UNCHANGED vars
  BY <1>4, WorldRetry DEF RetryInv
<1>5. QED
  BY <1>1, <1>2, <1>3, <1>4 DEF Next, Main

\* The retry of a wanted call cannot be lost: not by the alarm that every signal cancels, not
\* by a start that is dropped before the network is there, not by a restart of the loop.
THEOREM RetryIsKept == Spec => []RetryInv
<1>1. Init => RetryInv
  BY DEF Init, RetryInv, Wanted
<1>2. QED
  BY <1>1, RetryStep, TypeCorrect, PTL DEF Spec

\* And it gets nearer with every turn of the loop, up to the dialling.
THEOREM RetryGetsNearer == Spec => RetryNearer
<1> DEFINE Nearer ==
      /\ \A i \in DOMAIN sigq : sigq[i] = "START" =>
           SignoKept(i) \/ (i = 1 /\ alarm' /\ (StartDials \/ (StartTooEarly /\ held)))
      /\ \A i \in DOMAIN sigq : sigq[i] = "CHECK" =>
           SignoKept(i) \/ (i = 1 /\ CheckCalls /\ Pending("START")')
      /\ alarm => alarm' \/ Pending("START")'
<1>1. TypeOK /\ [Next]_vars => [Wanted /\ Wanted' => Nearer]_vars
  <2> SUFFICES ASSUME TypeOK, Next, Wanted, Wanted' PROVE Nearer
    OBVIOUS
  <2>0. pc = "loop" /\ pc' = "loop"
    BY DEF Wanted
  <2>1. ASSUME NEW i \in DOMAIN sigq
        PROVE  SignoKept(i) \/ (i = 1 /\ HandleSigno /\ Head(sigq) = sigq[i])
    BY <2>0, SignoNearer DEF SignoKept
  <2>2. ASSUME HandleSigno, Head(sigq) = "START"
        PROVE  alarm' /\ (StartDials \/ (StartTooEarly /\ held))
    <3>1. StartIgnored \/ StartTooEarly \/ StartDials
      BY <2>2 DEF HandleSigno, CheckCalls, Stop, ReadSigno
    <3>2. ~StartIgnored
      BY DEF StartIgnored, Wanted
    <3>3. QED
      BY <3>1, <3>2 DEF StartTooEarly, StartDials, Wanted, Disconnected
  <2>3. ASSUME HandleSigno, Head(sigq) = "CHECK" PROVE CheckCalls /\ Pending("START")'
    <3>1. CheckCalls
      BY <2>3 DEF HandleSigno, StartIgnored, StartTooEarly, StartDials, Stop, ReadSigno
    <3>2. ~alarm'
      BY <3>1 DEF CheckCalls
    <3>3. QED
      BY <2>3, <3>1, <3>2, SignoRetry
  <2>4. alarm => alarm' \/ Pending("START")'
    <3>1. CASE HandleSigno
      BY <3>1, SignoRetry
    <3>2. CASE HandleEvent
      BY <3>2, EventRetry
    <3>3. CASE Restart \/ PollTimeout \/ Quit
      BY <3>3, RestartRetry
    <3>4. CASE Timers \/ ReaderExits \/ World
      BY <3>4, WorldRetry
    <3>5. QED
      BY <3>1, <3>2, <3>3, <3>4 DEF Next, Main
  <2>5. QED
    BY <2>1, <2>2, <2>3, <2>4
<1>2. QED
  BY <1>1, TypeCorrect, PTL DEF Spec, RetryNearer
===============================================================================
