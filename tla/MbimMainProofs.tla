----------------------------- MODULE MbimMainProofs -----------------------------
(***************************************************************************)
(* Proofs about MbimMain, for every value of its constants: what is read   *)
(* from the modem has the type of the variable it is assigned to, the two  *)
(* threads never hold mbim_state_mutex together, the interface is down     *)
(* when the program ends, a program that is to quit gets nearer to its     *)
(* end with every step, and only a signal can make a thread hang.          *)
(***************************************************************************)
EXTENDS MbimMain, SequenceTheorems, TLAPS

\* The answers a command may get.
Replies(o) ==
  {"failed", "not_opened"} \cup (IF o \in DOMAIN Sets THEN Values[Sets[o]] ELSE {"ok", "config", "none"})

Message == {x \in [f : Fields \cup {"none"}, v : Words, op : Ops \cup {"none"}, fell : BOOLEAN] :
              \/ x.op \in Ops /\ x.v \in Replies(x.op)
              \/ x.op = "none" /\ x.f \in Fields /\ x.v \in Values[x.f]}

\* What is on its way between the program and the modem.
WireInv ==
  /\ toModem \in Seq(Ops) /\ pipe \in Seq(Message)
  /\ rd \in {"msg", "notify", "holding"} => rdMsg \in Message
  /\ rd \in {"notify", "holding"} => rdMsg.op = "none"
  /\ rsp # NULL => pc = "wait" /\ rsp \in Replies(op)

PcInv ==
  /\ pc \in {"head", "wait", "ready", "ready2", "reg", "reg2", "ps", "ps2", "ps3", "act", "act2",
             "act3", "sleep", "locked", "asleep", "gap", "woken", "signalled", "timedout", "settle",
             "exit", "kill", "killing", "exited", "crashed", "stuck"}
  /\ rd \in {"poll", "msg", "notify", "holding", "quitting", "lastNotify", "lastHolding", "clear",
             "exited", "stuck"}

\* The reader leaves its loop when the device fails, or when the main thread, at its own
\* end, kills it.
AtWork == {"poll", "msg", "notify", "holding"}
LeaveInv == rd \notin AtWork => hungUp \/ pc \in {"kill", "killing", "exited", "crashed"}

IInv == TypeOK /\ WireInv /\ PcInv /\ LeaveInv /\ NetDownAtExit
-------------------------------------------------------------------------------
(* The states and the messages.                                             *)

\* The four state variables and what they may hold.
LEMMA FieldFacts ==
  /\ Fields = {"ready", "reg", "ps", "act"}
  /\ Values["ready"] = {"no", "yes"} /\ Values["reg"] = {"unknown", "searching", "home"}
  /\ Values["ps"] = {"unknown", "attached", "detaching", "detached"}
  /\ Values["act"] = {"unknown", "activated", "activating", "deactivated"}
BY DEF Fields, Values

\* A state gives each variable a value of its own.
LEMMA StateFacts ==
  ASSUME NEW s \in State
  PROVE  /\ DOMAIN s = Fields /\ \A f \in Fields : s[f] \in Values[f]
         /\ s.ready = s["ready"] /\ s.reg = s["reg"] /\ s.ps = s["ps"] /\ s.act = s["act"]
BY DEF State

\* Assigning a value of its own to a variable keeps the state a state.
LEMMA StateUpdate ==
  ASSUME NEW s \in State, NEW f \in Fields, NEW v \in Values[f]
  PROVE  /\ [s EXCEPT ![f] = v] \in State
         /\ \A g \in Fields : [s EXCEPT ![f] = v][g] = IF g = f THEN v ELSE s[g]
<1> DEFINE t == [s EXCEPT ![f] = v]
<1>1. s \in [Fields -> UNION {Values[g] : g \in Fields}] /\ \A g \in Fields : s[g] \in Values[g]
  BY DEF State
<1>2. v \in UNION {Values[g] : g \in Fields}
  OBVIOUS
<1>3. t \in [Fields -> UNION {Values[g] : g \in Fields}]
  BY <1>1, <1>2
<1>4. \A g \in Fields : t[g] = IF g = f THEN v ELSE s[g]
  BY <1>1
<1>5. \A g \in Fields : t[g] \in Values[g]
  BY <1>1, <1>4
<1>6. QED
  BY <1>3, <1>4, <1>5 DEF State

\* The state before any answer is a state.
LEMMA UnsetState == Unset \in State
<1>1. Unset \in [Fields -> UNION {Values[g] : g \in Fields}]
  BY FieldFacts DEF Unset
<1>2. \A g \in Fields : Unset[g] \in Values[g]
  BY FieldFacts DEF Unset
<1>3. QED
  BY <1>1, <1>2 DEF State

\* Values and verdicts are words.
LEMMA WordFacts ==
  /\ \A f \in Fields : Values[f] \subseteq Words
  /\ {"failed", "not_opened", "ok", "config", "none"} \subseteq Words
<1>1. ASSUME NEW f \in Fields, NEW v \in Values[f] PROVE v \in AllValues
  BY DEF AllValues
<1>2. QED
  BY <1>1 DEF Words

\* The modem's states are states.
LEMMA ModemFacts ==
  ASSUME NEW s \in State
  PROVE  s \in Modem <=> /\ s["reg"] = "home" => s["ready"] = "yes"
                         /\ s["ps"] = "attached" => s["reg"] = "home"
                         /\ s["act"] \in {"activated", "activating"} => s["ps"] = "attached"
                         /\ s["reg"] # "unknown" /\ s["ps"] \in {"attached", "detached"}
                         /\ s["act"] # "unknown"
BY StateFacts DEF Modem, Consistent

\* What can happen to the modem of itself leaves it in one of its states.
LEMMA SuccessorType ==
  ASSUME NEW s \in Modem, NEW t \in Successors(s)
  PROVE  t \in Modem
<1>1. s \in State
  BY DEF Modem
<1>2. "ready" \in Fields /\ "reg" \in Fields /\ "ps" \in Fields /\ "act" \in Fields
      /\ "yes" \in Values["ready"] /\ "searching" \in Values["reg"] /\ "home" \in Values["reg"]
      /\ "attached" \in Values["ps"] /\ "detached" \in Values["ps"]
      /\ "deactivated" \in Values["act"] /\ "activated" \in Values["act"]
  BY FieldFacts
<1> DEFINE Plain(u) == u \in State /\ u["reg"] # "unknown" /\ u["ps"] \in {"attached", "detached"}
                       /\ u["act"] # "unknown"
<1>3. Plain(s)
  BY <1>1, ModemFacts
<1>4. ASSUME NEW u, Plain(u), NEW f \in Fields, NEW v \in Values[f],
             v # "unknown", f = "ps" => v \in {"attached", "detached"}
      PROVE  Plain([u EXCEPT ![f] = v])
  BY <1>2, <1>4, StateUpdate
<1>5. Plain([s EXCEPT !.ps = "detached"])
  BY <1>2, <1>3, <1>4
<1>6. Plain(Lost(s))
  <2> DEFINE u == [s EXCEPT !.ps = "detached"]
  <2>1. Lost(s) = [u EXCEPT !.act = "deactivated"]
    BY DEF Lost
  <2>2. Plain(u)
    BY <1>5
  <2> HIDE DEF u, Plain
  <2>3. Plain([u EXCEPT !.act = "deactivated"])
    BY <1>2, <1>4, <2>2
  <2>4. QED
    BY <2>1, <2>3
<1>7. /\ Plain([s EXCEPT !.ready = "yes"]) /\ Plain([Lost(s) EXCEPT !.reg = "searching"])
      /\ Plain([s EXCEPT !.reg = "home"]) /\ Plain([s EXCEPT !.ps = "attached"])
      /\ Plain([s EXCEPT !.act = "deactivated"]) /\ Plain([s EXCEPT !.act = "activated"])
  <2> HIDE DEF Plain
  <2>1. Plain([s EXCEPT !.ready = "yes"])
    BY <1>2, <1>3, <1>4
  <2>2. Plain([Lost(s) EXCEPT !.reg = "searching"])
    BY <1>2, <1>4, <1>6
  <2>3. Plain([s EXCEPT !.reg = "home"])
    BY <1>2, <1>3, <1>4
  <2>4. Plain([s EXCEPT !.ps = "attached"])
    BY <1>2, <1>3, <1>4
  <2>5. Plain([s EXCEPT !.act = "deactivated"])
    BY <1>2, <1>3, <1>4
  <2>6. Plain([s EXCEPT !.act = "activated"])
    BY <1>2, <1>3, <1>4
  <2>7. QED
    BY <2>1, <2>2, <2>3, <2>4, <2>5, <2>6
<1>8. Plain(t)
  <2> HIDE DEF Plain
  <2>1. QED
    BY <1>6, <1>7 DEF Successors
<1>9. Consistent(t)
  BY DEF Successors
<1>10. QED
  BY <1>8, <1>9, StateFacts DEF Modem
\* So does what a command does to it.
LEMMA ModemUpdates ==
  ASSUME NEW s \in Modem
  PROVE  /\ [s EXCEPT !["act"] = "deactivated"] \in Modem
         /\ s["reg"] = "home" => [s EXCEPT !["ps"] = "attached"] \in Modem
         /\ s["ps"] = "attached" => /\ [s EXCEPT !["act"] = "activated"] \in Modem
                                    /\ [s EXCEPT !["act"] = "activating"] \in Modem
<1>1. s \in State
  BY DEF Modem
<1>2. "ps" \in Fields /\ "act" \in Fields /\ "reg" \in Fields /\ "ready" \in Fields
  BY FieldFacts
<1>3. ASSUME NEW v \in {"deactivated", "activated", "activating"}
      PROVE  LET t == [s EXCEPT !["act"] = v]
             IN t \in State /\ t["act"] = v /\ t["ps"] = s["ps"] /\ t["reg"] = s["reg"] /\ t["ready"] = s["ready"]
  <2>1. v \in Values["act"]
    BY FieldFacts
  <2>2. QED
    BY <1>1, <1>2, <2>1, StateUpdate
<1>4. LET t == [s EXCEPT !["ps"] = "attached"]
      IN t \in State /\ t["ps"] = "attached" /\ t["act"] = s["act"] /\ t["reg"] = s["reg"] /\ t["ready"] = s["ready"]
  <2>1. "attached" \in Values["ps"]
    BY FieldFacts
  <2>2. QED
    BY <1>1, <1>2, <2>1, StateUpdate
<1>5. [s EXCEPT !["act"] = "deactivated"] \in Modem
  BY <1>1, <1>3, ModemFacts
<1>6. s["reg"] = "home" => [s EXCEPT !["ps"] = "attached"] \in Modem
  BY <1>1, <1>4, ModemFacts
<1>7. s["ps"] = "attached" => /\ [s EXCEPT !["act"] = "activated"] \in Modem
                             /\ [s EXCEPT !["act"] = "activating"] \in Modem
  BY <1>1, <1>3, ModemFacts
<1>8. QED
  BY <1>5, <1>6, <1>7

\* The modem answers a command with what the command may get, and stays in one of its states.
LEMMA ExecuteType ==
  ASSUME m.is \in Modem, m.opened \in BOOLEAN, NEW o \in Ops, NEW e \in Execute(o)
  PROVE  e.is \in Modem /\ e.opened \in BOOLEAN /\ e.v \in Replies(o)
<1>1. m.is \in State
  BY DEF Modem
<1>2. "ready" \in Fields /\ "reg" \in Fields /\ "ps" \in Fields /\ "act" \in Fields
      /\ "attached" \in Values["ps"] /\ "deactivated" \in Values["act"]
      /\ "activated" \in Values["act"] /\ "activating" \in Values["act"]
  BY FieldFacts
<1>3. \A g \in Fields : m.is[g] \in Values[g]
  BY <1>1, StateFacts
<1>4. DOMAIN Sets = {"queryReady", "queryReg", "queryPs", "attach", "queryConnect", "connect", "disconnect"}
      /\ Sets["queryReady"] = "ready" /\ Sets["queryReg"] = "reg" /\ Sets["queryPs"] = "ps"
      /\ Sets["attach"] = "ps" /\ Sets["queryConnect"] = "act" /\ Sets["connect"] = "act"
      /\ Sets["disconnect"] = "act"
  BY DEF Sets
<1>5. "failed" \in Replies(o) /\ "not_opened" \in Replies(o)
  BY DEF Replies
<1>6. o \in {"open", "init", "ip", "close"} => {"ok", "config", "none"} \subseteq Replies(o)
  BY <1>4 DEF Replies
<1>7. ASSUME NEW i \in Modem, NEW b \in BOOLEAN, NEW v \in Replies(o),
             e = [is |-> i, opened |-> b, v |-> v]
      PROVE  e.is \in Modem /\ e.opened \in BOOLEAN /\ e.v \in Replies(o)
  BY <1>7
<1>8. [m.is EXCEPT !["act"] = "deactivated"] \in Modem
  BY ModemUpdates
<1>9. m.is["reg"] = "home" => [m.is EXCEPT !["ps"] = "attached"] \in Modem
  BY ModemUpdates
<1>10. m.is["ps"] = "attached" => /\ [m.is EXCEPT !["act"] = "activated"] \in Modem
                                  /\ [m.is EXCEPT !["act"] = "activating"] \in Modem
  BY ModemUpdates
<1>11. m.is.reg = m.is["reg"] /\ m.is.ps = m.is["ps"] /\ m.is.act = m.is["act"]
  BY <1>1, StateFacts
<1>12. CASE ~m.opened /\ o # "open"
  <2>1. e = [is |-> m.is, opened |-> FALSE, v |-> "not_opened"]
    BY <1>12 DEF Execute
  <2>2. QED
    BY <1>5, <1>7, <2>1
<1>13. CASE m.opened \/ o = "open"
  <2>1. CASE o = "open"
    <3>1. \/ e = [is |-> m.is, opened |-> TRUE, v |-> "ok"]
          \/ e = [is |-> m.is, opened |-> m.opened, v |-> "failed"]
      BY <1>13, <2>1 DEF Execute
    <3>2. QED
      BY <1>5, <1>7, <1>6, <2>1, <3>1
  <2>2. CASE o = "init"
    <3>1. e = [is |-> m.is, opened |-> TRUE, v |-> "ok"]
      BY <1>13, <2>2 DEF Execute
    <3>2. QED
      BY <1>6, <1>7, <2>2, <3>1
  <2>3. CASE o \in {"queryReady", "queryReg", "queryPs", "queryConnect"}
    <3>1. \/ e = [is |-> m.is, opened |-> TRUE, v |-> m.is[Sets[o]]]
          \/ e = [is |-> m.is, opened |-> TRUE, v |-> "failed"]
      BY <1>13, <2>3 DEF Execute
    <3>2. Sets[o] \in Fields /\ o \in DOMAIN Sets
      BY <1>2, <1>4, <2>3
    <3>3. m.is[Sets[o]] \in Replies(o)
      BY <1>3, <3>2 DEF Replies
    <3>4. QED
      BY <1>5, <1>7, <3>1, <3>3
  <2>4. CASE o = "attach"
    <3>1. \/ e = [is |-> m.is, opened |-> TRUE, v |-> "failed"]
          \/ /\ m.is["reg"] = "home"
             /\ e = [is |-> [m.is EXCEPT !["ps"] = "attached"], opened |-> TRUE, v |-> "attached"]
      BY <1>11, <1>13, <2>4 DEF Execute
    <3>2. "attached" \in Replies(o)
      BY <1>2, <1>4, <2>4 DEF Replies
    <3>3. QED
      BY <1>5, <1>7, <1>9, <3>1, <3>2
  <2>5. CASE o = "connect"
    <3>1. \/ e = [is |-> m.is, opened |-> TRUE, v |-> "failed"]
          \/ /\ m.is["ps"] = "attached"
             /\ \/ e = [is |-> [m.is EXCEPT !["act"] = "activated"], opened |-> TRUE, v |-> "activated"]
                \/ e = [is |-> [m.is EXCEPT !["act"] = "activating"], opened |-> TRUE, v |-> "activating"]
      BY <1>11, <1>13, <2>5 DEF Execute
    <3>2. "activated" \in Replies(o) /\ "activating" \in Replies(o)
      BY <1>2, <1>4, <2>5 DEF Replies
    <3>3. QED
      BY <1>5, <1>7, <1>10, <3>1, <3>2
  <2>6. CASE o = "ip"
    <3>1. \/ e = [is |-> m.is, opened |-> TRUE, v |-> "config"]
          \/ e = [is |-> m.is, opened |-> TRUE, v |-> "none"]
          \/ e = [is |-> m.is, opened |-> TRUE, v |-> "failed"]
      BY <1>13, <2>6 DEF Execute
    <3>2. QED
      BY <1>5, <1>7, <1>6, <2>6, <3>1
  <2>7. CASE o = "disconnect"
    <3>1. e = [is |-> [m.is EXCEPT !["act"] = "deactivated"], opened |-> TRUE, v |-> "deactivated"]
      BY <1>13, <2>7 DEF Execute
    <3>2. "deactivated" \in Replies(o)
      BY <1>2, <1>4, <2>7 DEF Replies
    <3>3. QED
      BY <1>7, <1>8, <3>1, <3>2
  <2>8. CASE o = "close"
    <3>1. e = [is |-> [m.is EXCEPT !["act"] = "deactivated"], opened |-> FALSE, v |-> "ok"]
      BY <1>13, <2>8 DEF Execute
    <3>2. QED
      BY <1>6, <1>7, <1>8, <2>8, <3>1
  <2>9. QED
    BY <2>1, <2>2, <2>3, <2>4, <2>5, <2>6, <2>7, <2>8 DEF Ops, Queries
<1>14. QED
  BY <1>12, <1>13

\* What the modem indicates are messages.
LEMMA NoticesType ==
  ASSUME NEW s \in State, NEW t \in State
  PROVE  Notices(s, t) \in Seq(Message)
<1>1. ASSUME NEW f \in Fields PROVE Notice(s, t, f) \in Seq(Message)
  <2>1. t[f] \in Values[f] /\ t[f] \in Words
    BY StateFacts, WordFacts
  <2>2. Indication(f, t[f], FALSE) \in Message
    BY <2>1 DEF Indication, Message
  <2>3. <<>> \in Seq(Message) /\ \A x \in Message : <<x>> \in Seq(Message)
    BY EmptySeq
  <2>4. QED
    BY <2>2, <2>3 DEF Notice
<1>2. /\ Notice(s, t, "ready") \in Seq(Message) /\ Notice(s, t, "reg") \in Seq(Message)
      /\ Notice(s, t, "ps") \in Seq(Message) /\ Notice(s, t, "act") \in Seq(Message)
  BY <1>1, FieldFacts
<1>3. QED
  BY <1>2, ConcatProperties DEF Notices

\* So are its answers.
LEMMA AnswerType ==
  ASSUME NEW o \in Ops, NEW v \in Replies(o)
  PROVE  AnswerTo(o, v) \in Message
<1>1. v \in Words
  <2>1. CASE o \in DOMAIN Sets
    <3>1. Sets[o] \in Fields
      BY <2>1, FieldFacts DEF Sets
    <3>2. v \in {"failed", "not_opened"} \cup Values[Sets[o]]
      BY <2>1 DEF Replies
    <3>3. QED
      BY <3>1, <3>2, WordFacts
  <2>2. CASE o \notin DOMAIN Sets
    <3>1. v \in {"failed", "not_opened", "ok", "config", "none"}
      BY <2>2 DEF Replies
    <3>2. QED
      BY <3>1, WordFacts
  <2>3. QED
    BY <2>1, <2>2
<1>2. QED
  BY <1>1 DEF AnswerTo, Message

\* A registration state can only be read as a packet service state.
LEMMA FallThroughType ==
  ASSUME NEW x \in Message, x.op = "none", x.f = "reg"
  PROVE  \A v \in AsPacketService[x.v] : Indication("ps", v, TRUE) \in Message
<1>1. x.v \in {"unknown", "searching", "home"}
  BY FieldFacts DEF Message, Ops, Queries
<1>2. AsPacketService[x.v] \subseteq Values["ps"]
  BY <1>1, FieldFacts DEF AsPacketService
<1>3. AsPacketService[x.v] \subseteq Words /\ "ps" \in Fields
  BY <1>2, FieldFacts, WordFacts
<1>4. QED
  BY <1>2, <1>3 DEF Indication, Message
-------------------------------------------------------------------------------
(* IInv is inductive.                                                       *)

\* The invariant holds when mbim_main starts.
LEMMA InitIInv == Init => IInv
<1> SUFFICES ASSUME Init PROVE IInv
  OBVIOUS
<1>1. st \in State /\ m.is \in Modem
  BY UnsetState DEF Init
<1>2. m.opened \in BOOLEAN /\ quit \in BOOLEAN /\ open_state \in BOOLEAN /\ net \in BOOLEAN
  <2>1. m.opened \in BOOLEAN
    BY DEF Init
  <2>2. quit \in BOOLEAN
    BY DEF Init
  <2>3. open_state \in BOOLEAN
    BY DEF Init
  <2>4. net \in BOOLEAN
    BY DEF Init
  <2>5. QED
    BY <2>1, <2>2, <2>3, <2>4
<1>3. slice \in 1..Slices
  BY Constants DEF Init
<1>4. op = "none" /\ pc = "head" /\ wt = "long" /\ newer = {} /\ wrong = {} /\ rd = "poll" /\ rsp = NULL
  BY DEF Init
<1>5. TypeOK
  BY <1>1, <1>2, <1>3, <1>4 DEF TypeOK, MainHolds, ReaderHolds
<1>6. toModem \in Seq(Ops) /\ pipe \in Seq(Message)
  BY EmptySeq DEF Init
<1>7. QED
  BY <1>4, <1>5, <1>6 DEF IInv, WireInv, PcInv, LeaveInv, AtWork, NetDownAtExit

\* The program points stay those of the code, and so do the threads' exclusion and the
\* command in progress.
OpInv == /\ op \in Ops \cup {"none"} /\ (op # "none" <=> pc = "wait")
         /\ wt \in {"long", "retry", "settle"} /\ slice \in 1..Slices
         /\ ~(MainHolds /\ ReaderHolds)

\* The main thread's steps between commands.
Waiting == Lock \/ Wait \/ SliceOver \/ Relock \/ Rewake \/ Return \/ Settle
\* Steps that issue a command, go elsewhere or sleep.
Turn == \/ \E o \in Ops : Issue(o)
        \/ \E l \in {"ready", "reg", "ps", "act", "ready2", "reg2", "ps2", "ps3", "act2", "act3",
                    "head", "exit", "kill", "killing", "exited", "crashed"} : Goto(l)
        \/ \E w \in {"long", "retry"} : SleepFor(w)
Commands == LoopHead \/ Round \/ CommandDone \/ CommandFails \/ Exit \/ WhileReader

\* What follows a command issues one, goes elsewhere or sleeps.
LEMMA CommandsTurn == ASSUME Commands PROVE Turn
<1>1. Ops = {"queryReady", "queryReg", "queryPs", "attach", "queryConnect", "connect",
             "open", "init", "ip", "disconnect", "close"}
  BY DEF Ops, Queries
<1>2. CASE LoopHead
  BY <1>1, <1>2 DEF LoopHead, Turn
<1>3. CASE Round
  BY <1>1, <1>3 DEF Round, Test, Turn
<1>4. CASE CommandFails
  <2>1. FailTo \in {"kill", "exit"}
    BY DEF FailTo
  <2>2. QED
    BY <1>1, <1>4, <2>1 DEF CommandFails, Turn
<1>5. CASE Exit \/ WhileReader
  BY <1>1, <1>5 DEF Exit, WhileReader, Turn
<1>6. CASE OpenAnswered \/ InitAnswered \/ IpAnswered \/ DisconnectAnswered \/ CloseAnswered
  BY <1>1, <1>6 DEF OpenAnswered, InitAnswered, IpAnswered, DisconnectAnswered, CloseAnswered, Turn
<1>7. ASSUME NEW o \in Queries, QueryAnswered(o) PROVE Turn
  <2>1. After[o] \in {"ready2", "reg2", "ps2", "ps3", "act2", "act3"}
    BY DEF Queries, After
  <2>2. QED
    BY <1>7, <2>1 DEF QueryAnswered, Turn
<1>8. QED
  BY <1>2, <1>3, <1>4, <1>5, <1>6, <1>7 DEF Commands, CommandDone

\* Every step keeps the command and the place in the program in step.
LEMMA OpStep == OpInv /\ PcInv /\ [Next]_vars => OpInv' /\ PcInv'
<1> SUFFICES ASSUME OpInv, PcInv, [Next]_vars PROVE OpInv' /\ PcInv'
  OBVIOUS
<1> USE DEF command, waiting, reader, MainHolds, ReaderHolds
<1>1. CASE Commands
  <2>1. CASE \E o \in Ops : Issue(o)
    <3>1. PICK o \in Ops : Issue(o)
      BY <2>1
    <3>2. o # "none"
      BY DEF Ops, Queries
    <3>3. QED
      BY <3>1, <3>2 DEF Issue, OpInv, PcInv
  <2>2. CASE \E l \in {"ready", "reg", "ps", "act", "ready2", "reg2", "ps2", "ps3", "act2", "act3",
                      "head", "exit", "kill", "killing", "exited", "crashed"} : Goto(l)
    BY <2>2 DEF Goto, OpInv, PcInv
  <2>3. CASE \E w \in {"long", "retry"} : SleepFor(w)
    BY <2>3, Constants DEF SleepFor, OpInv, PcInv
  <2>4. QED
    BY <1>1, <2>1, <2>2, <2>3, CommandsTurn DEF Turn
<1>2. CASE Lock \/ Wait \/ SliceOver \/ Rewake
  BY <1>2 DEF Lock, Wait, SliceOver, Rewake, Still, Free, OpInv, PcInv
<1>3. CASE Relock
  <2>1. slice' \in 1..Slices
    BY <1>3, Constants DEF Relock, OpInv
  <2>2. QED
    BY <1>3, <2>1 DEF Relock, Still, Free, OpInv, PcInv
<1>4. CASE Return \/ Settle
  BY <1>4, Constants DEF Return, Settle, Still, OpInv, PcInv
<1>5. CASE KillReader
  BY <1>5 DEF KillReader, OpInv, PcInv
<1>6. CASE StopSignal
  BY <1>6 DEF StopSignal, Wake, OpInv, PcInv
<1>7. CASE Notify
  BY <1>7 DEF Notify, Wake, Free, OpInv, PcInv
<1>8. CASE Read \/ Deliver \/ ReaderQuits \/ LastUnlock \/ ReaderExits \/ Hangup
  BY <1>8 DEF Read, Deliver, ReaderQuits, LastUnlock, ReaderExits, Hangup, OpInv, PcInv
<1>9. CASE Unlock \/ Indicated
  <2>1. rd' \in {"notify", "msg", "poll"} /\ UNCHANGED <<pc, op, waiting>>
    BY <1>9 DEF Unlock, Indicated, NextMessage
  <2>2. QED
    BY <2>1 DEF OpInv, PcInv
<1>10. CASE Serve \/ Ignore \/ Change \/ Suspend \/ UNCHANGED vars
  BY <1>10 DEF Serve, Ignore, Change, Suspend, vars, OpInv, PcInv
<1>11. QED
  BY <1>1, <1>2, <1>3, <1>4, <1>5, <1>6, <1>7, <1>8, <1>9, <1>10
  DEF Next, MainStep, ReaderStep, Commands

\* The reader goes only when the device has failed or the main thread is past its loop.
LEMMA LeaveStep == PcInv /\ LeaveInv /\ [Next]_vars => LeaveInv'
<1> SUFFICES ASSUME PcInv, LeaveInv, [Next]_vars PROVE LeaveInv'
  OBVIOUS
<1> DEFINE Late == {"kill", "killing", "exited", "crashed"}
<1>1. CASE Commands
  <2>1. UNCHANGED <<rd, hungUp>>
    BY <1>1, CommandsTurn DEF Turn, Issue, Goto, SleepFor, reader, world
  <2>2. pc \in Late => pc' \in Late
    <3>1. pc \in Late => WhileReader
      BY <1>1 DEF Commands, LoopHead, Round, Test, CommandDone, CommandFails, Exit, OpenAnswered,
         InitAnswered, IpAnswered, QueryAnswered, DisconnectAnswered, CloseAnswered, Answered
    <3>2. QED
      BY <3>1 DEF WhileReader, Goto
  <2>3. QED
    BY <2>1, <2>2 DEF LeaveInv
<1>2. CASE Lock \/ Wait \/ SliceOver \/ Relock \/ Rewake \/ Return \/ Settle
  <2>1. UNCHANGED <<rd, hungUp>> /\ pc \notin Late
    BY <1>2 DEF Lock, Wait, SliceOver, Relock, Rewake, Return, Settle, Still, reader, world
  <2>2. QED
    BY <2>1 DEF LeaveInv
<1>3. CASE KillReader
  BY <1>3 DEF KillReader, LeaveInv
<1>4. CASE StopSignal
  BY <1>4 DEF StopSignal, MainHolds, Wake, reader, LeaveInv
<1>5. CASE Notify
  BY <1>5 DEF Notify, Wake, AtWork, world, LeaveInv
<1>6. CASE Hangup
  BY <1>6 DEF Hangup, LeaveInv
<1>7. CASE Read \/ Deliver \/ Indicated \/ Unlock
  <2>1. rd' \in AtWork
    BY <1>7 DEF Read, Deliver, Indicated, Unlock, NextMessage, AtWork
  <2>2. QED
    BY <2>1 DEF LeaveInv
<1>8. CASE ReaderQuits \/ LastUnlock \/ ReaderExits
  BY <1>8 DEF ReaderQuits, LastUnlock, ReaderExits, AtWork, world, LeaveInv
<1>9. CASE Serve \/ Ignore \/ Change \/ Suspend \/ UNCHANGED vars
  BY <1>9 DEF Serve, Ignore, Change, Suspend, vars, reader, world, LeaveInv
<1>10. QED
  BY <1>1, <1>2, <1>3, <1>4, <1>5, <1>6, <1>7, <1>8, <1>9
  DEF Next, MainStep, ReaderStep, Commands

\* Nothing configures the interface after the end, and the end takes it down.
LEMMA NetDownStep == PcInv /\ LeaveInv /\ NetDownAtExit /\ [Next]_vars => NetDownAtExit'
<1> SUFFICES ASSUME PcInv, LeaveInv, NetDownAtExit, [Next]_vars PROVE NetDownAtExit'
  OBVIOUS
<1>1. CASE Exit
  <2>1. SUFFICES ASSUME pc' = "exited" PROVE hungUp'
    BY DEF NetDownAtExit
  <2>2. rd = "exited" /\ pc = "exit" /\ hungUp' = hungUp
    BY <1>1, <2>1 DEF Exit, Issue, Goto, world
  <2>3. QED
    BY <2>2 DEF LeaveInv, AtWork
<1>2. CASE WhileReader
  BY <1>2 DEF WhileReader, Goto, FinalDown, Deconfigure, NetDownAtExit
<1>3. CASE Commands /\ ~Exit /\ ~WhileReader
  <2>1. pc' # "exited"
    BY <1>3 DEF Commands, LoopHead, Round, Test, CommandDone, CommandFails, FailTo, OpenAnswered,
       InitAnswered, IpAnswered, QueryAnswered, Queries, After, DisconnectAnswered, CloseAnswered,
       Issue, Goto, SleepFor
  <2>2. QED
    BY <2>1 DEF NetDownAtExit
<1>4. CASE Lock \/ Wait \/ SliceOver \/ Relock \/ Rewake \/ Return \/ Settle \/ KillReader \/ StopSignal
  <2>1. pc' # "exited"
    BY <1>4 DEF Lock, Wait, SliceOver, Relock, Rewake, Return, Settle, KillReader, StopSignal,
       MainHolds, Wake
  <2>2. QED
    BY <2>1 DEF NetDownAtExit
<1>5. CASE Indicated
  <2>1. (net' = net \/ net' = FALSE) /\ UNCHANGED <<pc, hungUp>>
    BY <1>5 DEF Indicated, DownWithCall, Deconfigure, world
  <2>2. QED
    BY <2>1 DEF NetDownAtExit
<1>6. CASE Notify
  BY <1>6 DEF Notify, Wake, beliefs, world, NetDownAtExit
<1>7. CASE \/ Read \/ Deliver \/ Unlock \/ ReaderQuits \/ LastUnlock \/ ReaderExits \/ Hangup
           \/ Serve \/ Ignore \/ Change \/ Suspend \/ UNCHANGED vars
  BY <1>7 DEF Read, Deliver, Unlock, ReaderQuits, LastUnlock, ReaderExits, Hangup, Serve, Ignore,
     Change, Suspend, vars, beliefs, world, NetDownAtExit
<1>8. QED
  BY <1>1, <1>2, <1>3, <1>4, <1>5, <1>6, <1>7 DEF Next, MainStep, ReaderStep, Commands
\* Commands, answers and indications keep their types on their way.
LEMMA WireStep == TypeOK /\ PcInv /\ WireInv /\ [Next]_vars => WireInv'
<1> SUFFICES ASSUME TypeOK, PcInv, WireInv, [Next]_vars PROVE WireInv'
  OBVIOUS
<1> USE DEF command, reader
<1>0. toModem \in Seq(Ops) /\ pipe \in Seq(Message)
  BY DEF WireInv
<1>1. CASE Commands
  <2>1. rsp' = NULL /\ UNCHANGED <<pipe, reader>>
    BY <1>1, CommandsTurn DEF Turn, Issue, Goto, SleepFor
  <2>2. toModem' \in Seq(Ops)
    <3>1. \A o \in Ops : Append(toModem, o) \in Seq(Ops)
      BY <1>0, AppendProperties
    <3>2. toModem' = toModem \/ \E o \in Ops : toModem' = Append(toModem, o)
      BY <1>1, CommandsTurn DEF Turn, Issue, Goto, SleepFor
    <3>3. QED
      BY <1>0, <3>1, <3>2
  <2>3. QED
    BY <2>1, <2>2 DEF WireInv
<1>2. CASE Lock \/ Wait \/ SliceOver \/ Relock \/ Rewake \/ Return \/ Settle
  <2>1. UNCHANGED <<command, pipe, reader>> /\ pc # "wait"
    BY <1>2 DEF Lock, Wait, SliceOver, Relock, Rewake, Return, Settle, Still
  <2>2. QED
    BY <2>1 DEF WireInv
<1>3. CASE KillReader
  <2>1. /\ UNCHANGED <<command, pipe, rdMsg>> /\ pc # "wait"
        /\ rd' \in {"msg", "notify", "holding"} => rd' = rd
    BY <1>3 DEF KillReader, ReaderHolds
  <2>2. QED
    BY <2>1 DEF WireInv
<1>4. CASE StopSignal
  <2>1. UNCHANGED <<command, pipe, reader>> /\ (pc = "wait" => pc' = "wait")
    BY <1>4 DEF StopSignal, Wake, MainHolds
  <2>2. QED
    BY <2>1 DEF WireInv
<1>5. CASE Notify
  <2>1. /\ UNCHANGED <<command, pipe, rdMsg>> /\ (pc = "wait" => pc' = "wait")
        /\ rd' \in {"msg", "notify", "holding"} => rd = "notify"
    BY <1>5 DEF Notify, Wake
  <2>2. QED
    BY <2>1 DEF WireInv
<1>6. CASE Read
  <2>1. Head(pipe) \in Message /\ Tail(pipe) \in Seq(Message)
    BY <1>0, <1>6, HeadTailProperties DEF Read
  <2>2. QED
    BY <1>6, <2>1 DEF Read, WireInv
<1>7. CASE Deliver
  <2>1. rdMsg \in Message /\ rdMsg.op \in Ops /\ rdMsg.v \in Replies(rdMsg.op)
    BY <1>7 DEF Deliver, WireInv, Message
  <2>2. UNCHANGED <<pc, op, toModem, pipe>> /\ rd' = "poll"
        /\ (rsp' = rsp \/ (pc = "wait" /\ op = rdMsg.op /\ rsp' = rdMsg.v))
    BY <1>7 DEF Deliver
  <2>3. QED
    BY <2>1, <2>2 DEF WireInv
<1>8. CASE Indicated \/ Unlock
  <2>1. rdMsg \in Message /\ rdMsg.op = "none" /\ UNCHANGED <<pc, command, pipe>>
    BY <1>8 DEF Indicated, Unlock, WireInv
  <2>2. \/ rd' = "notify" /\ rdMsg' = rdMsg
        \/ /\ rd' = "msg" /\ rdMsg.f = "reg"
           /\ \E v \in AsPacketService[rdMsg.v] : rdMsg' = Indication("ps", v, TRUE)
        \/ rd' = "poll"
    BY <1>8 DEF Indicated, Unlock, NextMessage
  <2>3. rd' \in {"msg", "notify", "holding"} => rdMsg' \in Message
    BY <2>1, <2>2, FallThroughType
  <2>4. rd' \in {"notify", "holding"} => rdMsg'.op = "none"
    BY <2>1, <2>2
  <2>5. QED
    BY <2>1, <2>3, <2>4 DEF WireInv
<1>9. CASE ReaderQuits \/ LastUnlock \/ ReaderExits \/ Hangup
  BY <1>9 DEF ReaderQuits, LastUnlock, ReaderExits, Hangup, WireInv
<1>10. CASE Serve
  <2>1. Head(toModem) \in Ops /\ toModem' \in Seq(Ops)
    BY <1>0, <1>10, HeadTailProperties DEF Serve
  <2>2. PICK e \in Execute(Head(toModem)) : pipe' = Append(pipe, AnswerTo(Head(toModem), e.v))
    BY <1>10 DEF Serve
  <2>3. e.v \in Replies(Head(toModem))
    BY <2>1, ExecuteType DEF TypeOK
  <2>4. AnswerTo(Head(toModem), e.v) \in Message
    BY <2>1, <2>3, AnswerType
  <2>5. pipe' \in Seq(Message)
    BY <1>0, <2>2, <2>4, AppendProperties
  <2>6. QED
    BY <1>10, <2>1, <2>5 DEF Serve, WireInv
<1>11. CASE Ignore
  <2>1. toModem' \in Seq(Ops)
    BY <1>0, <1>11, HeadTailProperties DEF Ignore
  <2>2. QED
    BY <1>11, <2>1 DEF Ignore, WireInv
<1>12. CASE Change
  <2>1. PICK t \in Successors(m.is) : pipe' = IF m.opened THEN pipe \o Notices(m.is, t) ELSE pipe
    BY <1>12 DEF Change
  <2>2. t \in State /\ m.is \in State
    BY SuccessorType DEF TypeOK, Modem
  <2>3. Notices(m.is, t) \in Seq(Message)
    BY <2>2, NoticesType
  <2>4. pipe' \in Seq(Message)
    BY <1>0, <2>1, <2>3, ConcatProperties
  <2>5. QED
    BY <1>12, <2>4 DEF Change, WireInv
<1>13. CASE Suspend \/ UNCHANGED vars
  BY <1>13 DEF Suspend, vars, WireInv
<1>14. QED
  BY <1>1, <1>2, <1>3, <1>4, <1>5, <1>6, <1>7, <1>8, <1>9, <1>10, <1>11, <1>12, <1>13
  DEF Next, MainStep, ReaderStep, Commands

\* The modem stays in one of its states.
LEMMA ModemStep == TypeOK /\ WireInv /\ [Next]_vars => m'.is \in Modem /\ m'.opened \in BOOLEAN
<1> SUFFICES ASSUME TypeOK, WireInv, [Next]_vars PROVE m'.is \in Modem /\ m'.opened \in BOOLEAN
  OBVIOUS
<1>0. m.is \in Modem /\ m.opened \in BOOLEAN
  BY DEF TypeOK
<1>1. CASE Serve
  <2>1. toModem # <<>> /\ toModem \in Seq(Ops)
    BY <1>1 DEF Serve, WireInv
  <2>2. Head(toModem) \in Ops
    BY <2>1, HeadTailProperties
  <2>3. PICK e \in Execute(Head(toModem)) : m' = [is |-> e.is, opened |-> e.opened]
    BY <1>1 DEF Serve
  <2>4. e.is \in Modem /\ e.opened \in BOOLEAN
    BY <1>0, <2>2, ExecuteType
  <2>5. m'.is = e.is /\ m'.opened = e.opened
    BY <2>3
  <2>6. QED
    BY <2>4, <2>5
<1>2. CASE Change
  <2>1. PICK t \in Successors(m.is) : m' = [is |-> t, opened |-> m.opened]
    BY <1>2 DEF Change
  <2>2. t \in Modem
    BY <1>0, SuccessorType
  <2>3. QED
    BY <1>0, <2>1, <2>2
<1>3. CASE Suspend
  <2>1. m' = [is |-> [m.is EXCEPT !["act"] = "deactivated"], opened |-> FALSE]
    BY <1>3 DEF Suspend
  <2>2. [m.is EXCEPT !["act"] = "deactivated"] \in Modem
    BY <1>0, ModemUpdates
  <2>3. m'.is = [m.is EXCEPT !["act"] = "deactivated"] /\ m'.opened = FALSE
    BY <2>1
  <2>4. m'.opened \in BOOLEAN
    BY <2>3
  <2>5. QED
    BY <2>2, <2>3, <2>4
<1>4. CASE ~Serve /\ ~Change /\ ~Suspend
  <2>1. m' = m
    <3>1. CASE Commands
      BY <3>1, CommandsTurn DEF Turn, Issue, Goto, SleepFor, world
    <3>2. CASE ~Commands
      BY <1>4, <3>2 DEF Next, MainStep, ReaderStep, Commands, Lock, Wait, SliceOver, Relock, Rewake,
         Return, Settle, Still, KillReader, StopSignal, Read, Deliver, Indicated, Notify, Unlock,
         ReaderQuits, LastUnlock, ReaderExits, Hangup, Ignore, vars, world
    <3>3. QED
      BY <3>1, <3>2
  <2>2. QED
    BY <1>0, <2>1
<1>5. QED
  BY <1>1, <1>2, <1>3, <1>4

\* An answer, or an indication, gives a variable one of its values.
LEMMA AssignType ==
  ASSUME TypeOK, WireInv, rsp # NULL, op \in DOMAIN Sets, Assign(Sets[op])
  PROVE  /\ st' \in State /\ open_state' \in BOOLEAN /\ wrong' \subseteq Fields
         /\ UNCHANGED <<net, raced>>
<1>1. Sets[op] \in Fields
  BY FieldFacts DEF Sets
<1>2. rsp \in {"failed", "not_opened"} \cup Values[Sets[op]]
  BY DEF WireInv, Replies
<1>3. st \in State /\ st[Sets[op]] \in Values[Sets[op]]
  BY <1>1, StateFacts DEF TypeOK
<1>4. Learned(Sets[op]) \subseteq Values[Sets[op]]
  BY <1>2, <1>3 DEF Learned
<1>5. PICK v \in Learned(Sets[op]) : st' = [st EXCEPT ![Sets[op]] = v]
  BY DEF Assign
<1>6. st' \in State
  BY <1>1, <1>3, <1>4, <1>5, StateUpdate
<1>7. open_state' \in BOOLEAN
  BY DEF Assign
<1>8. wrong' \subseteq Fields
  BY <1>1 DEF Assign, TypeOK
<1>9. QED
  BY <1>6, <1>7, <1>8 DEF Assign

\* The program's variables keep their types.
BeliefType == /\ st \in State /\ open_state \in BOOLEAN /\ net \in BOOLEAN
              /\ wrong \subseteq Fields

\* Every step keeps the types of what the program believes.
LEMMA BeliefStep == TypeOK /\ WireInv /\ PcInv /\ [Next]_vars => BeliefType'
<1> SUFFICES ASSUME TypeOK, WireInv, PcInv, [Next]_vars PROVE BeliefType'
  OBVIOUS
<1>0. BeliefType
  BY DEF TypeOK, BeliefType
<1> USE DEF beliefs, history
<1>1. CASE LoopHead \/ WhileReader
  <2>1. UNCHANGED <<st, open_state, wrong>>
    BY <1>1 DEF LoopHead, WhileReader
  <2>2. net' \in BOOLEAN
    BY <1>0, <1>1 DEF LoopHead, WhileReader, FinalDown, Deconfigure, BeliefType
  <2>3. QED
    BY <1>0, <2>1, <2>2 DEF BeliefType
<1>2. CASE Round \/ CommandFails \/ Exit
  BY <1>0, <1>2 DEF Round, CommandFails, Exit, BeliefType
<1>3. CASE OpenAnswered
  <2>1. open_state' \in BOOLEAN
    BY <1>0, <1>3 DEF OpenAnswered, BeliefType
  <2>2. QED
    BY <1>0, <1>3, <2>1, UnsetState DEF OpenAnswered, BeliefType
<1>4. CASE InitAnswered \/ CloseAnswered
  <2>1. open_state' \in BOOLEAN
    BY <1>4 DEF InitAnswered, CloseAnswered
  <2>2. QED
    BY <1>0, <1>4, <2>1 DEF InitAnswered, CloseAnswered, BeliefType
<1>5. CASE IpAnswered
  <2>1. open_state' \in BOOLEAN
    BY <1>5 DEF IpAnswered
  <2>2. net' \in BOOLEAN
    BY <1>0, <1>5 DEF IpAnswered, Configure, BeliefType
  <2>3. QED
    BY <1>0, <1>5, <2>1, <2>2 DEF IpAnswered, BeliefType
<1>6. ASSUME NEW o \in Queries, QueryAnswered(o) PROVE BeliefType'
  <2>1. op = o /\ rsp # NULL /\ op \in DOMAIN Sets /\ Assign(Sets[op])
    BY <1>6 DEF QueryAnswered, Answered, Queries, Sets
  <2>2. QED
    BY <1>0, <2>1, AssignType DEF BeliefType
<1>7. CASE DisconnectAnswered
  <2>1. rsp # NULL /\ op \in DOMAIN Sets /\ Assign(Sets[op])
    BY <1>7 DEF DisconnectAnswered, Answered, Sets
  <2>2. QED
    BY <1>0, <2>1, AssignType DEF BeliefType
<1>8. CASE Indicated
  <2>1. rdMsg.f \in Fields /\ rdMsg.v \in Values[rdMsg.f]
    BY <1>8 DEF Indicated, WireInv, Message, Ops, Queries
  <2>2. st' \in State
    BY <1>0, <1>8, <2>1, StateUpdate DEF Indicated, BeliefType
  <2>3. wrong' \subseteq Fields
    BY <1>0, <1>8, <2>1 DEF Indicated, BeliefType
  <2>4. net' \in BOOLEAN
    BY <1>0, <1>8 DEF Indicated, DownWithCall, Deconfigure, BeliefType
  <2>5. QED
    BY <1>0, <1>8, <2>2, <2>3, <2>4 DEF Indicated, BeliefType
<1>9. CASE \/ Lock \/ Wait \/ SliceOver \/ Relock \/ Rewake \/ Return \/ Settle \/ KillReader
           \/ StopSignal \/ Read \/ Deliver \/ Notify \/ Unlock \/ ReaderQuits \/ LastUnlock
           \/ ReaderExits \/ Hangup \/ Serve \/ Ignore \/ Change \/ Suspend \/ UNCHANGED vars
  <2>1. UNCHANGED <<st, open_state, net, wrong>>
    BY <1>9 DEF Lock, Wait, SliceOver, Relock, Rewake, Return, Settle, Still, KillReader, StopSignal,
       Read, Deliver, Notify, Unlock, ReaderQuits, LastUnlock, ReaderExits, Hangup, Serve, Ignore,
       Change, Suspend, vars
  <2>2. QED
    BY <1>0, <2>1 DEF BeliefType
<1>10. QED
  BY <1>1, <1>2, <1>3, <1>4, <1>5, <1>6, <1>7, <1>8, <1>9
  DEF Next, MainStep, ReaderStep, CommandDone

\* What is left of the types: the quit flag and the history of the answer.
LEMMA RestStep == TypeOK /\ WireInv /\ [Next]_vars => quit' \in BOOLEAN /\ newer' \subseteq Fields
<1> SUFFICES ASSUME TypeOK, WireInv, [Next]_vars PROVE quit' \in BOOLEAN /\ newer' \subseteq Fields
  OBVIOUS
<1>0. quit \in BOOLEAN /\ newer \subseteq Fields
  BY DEF TypeOK
<1>1. CASE Commands
  <2>1. quit' = quit /\ newer' = {}
    BY <1>1, CommandsTurn DEF Turn, Issue, Goto, SleepFor
  <2>2. QED
    BY <1>0, <2>1
<1>2. CASE Indicated
  <2>1. rdMsg.f \in Fields
    BY <1>2 DEF Indicated, WireInv, Message, Ops, Queries
  <2>2. QED
    BY <1>0, <1>2, <2>1 DEF Indicated
<1>3. CASE Deliver
  BY <1>0, <1>3 DEF Deliver
<1>4. CASE KillReader \/ StopSignal \/ ReaderQuits
  <2>1. quit' = TRUE /\ newer' = newer
    BY <1>4 DEF KillReader, StopSignal, ReaderQuits, history
  <2>2. quit' \in BOOLEAN
    BY <2>1
  <2>3. QED
    BY <1>0, <2>1, <2>2
<1>5. CASE \/ Lock \/ Wait \/ SliceOver \/ Relock \/ Rewake \/ Return \/ Settle
           \/ Read \/ Notify \/ Unlock \/ LastUnlock
           \/ ReaderExits \/ Hangup \/ Serve \/ Ignore \/ Change \/ Suspend \/ UNCHANGED vars
  <2>1. UNCHANGED <<quit, newer>>
    BY <1>5 DEF Lock, Wait, SliceOver, Relock, Rewake, Return, Settle, Still, Read, Notify, Unlock,
       LastUnlock, ReaderExits, Hangup, Serve, Ignore, Change, Suspend, vars, history
  <2>2. QED
    BY <1>0, <2>1
<1>6. QED
  BY <1>1, <1>2, <1>3, <1>4, <1>5 DEF Next, MainStep, ReaderStep, Commands

\* Every step preserves the invariant.
LEMMA IInvStep == IInv /\ [Next]_vars => IInv'
<1> SUFFICES ASSUME IInv, [Next]_vars PROVE IInv'
  OBVIOUS
<1>1. TypeOK /\ WireInv /\ PcInv /\ LeaveInv /\ NetDownAtExit
  BY DEF IInv
<1>2. OpInv
  BY <1>1 DEF TypeOK, OpInv
<1>3. OpInv' /\ PcInv'
  BY <1>1, <1>2, OpStep
<1>4. BeliefType'
  BY <1>1, BeliefStep
<1>5. (m'.is \in Modem /\ m'.opened \in BOOLEAN) /\ quit' \in BOOLEAN /\ newer' \subseteq Fields
  BY <1>1, ModemStep, RestStep
<1>6. TypeOK'
  BY <1>3, <1>4, <1>5 DEF OpInv, BeliefType, TypeOK
<1>7. QED
  BY <1>1, <1>3, <1>6, WireStep, LeaveStep, NetDownStep DEF IInv

-------------------------------------------------------------------------------
(* The theorems.                                                            *)

\* IInv holds in every reachable state of the MBIM dialler.
THEOREM Invariance == Spec => []IInv
BY InitIInv, IInvStep, PTL DEF Spec

\* What the modem sends reaches only the variable it belongs to, a registration state read
\* as a packet service state too, and mbim_state_mutex has one holder.
THEOREM TypeCorrect == Spec => []TypeOK
<1>1. IInv => TypeOK
  BY DEF IInv
<1>2. QED
  BY <1>1, Invariance, PTL

\* mbim_main never returns with the interface up, unless the device failed: only then has
\* the reader gone before the main thread tells it to.
THEOREM NetDown == Spec => []NetDownAtExit
<1>1. IInv => NetDownAtExit
  BY DEF IInv
<1>2. QED
  BY <1>1, Invariance, PTL

\* What the rank is at each place, in one round and in one wait.
LEMMA RoundRank ==
  /\ \A o \in DOMAIN OfRound : OfRound[o] \in 1..19
  /\ DOMAIN OfRound = {"open", "init", "ready", "queryReady", "ready2", "reg", "queryReg", "reg2",
                       "ps", "queryPs", "ps2", "attach", "ps3", "act", "queryConnect", "act2",
                       "connect", "act3", "ip"}
BY DEF OfRound

\* A turn of the loop between two waits takes the way down: to the next command of the
\* round, past it, or to the wait.
LEMMA RoundMoves ==
  ASSUME OpInv, PcInv, InLoop, InLoop', Round \/ CommandDone \/ CommandFails
  PROVE  /\ Place \in DOMAIN OfRound
         /\ \/ Place' = "sleep" /\ pc' = "sleep" /\ op' = "none" /\ wt' \in {"long", "retry"}
               /\ Place \in {"ready2", "reg2", "ps3", "act2", "act3", "ip"}
            \/ Place' \in DOMAIN OfRound /\ OfRound[Place'] < OfRound[Place]
<1> USE DEF command, waiting, reader
<1> DEFINE Down   == Place' \in DOMAIN OfRound /\ OfRound[Place'] < OfRound[Place]
           Asleep == Place' = "sleep" /\ pc' = "sleep" /\ op' = "none" /\ wt' \in {"long", "retry"}
<1>1. ASSUME NEW l, Goto(l), l # "wait" PROVE Place' = l
  BY <1>1 DEF Goto, Place
<1>2. ASSUME NEW o, Issue(o) PROVE Place' = o
  BY <1>2 DEF Issue, Place
<1>3. ASSUME NEW w \in {"long", "retry"}, SleepFor(w) PROVE Asleep
  BY <1>3 DEF SleepFor, Place
<1> HIDE DEF Asleep
<1>4. ~CommandFails
  BY DEF CommandFails, FailTo, Goto, Issue, InLoop
<1>5. CASE Round
  <2>1. op = "none" \/ pc = "wait"
    BY DEF OpInv
  <2>2. Place = pc /\ Place \in DOMAIN OfRound
    BY <1>5, RoundRank DEF Round, Test, Place
  <2>3. Down \/ (Asleep /\ Place \in {"ready2", "reg2", "ps3", "act2", "act3", "ip"})
    <3>1. CASE pc \in {"ready", "ready2"}
      BY <1>1, <1>2, <1>3, <1>5, <2>2, <3>1 DEF Round, Test, OfRound
    <3>2. CASE pc \in {"reg", "reg2"}
      BY <1>1, <1>2, <1>3, <1>5, <2>2, <3>2 DEF Round, Test, OfRound
    <3>3. CASE pc \in {"ps", "ps2", "ps3"}
      BY <1>1, <1>2, <1>3, <1>5, <2>2, <3>3 DEF Round, Test, OfRound
    <3>4. CASE pc \in {"act", "act2", "act3"}
      BY <1>1, <1>2, <1>3, <1>5, <2>2, <3>4 DEF Round, Test, OfRound
    <3>5. QED
      BY <1>5, <3>1, <3>2, <3>3, <3>4 DEF Round, Test
  <2>4. QED
    BY <2>2, <2>3 DEF Asleep
<1>6. CASE OpenAnswered \/ InitAnswered \/ IpAnswered
  <2>1. \/ Place = "open" /\ Place' = "init"
        \/ Place = "init" /\ Place' = "ready"
        \/ Place = "ip" /\ Asleep
    BY <1>1, <1>2, <1>3, <1>6 DEF OpenAnswered, InitAnswered, IpAnswered, Answered, Goto, InLoop, Place
  <2>2. Place \in DOMAIN OfRound /\ (Down \/ (Asleep /\ Place = "ip"))
    BY <2>1 DEF OfRound
  <2>3. QED
    BY <2>2 DEF Asleep
<1>7. ASSUME NEW o \in Queries, QueryAnswered(o)
      PROVE  Place \in DOMAIN OfRound /\ Down
  <2>1. Place = o /\ Place' = After[o]
    BY <1>1, <1>7 DEF QueryAnswered, Answered, Place, After, Queries
  <2>2. QED
    BY <2>1 DEF OfRound, After, Queries
<1>8. ~DisconnectAnswered /\ ~CloseAnswered
  BY DEF DisconnectAnswered, CloseAnswered, Answered, InLoop
<1>9. QED
  BY <1>4, <1>5, <1>6, <1>7, <1>8 DEF CommandDone

\* A program that is to quit starts no other round and gets nearer to the end of this one.
LEMMA RoundProgress ==
  ASSUME OpInv, PcInv, quit, InLoop, InLoop',
         LoopHead \/ Round \/ CommandDone \/ CommandFails
  PROVE  QuitRank' < QuitRank
<1>1. Slices \in Nat \ {0}
  BY Constants
<1>2. ~LoopHead
  BY DEF LoopHead, Running, Goto, InLoop
<1>3. /\ Place \in DOMAIN OfRound
      /\ Place' = "sleep" \/ (Place' \in DOMAIN OfRound /\ OfRound[Place'] < OfRound[Place])
  BY <1>2, RoundMoves
<1>4. CASE Place' \in DOMAIN OfRound /\ OfRound[Place'] < OfRound[Place]
  <2>1. OfRound' = OfRound
    BY DEF OfRound
  <2>2. QED
    BY <1>1, <1>3, <1>4, <2>1, RoundRank DEF QuitRank
<1>5. CASE Place' = "sleep"
  <2>1. QuitRank' = 3 * Slices + 4
    BY <1>5 DEF QuitRank, OfRound, OfWait
  <2>2. QED
    BY <1>1, <1>3, <2>1, RoundRank DEF QuitRank
<1>6. QED
  BY <1>3, <1>4, <1>5

\* So does a step of the wait, and the notification or the signal that ends it.
LEMMA WaitProgress ==
  ASSUME OpInv, PcInv, quit, InLoop, InLoop', <<pc, op>>' # <<pc, op>>,
         Waiting \/ StopSignal \/ Notify
  PROVE  QuitRank' < QuitRank
<1> USE DEF command, waiting, reader
<1>1. Slices \in Nat \ {0} /\ slice \in 1..Slices
  BY Constants DEF OpInv
<1>2. ASSUME pc \in DOMAIN OfWait, pc' \in DOMAIN OfWait, OfWait[pc]' < OfWait[pc]
      PROVE  QuitRank' < QuitRank
  <2>1. Place = pc /\ Place' = pc' /\ Place \notin DOMAIN OfRound /\ Place' \notin DOMAIN OfRound
    BY <1>2, RoundRank DEF OfWait, Place
  <2>2. OfRound' = OfRound
    BY DEF OfRound
  <2>3. QED
    BY <1>2, <2>1, <2>2 DEF QuitRank
<1>3. CASE Lock \/ Wait \/ SliceOver \/ Rewake
  <2>1. slice' = slice
    BY <1>3 DEF Lock, Wait, SliceOver, Rewake
  <2>2. CASE Lock
    BY <1>1, <1>2, <2>1, <2>2 DEF Lock, OfWait
  <2>3. CASE Wait
    BY <1>1, <1>2, <2>1, <2>3 DEF Wait, OfWait
  <2>4. CASE SliceOver
    BY <1>1, <1>2, <2>1, <2>4 DEF SliceOver, OfWait
  <2>5. CASE Rewake
    BY <1>2, <2>5 DEF Rewake, OfWait
  <2>6. QED
    BY <1>3, <2>2, <2>3, <2>4, <2>5
<1>4. CASE Relock
  BY <1>1, <1>2, <1>4 DEF Relock, Still, OfWait
<1>5. CASE Return \/ Settle
  <2>1. \/ pc \in {"signalled", "timedout"} /\ pc' \in {"settle", "head"}
        \/ pc = "settle" /\ pc' = "head"
    BY <1>5 DEF Return, Settle, Running
  <2>2. pc \in DOMAIN OfWait /\ pc' \in DOMAIN OfWait
    BY <2>1 DEF OfWait
  <2>3. OfWait[pc]' < OfWait[pc]
    BY <2>1 DEF OfWait
  <2>4. QED
    BY <1>2, <2>2, <2>3
<1>6. CASE StopSignal \/ Notify
  <2>1. pc = "asleep" /\ pc' = "woken" /\ slice' = slice
    BY <1>6 DEF StopSignal, Notify, Wake, InLoop
  <2>2. QED
    BY <1>1, <1>2, <2>1 DEF OfWait
<1>7. QED
  BY <1>3, <1>4, <1>5, <1>6 DEF Waiting

\* After the signal the loop ends with the round it is in and the wait after it: no order
\* of notifications, slices and changes of the variables starts another round.
THEOREM QuitGetsNearer == Spec => QuitProgress
<1>1. IInv /\ [Next]_vars =>
        [quit /\ InLoop /\ InLoop' /\ <<pc, op>>' # <<pc, op>> => QuitRank' < QuitRank]_vars
  <2> SUFFICES ASSUME IInv, [Next]_vars, quit, InLoop, InLoop', <<pc, op>>' # <<pc, op>>
               PROVE  QuitRank' < QuitRank
    OBVIOUS
  <2> USE DEF command, waiting, reader
  <2>1. OpInv /\ PcInv
    BY DEF IInv, TypeOK, OpInv
  <2>2. CASE LoopHead \/ Round \/ CommandDone \/ CommandFails
    BY <2>1, <2>2, RoundProgress
  <2>3. CASE Waiting \/ StopSignal \/ Notify
    BY <2>1, <2>3, WaitProgress
  <2>4. ~Exit /\ ~WhileReader /\ ~KillReader
    BY DEF Exit, WhileReader, KillReader, InLoop
  <2>5. CASE UNCHANGED <<pc, op>>
    BY <2>5
  <2>6. QED
    BY <2>2, <2>3, <2>4, <2>5 DEF Next, MainStep, ReaderStep, Waiting, Read, Deliver, Indicated,
       Unlock, ReaderQuits, LastUnlock, ReaderExits, Hangup, Serve, Ignore, Change, Suspend, vars
<1>2. QED
  BY <1>1, Invariance, PTL DEF Spec, QuitProgress

\* A thread that waits for itself does so because of a signal: mbim_quit is set, and the
\* reader can hang in the handler only when the main thread kills it at the end.  A
\* reader that goes has set mbim_quit before it notifies the main thread and clears read_tid.
StuckInv ==
  /\ pc = "stuck" => quit
  /\ rd = "stuck" => quit /\ pc \in {"kill", "killing"}
  /\ rd \in {"lastNotify", "lastHolding", "clear", "exited"} => quit

\* mbim_state_mutex comes to whoever waits for it: the other thread holds it only up to its
\* next step, unless it hangs itself in the handler of a signal.
MutexComes ==
  /\ pc \in {"sleep", "gap", "woken"} => Free \/ rd \in {"holding", "lastHolding"}
  /\ rd \in {"notify", "lastNotify"} =>
       \/ Free
       \/ pc \in {"locked", "signalled", "timedout"}
       \/ pc = "stuck" /\ quit

\* No step makes a thread hang without a signal.
LEMMA StuckStep == PcInv /\ StuckInv /\ [Next]_vars => StuckInv'
<1> SUFFICES ASSUME PcInv, StuckInv, [Next]_vars PROVE StuckInv'
  OBVIOUS
<1> USE DEF StuckInv, command, waiting, beliefs, reader, world, history
<1>1. CASE Commands
  <2>1. UNCHANGED <<quit, rd>> /\ pc # "stuck" /\ pc' # "stuck"
    BY <1>1, CommandsTurn DEF Turn, Issue, Goto, SleepFor, Commands, LoopHead, Round, Test,
       CommandDone, CommandFails, Exit, WhileReader, OpenAnswered, InitAnswered, IpAnswered,
       QueryAnswered, DisconnectAnswered, CloseAnswered, Answered
  <2>2. CASE rd = "stuck"
    <3>1. WhileReader
      BY <1>1, <2>2 DEF Commands, LoopHead, Round, Test, CommandDone, CommandFails, Exit,
         OpenAnswered, InitAnswered, IpAnswered, QueryAnswered, DisconnectAnswered,
         CloseAnswered, Answered
    <3>2. QED
      BY <2>1, <2>2, <3>1 DEF WhileReader, Goto
  <2>3. QED
    BY <2>1, <2>2
<1>2. CASE Waiting
  <2>1. UNCHANGED <<quit, rd>> /\ pc' # "stuck" /\ pc \notin {"kill", "killing"}
    BY <1>2 DEF Waiting, Lock, Wait, SliceOver, Relock, Rewake, Return, Settle, Still
  <2>2. QED
    BY <2>1
<1>3. CASE KillReader
  BY <1>3 DEF KillReader, ReaderHolds
<1>4. CASE StopSignal
  <2>1. /\ quit' = TRUE /\ UNCHANGED rd /\ rd # "stuck"
    BY <1>4 DEF StopSignal, ReaderHolds
  <2>2. QED
    BY <2>1
<1>5. CASE Notify
  <2>1. pc' = "stuck" => pc = "stuck"
    BY <1>5 DEF Notify, Wake
  <2>2. QED
    BY <1>5, <2>1 DEF Notify
<1>6. CASE Read \/ Deliver \/ Hangup
  BY <1>6 DEF Read, Deliver, Hangup
<1>7. CASE Indicated \/ Unlock
  BY <1>7 DEF Indicated, Unlock, NextMessage
<1>8. CASE ReaderQuits \/ LastUnlock \/ ReaderExits
  BY <1>8 DEF ReaderQuits, LastUnlock, ReaderExits
<1>9. CASE Serve \/ Ignore \/ Change \/ Suspend \/ UNCHANGED vars
  BY <1>9 DEF Serve, Ignore, Change, Suspend, vars
<1>10. QED
  BY <1>1, <1>2, <1>3, <1>4, <1>5, <1>6, <1>7, <1>8, <1>9
     DEF Next, MainStep, ReaderStep, Commands, Waiting

\* Without a signal the two threads cannot block each other, or themselves.
THEOREM NoDeadlockUnlessSignalled == Spec => [](StuckInv /\ MutexComes)
<1>1. Init => StuckInv
  BY DEF Init, StuckInv
<1>2. StuckInv => MutexComes
  <2> SUFFICES ASSUME StuckInv PROVE MutexComes
    OBVIOUS
  <2> USE DEF StuckInv, Free, MainHolds, ReaderHolds
  <2>1. pc \in {"sleep", "gap", "woken"} => Free \/ rd \in {"holding", "lastHolding"}
    OBVIOUS
  <2>2. rd \in {"notify", "lastNotify"} =>
          Free \/ pc \in {"locked", "signalled", "timedout"} \/ (pc = "stuck" /\ quit)
    OBVIOUS
  <2>3. QED
    BY <2>1, <2>2 DEF MutexComes
<1>3. IInv => PcInv
  BY DEF IInv
<1>4. QED
  BY <1>1, <1>2, <1>3, StuckStep, Invariance, PTL DEF Spec
===============================================================================
