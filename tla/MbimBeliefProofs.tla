---------------------------- MODULE MbimBeliefProofs ----------------------------
(***************************************************************************)
(* Proofs about what the MBIM dialler believes: although the main thread   *)
(* and the reader thread both write the state variables, and the interface *)
(* is configured by the one and taken down by the other, what the program  *)
(* holds true of an open modem is true, or news of it is under way.        *)
(*                                                                         *)
(* The invariant follows the news: for each variable the newest value on   *)
(* its way, first in the device, then in the reader's hands, then in the   *)
(* answer that waits for the main thread, is the modem's own.              *)
(***************************************************************************)
EXTENDS MbimMainProofs

\* The reader has a message in its hands.
Held == rd \in {"msg", "notify", "holding"}

\* A message that gives variable f a value.
Tells(x, f) == \/ x.op = "none" /\ x.f = f
               \/ x.op \in Queries /\ Sets[x.op] = f /\ x.v \notin {"failed", "not_opened"}
Quiet(s, f) == \A i \in DOMAIN s : ~Tells(s[i], f)
Latest(s, f, v) ==
  \A i \in DOMAIN s : Tells(s[i], f) /\ (\A j \in DOMAIN s : j > i => ~Tells(s[j], f)) => s[i].v = v

\* In the loop there is one command at a time, and one place where it or its answer is.
FlightInv == InLoop =>
  /\ toModem # <<>> => /\ pc = "wait" /\ toModem = <<op>> /\ rsp = NULL
                       /\ \A i \in DOMAIN pipe : pipe[i].op = "none"
                       /\ Held => rdMsg.op = "none"
  /\ \A i \in DOMAIN pipe : pipe[i].op # "none" =>
       /\ pc = "wait" /\ pipe[i].op = op /\ rsp = NULL
       /\ Held => rdMsg.op = "none"
       /\ \A j \in DOMAIN pipe : j # i => pipe[j].op = "none"
  /\ Held /\ rdMsg.op # "none" => pc = "wait" /\ rdMsg.op = op /\ rsp = NULL

Refusal(x) == x.op # "none" /\ x.v = "not_opened"

\* A modem that is not open says nothing but that, and the program gets to know it after
\* everything the modem said before.
OpenInv == InLoop =>
  /\ op = "open" => ~open_state /\ ~net
  /\ m.opened /\ ~open_state => op = "open" /\ toModem = <<>>
  /\ ~m.opened /\ ~open_state => \/ op = "open" /\ toModem = <<>>
                                 \/ /\ \A i \in DOMAIN pipe : Refusal(pipe[i])
                                    /\ Held => Refusal(rdMsg)
  /\ \A i \in DOMAIN pipe : Refusal(pipe[i]) => ~m.opened /\ i = Len(pipe)
  /\ Held /\ Refusal(rdMsg) => ~m.opened /\ pipe = <<>>
  /\ rsp = "not_opened" => ~m.opened /\ pipe = <<>> /\ ~Held

\* The answer that the main thread will take has newer news of f than the variable.
RspTells(f) == /\ rsp \notin {NULL, "failed", "not_opened"}
               /\ op \in Queries /\ Sets[op] = f /\ f \notin newer

Fell(x) == x.op = "none" /\ x.fell

FieldInv(f) ==
  /\ Latest(pipe, f, m.is[f])
  /\ Quiet(pipe, f) =>
       /\ Held /\ Tells(rdMsg, f) /\ ~Fell(rdMsg) => rdMsg.v = m.is[f]
       /\ ~(Held /\ Tells(rdMsg, f)) =>
            /\ RspTells(f) => rsp = m.is[f]
            /\ ~RspTells(f) /\ f \notin wrong /\ open_state => st[f] \in {Unset[f], m.is[f]}
  /\ rd \in {"notify", "holding"} /\ rdMsg.f = f =>
       /\ ~RspTells(f)
       /\ f \notin wrong /\ open_state => \/ st[f] = Unset[f]
                                          \/ ~rdMsg.fell /\ st[f] = rdMsg.v
NewsInv == InLoop /\ m.opened => \A f \in Fields : FieldInv(f)

IsEnd(x) == x.op = "none" /\ x.f = "act" /\ x.v = "deactivated"
Config(x) == x.op = "ip" /\ x.v = "config"
EndInPipe == \E j \in DOMAIN pipe : IsEnd(pipe[j])
EndTold == EndInPipe \/ (rd = "msg" /\ IsEnd(rdMsg))
CallInv == InLoop /\ m.opened /\ m.is["act"] # "activated" =>
  /\ net /\ ~raced => EndTold
  /\ \A i \in DOMAIN pipe : Config(pipe[i]) => \E j \in DOMAIN pipe : j > i /\ IsEnd(pipe[j])
  /\ Held /\ Config(rdMsg) => EndInPipe
  /\ op = "ip" /\ rsp = "config" /\ "act" \notin newer => EndTold

BInv == IInv /\ FlightInv /\ OpenInv /\ NewsInv /\ CallInv
-------------------------------------------------------------------------------
(* Sequences of messages.                                                   *)

\* Reading the oldest message.
LEMMA TailFacts ==
  ASSUME NEW S, NEW s \in Seq(S), s # <<>>, NEW f, NEW v
  PROVE  /\ Latest(s, f, v) => Latest(Tail(s), f, v)
         /\ Quiet(Tail(s), f) /\ ~Tells(Head(s), f) => Quiet(s, f)
         /\ Quiet(Tail(s), f) /\ Tells(Head(s), f) /\ Latest(s, f, v) => Head(s).v = v
<1>1. Len(s) \in Nat \ {0} /\ DOMAIN s = 1..Len(s) /\ Head(s) = s[1]
  BY EmptySeq, LenProperties
<1>2. Tail(s) \in Seq(S) /\ Len(Tail(s)) = Len(s) - 1 /\ \A i \in 1..Len(Tail(s)) : Tail(s)[i] = s[i + 1]
  BY HeadTailProperties
<1>3. DOMAIN Tail(s) = 1..(Len(s) - 1)
  BY <1>2, LenProperties
<1>4. \A i \in DOMAIN Tail(s) : i + 1 \in DOMAIN s /\ Tail(s)[i] = s[i + 1]
  BY <1>1, <1>2, <1>3
<1>5. \A j \in DOMAIN s : j > 1 => j - 1 \in DOMAIN Tail(s) /\ Tail(s)[j - 1] = s[j]
  BY <1>1, <1>2, <1>3
<1>6. ASSUME Latest(s, f, v) PROVE Latest(Tail(s), f, v)
  <2> SUFFICES ASSUME NEW i \in DOMAIN Tail(s), Tells(Tail(s)[i], f),
                      \A j \in DOMAIN Tail(s) : j > i => ~Tells(Tail(s)[j], f)
               PROVE  Tail(s)[i].v = v
    BY DEF Latest
  <2>1. ASSUME NEW j \in DOMAIN s, j > i + 1 PROVE ~Tells(s[j], f)
    <3>1. j - 1 \in DOMAIN Tail(s) /\ Tail(s)[j - 1] = s[j] /\ j - 1 > i
      BY <1>1, <1>3, <1>5, <2>1
    <3>2. QED
      BY <3>1
  <2>2. QED
    BY <1>4, <1>6, <2>1 DEF Latest
<1>7. ASSUME Quiet(Tail(s), f) PROVE \A j \in DOMAIN s : j > 1 => ~Tells(s[j], f)
  BY <1>5, <1>7 DEF Quiet
<1>8. ASSUME Quiet(Tail(s), f), ~Tells(Head(s), f) PROVE Quiet(s, f)
  BY <1>1, <1>7, <1>8 DEF Quiet
<1>9. ASSUME Quiet(Tail(s), f), Tells(Head(s), f), Latest(s, f, v) PROVE Head(s).v = v
  BY <1>1, <1>7, <1>9 DEF Latest
<1>10. QED
  BY <1>6, <1>8, <1>9

\* More news is appended.
LEMMA ConcatFacts ==
  ASSUME NEW S, NEW a \in Seq(S), NEW b \in Seq(S), NEW f, NEW v,
         \A i \in DOMAIN b : Tells(b[i], f) => b[i].v = v
  PROVE  /\ (~Quiet(b, f) \/ Latest(a, f, v)) => Latest(a \o b, f, v)
         /\ Quiet(a \o b, f) => Quiet(a, f) /\ Quiet(b, f)
<1> DEFINE c == a \o b
<1>1. /\ Len(a) \in Nat /\ Len(b) \in Nat /\ DOMAIN a = 1..Len(a) /\ DOMAIN b = 1..Len(b)
      /\ DOMAIN c = 1..(Len(a) + Len(b))
      /\ \A i \in DOMAIN c : c[i] = IF i <= Len(a) THEN a[i] ELSE b[i - Len(a)]
  BY ConcatProperties, LenProperties
<1> HIDE DEF c
<1>2. \A i \in DOMAIN a : i \in DOMAIN c /\ c[i] = a[i]
  BY <1>1
<1>3. \A i \in DOMAIN b : i + Len(a) \in DOMAIN c /\ c[i + Len(a)] = b[i]
  BY <1>1
<1>4. ASSUME Quiet(c, f) PROVE Quiet(a, f) /\ Quiet(b, f)
  BY <1>2, <1>3, <1>4 DEF Quiet
<1>5. ASSUME ~Quiet(b, f) \/ Latest(a, f, v) PROVE Latest(c, f, v)
  <2> SUFFICES ASSUME NEW i \in DOMAIN c, Tells(c[i], f),
                      \A j \in DOMAIN c : j > i => ~Tells(c[j], f)
               PROVE  c[i].v = v
    BY DEF Latest
  <2>1. CASE i > Len(a)
    <3>1. i - Len(a) \in DOMAIN b /\ c[i] = b[i - Len(a)]
      BY <1>1, <2>1
    <3>2. QED
      BY <3>1
  <2>2. CASE i <= Len(a)
    <3>1. i \in DOMAIN a /\ c[i] = a[i]
      BY <1>1, <2>2
    <3>2. \A j \in DOMAIN b : ~Tells(b[j], f)
      <4>1. \A j \in DOMAIN b : j + Len(a) > i
        BY <1>1, <2>2
      <4>2. QED
        BY <1>3, <4>1
    <3>3. Latest(a, f, v)
      BY <1>5, <3>2 DEF Quiet
    <3>4. \A j \in DOMAIN a : j > i => ~Tells(a[j], f)
      BY <1>2
    <3>5. QED
      BY <3>1, <3>3, <3>4 DEF Latest
  <2>3. QED
    BY <1>1, <2>1, <2>2
<1>6. QED
  BY <1>4, <1>5 DEF c

Items(s) == {s[i] : i \in DOMAIN s}

\* What two batches of messages hold between them.
LEMMA ItemsConcat ==
  ASSUME NEW S, NEW a \in Seq(S), NEW b \in Seq(S)
  PROVE  Items(a \o b) = Items(a) \cup Items(b)
<1> DEFINE c == a \o b
<1>1. /\ Len(a) \in Nat /\ Len(b) \in Nat /\ DOMAIN a = 1..Len(a) /\ DOMAIN b = 1..Len(b)
      /\ DOMAIN c = 1..(Len(a) + Len(b))
      /\ \A i \in DOMAIN c : c[i] = IF i <= Len(a) THEN a[i] ELSE b[i - Len(a)]
  BY ConcatProperties, LenProperties
<1> HIDE DEF c
<1>2. ASSUME NEW i \in DOMAIN c PROVE c[i] \in Items(a) \cup Items(b)
  <2>1. CASE i <= Len(a)
    BY <1>1, <2>1 DEF Items
  <2>2. CASE i > Len(a)
    <3>1. i - Len(a) \in DOMAIN b /\ c[i] = b[i - Len(a)]
      BY <1>1, <2>2
    <3>2. QED
      BY <3>1 DEF Items
  <2>3. QED
    BY <1>1, <2>1, <2>2
<1>3. ASSUME NEW i \in DOMAIN a PROVE a[i] \in Items(c)
  <2>1. i \in DOMAIN c /\ c[i] = a[i]
    BY <1>1
  <2>2. QED
    BY <2>1 DEF Items
<1>4. ASSUME NEW i \in DOMAIN b PROVE b[i] \in Items(c)
  <2>1. i + Len(a) \in DOMAIN c /\ c[i + Len(a)] = b[i]
    BY <1>1
  <2>2. QED
    BY <2>1 DEF Items
<1>5. QED
  BY <1>2, <1>3, <1>4 DEF Items, c

\* A modem that changes indicates just what has changed.
LEMMA NoticesFacts ==
  ASSUME NEW s \in State, NEW t \in State
  PROVE  Items(Notices(s, t)) = {Indication(f, t[f], FALSE) : f \in {g \in Fields : s[g] # t[g]}}
<1> DEFINE N(f) == Notice(s, t, f)
<1>1. ASSUME NEW f \in Fields
      PROVE  /\ N(f) \in Seq(Message)
             /\ Items(N(f)) = IF s[f] = t[f] THEN {} ELSE {Indication(f, t[f], FALSE)}
  <2>1. t[f] \in Values[f] /\ t[f] \in Words
    BY StateFacts, WordFacts
  <2>2. Indication(f, t[f], FALSE) \in Message
    BY <2>1 DEF Indication, Message
  <2>3. <<>> \in Seq(Message) /\ \A x \in Message : <<x>> \in Seq(Message)
    BY EmptySeq
  <2>4. Items(<<>>) = {} /\ \A x : Items(<<x>>) = {x}
    BY DEF Items
  <2>5. QED
    BY <2>2, <2>3, <2>4 DEF Notice
<1>2. "ready" \in Fields /\ "reg" \in Fields /\ "ps" \in Fields /\ "act" \in Fields
      /\ Fields = {"ready", "reg", "ps", "act"}
  BY FieldFacts
<1> HIDE DEF N
<1> DEFINE A == N("ready") \o N("reg")
           B == A \o N("ps")
<1>3. A \in Seq(Message) /\ Items(A) = Items(N("ready")) \cup Items(N("reg"))
  BY <1>1, <1>2, ConcatProperties, ItemsConcat
<1> HIDE DEF A
<1>4. B \in Seq(Message) /\ Items(B) = Items(A) \cup Items(N("ps"))
  BY <1>1, <1>2, <1>3, ConcatProperties, ItemsConcat
<1> HIDE DEF B
<1>5. Items(B \o N("act")) = Items(B) \cup Items(N("act"))
  BY <1>1, <1>2, <1>4, ItemsConcat
<1>6. Notices(s, t) = B \o N("act")
  BY DEF Notices, N, A, B
<1> HIDE DEF B
<1>7. Items(Notices(s, t))
        = Items(N("ready")) \cup Items(N("reg")) \cup Items(N("ps")) \cup Items(N("act"))
  BY <1>3, <1>4, <1>5, <1>6
<1> DEFINE Changed == {g \in Fields : s[g] # t[g]}
           Told    == {Indication(f, t[f], FALSE) : f \in Changed}
<1>8. ASSUME NEW x \in Told PROVE x \in Items(Notices(s, t))
  <2>1. PICK f \in Changed : x = Indication(f, t[f], FALSE)
    OBVIOUS
  <2>2. f \in Fields /\ s[f] # t[f]
    OBVIOUS
  <2>3. x \in Items(N(f))
    BY <1>1, <2>1, <2>2
  <2>4. f = "ready" \/ f = "reg" \/ f = "ps" \/ f = "act"
    BY <1>2, <2>2
  <2> HIDE DEF Told, Changed
  <2>5. QED
    BY <1>7, <2>3, <2>4
<1>9. ASSUME NEW f \in Fields, NEW x \in Items(N(f)) PROVE x \in Told
  <2>1. s[f] # t[f] /\ x = Indication(f, t[f], FALSE)
    BY <1>1
  <2>2. f \in Changed
    BY <2>1
  <2>3. QED
    BY <2>1, <2>2
<1> HIDE DEF Told
<1>10. Items(Notices(s, t)) = Told
  <2>1. ASSUME NEW x \in Items(Notices(s, t)) PROVE x \in Told
    <3>1. \/ x \in Items(N("ready")) \/ x \in Items(N("reg"))
          \/ x \in Items(N("ps"))    \/ x \in Items(N("act"))
      BY <1>7
    <3>2. QED
      BY <1>2, <1>9, <3>1
  <2>2. QED
    BY <1>8, <2>1
<1>11. QED
  BY <1>10 DEF Told
-------------------------------------------------------------------------------
(* The modem and the loop.                                                  *)

\* In the loop, a command changes just the variable its answer tells of.
LEMMA ExecuteNews ==
  ASSUME m.is \in Modem, m.opened \in BOOLEAN,
         NEW o \in Ops \ {"disconnect", "close"}, NEW e \in Execute(o)
  PROVE  /\ ~m.opened /\ o # "open" => ~e.opened /\ e.v = "not_opened"
         /\ m.opened => e.opened /\ e.v # "not_opened"
         /\ o = "open" => e.v \in {"ok", "failed"}
         /\ e.opened => \A f \in Fields : IF Tells(AnswerTo(o, e.v), f) THEN e.is[f] = e.v
                                                                       ELSE e.is[f] = m.is[f]
         /\ m.is["act"] = "activated" => e.is["act"] = "activated"
         /\ o = "ip" /\ e.v = "config" => e.is["act"] = "activated"
<1>1. m.is \in State
  BY DEF Modem
<1>2. /\ m.is.reg = m.is["reg"] /\ m.is.ps = m.is["ps"] /\ m.is.act = m.is["act"]
      /\ \A f \in Fields : m.is[f] \in Values[f]
  BY <1>1, StateFacts
<1>3. /\ Fields = {"ready", "reg", "ps", "act"} /\ "attached" \in Values["ps"]
      /\ "activated" \in Values["act"] /\ "activating" \in Values["act"]
      /\ \A f \in Fields : "not_opened" \notin Values[f] /\ "failed" \notin Values[f]
  BY FieldFacts
<1>4. Sets["queryReady"] = "ready" /\ Sets["queryReg"] = "reg" /\ Sets["queryPs"] = "ps"
      /\ Sets["attach"] = "ps" /\ Sets["queryConnect"] = "act" /\ Sets["connect"] = "act"
  BY DEF Sets
<1>5. \A f \in Fields : Tells(AnswerTo(o, e.v), f) <=>
        o \in Queries /\ Sets[o] = f /\ e.v \notin {"failed", "not_opened"}
  BY DEF Tells, AnswerTo, Ops, Queries
<1>6. CASE ~m.opened /\ o # "open"
  <2>1. e = [is |-> m.is, opened |-> FALSE, v |-> "not_opened"]
    BY <1>6 DEF Execute
  <2>2. QED
    BY <1>6, <2>1
<1>7. CASE m.opened \/ o = "open"
  <2>1. CASE o = "open"
    <3>1. \/ e = [is |-> m.is, opened |-> TRUE, v |-> "ok"]
          \/ e = [is |-> m.is, opened |-> m.opened, v |-> "failed"]
      BY <1>7, <2>1 DEF Execute
    <3>2. o \notin Queries /\ o # "ip"
      BY <2>1 DEF Queries
    <3>3. QED
      BY <1>5, <2>1, <3>1, <3>2
  <2>2. CASE o \in {"init", "ip"}
    <3>1. /\ e.is = m.is /\ e.opened = TRUE /\ e.v \in {"ok", "config", "none", "failed"}
          /\ o = "ip" /\ e.v = "config" => m.is.act = "activated"
      BY <1>7, <2>2 DEF Execute
    <3>2. o \notin Queries /\ o # "open"
      BY <2>2 DEF Queries
    <3>3. QED
      BY <1>2, <1>5, <1>7, <3>1, <3>2
  <2>3. CASE o \in {"queryReady", "queryReg", "queryPs", "queryConnect"}
    <3>1. \/ e = [is |-> m.is, opened |-> TRUE, v |-> m.is[Sets[o]]]
          \/ e = [is |-> m.is, opened |-> TRUE, v |-> "failed"]
      BY <1>7, <2>3 DEF Execute
    <3>2. Sets[o] \in Fields /\ o # "open" /\ o # "ip"
      BY <1>3, <1>4, <2>3
    <3>3. m.is[Sets[o]] # "not_opened"
      BY <1>2, <1>3, <3>2
    <3>4. QED
      BY <1>5, <1>7, <3>1, <3>2, <3>3
  <2>4. CASE o \in {"attach", "connect"}
    <3> DEFINE g == Sets[o]
    <3>1. \/ e = [is |-> m.is, opened |-> TRUE, v |-> "failed"]
          \/ \E v \in Values[g] : /\ e = [is |-> [m.is EXCEPT ![g] = v], opened |-> TRUE, v |-> v]
                                  /\ g = "act" => v = "activated" \/ m.is["act"] # "activated"
      <4>1. CASE o = "attach"
        BY <1>3, <1>4, <1>7, <4>1 DEF Execute
      <4>2. CASE o = "connect"
        BY <1>2, <1>3, <1>4, <1>7, <4>2 DEF Execute
      <4>3. QED
        BY <2>4, <4>1, <4>2
    <3>2. g \in Fields /\ "act" \in Fields /\ o \in Queries /\ o # "open" /\ o # "ip"
      BY <1>3, <1>4, <2>4 DEF Queries
    <3> HIDE DEF g
    <3>3. CASE e = [is |-> m.is, opened |-> TRUE, v |-> "failed"]
      BY <1>5, <1>7, <3>2, <3>3
    <3>4. ASSUME NEW v \in Values[g],
                 e = [is |-> [m.is EXCEPT ![g] = v], opened |-> TRUE, v |-> v],
                 g = "act" => v = "activated" \/ m.is["act"] # "activated"
          PROVE  /\ e.opened = TRUE /\ e.v = v /\ v \notin {"failed", "not_opened"}
                 /\ \A f \in Fields : e.is[f] = IF f = g THEN v ELSE m.is[f]
                 /\ m.is["act"] = "activated" => e.is["act"] = "activated"
      <4>1. \A f \in Fields : [m.is EXCEPT ![g] = v][f] = IF f = g THEN v ELSE m.is[f]
        BY <1>1, <3>2, <3>4, StateUpdate
      <4>2. e.is = [m.is EXCEPT ![g] = v] /\ e.opened = TRUE /\ e.v = v
        BY <3>4
      <4>3. v \notin {"failed", "not_opened"}
        BY <1>3, <3>2
      <4>4. QED
        BY <3>2, <3>4, <4>1, <4>2, <4>3
    <3>5. \A f \in Fields : Tells(AnswerTo(o, e.v), f) <=> f = g /\ e.v \notin {"failed", "not_opened"}
      BY <1>5, <3>2 DEF g
    <3>6. QED
      BY <1>7, <3>1, <3>2, <3>3, <3>4, <3>5
  <2>5. QED
    BY <2>1, <2>2, <2>3, <2>4 DEF Ops, Queries
<1>8. QED
  BY <1>6, <1>7

\* A call that is up ends before anything else happens to it, and an end is indicated as one.
LEMMA CallEnds ==
  ASSUME NEW s \in Modem, NEW t \in Successors(s), s["act"] = "activated", t["act"] # "activated"
  PROVE  t["act"] = "deactivated"
<1>1. s \in State /\ t \in State
  BY SuccessorType DEF Modem
<1>2. "ready" \in Fields /\ "reg" \in Fields /\ "ps" \in Fields /\ "act" \in Fields
      /\ "yes" \in Values["ready"] /\ "searching" \in Values["reg"] /\ "home" \in Values["reg"]
      /\ "attached" \in Values["ps"] /\ "detached" \in Values["ps"] /\ "deactivated" \in Values["act"]
  BY FieldFacts
<1>3. ASSUME NEW f \in Fields \ {"act"}, NEW v \in Values[f], NEW u \in State
      PROVE  [u EXCEPT ![f] = v] \in State /\ [u EXCEPT ![f] = v]["act"] = u["act"]
  BY <1>2, StateUpdate
<1>4. Lost(s) \in State /\ Lost(s)["act"] = "deactivated"
  <2> DEFINE u == [s EXCEPT !["ps"] = "detached"]
             w == [u EXCEPT !["act"] = "deactivated"]
  <2>1. u \in State
    BY <1>1, <1>2, StateUpdate
  <2> HIDE DEF u
  <2>2. w \in State /\ w["act"] = "deactivated"
    BY <1>2, <2>1, StateUpdate
  <2>3. Lost(s) = w
    BY DEF Lost, u
  <2>4. QED
    BY <2>2, <2>3
<1>5. [s EXCEPT !["act"] = "deactivated"]["act"] = "deactivated"
  <2> DEFINE w == [s EXCEPT !["act"] = "deactivated"]
  <2>1. w \in State /\ w["act"] = "deactivated"
    BY <1>1, <1>2, StateUpdate
  <2>2. QED
    BY <2>1
<1>6. /\ [s EXCEPT !["ready"] = "yes"]["act"] = s["act"] /\ [s EXCEPT !["reg"] = "home"]["act"] = s["act"]
      /\ [s EXCEPT !["ps"] = "attached"]["act"] = s["act"]
      /\ [Lost(s) EXCEPT !["reg"] = "searching"]["act"] = "deactivated"
  BY <1>1, <1>2, <1>3, <1>4
<1>7. s.act = s["act"]
  BY <1>1, StateFacts
<1>8. t \in {[s EXCEPT !["ready"] = "yes"], [Lost(s) EXCEPT !["reg"] = "searching"],
             [s EXCEPT !["reg"] = "home"], [s EXCEPT !["ps"] = "attached"], Lost(s),
             [s EXCEPT !["act"] = "deactivated"]}
  BY <1>7 DEF Successors
<1>9. QED
  BY <1>4, <1>5, <1>6, <1>8
-------------------------------------------------------------------------------
(* The steps in the loop.                                                   *)

\* The main thread takes an answer, tests, and goes on.
LoopTurn == LoopHead \/ Round \/ OpenAnswered \/ InitAnswered \/ IpAnswered
            \/ \E o \in Queries : QueryAnswered(o)

\* A step that concerns neither messages nor beliefs.
Aside == /\ UNCHANGED <<op, rsp, toModem, pipe, open_state, st, net, rdMsg, m, newer, wrong, raced>>
         /\ (pc' = "wait" <=> pc = "wait") /\ (Held' <=> Held) /\ (rd' = "msg" <=> rd = "msg")
         /\ (rd' \in {"notify", "holding"} <=> rd \in {"notify", "holding"})

External == Serve \/ Ignore \/ Change \/ Suspend
Messaging == Read \/ Deliver \/ Indicated \/ Unlock

\* Nothing leads back into the loop.
LEMMA LoopSteps ==
  ASSUME TypeOK, WireInv, PcInv, [Next]_vars, InLoop'
  PROVE  InLoop /\ (LoopTurn \/ Aside \/ Messaging \/ External)
<1> USE DEF command, waiting, beliefs, reader, world, history
<1>1. CASE LoopHead \/ Round
  <2>1. pc \notin {"exit", "kill", "killing", "exited", "crashed", "stuck", "wait"}
    BY <1>1 DEF LoopHead, Round, Test
  <2>2. op = "none"
    BY <2>1 DEF TypeOK
  <2>3. QED
    BY <1>1, <2>1, <2>2 DEF InLoop, LoopTurn
<1>2. CASE OpenAnswered \/ InitAnswered \/ IpAnswered \/ \E o \in Queries : QueryAnswered(o)
  <2>1. pc = "wait" /\ op \notin {"disconnect", "close"}
    BY <1>2 DEF OpenAnswered, InitAnswered, IpAnswered, QueryAnswered, Answered, Queries
  <2>2. QED
    BY <1>2, <2>1 DEF InLoop, LoopTurn
<1>3. CASE CommandFails \/ Exit \/ WhileReader \/ KillReader \/ DisconnectAnswered \/ CloseAnswered
  BY <1>3 DEF CommandFails, Exit, WhileReader, KillReader, DisconnectAnswered, CloseAnswered, FailTo,
     Goto, Issue, InLoop
<1>4. CASE Lock \/ Wait \/ SliceOver \/ Relock \/ Rewake \/ Return \/ Settle
  <2>1. /\ pc \in {"sleep", "locked", "asleep", "gap", "woken", "signalled", "timedout", "settle"}
        /\ pc' # "wait" /\ UNCHANGED <<command, beliefs, reader, pipe, world, history>>
    BY <1>4 DEF Lock, Wait, SliceOver, Relock, Rewake, Return, Settle, Still
  <2>2. InLoop /\ Aside
    BY <2>1 DEF InLoop, Aside, Held
  <2>3. QED
    BY <2>2
<1>5. CASE StopSignal
  <2>1. pc' = Wake(pc) /\ UNCHANGED <<command, beliefs, reader, pipe, m, history>>
    BY <1>5 DEF StopSignal, InLoop
  <2>2. InLoop /\ Aside
    BY <2>1 DEF InLoop, Aside, Held, Wake
  <2>3. QED
    BY <2>2
<1>6. CASE Notify
  <2>1. InLoop /\ Aside
    BY <1>6 DEF Notify, InLoop, Aside, Held, Wake
  <2>2. QED
    BY <2>1
<1>7. CASE ReaderQuits \/ LastUnlock \/ ReaderExits \/ Hangup
  <2>1. InLoop /\ Aside
    BY <1>7 DEF ReaderQuits, LastUnlock, ReaderExits, Hangup, InLoop, Aside, Held
  <2>2. QED
    BY <2>1
<1>8. CASE Messaging \/ External
  <2>1. UNCHANGED <<pc, op>>
    BY <1>8 DEF Messaging, External, Read, Deliver, Indicated, Unlock, Serve, Ignore, Change, Suspend
  <2>2. QED
    BY <1>8, <2>1 DEF InLoop
<1>9. CASE UNCHANGED vars
  <2>1. InLoop /\ Aside
    BY <1>9 DEF vars, InLoop, Aside, Held
  <2>2. QED
    BY <2>1
<1>10. QED
  BY <1>1, <1>2, <1>3, <1>4, <1>5, <1>6, <1>7, <1>8, <1>9
  DEF Next, MainStep, ReaderStep, CommandDone, Messaging, External

\* A turn of the main thread starts without a command in progress or with the answer to it.
LEMMA TurnFacts ==
  ASSUME TypeOK, WireInv, PcInv, LoopTurn
  PROVE  /\ rsp' = NULL /\ newer' = {} /\ UNCHANGED <<rd, rdMsg, pipe, m>>
         /\ pc = "wait" => rsp # NULL
         /\ \/ op' = "none" /\ toModem' = toModem
            \/ op' \in Ops /\ pc' = "wait" /\ toModem' = Append(toModem, op')
<1> USE DEF reader, world
<1>1. /\ rsp' = NULL /\ newer' = {} /\ UNCHANGED <<rd, rdMsg, pipe, m>>
      /\ \/ op' = "none" /\ toModem' = toModem
         \/ op' \in Ops /\ pc' = "wait" /\ toModem' = Append(toModem, op')
  <2>1. Turn
    BY CommandsTurn DEF LoopTurn, Commands, CommandDone
  <2>2. QED
    BY <2>1 DEF Turn, Issue, Goto, SleepFor
<1>2. ASSUME pc = "wait" PROVE rsp # NULL
  BY <1>2 DEF LoopTurn, LoopHead, Round, Test, OpenAnswered, InitAnswered, IpAnswered, QueryAnswered,
     Answered
<1>3. QED
  BY <1>1, <1>2

\* What is in the hands of the reader, and what waits for the main thread.
LEMMA HandFacts ==
  ASSUME TypeOK, WireInv
  PROVE  /\ Held => rdMsg \in Message /\ rdMsg # NULL /\ rdMsg.v # NULL
         /\ rsp # NULL => pc = "wait" /\ op \in Ops
         /\ NULL \notin Words /\ NULL \notin Message
<1> DEFINE all == [f : Fields \cup {"none"}, v : Words, op : Ops \cup {"none"}, fell : BOOLEAN]
<1>1. NULL \notin Words /\ NULL \notin all
  BY NullIsNothing
<1>2. NULL \notin Message
  <2>1. Message \subseteq all
    BY DEF Message
  <2>2. QED
    BY <1>1, <2>1
<1>3. \A x \in Message : x.v \in Words
  BY DEF Message
<1>4. QED
  BY <1>1, <1>2, <1>3 DEF Held, WireInv, TypeOK
-------------------------------------------------------------------------------
(* The parts of the invariant, one by one.                                  *)

\* A step adds its messages at the end of the pipe.
LEMMA AppendFacts ==
  ASSUME NEW S, NEW s \in Seq(S), NEW x \in S
  PROVE  /\ Len(s) \in Nat /\ DOMAIN s = 1..Len(s) /\ DOMAIN Append(s, x) = 1..(Len(s) + 1)
         /\ \A i \in DOMAIN s : i \in DOMAIN Append(s, x) /\ Append(s, x)[i] = s[i] /\ i < Len(s) + 1
         /\ Append(s, x)[Len(s) + 1] = x
         /\ \A i \in DOMAIN Append(s, x) : i \in DOMAIN s \/ i = Len(s) + 1
<1>1. Len(s) \in Nat /\ DOMAIN s = 1..Len(s)
  BY LenProperties
<1>2. /\ Append(s, x) \in Seq(S) /\ Len(Append(s, x)) = Len(s) + 1
      /\ \A i \in 1..Len(s) : Append(s, x)[i] = s[i]
      /\ Append(s, x)[Len(s) + 1] = x
  BY AppendProperties
<1>3. DOMAIN Append(s, x) = 1..(Len(s) + 1)
  BY <1>2, LenProperties
<1>4. QED
  BY <1>1, <1>2, <1>3

\* The reader takes the oldest message.
LEMMA ReadFacts ==
  ASSUME NEW S, NEW s \in Seq(S), s # <<>>
  PROVE  /\ Len(s) \in Nat \ {0} /\ DOMAIN s = 1..Len(s) /\ Head(s) = s[1] /\ 1 \in DOMAIN s
         /\ Tail(s) \in Seq(S) /\ DOMAIN Tail(s) = 1..(Len(s) - 1) /\ Len(Tail(s)) = Len(s) - 1
         /\ \A i \in DOMAIN Tail(s) : i + 1 \in DOMAIN s /\ Tail(s)[i] = s[i + 1]
         /\ \A i \in DOMAIN s : i # 1 => i - 1 \in DOMAIN Tail(s) /\ Tail(s)[i - 1] = s[i]
<1>1. Len(s) \in Nat \ {0} /\ DOMAIN s = 1..Len(s) /\ Head(s) = s[1]
  BY EmptySeq, LenProperties
<1>2. Tail(s) \in Seq(S) /\ Len(Tail(s)) = Len(s) - 1 /\ \A i \in 1..Len(Tail(s)) : Tail(s)[i] = s[i + 1]
  BY HeadTailProperties
<1>3. DOMAIN Tail(s) = 1..(Len(s) - 1)
  BY <1>2, LenProperties
<1>4. QED
  BY <1>1, <1>2, <1>3

\* What the modem has is the command in progress, and its answer is put last.
LEMMA ServeFacts ==
  ASSUME TypeOK, WireInv, FlightInv, InLoop, Serve
  PROVE  /\ op \in Ops \ {"disconnect", "close"} /\ toModem # <<>> /\ toModem = <<op>> /\ toModem' = <<>>
         /\ pc = "wait" /\ rsp = NULL
         /\ UNCHANGED <<pc, op, rsp, open_state, st, net, rd, rdMsg, newer, wrong, raced>>
         /\ \E e \in Execute(op) : /\ m' = [is |-> e.is, opened |-> e.opened]
                                   /\ pipe' = Append(pipe, AnswerTo(op, e.v))
                                   /\ AnswerTo(op, e.v) \in Message
                                   /\ m'.is = e.is /\ m'.opened = e.opened
<1>1. /\ toModem # <<>> /\ toModem = <<op>> /\ pc = "wait" /\ rsp = NULL
      /\ UNCHANGED <<pc, op, rsp, open_state, st, net, rd, rdMsg, newer, wrong, raced>>
  BY DEF Serve, FlightInv, beliefs, reader, history
<1>2. op \in Ops \ {"disconnect", "close"}
  BY <1>1 DEF TypeOK, InLoop, WireInv
<1>3. Head(toModem) = op /\ Tail(toModem) = <<>>
  BY <1>1
<1>4. PICK e \in Execute(op) : /\ m' = [is |-> e.is, opened |-> e.opened]
                               /\ pipe' = Append(pipe, AnswerTo(op, e.v))
  BY <1>3 DEF Serve
<1>5. e.v \in Replies(op)
  BY <1>2, ExecuteType DEF TypeOK
<1>6. AnswerTo(op, e.v) \in Message /\ m'.is = e.is /\ m'.opened = e.opened
  BY <1>2, <1>4, <1>5, AnswerType
<1>7. QED
  BY <1>1, <1>2, <1>3, <1>4, <1>6 DEF Serve

\* The modem has no other command.
LEMMA IgnoreFacts ==
  ASSUME FlightInv, InLoop, Ignore
  PROVE  toModem # <<>> /\ toModem' = <<>>
<1>1. toModem # <<>> /\ toModem = <<op>> /\ toModem' = Tail(toModem)
  BY DEF Ignore, FlightInv
<1>2. Tail(<<op>>) = <<>>
  OBVIOUS
<1>3. QED
  BY <1>1, <1>2

\* A modem that changes adds indications, of what has changed, if it is open.
LEMMA ChangeFacts ==
  ASSUME TypeOK, WireInv, Change
  PROVE  \E t \in Successors(m.is) :
           /\ m.is \in Modem /\ t \in Modem /\ m.is \in State /\ t \in State
           /\ m'.is = t /\ m'.opened = m.opened
           /\ Notices(m.is, t) \in Seq(Message)
           /\ pipe' = IF m.opened THEN pipe \o Notices(m.is, t) ELSE pipe
           /\ \A x \in Items(Notices(m.is, t)) : x.op = "none" /\ x.v = t[x.f]
           /\ \A f \in Fields : (m.is[f] # t[f]) <=> ~Quiet(Notices(m.is, t), f)
<1>1. PICK t \in Successors(m.is) :
        /\ m' = [is |-> t, opened |-> m.opened]
        /\ pipe' = IF m.opened THEN pipe \o Notices(m.is, t) ELSE pipe
  BY DEF Change
<1>2. m.is \in Modem /\ t \in Modem /\ m.is \in State /\ t \in State
  BY SuccessorType DEF TypeOK, Modem
<1>3. m'.is = t /\ m'.opened = m.opened
  BY <1>1
<1>4. Notices(m.is, t) \in Seq(Message)
  BY <1>2, NoticesType
<1>5. Items(Notices(m.is, t)) = {Indication(f, t[f], FALSE) : f \in {g \in Fields : m.is[g] # t[g]}}
  BY <1>2, NoticesFacts
<1>6. \A x \in Items(Notices(m.is, t)) : x.op = "none" /\ x.v = t[x.f]
  BY <1>5 DEF Indication
<1>7. ASSUME NEW f \in Fields PROVE (m.is[f] # t[f]) <=> ~Quiet(Notices(m.is, t), f)
  <2>1. Quiet(Notices(m.is, t), f) <=> \A x \in Items(Notices(m.is, t)) : ~Tells(x, f)
    BY DEF Quiet, Items
  <2>2. \A g \in Fields : Tells(Indication(g, t[g], FALSE), f) <=> g = f
    BY DEF Tells, Indication, Queries
  <2>3. QED
    BY <1>5, <2>1, <2>2
<1>8. QED
  BY <1>1, <1>2, <1>3, <1>4, <1>6, <1>7
\* A turn of the main thread starts with nothing of a command under way.
LEMMA TurnIdle ==
  ASSUME TypeOK, WireInv, PcInv, FlightInv, InLoop, LoopTurn
  PROVE  /\ toModem = <<>> /\ \A i \in DOMAIN pipe : pipe[i].op = "none"
         /\ Held => rdMsg.op = "none"
<1>1. pc = "wait" => rsp # NULL
  BY TurnFacts
<1>2. QED
  BY <1>1 DEF FlightInv

\* There is one command at a time.
LEMMA FlightStep ==
  ASSUME IInv, FlightInv, [Next]_vars
  PROVE  FlightInv'
<1> SUFFICES ASSUME InLoop' PROVE FlightInv'
  BY DEF FlightInv
<1>0. TypeOK /\ WireInv /\ PcInv
  BY DEF IInv
<1>1. InLoop /\ (LoopTurn \/ Aside \/ Messaging \/ External)
  BY <1>0, LoopSteps
<1>2. CASE LoopTurn
  <2>1. /\ rsp' = NULL /\ UNCHANGED <<rd, rdMsg, pipe>>
        /\ \/ op' = "none" /\ toModem' = toModem
           \/ op' \in Ops /\ pc' = "wait" /\ toModem' = Append(toModem, op')
    BY <1>0, <1>2, TurnFacts
  <2>2. /\ toModem = <<>> /\ \A i \in DOMAIN pipe : pipe[i].op = "none"
        /\ Held => rdMsg.op = "none"
    BY <1>0, <1>1, <1>2, TurnIdle
  <2>3. Append(<<>>, op') = <<op'>>
    OBVIOUS
  <2>4. QED
    BY <2>1, <2>2, <2>3 DEF FlightInv, Held
<1>3. CASE Aside
  BY <1>1, <1>3 DEF Aside, FlightInv
<1>4. CASE Read
  <2>1. pipe # <<>> /\ rdMsg' = Head(pipe) /\ pipe' = Tail(pipe) /\ UNCHANGED <<pc, op, rsp, toModem>>
    BY <1>4 DEF Read, command
  <2>2. /\ Head(pipe) = pipe[1] /\ 1 \in DOMAIN pipe
        /\ \A i \in DOMAIN pipe' : i \in Int /\ i + 1 \in DOMAIN pipe /\ i + 1 # 1 /\ pipe'[i] = pipe[i + 1]
    BY <1>0, <2>1, ReadFacts DEF WireInv
  <2>3. toModem # <<>> => /\ \A i \in DOMAIN pipe' : pipe'[i].op = "none"
                          /\ rdMsg'.op = "none"
    BY <1>1, <2>1, <2>2 DEF FlightInv
  <2>4. ASSUME NEW i \in DOMAIN pipe', pipe'[i].op # "none"
        PROVE  /\ pc = "wait" /\ pipe'[i].op = op /\ rsp = NULL /\ rdMsg'.op = "none"
               /\ \A j \in DOMAIN pipe' : j # i => pipe'[j].op = "none"
    <3>1. /\ pc = "wait" /\ pipe'[i].op = op /\ rsp = NULL
          /\ \A j \in DOMAIN pipe : j # i + 1 => pipe[j].op = "none"
      BY <1>1, <2>2, <2>4 DEF FlightInv
    <3>2. ASSUME NEW j \in DOMAIN pipe', j # i PROVE pipe'[j].op = "none"
      <4>1. j + 1 # i + 1 /\ j + 1 \in DOMAIN pipe /\ pipe'[j] = pipe[j + 1]
        BY <2>2, <3>2
      <4>2. QED
        BY <3>1, <4>1
    <3>3. QED
      BY <2>1, <2>2, <3>1, <3>2
  <2>5. rdMsg'.op # "none" => pc = "wait" /\ rdMsg'.op = op /\ rsp = NULL
    BY <1>1, <2>1, <2>2 DEF FlightInv
  <2>6. QED
    BY <1>1, <2>1, <2>3, <2>4, <2>5 DEF FlightInv
<1>5. CASE Deliver
  <2>1. /\ rdMsg.op # "none" /\ Held /\ UNCHANGED <<pc, op, toModem, pipe>> /\ ~Held'
    BY <1>5 DEF Deliver, Held
  <2>2. toModem = <<>> /\ \A i \in DOMAIN pipe : pipe[i].op = "none"
    BY <1>1, <2>1 DEF FlightInv
  <2>3. QED
    BY <2>1, <2>2 DEF FlightInv
<1>6. CASE Indicated \/ Unlock
  <2>1. Held /\ rdMsg.op = "none" /\ UNCHANGED <<pc, op, rsp, toModem, pipe>>
    BY <1>0, <1>6 DEF Indicated, Unlock, Held, WireInv, command
  <2>2. Held' => rdMsg'.op = "none"
    BY <1>6, <2>1 DEF Indicated, Unlock, NextMessage, Indication, Held
  <2>3. QED
    BY <1>1, <2>1, <2>2 DEF FlightInv
<1>7. CASE Serve
  <2>1. /\ op \in Ops /\ toModem # <<>> /\ toModem' = <<>> /\ pc = "wait" /\ rsp = NULL
        /\ UNCHANGED <<pc, op, rsp, rd, rdMsg>>
    BY <1>0, <1>1, <1>7, ServeFacts
  <2>2. PICK e \in Execute(op) : /\ pipe' = Append(pipe, AnswerTo(op, e.v))
                                 /\ AnswerTo(op, e.v) \in Message
    BY <1>0, <1>1, <1>7, ServeFacts
  <2>3. pipe \in Seq(Message) /\ AnswerTo(op, e.v).op = op
    BY <1>0 DEF WireInv, AnswerTo
  <2>4. /\ \A i \in DOMAIN pipe : pipe[i].op = "none"
        /\ Held => rdMsg.op = "none"
    BY <1>1, <2>1 DEF FlightInv
  <2>5. \A i \in DOMAIN pipe' : pipe'[i].op = "none" \/ (i = Len(pipe) + 1 /\ pipe'[i].op = op)
    BY <2>2, <2>3, <2>4, AppendFacts
  <2>6. QED
    BY <2>1, <2>4, <2>5 DEF FlightInv, Held
<1>8. CASE Ignore
  <2>1. toModem' = <<>>
    BY <1>1, <1>8, IgnoreFacts
  <2>2. QED
    BY <1>1, <1>8, <2>1 DEF Ignore, FlightInv, Held, reader
<1>9. CASE Change
  <2>1. UNCHANGED <<pc, op, rsp, toModem, rd, rdMsg>>
    BY <1>9 DEF Change, command, reader
  <2>2. PICK t \in Successors(m.is) :
          /\ Notices(m.is, t) \in Seq(Message)
          /\ pipe' = IF m.opened THEN pipe \o Notices(m.is, t) ELSE pipe
          /\ \A x \in Items(Notices(m.is, t)) : x.op = "none"
    BY <1>0, <1>9, ChangeFacts
  <2> DEFINE n == Notices(m.is, t)
  <2>3. /\ Len(pipe) \in Nat /\ DOMAIN pipe = 1..Len(pipe) /\ Len(n) \in Nat /\ DOMAIN n = 1..Len(n)
        /\ m.opened => /\ DOMAIN pipe' = 1..(Len(pipe) + Len(n))
                       /\ \A i \in DOMAIN pipe' : pipe'[i] = IF i <= Len(pipe) THEN pipe[i] ELSE n[i - Len(pipe)]
    BY <1>0, <2>2, ConcatProperties, LenProperties DEF WireInv
  <2>4. \A i \in DOMAIN n : n[i].op = "none"
    BY <2>2 DEF Items
  <2> HIDE DEF n
  <2>5. \A i \in DOMAIN pipe' : pipe'[i].op = "none" \/ (i \in DOMAIN pipe /\ pipe'[i] = pipe[i])
    <3>1. CASE m.opened
      BY <2>3, <2>4, <3>1
    <3>2. CASE ~m.opened
      BY <2>2, <3>2
    <3>3. QED
      BY <3>1, <3>2
  <2>6. QED
    BY <1>1, <2>1, <2>5 DEF FlightInv, Held
<1>10. CASE Suspend
  BY <1>1, <1>10 DEF Suspend, FlightInv, Held, command, reader
<1>11. QED
  BY <1>1, <1>2, <1>3, <1>4, <1>5, <1>6, <1>7, <1>8, <1>9, <1>10 DEF Messaging, External
\* What the program learns of an open or closed modem.
LEMMA OpenStep ==
  ASSUME IInv, FlightInv, OpenInv, [Next]_vars
  PROVE  OpenInv'
<1> SUFFICES ASSUME InLoop' PROVE OpenInv'
  BY DEF OpenInv
<1>0. TypeOK /\ WireInv /\ PcInv
  BY DEF IInv
<1>1. InLoop /\ (LoopTurn \/ Aside \/ Messaging \/ External)
  BY <1>0, LoopSteps
<1>2. CASE LoopTurn
  <2>1. /\ rsp' = NULL /\ UNCHANGED <<rd, rdMsg, pipe, m>> /\ (pc = "wait" => rsp # NULL)
    BY <1>0, <1>2, TurnFacts
  <2>2. "not_opened" # NULL
    BY <1>0, HandFacts, WordFacts
  <2>3. /\ \A i \in DOMAIN pipe : Refusal(pipe[i]) => ~m.opened /\ i = Len(pipe)
        /\ Held /\ Refusal(rdMsg) => ~m.opened /\ pipe = <<>>
    BY <1>1 DEF OpenInv
  <2>4. CASE OpenAnswered
    <3>1. op' # "open" /\ open_state' = TRUE
      BY <1>1, <2>4 DEF OpenAnswered, Issue, Goto, InLoop
    <3>2. QED
      BY <2>1, <2>2, <2>3, <3>1 DEF OpenInv, Held
  <2>5. CASE ~OpenAnswered
    <3>1. /\ op # "open"
          /\ open_state' = open_state \/ (open_state' = FALSE /\ rsp = "not_opened")
          /\ op' = "open" => open_state' = FALSE /\ net' = FALSE
      <4>1. CASE LoopHead
        BY <1>0, <4>1 DEF LoopHead, Goto, Issue, Deconfigure, TypeOK
      <4>2. CASE Round
        BY <1>0, <4>2 DEF Round, Test, Goto, Issue, SleepFor, beliefs, TypeOK
      <4>3. CASE InitAnswered
        BY <1>0, <4>3 DEF InitAnswered, Answered, Goto, TypeOK
      <4>4. CASE IpAnswered
        BY <1>0, <4>4 DEF IpAnswered, Answered, Goto, SleepFor, TypeOK
      <4>5. ASSUME NEW o \in Queries, QueryAnswered(o)
            PROVE  /\ op # "open" /\ op' # "open"
                   /\ open_state' = open_state \/ (open_state' = FALSE /\ rsp = "not_opened")
        BY <1>0, <4>5 DEF QueryAnswered, Answered, Goto, Assign, Queries, TypeOK
      <4>6. QED
        BY <1>2, <2>5, <4>1, <4>2, <4>3, <4>4, <4>5 DEF LoopTurn
    <3>2. ~m.opened /\ ~open_state' =>
            /\ \A i \in DOMAIN pipe : Refusal(pipe[i])
            /\ Held => Refusal(rdMsg)
      BY <1>1, <3>1 DEF OpenInv
    <3>3. m.opened => open_state'
      BY <1>1, <3>1 DEF OpenInv
    <3>4. QED
      BY <2>1, <2>2, <2>3, <3>1, <3>2, <3>3 DEF OpenInv, Held
  <2>6. QED
    BY <2>4, <2>5
<1>3. CASE Aside
  BY <1>1, <1>3 DEF Aside, OpenInv
<1>4. CASE Read
  <2>1. /\ pipe # <<>> /\ rdMsg' = Head(pipe) /\ pipe' = Tail(pipe)
        /\ UNCHANGED <<pc, op, rsp, toModem, m, open_state, net>>
    BY <1>4 DEF Read, command, beliefs, world
  <2>2. /\ Head(pipe) = pipe[1] /\ 1 \in DOMAIN pipe /\ Len(pipe) \in Nat /\ pipe' \in Seq(Message)
        /\ Len(pipe') = Len(pipe) - 1
        /\ \A i \in DOMAIN pipe' : i \in Int /\ i + 1 \in DOMAIN pipe /\ pipe'[i] = pipe[i + 1]
    BY <1>0, <2>1, ReadFacts DEF WireInv
  <2>3. Refusal(rdMsg') => ~m.opened /\ pipe' = <<>>
    <3>1. Refusal(pipe[1]) => ~m.opened /\ Len(pipe) = 1
      BY <1>1, <2>2 DEF OpenInv
    <3>2. Len(pipe') = 0 => pipe' = <<>>
      BY <2>2, EmptySeq
    <3>3. QED
      BY <2>1, <2>2, <3>1, <3>2
  <2>4. \A i \in DOMAIN pipe' : Refusal(pipe'[i]) => ~m.opened /\ i = Len(pipe')
    BY <1>1, <2>2 DEF OpenInv
  <2>5. rsp # "not_opened"
    BY <1>1, <2>1 DEF OpenInv
  <2>6. ~m.opened /\ ~open_state => \/ op = "open" /\ toModem = <<>>
                                    \/ (\A i \in DOMAIN pipe' : Refusal(pipe'[i])) /\ Refusal(rdMsg')
    BY <1>1, <2>1, <2>2 DEF OpenInv
  <2>7. QED
    BY <1>1, <2>1, <2>3, <2>4, <2>5, <2>6 DEF OpenInv
<1>5. CASE Deliver
  <2>1. /\ rdMsg.op # "none" /\ Held /\ ~Held'
        /\ UNCHANGED <<op, toModem, pipe, m, open_state, net>>
        /\ rsp' = rsp \/ rsp' = rdMsg.v
    BY <1>5 DEF Deliver, Held, beliefs, world
  <2>2. rsp' = "not_opened" => ~m.opened /\ pipe = <<>>
    BY <1>1, <2>1 DEF OpenInv, Refusal
  <2>3. QED
    BY <1>1, <2>1, <2>2 DEF OpenInv
<1>6. CASE Indicated \/ Unlock
  <2>1. /\ Held /\ rdMsg.op = "none" /\ UNCHANGED <<op, rsp, toModem, pipe, m, open_state>>
        /\ net' = net \/ net' = FALSE
    BY <1>0, <1>6 DEF Indicated, Unlock, DownWithCall, Deconfigure, Held, WireInv, command, world, beliefs
  <2>2. Held' => rdMsg'.op = "none"
    BY <1>6, <2>1 DEF Indicated, Unlock, NextMessage, Indication, Held
  <2>3. ~Refusal(rdMsg) /\ (Held' => ~Refusal(rdMsg'))
    BY <2>1, <2>2 DEF Refusal
  <2>4. op = "open" => ~open_state /\ ~net'
    BY <1>0, <1>1, <2>1 DEF OpenInv, TypeOK
  <2>5. QED
    BY <1>1, <2>1, <2>3, <2>4 DEF OpenInv
<1>7. CASE Serve
  <2>1. /\ op \in Ops \ {"disconnect", "close"} /\ toModem # <<>> /\ toModem' = <<>> /\ rsp = NULL
        /\ UNCHANGED <<op, rsp, open_state, net, rd, rdMsg>>
    BY <1>0, <1>1, <1>7, ServeFacts
  <2>2. PICK e \in Execute(op) : /\ pipe' = Append(pipe, AnswerTo(op, e.v))
                                 /\ AnswerTo(op, e.v) \in Message /\ m'.opened = e.opened
    BY <1>0, <1>1, <1>7, ServeFacts
  <2>3. /\ ~m.opened /\ op # "open" => ~e.opened /\ e.v = "not_opened"
        /\ m.opened => e.opened /\ e.v # "not_opened"
        /\ op = "open" => e.v \in {"ok", "failed"}
    BY <1>0, <2>1, ExecuteNews DEF TypeOK
  <2>4. Refusal(AnswerTo(op, e.v)) <=> e.v = "not_opened"
    BY <2>1 DEF Refusal, AnswerTo, Ops, Queries
  <2>5. /\ \A i \in DOMAIN pipe : pipe[i].op = "none"
        /\ Held => rdMsg.op = "none"
    BY <1>1, <2>1 DEF FlightInv
  <2>6. pipe \in Seq(Message)
    BY <1>0 DEF WireInv
  <2>7. /\ \A i \in DOMAIN pipe' : \/ i \in DOMAIN pipe /\ pipe'[i] = pipe[i]
                                   \/ i = Len(pipe) + 1 /\ pipe'[i] = AnswerTo(op, e.v)
        /\ Len(pipe') = Len(pipe) + 1
    BY <2>2, <2>6, AppendFacts, AppendProperties
  <2>8. \A i \in DOMAIN pipe' : Refusal(pipe'[i]) => ~m'.opened /\ i = Len(pipe')
    BY <2>2, <2>3, <2>4, <2>5, <2>7 DEF Refusal
  <2>9. e.opened /\ ~open_state => op = "open"
    BY <1>0, <1>1, <2>1, <2>3 DEF OpenInv, TypeOK
  <2>10. ~e.opened /\ ~open_state /\ op # "open" =>
           (\A i \in DOMAIN pipe' : Refusal(pipe'[i])) /\ (Held => Refusal(rdMsg))
    BY <1>0, <1>1, <2>1, <2>3, <2>4, <2>7 DEF OpenInv, TypeOK
  <2>11. rsp # "not_opened"
    BY <1>0, <2>1, HandFacts, WordFacts
  <2>12. QED
    BY <1>1, <2>1, <2>2, <2>5, <2>8, <2>9, <2>10, <2>11 DEF OpenInv, Held, Refusal
<1>8. CASE Ignore
  <2>1. toModem # <<>> /\ UNCHANGED <<pc, op, rsp, open_state, net, rd, rdMsg, pipe, m>>
    BY <1>1, <1>8, IgnoreFacts DEF Ignore, beliefs, reader, world
  <2>2. QED
    BY <1>1, <2>1 DEF OpenInv, Held
<1>9. CASE Change
  <2>1. UNCHANGED <<op, rsp, toModem, rd, rdMsg, open_state, net>>
    BY <1>9 DEF Change, command, reader, beliefs
  <2>2. PICK t \in Successors(m.is) :
          /\ m'.opened = m.opened
          /\ Notices(m.is, t) \in Seq(Message)
          /\ pipe' = IF m.opened THEN pipe \o Notices(m.is, t) ELSE pipe
          /\ \A x \in Items(Notices(m.is, t)) : x.op = "none"
    BY <1>0, <1>9, ChangeFacts
  <2>3. CASE m.opened
    <3>1. Items(pipe') = Items(pipe) \cup Items(Notices(m.is, t))
      BY <1>0, <2>2, <2>3, ItemsConcat DEF WireInv
    <3>2. \A x \in Items(pipe') : ~Refusal(x)
      BY <1>1, <2>2, <2>3, <3>1 DEF OpenInv, Items, Refusal
    <3>3. QED
      BY <1>1, <2>1, <2>2, <2>3, <3>2 DEF OpenInv, Items, Held
  <2>4. CASE ~m.opened
    BY <1>1, <2>1, <2>2, <2>4 DEF OpenInv, Held
  <2>5. QED
    BY <2>3, <2>4
<1>10. CASE Suspend
  <2>1. m.opened /\ m'.opened = FALSE /\ UNCHANGED <<op, rsp, toModem, rd, rdMsg, pipe, open_state, net>>
    BY <1>10 DEF Suspend, command, reader, beliefs
  <2>2. QED
    BY <1>1, <2>1 DEF OpenInv, Held
<1>11. QED
  BY <1>1, <1>2, <1>3, <1>4, <1>5, <1>6, <1>7, <1>8, <1>9, <1>10 DEF Messaging, External
\* A turn of the main thread uses the newest news there is, or marks the variable as wrong.
LEMMA TurnNews ==
  ASSUME IInv, NewsInv, InLoop, InLoop', LoopTurn, m.opened, NEW f \in Fields
  PROVE  FieldInv(f)'
<1>0. TypeOK /\ WireInv /\ PcInv
  BY DEF IInv
<1>1. FieldInv(f)
  BY DEF NewsInv
<1>2. /\ rsp' = NULL /\ UNCHANGED <<rd, rdMsg, pipe, m>>
  BY <1>0, TurnFacts
<1>3. ~RspTells(f)'
  BY <1>2 DEF RspTells
<1> DEFINE Kept == f \notin wrong' /\ open_state' =>
              /\ Quiet(pipe, f) /\ ~(Held /\ Tells(rdMsg, f)) => st'[f] \in {Unset[f], m.is[f]}
              /\ rd \in {"notify", "holding"} /\ rdMsg.f = f =>
                   st'[f] = Unset[f] \/ (~rdMsg.fell /\ st'[f] = rdMsg.v)
<1>4. SUFFICES Kept
  BY <1>1, <1>2, <1>3 DEF FieldInv, Held
<1>5. CASE /\ ~RspTells(f) /\ st'[f] = st[f]
           /\ (f \notin wrong' => f \notin wrong) /\ (open_state' => open_state)
  BY <1>1, <1>5 DEF FieldInv
<1>6. CASE OpenAnswered
  BY <1>6 DEF OpenAnswered, Goto, InLoop
<1>7. CASE LoopHead \/ Round
  <2>1. rsp = NULL
    BY <1>0, <1>7 DEF LoopHead, Round, Test, WireInv
  <2>2. st' = st /\ wrong' = wrong /\ open_state' = open_state
    BY <1>7 DEF LoopHead, Round, beliefs
  <2>3. QED
    BY <1>5, <2>1, <2>2 DEF RspTells
<1>8. CASE InitAnswered \/ IpAnswered
  <2>1. op \notin Queries /\ st' = st /\ wrong' = wrong /\ (open_state' => open_state)
    BY <1>8 DEF InitAnswered, IpAnswered, Answered, Queries
  <2>2. QED
    BY <1>5, <2>1 DEF RspTells
<1>9. ASSUME NEW o \in Queries, QueryAnswered(o) PROVE Kept
  <2> DEFINE g == Sets[o]
  <2>1. /\ op = o /\ rsp # NULL /\ Assign(g) /\ g \in Fields /\ rsp \in Replies(op)
    BY <1>0, <1>9, FieldFacts DEF QueryAnswered, Answered, Queries, Sets, WireInv
  <2>2. op \in Queries /\ Sets[op] = g
    BY <2>1
  <2> HIDE DEF g
  <2>3. PICK v \in Learned(g) : st' = [st EXCEPT ![g] = v]
    BY <2>1 DEF Assign
  <2>4. /\ open_state' => open_state /\ rsp # "not_opened"
        /\ wrong' = IF rsp = "failed" THEN wrong
                    ELSE IF g \in newer THEN wrong \cup {g} ELSE wrong \ {g}
    BY <2>1 DEF Assign
  <2>5. st \in State /\ DOMAIN st = Fields
    BY <1>0, StateFacts DEF TypeOK
  <2>6. CASE f # g
    <3>1. st'[f] = st[f] /\ (f \notin wrong' => f \notin wrong) /\ ~RspTells(f)
      BY <2>2, <2>3, <2>4, <2>5, <2>6 DEF RspTells
    <3>2. QED
      BY <1>5, <2>4, <3>1
  <2>7. CASE f = g /\ rsp = "failed"
    <3>1. v = st[g]
      BY <2>7 DEF Learned
    <3>2. st'[f] = st[f] /\ wrong' = wrong /\ ~RspTells(f)
      BY <2>3, <2>4, <2>5, <2>7, <3>1 DEF RspTells
    <3>3. QED
      BY <1>5, <2>4, <3>2
  <2>8. CASE rsp = "not_opened"
    BY <2>4, <2>8
  <2>9. CASE f = g /\ rsp \notin {"failed", "not_opened"}
    <3>1. v = rsp
      BY <2>9 DEF Learned
    <3>2. st'[f] = rsp
      BY <2>3, <2>5, <2>9, <3>1
    <3>3. f \notin wrong' => RspTells(f)
      BY <2>1, <2>2, <2>4, <2>9 DEF RspTells
    <3>4. QED
      BY <1>1, <3>2, <3>3 DEF FieldInv
  <2>10. QED
    BY <2>6, <2>7, <2>8, <2>9
<1>10. QED
  BY <1>6, <1>7, <1>8, <1>9 DEF LoopTurn
\* The reader has done with an indication: the variable has the value, or is marked, or has
\* been reset since, and the answer that waits is older.
LEMMA DoneNews ==
  ASSUME IInv, NewsInv, InLoop, m.opened, NEW f \in Fields, Held, rdMsg.op = "none", NextMessage,
         UNCHANGED <<pipe, m, open_state, rsp, op>>,
         \A h \in Fields : h # rdMsg.f => /\ st'[h] = st[h] /\ (h \in wrong' <=> h \in wrong)
                                          /\ (h \in newer' <=> h \in newer),
         \A h \in Fields : h = rdMsg.f => ~RspTells(h)',
         \A h \in Fields : h = rdMsg.f /\ h \notin wrong' /\ open_state =>
                             st'[h] = Unset[h] \/ (~rdMsg.fell /\ st'[h] = rdMsg.v)
  PROVE  FieldInv(f)'
<1>1. FieldInv(f)
  BY DEF NewsInv
<1>2. /\ rd' \in {"msg", "poll"}
      /\ Held' => Fell(rdMsg') /\ rdMsg'.f = "ps" /\ rdMsg'.op = "none" /\ rdMsg.f = "reg"
  BY DEF NextMessage, Indication, Fell, Held
<1>3. Tells(rdMsg, f) <=> rdMsg.f = f
  BY DEF Tells, Queries
<1>4. Held' => (Tells(rdMsg', f) <=> f = "ps")
  BY <1>2 DEF Tells, Queries
<1>5. CASE f = rdMsg.f
  <2>1. /\ ~RspTells(f)'
        /\ f \notin wrong' /\ open_state => st'[f] = Unset[f] \/ (~rdMsg.fell /\ st'[f] = rdMsg.v)
    <3>1. ~RspTells(f)'
      BY <1>5
    <3>2. f \notin wrong' /\ open_state => st'[f] = Unset[f] \/ (~rdMsg.fell /\ st'[f] = rdMsg.v)
      BY <1>5
    <3>3. QED
      BY <3>1, <3>2
  <2>2. Quiet(pipe, f) /\ ~rdMsg.fell => rdMsg.v = m.is[f]
    BY <1>1, <1>3, <1>5 DEF FieldInv, Fell
  <2>3. QED
    BY <1>1, <1>2, <2>1, <2>2 DEF FieldInv
<1>6. CASE f # rdMsg.f
  <2>1. st'[f] = st[f] /\ (f \in wrong' <=> f \in wrong) /\ (RspTells(f)' <=> RspTells(f))
    BY <1>6 DEF RspTells
  <2>2. QED
    BY <1>1, <1>2, <1>3, <1>6, <2>1 DEF FieldInv
<1>7. QED
  BY <1>5, <1>6

\* The reader handles an indication.
LEMMA HandNews ==
  ASSUME IInv, NewsInv, InLoop, m.opened, NEW f \in Fields, Indicated \/ Unlock
  PROVE  FieldInv(f)'
<1>0. TypeOK /\ WireInv
  BY DEF IInv
<1>1. FieldInv(f) /\ \A h \in Fields : FieldInv(h)
  BY DEF NewsInv
<1>2. /\ Held /\ rdMsg \in Message /\ rdMsg.op = "none" /\ rdMsg.f \in Fields
      /\ UNCHANGED <<pipe, m, open_state, rsp, op>>
  BY <1>0 DEF Indicated, Unlock, Held, WireInv, Message, Ops, Queries, command, world, beliefs
<1>3. CASE Unlock
  <2>1. NextMessage /\ rd = "holding" /\ UNCHANGED <<st, wrong, newer>>
    BY <1>3 DEF Unlock, beliefs, history
  <2>2. /\ ~RspTells(rdMsg.f)
        /\ rdMsg.f \notin wrong /\ open_state => \/ st[rdMsg.f] = Unset[rdMsg.f]
                                                 \/ ~rdMsg.fell /\ st[rdMsg.f] = rdMsg.v
    BY <1>1, <1>2, <2>1 DEF FieldInv
  <2>3. \A h \in Fields : h = rdMsg.f => ~RspTells(h)'
    BY <1>2, <2>1, <2>2 DEF RspTells
  <2>4. \A h \in Fields : h = rdMsg.f /\ h \notin wrong' /\ open_state =>
                            st'[h] = Unset[h] \/ (~rdMsg.fell /\ st'[h] = rdMsg.v)
    BY <1>2, <2>1, <2>2
  <2>5. QED
    BY <1>2, <2>1, <2>3, <2>4, DoneNews
<1>4. CASE Indicated
  <2> DEFINE g == rdMsg.f
  <2>1. /\ st' = [st EXCEPT ![g] = rdMsg.v]
        /\ newer' = IF rsp # NULL THEN newer \cup {g} ELSE newer
        /\ wrong' = IF rdMsg.fell THEN wrong \cup {g} ELSE wrong \ {g}
        /\ \/ rd' = "notify" /\ rdMsg' = rdMsg
           \/ NextMessage
    BY <1>4 DEF Indicated
  <2>2. DOMAIN st = Fields
    BY <1>0, StateFacts DEF TypeOK
  <2>3. st'[g] = rdMsg.v /\ \A h \in Fields : h # g => st'[h] = st[h]
    BY <1>2, <2>1, <2>2
  <2>4. \A h \in Fields : h # g => (h \in wrong' <=> h \in wrong) /\ (h \in newer' <=> h \in newer)
    BY <2>1
  <2>5. g \notin wrong' => ~rdMsg.fell
    BY <2>1
  <2>6. rsp = NULL \/ g \in newer'
    BY <2>1
  <2>8. \A h \in Fields : h = g => ~RspTells(h)'
    BY <1>2, <2>6 DEF RspTells
  <2>7. \A h \in Fields : h = g /\ h \notin wrong' /\ open_state =>
                            st'[h] = Unset[h] \/ (~rdMsg.fell /\ st'[h] = rdMsg.v)
    BY <2>3, <2>5
  <2>9. CASE NextMessage
    BY <1>2, <2>3, <2>4, <2>7, <2>8, <2>9, DoneNews
  <2>10. CASE rd' = "notify" /\ rdMsg' = rdMsg
    <3>1. Held' /\ (Tells(rdMsg, f) <=> f = g)
      BY <1>2, <2>10 DEF Held, Tells, Queries
    <3>2. CASE f = g
      <4>1. ~RspTells(f)' /\ (f \notin wrong' => ~rdMsg.fell /\ st'[f] = rdMsg.v)
        BY <2>3, <2>5, <2>8, <3>2
      <4>2. QED
        BY <1>1, <1>2, <2>10, <3>1, <3>2, <4>1 DEF FieldInv
    <3>3. CASE f # g
      <4>1. st'[f] = st[f] /\ (f \in wrong' <=> f \in wrong) /\ (RspTells(f)' <=> RspTells(f))
        BY <1>2, <2>3, <2>4, <3>3 DEF RspTells
      <4>2. QED
        BY <1>1, <1>2, <2>10, <3>1, <3>3, <4>1 DEF FieldInv
    <3>4. QED
      BY <3>2, <3>3
  <2>11. QED
    BY <2>1, <2>9, <2>10
<1>5. QED
  BY <1>3, <1>4
\* The modem answers: what the answer tells is what the modem now is.
LEMMA ServeNews ==
  ASSUME IInv, FlightInv, OpenInv, NewsInv, InLoop, Serve, m'.opened, NEW f \in Fields
  PROVE  FieldInv(f)'
<1>0. TypeOK /\ WireInv /\ pipe \in Seq(Message)
  BY DEF IInv, WireInv
<1>1. /\ op \in Ops \ {"disconnect", "close"} /\ toModem # <<>> /\ rsp = NULL
      /\ UNCHANGED <<op, rsp, open_state, st, rd, rdMsg, newer, wrong>>
  BY <1>0, ServeFacts
<1>2. PICK e \in Execute(op) : /\ pipe' = Append(pipe, AnswerTo(op, e.v))
                               /\ AnswerTo(op, e.v) \in Message
                               /\ m'.is = e.is /\ m'.opened = e.opened
  BY <1>0, ServeFacts
<1> DEFINE x == AnswerTo(op, e.v)
           b == <<x>>
<1>3. /\ ~m.opened /\ op # "open" => ~e.opened
      /\ IF Tells(x, f) THEN e.is[f] = e.v ELSE e.is[f] = m.is[f]
  BY <1>0, <1>1, <1>2, ExecuteNews DEF TypeOK
<1>4. x.v = e.v /\ x.op = op /\ op # "none"
  BY <1>1 DEF AnswerTo, Ops, Queries
<1> HIDE DEF x
<1>5. b \in Seq(Message) /\ pipe' = pipe \o b
  BY <1>0, <1>2, AppendIsConcat DEF x
<1>6. DOMAIN b = {1} /\ b[1] = x
  OBVIOUS
<1> HIDE DEF b
<1>7. \A i \in DOMAIN b : Tells(b[i], f) => b[i].v = e.is[f]
  BY <1>3, <1>4, <1>6
<1>8. Quiet(b, f) <=> ~Tells(x, f)
  BY <1>6 DEF Quiet
<1>9. /\ ~Quiet(b, f) \/ Latest(pipe, f, e.is[f]) => Latest(pipe', f, e.is[f])
      /\ Quiet(pipe', f) => Quiet(pipe, f) /\ Quiet(b, f)
  BY <1>0, <1>5, <1>7, ConcatFacts
<1>10. ~RspTells(f) /\ ~RspTells(f)'
  BY <1>1 DEF RspTells
<1>11. CASE m.opened
  <2>1. FieldInv(f)
    BY <1>11 DEF NewsInv
  <2>2. Latest(pipe', f, e.is[f])
    BY <1>3, <1>8, <1>9, <2>1 DEF FieldInv
  <2>3. Quiet(pipe', f) => Quiet(pipe, f) /\ e.is[f] = m.is[f]
    BY <1>3, <1>8, <1>9
  <2>4. QED
    BY <1>1, <1>2, <1>10, <2>1, <2>2, <2>3 DEF FieldInv, Held
<1>12. CASE ~m.opened
  <2>1. op = "open" /\ ~open_state
    BY <1>2, <1>3, <1>12 DEF OpenInv
  <2>2. /\ \A i \in DOMAIN pipe : Refusal(pipe[i]) /\ pipe[i].op = "none"
        /\ Held => Refusal(rdMsg) /\ rdMsg.op = "none"
    BY <1>1, <1>12, <2>1 DEF OpenInv, FlightInv
  <2>3. DOMAIN pipe = {} /\ ~Held
    BY <2>2 DEF Refusal
  <2>4. ~Tells(x, f)
    BY <1>4, <2>1 DEF Tells, Queries
  <2>5. Latest(pipe, f, e.is[f])
    BY <2>3 DEF Latest
  <2>6. QED
    BY <1>1, <1>2, <1>9, <1>10, <2>1, <2>3, <2>5 DEF FieldInv, Held
<1>13. QED
  BY <1>11, <1>12

\* The modem indicates what has changed.
LEMMA ChangeNews ==
  ASSUME IInv, NewsInv, InLoop, Change, m.opened, NEW f \in Fields
  PROVE  FieldInv(f)'
<1>0. TypeOK /\ WireInv /\ pipe \in Seq(Message)
  BY DEF IInv, WireInv
<1>1. PICK t \in Successors(m.is) :
        /\ m'.is = t /\ Notices(m.is, t) \in Seq(Message)
        /\ pipe' = IF m.opened THEN pipe \o Notices(m.is, t) ELSE pipe
        /\ \A x \in Items(Notices(m.is, t)) : x.op = "none" /\ x.v = t[x.f]
        /\ \A h \in Fields : (m.is[h] # t[h]) <=> ~Quiet(Notices(m.is, t), h)
  BY <1>0, ChangeFacts
<1> DEFINE b == Notices(m.is, t)
<1>2. \A i \in DOMAIN b : Tells(b[i], f) => b[i].v = t[f]
  <2>1. \A i \in DOMAIN b : b[i].op = "none" /\ b[i].v = t[b[i].f]
    BY <1>1 DEF Items
  <2>2. QED
    BY <2>1 DEF Tells, Queries
<1>3. b \in Seq(Message) /\ pipe' = pipe \o b
  BY <1>1
<1>4. (m.is[f] # t[f]) <=> ~Quiet(b, f)
  BY <1>1
<1> HIDE DEF b
<1>5. /\ ~Quiet(b, f) \/ Latest(pipe, f, t[f]) => Latest(pipe', f, t[f])
      /\ Quiet(pipe', f) => Quiet(pipe, f) /\ Quiet(b, f)
  <2> DEFINE v == t[f]
  <2>1. \A i \in DOMAIN b : Tells(b[i], f) => b[i].v = v
    BY <1>2
  <2> HIDE DEF v
  <2>2. /\ ~Quiet(b, f) \/ Latest(pipe, f, v) => Latest(pipe \o b, f, v)
        /\ Quiet(pipe \o b, f) => Quiet(pipe, f) /\ Quiet(b, f)
    BY <1>0, <1>3, <2>1, ConcatFacts
  <2>3. QED
    BY <1>3, <2>2 DEF v
<1>6. FieldInv(f) /\ UNCHANGED <<op, rsp, open_state, st, rd, rdMsg, newer, wrong>>
  BY DEF NewsInv, Change, command, beliefs, reader, history
<1>7. Latest(pipe', f, t[f])
  BY <1>4, <1>5, <1>6 DEF FieldInv
<1>8. Quiet(pipe', f) => Quiet(pipe, f) /\ t[f] = m.is[f]
  BY <1>4, <1>5
<1>9. RspTells(f)' <=> RspTells(f)
  BY <1>6 DEF RspTells
<1>10. QED
  BY <1>1, <1>6, <1>7, <1>8, <1>9 DEF FieldInv, Held

\* What the program believes follows what the modem says.
LEMMA NewsStep ==
  ASSUME IInv, FlightInv, OpenInv, NewsInv, [Next]_vars
  PROVE  NewsInv'
<1> SUFFICES ASSUME InLoop', m'.opened, NEW f \in Fields PROVE FieldInv(f)'
  BY DEF NewsInv
<1>0. TypeOK /\ WireInv /\ PcInv /\ pipe \in Seq(Message)
  BY DEF IInv, WireInv
<1>1. InLoop /\ (LoopTurn \/ Aside \/ Messaging \/ External)
  BY <1>0, LoopSteps
<1>2. m.opened => FieldInv(f)
  BY <1>1 DEF NewsInv
<1>3. CASE LoopTurn
  <2>1. m.opened
    BY <1>0, <1>3, TurnFacts
  <2>2. QED
    BY <1>1, <1>3, <2>1, TurnNews
<1>4. CASE Aside
  <2>1. RspTells(f)' <=> RspTells(f)
    BY <1>4 DEF Aside, RspTells
  <2>2. QED
    BY <1>2, <1>4, <2>1 DEF Aside, FieldInv
<1>5. CASE Read
  <2>1. /\ ~Held /\ pipe # <<>> /\ pipe' = Tail(pipe) /\ rdMsg' = Head(pipe) /\ rd' = "msg"
        /\ UNCHANGED <<op, rsp, open_state, st, m, newer, wrong>>
    BY <1>5 DEF Read, command, beliefs, world, history, Held
  <2>2. /\ Latest(pipe, f, m.is[f]) => Latest(pipe', f, m.is[f])
        /\ Quiet(pipe', f) /\ ~Tells(rdMsg', f) => Quiet(pipe, f)
        /\ Quiet(pipe', f) /\ Tells(rdMsg', f) /\ Latest(pipe, f, m.is[f]) => rdMsg'.v = m.is[f]
    BY <1>0, <2>1, TailFacts
  <2>3. RspTells(f)' <=> RspTells(f)
    BY <2>1 DEF RspTells
  <2>4. QED
    BY <1>2, <2>1, <2>2, <2>3 DEF FieldInv, Held
<1>6. CASE Deliver
  <2>1. /\ Held /\ rdMsg.op # "none" /\ rd' = "poll"
        /\ UNCHANGED <<op, open_state, st, pipe, m, wrong>>
    BY <1>6 DEF Deliver, beliefs, world, Held
  <2>2. rdMsg.op = op /\ rsp = NULL /\ rsp' = rdMsg.v /\ newer' = {}
    BY <1>1, <1>6, <2>1 DEF FlightInv, Deliver
  <2>3. rsp' # NULL
    BY <1>0, <2>1, <2>2, HandFacts
  <2>4. ~RspTells(f) /\ (RspTells(f)' <=> Tells(rdMsg, f)) /\ ~Fell(rdMsg)
    BY <2>1, <2>2, <2>3 DEF RspTells, Tells, Fell
  <2>5. QED
    BY <1>2, <2>1, <2>2, <2>4 DEF FieldInv, Held
<1>7. CASE Indicated \/ Unlock
  <2>1. m.opened
    BY <1>7 DEF Indicated, Unlock, world
  <2>2. QED
    BY <1>1, <1>7, <2>1, HandNews
<1>8. CASE Serve
  BY <1>1, <1>8, ServeNews
<1>9. CASE Ignore
  <2>1. UNCHANGED <<op, rsp, open_state, st, rd, rdMsg, pipe, m, newer, wrong>>
    BY <1>9 DEF Ignore, beliefs, reader, world, history
  <2>2. RspTells(f)' <=> RspTells(f)
    BY <2>1 DEF RspTells
  <2>3. QED
    BY <1>2, <2>1, <2>2 DEF FieldInv, Held
<1>10. CASE Change
  <2>1. m.opened
    BY <1>10 DEF Change
  <2>2. QED
    BY <1>1, <1>10, <2>1, ChangeNews
<1>11. CASE Suspend
  BY <1>11 DEF Suspend
<1>12. QED
  BY <1>1, <1>3, <1>4, <1>5, <1>6, <1>7, <1>8, <1>9, <1>10, <1>11 DEF Messaging, External
\* One message sequence after another.
LEMMA GrowFacts ==
  ASSUME NEW S, NEW a \in Seq(S), NEW b \in Seq(S)
  PROVE  /\ \A i \in DOMAIN a : i \in Nat /\ i \in DOMAIN (a \o b) /\ (a \o b)[i] = a[i]
         /\ \A i \in DOMAIN b : /\ i + Len(a) \in DOMAIN (a \o b) /\ (a \o b)[i + Len(a)] = b[i]
                                /\ \A j \in DOMAIN a : i + Len(a) > j
         /\ \A i \in DOMAIN (a \o b) : \/ i \in DOMAIN a
                                       \/ i - Len(a) \in DOMAIN b /\ (a \o b)[i] = b[i - Len(a)]
<1> DEFINE c == a \o b
<1>1. /\ Len(a) \in Nat /\ Len(b) \in Nat /\ DOMAIN a = 1..Len(a) /\ DOMAIN b = 1..Len(b)
      /\ DOMAIN c = 1..(Len(a) + Len(b))
      /\ \A i \in DOMAIN c : c[i] = IF i <= Len(a) THEN a[i] ELSE b[i - Len(a)]
  BY ConcatProperties, LenProperties
<1> HIDE DEF c
<1>2. \A i \in DOMAIN a : i \in Nat /\ i \in DOMAIN c /\ c[i] = a[i]
  BY <1>1
<1>3. \A i \in DOMAIN b : /\ i + Len(a) \in DOMAIN c /\ c[i + Len(a)] = b[i]
                          /\ \A j \in DOMAIN a : i + Len(a) > j
  BY <1>1
<1>4. \A i \in DOMAIN c : i \in DOMAIN a \/ (i - Len(a) \in DOMAIN b /\ c[i] = b[i - Len(a)])
  BY <1>1
<1>5. QED
  BY <1>2, <1>3, <1>4 DEF c

\* The modem answers: the configuration is given only while there is a call.
LEMMA ServeCall ==
  ASSUME IInv, FlightInv, OpenInv, CallInv, InLoop, Serve
  PROVE  CallInv'
<1> SUFFICES ASSUME m'.opened, m'.is["act"] # "activated" PROVE CallInv'
  BY DEF CallInv
<1>0. TypeOK /\ WireInv /\ pipe \in Seq(Message)
  BY DEF IInv, WireInv
<1>1. /\ op \in Ops \ {"disconnect", "close"} /\ toModem # <<>> /\ rsp = NULL
      /\ UNCHANGED <<op, rsp, open_state, net, raced, rd, rdMsg, newer>>
  BY <1>0, ServeFacts
<1>2. PICK e \in Execute(op) : /\ pipe' = Append(pipe, AnswerTo(op, e.v))
                               /\ AnswerTo(op, e.v) \in Message
                               /\ m'.is = e.is /\ m'.opened = e.opened
  BY <1>0, ServeFacts
<1> DEFINE x == AnswerTo(op, e.v)
<1>3. /\ ~m.opened /\ op # "open" => ~e.opened
      /\ m.is["act"] # "activated"
      /\ ~(op = "ip" /\ e.v = "config")
  BY <1>0, <1>1, <1>2, ExecuteNews DEF TypeOK
<1>4. ~Config(x)
  BY <1>3 DEF AnswerTo, Config
<1> HIDE DEF x
<1>5. /\ \A i \in DOMAIN pipe : i \in DOMAIN pipe' /\ pipe'[i] = pipe[i]
      /\ \A i \in DOMAIN pipe' : i \in DOMAIN pipe \/ pipe'[i] = x
  BY <1>0, <1>2, AppendFacts DEF x
<1>6. (EndInPipe => EndInPipe') /\ (EndTold => EndTold')
  BY <1>1, <1>5 DEF EndInPipe, EndTold
<1>7. rsp # "config"
  BY <1>0, <1>1, HandFacts, WordFacts
<1>8. CASE m.opened
  <2>1. /\ net /\ ~raced => EndTold
        /\ \A i \in DOMAIN pipe : Config(pipe[i]) => \E j \in DOMAIN pipe : j > i /\ IsEnd(pipe[j])
        /\ Held /\ Config(rdMsg) => EndInPipe
    BY <1>3, <1>8 DEF CallInv
  <2>2. ASSUME NEW i \in DOMAIN pipe', Config(pipe'[i])
        PROVE  \E j \in DOMAIN pipe' : j > i /\ IsEnd(pipe'[j])
    <3>1. i \in DOMAIN pipe /\ Config(pipe[i])
      BY <1>4, <1>5, <2>2
    <3>2. PICK j \in DOMAIN pipe : j > i /\ IsEnd(pipe[j])
      BY <2>1, <3>1
    <3>3. QED
      BY <1>5, <3>2
  <2>3. Held' /\ Config(rdMsg') => EndInPipe'
    BY <1>1, <1>6, <2>1 DEF Held
  <2>4. QED
    BY <1>1, <1>6, <1>7, <2>1, <2>2, <2>3 DEF CallInv
<1>9. CASE ~m.opened
  <2>1. op = "open" /\ ~open_state /\ ~net
    BY <1>2, <1>3, <1>9 DEF OpenInv
  <2>2. /\ \A i \in DOMAIN pipe : Refusal(pipe[i]) /\ pipe[i].op = "none"
        /\ Held => Refusal(rdMsg) /\ rdMsg.op = "none"
    BY <1>1, <1>9, <2>1 DEF OpenInv, FlightInv
  <2>3. DOMAIN pipe = {} /\ ~Held
    BY <2>2 DEF Refusal
  <2>4. \A i \in DOMAIN pipe' : ~Config(pipe'[i])
    BY <1>4, <1>5, <2>3
  <2>5. QED
    BY <1>1, <1>7, <2>1, <2>3, <2>4 DEF CallInv, Held
<1>10. QED
  BY <1>8, <1>9

\* The end of a call is indicated after everything the modem said before.
LEMMA ChangeCall ==
  ASSUME IInv, CallInv, InLoop, Change, m'.opened, m'.is["act"] # "activated"
  PROVE  CallInv'
<1>0. TypeOK /\ WireInv /\ pipe \in Seq(Message)
  BY DEF IInv, WireInv
<1>1. m.opened /\ UNCHANGED <<op, rsp, net, raced, rd, rdMsg, newer>>
  BY DEF Change, command, beliefs, reader, history
<1>2. PICK t \in Successors(m.is) :
        /\ m.is \in Modem /\ m'.is = t /\ Notices(m.is, t) \in Seq(Message)
        /\ pipe' = IF m.opened THEN pipe \o Notices(m.is, t) ELSE pipe
        /\ \A x \in Items(Notices(m.is, t)) : x.op = "none" /\ x.v = t[x.f]
        /\ \A h \in Fields : (m.is[h] # t[h]) <=> ~Quiet(Notices(m.is, t), h)
  BY <1>0, ChangeFacts
<1> DEFINE b == Notices(m.is, t)
<1>3. \A i \in DOMAIN b : b[i].op = "none" /\ b[i].v = t[b[i].f]
  BY <1>2 DEF Items
<1>4. m.is["act"] # t["act"] => ~Quiet(b, "act")
  BY <1>2, FieldFacts
<1>5. b \in Seq(Message) /\ pipe' = pipe \o b
  BY <1>1, <1>2
<1> HIDE DEF b
<1>6. /\ \A i \in DOMAIN pipe : i \in Nat /\ i \in DOMAIN pipe' /\ pipe'[i] = pipe[i]
      /\ \A i \in DOMAIN b : /\ i + Len(pipe) \in DOMAIN pipe' /\ pipe'[i + Len(pipe)] = b[i]
                             /\ \A j \in DOMAIN pipe : i + Len(pipe) > j
      /\ \A i \in DOMAIN pipe' : \/ i \in DOMAIN pipe
                                 \/ i - Len(pipe) \in DOMAIN b /\ pipe'[i] = b[i - Len(pipe)]
  BY <1>0, <1>5, GrowFacts
<1>7. \A i \in DOMAIN pipe' : Config(pipe'[i]) => i \in DOMAIN pipe /\ Config(pipe[i])
  BY <1>3, <1>6 DEF Config
<1>8. CASE m.is["act"] = "activated"
  <2>1. t["act"] = "deactivated"
    BY <1>2, <1>8, CallEnds
  <2>2. PICK i \in DOMAIN b : Tells(b[i], "act")
    BY <1>4, <1>8, <2>1 DEF Quiet
  <2>3. IsEnd(b[i])
    BY <1>3, <2>1, <2>2 DEF IsEnd, Tells, Queries
  <2> DEFINE k == i + Len(pipe)
  <2>4. k \in DOMAIN pipe' /\ IsEnd(pipe'[k]) /\ \A j \in DOMAIN pipe : k > j
    BY <1>6, <2>3
  <2> HIDE DEF k
  <2>5. EndInPipe' /\ EndTold'
    BY <2>4 DEF EndInPipe, EndTold
  <2>6. \A h \in DOMAIN pipe' : Config(pipe'[h]) => k > h
    BY <1>7, <2>4
  <2>7. QED
    BY <2>4, <2>5, <2>6 DEF CallInv
<1>9. CASE m.is["act"] # "activated"
  <2>1. (EndInPipe => EndInPipe') /\ (EndTold => EndTold')
    BY <1>1, <1>6 DEF EndInPipe, EndTold
  <2>2. /\ net /\ ~raced => EndTold
        /\ \A i \in DOMAIN pipe : Config(pipe[i]) => \E j \in DOMAIN pipe : j > i /\ IsEnd(pipe[j])
        /\ Held /\ Config(rdMsg) => EndInPipe
        /\ op = "ip" /\ rsp = "config" /\ "act" \notin newer => EndTold
    BY <1>1, <1>9 DEF CallInv
  <2>3. ASSUME NEW i \in DOMAIN pipe', Config(pipe'[i])
        PROVE  \E j \in DOMAIN pipe' : j > i /\ IsEnd(pipe'[j])
    <3>1. PICK j \in DOMAIN pipe : j > i /\ IsEnd(pipe[j])
      BY <1>7, <2>2, <2>3
    <3>2. QED
      BY <1>6, <3>1
  <2>4. Held' /\ Config(rdMsg') => EndInPipe'
    BY <1>1, <2>1, <2>2 DEF Held
  <2>5. QED
    BY <1>1, <2>1, <2>2, <2>3, <2>4 DEF CallInv
<1>10. QED
  BY <1>8, <1>9
\* The main thread configures the interface knowing of the end of the call, or before it
\* is told, or after, which the history records.
LEMMA TurnCall ==
  ASSUME IInv, OpenInv, CallInv, InLoop, LoopTurn
  PROVE  CallInv'
<1> SUFFICES ASSUME m'.opened, m'.is["act"] # "activated" PROVE CallInv'
  BY DEF CallInv
<1>0. TypeOK /\ WireInv /\ PcInv
  BY DEF IInv
<1>1. rsp' = NULL /\ UNCHANGED <<rd, rdMsg, pipe, m>>
  BY <1>0, TurnFacts
<1>2. rsp' # "config"
  BY <1>0, <1>1, HandFacts, WordFacts
<1>3. /\ net /\ ~raced => EndTold
      /\ \A i \in DOMAIN pipe : Config(pipe[i]) => \E j \in DOMAIN pipe : j > i /\ IsEnd(pipe[j])
      /\ Held /\ Config(rdMsg) => EndInPipe
      /\ op = "ip" /\ rsp = "config" /\ "act" \notin newer => EndTold
  BY <1>1 DEF CallInv
<1>4. \/ UNCHANGED <<net, raced>>
      \/ ~net'
      \/ op = "ip" /\ rsp = "config" /\ raced' = ("act" \in newer)
  <2>1. CASE LoopHead
    BY <2>1 DEF LoopHead, Deconfigure
  <2>2. CASE Round \/ OpenAnswered \/ InitAnswered
    BY <2>2 DEF Round, OpenAnswered, InitAnswered, beliefs
  <2>3. CASE \E o \in Queries : QueryAnswered(o)
    BY <2>3 DEF QueryAnswered, Assign
  <2>4. CASE IpAnswered
    <3>1. rsp # "not_opened"
      BY <1>1 DEF OpenInv
    <3>2. QED
      BY <2>4, <3>1 DEF IpAnswered, Answered, Configure
  <2>5. QED
    BY <2>1, <2>2, <2>3, <2>4 DEF LoopTurn
<1>5. net' /\ ~raced' => EndTold
  BY <1>3, <1>4
<1>6. QED
  BY <1>1, <1>2, <1>3, <1>5 DEF CallInv, EndTold, EndInPipe, Held

\* The reader handles a message: the end of a call takes the interface down.
LEMMA HandCall ==
  ASSUME IInv, FlightInv, CallInv, InLoop, Messaging
  PROVE  CallInv'
<1> SUFFICES ASSUME m'.opened, m'.is["act"] # "activated" PROVE CallInv'
  BY DEF CallInv
<1>0. TypeOK /\ WireInv /\ pipe \in Seq(Message)
  BY DEF IInv, WireInv
<1>1. m' = m
  BY DEF Messaging, Read, Deliver, Indicated, Unlock, world
<1>2. /\ net /\ ~raced => EndTold
      /\ \A i \in DOMAIN pipe : Config(pipe[i]) => \E j \in DOMAIN pipe : j > i /\ IsEnd(pipe[j])
      /\ Held /\ Config(rdMsg) => EndInPipe
      /\ op = "ip" /\ rsp = "config" /\ "act" \notin newer => EndTold
  BY <1>1 DEF CallInv
<1>3. CASE Read
  <2>1. /\ rd = "poll" /\ pipe # <<>> /\ pipe' = Tail(pipe) /\ rdMsg' = Head(pipe) /\ rd' = "msg"
        /\ UNCHANGED <<op, rsp, net, newer, raced>>
    BY <1>3 DEF Read, command, beliefs, history
  <2>2. /\ Head(pipe) = pipe[1] /\ 1 \in DOMAIN pipe /\ \A i \in DOMAIN pipe : i \in Nat
        /\ \A i \in DOMAIN pipe' : i \in Nat \ {0} /\ i + 1 \in DOMAIN pipe /\ pipe'[i] = pipe[i + 1]
        /\ \A i \in DOMAIN pipe : i # 1 => i - 1 \in DOMAIN pipe' /\ pipe'[i - 1] = pipe[i]
    BY <1>0, <2>1, ReadFacts
  <2>3. ASSUME NEW i \in DOMAIN pipe', Config(pipe'[i])
        PROVE  \E j \in DOMAIN pipe' : j > i /\ IsEnd(pipe'[j])
    <3>1. i + 1 \in DOMAIN pipe /\ Config(pipe[i + 1]) /\ i \in Nat \ {0}
      BY <2>2, <2>3
    <3>2. PICK j \in DOMAIN pipe : j > i + 1 /\ IsEnd(pipe[j])
      BY <1>2, <3>1
    <3>3. j \in Nat /\ j # 1 /\ j - 1 > i
      BY <2>2, <3>1, <3>2
    <3>4. j - 1 \in DOMAIN pipe' /\ IsEnd(pipe'[j - 1])
      BY <2>2, <3>2, <3>3
    <3>5. QED
      BY <3>3, <3>4
  <2>4. ASSUME EndInPipe PROVE EndTold'
    <3>1. PICK j \in DOMAIN pipe : IsEnd(pipe[j])
      BY <2>4 DEF EndInPipe
    <3>2. CASE j = 1
      <4>1. rd' = "msg" /\ IsEnd(rdMsg')
        BY <2>1, <2>2, <3>1, <3>2
      <4>2. QED
        BY <4>1 DEF EndTold, IsEnd
    <3>3. CASE j # 1
      <4>1. j - 1 \in DOMAIN pipe' /\ IsEnd(pipe'[j - 1])
        BY <2>2, <3>1, <3>3
      <4>2. QED
        BY <4>1 DEF EndTold, EndInPipe
    <3>4. QED
      BY <3>2, <3>3
  <2>5. ASSUME Config(rdMsg') PROVE EndInPipe'
    <3>1. Config(pipe[1])
      BY <2>1, <2>2, <2>5
    <3>2. PICK j \in DOMAIN pipe : j > 1 /\ IsEnd(pipe[j])
      BY <1>2, <2>2, <3>1
    <3>3. j # 1
      BY <2>2, <3>2
    <3>4. QED
      BY <2>2, <3>2, <3>3 DEF EndInPipe
  <2>6. EndTold => EndInPipe
    BY <2>1 DEF EndTold
  <2>7. QED
    BY <1>2, <2>1, <2>3, <2>4, <2>5, <2>6 DEF CallInv
<1>4. CASE Deliver
  <2>1. Held /\ rdMsg.op # "none" /\ rd' = "poll" /\ UNCHANGED <<op, net, raced, pipe>>
    BY <1>4 DEF Deliver, beliefs, history, Held
  <2>2. rdMsg.op = op /\ rsp' = rdMsg.v
    BY <1>4, <2>1 DEF FlightInv, Deliver
  <2>3. (EndTold => EndInPipe) /\ (EndInPipe => EndTold')
    BY <2>1 DEF EndTold, EndInPipe, IsEnd
  <2>4. op' = "ip" /\ rsp' = "config" => EndInPipe
    BY <1>2, <2>1, <2>2 DEF Config
  <2>5. QED
    BY <1>2, <2>1, <2>3, <2>4 DEF CallInv, Held, EndInPipe
<1>5. CASE Indicated \/ Unlock
  <2>1. /\ rd \in {"msg", "holding"} /\ rdMsg.op = "none" /\ UNCHANGED <<op, rsp, pipe>>
        /\ rdMsg' = rdMsg \/ NextMessage
    BY <1>0, <1>5 DEF Indicated, Unlock, WireInv, command
  <2>2. Held' => ~Config(rdMsg')
    BY <2>1 DEF NextMessage, Indication, Config, Held
  <2>3. EndInPipe => EndTold'
    BY <2>1 DEF EndTold, EndInPipe
  <2>4. CASE Indicated /\ IsEnd(rdMsg)
    <3>1. ~net' /\ newer' = IF rsp # NULL THEN newer \cup {"act"} ELSE newer
      BY <2>4 DEF Indicated, DownWithCall, Deconfigure, IsEnd
    <3>2. "config" # NULL
      BY <1>0, HandFacts, WordFacts
    <3>3. rsp' = "config" => "act" \in newer'
      BY <2>1, <3>1, <3>2
    <3>4. QED
      BY <1>2, <2>1, <2>2, <3>1, <3>3 DEF CallInv
  <2>5. CASE Indicated /\ ~IsEnd(rdMsg)
    <3>1. UNCHANGED <<net, raced>> /\ newer \subseteq newer'
      BY <2>1, <2>5 DEF Indicated, DownWithCall, IsEnd
    <3>2. EndTold => EndInPipe
      BY <2>5 DEF EndTold
    <3>3. QED
      BY <1>2, <2>1, <2>2, <2>3, <3>1, <3>2 DEF CallInv
  <2>6. CASE Unlock
    <3>1. rd = "holding" /\ UNCHANGED <<net, raced, newer>>
      BY <2>6 DEF Unlock, beliefs, history
    <3>2. EndTold => EndInPipe
      BY <3>1 DEF EndTold
    <3>3. QED
      BY <1>2, <2>1, <2>2, <2>3, <3>1, <3>2 DEF CallInv
  <2>7. QED
    BY <1>5, <2>4, <2>5, <2>6
<1>6. QED
  BY <1>3, <1>4, <1>5 DEF Messaging

\* The interface has a call, or the end of the call is on its way.
LEMMA CallStep ==
  ASSUME IInv, FlightInv, OpenInv, CallInv, [Next]_vars
  PROVE  CallInv'
<1> SUFFICES ASSUME InLoop', m'.opened, m'.is["act"] # "activated" PROVE CallInv'
  BY DEF CallInv
<1>0. TypeOK /\ WireInv /\ PcInv
  BY DEF IInv
<1>1. InLoop /\ (LoopTurn \/ Aside \/ Messaging \/ External)
  BY <1>0, LoopSteps
<1>2. CASE Aside
  BY <1>1, <1>2 DEF Aside, CallInv, EndTold, EndInPipe
<1>3. CASE Ignore
  <2>1. UNCHANGED <<op, rsp, net, rd, rdMsg, pipe, m, newer, raced>>
    BY <1>3 DEF Ignore, beliefs, reader, world, history
  <2>2. QED
    BY <1>1, <2>1 DEF CallInv, EndTold, EndInPipe, Held
<1>4. CASE Suspend
  BY <1>4 DEF Suspend
<1>5. CASE LoopTurn
  BY <1>1, <1>5, TurnCall
<1>6. CASE Messaging
  BY <1>1, <1>6, HandCall
<1>7. CASE Serve
  BY <1>1, <1>7, ServeCall
<1>8. CASE Change
  BY <1>1, <1>8, ChangeCall
<1>9. QED
  BY <1>1, <1>2, <1>3, <1>4, <1>5, <1>6, <1>7, <1>8 DEF External
-------------------------------------------------------------------------------
(* The theorems.                                                            *)

LEMMA InitBInv == Init => BInv
<1> SUFFICES ASSUME Init PROVE BInv
  OBVIOUS
<1>1. IInv
  BY InitIInv
<1>2. /\ m.opened = FALSE /\ toModem = <<>> /\ pipe = <<>> /\ rd = "poll" /\ rsp = NULL
      /\ op = "none" /\ open_state = FALSE /\ net = FALSE
  BY DEF Init
<1>3. DOMAIN pipe = {} /\ ~Held
  BY <1>2 DEF Held
<1>4. rsp # "not_opened"
  BY <1>1, <1>2, HandFacts, WordFacts DEF IInv
<1>5. FlightInv
  BY <1>2, <1>3 DEF FlightInv
<1>6. OpenInv
  BY <1>2, <1>3, <1>4 DEF OpenInv
<1>7. NewsInv /\ CallInv
  BY <1>2 DEF NewsInv, CallInv
<1>8. QED
  BY <1>1, <1>5, <1>6, <1>7 DEF BInv

\* The news of each variable and of the end of the call is never lost: the newest value on
\* its way to the program is the modem's own, and an answer that configures the interface
\* is followed by the end of the call when there is none any more.
THEOREM BeliefInvariance == Spec => []BInv
<1>1. BInv /\ [Next]_vars => BInv'
  <2> SUFFICES ASSUME BInv, [Next]_vars PROVE BInv'
    OBVIOUS
  <2>1. IInv /\ FlightInv /\ OpenInv /\ NewsInv /\ CallInv
    BY DEF BInv
  <2>2. IInv'
    BY <2>1, IInvStep
  <2>3. FlightInv' /\ OpenInv'
    BY <2>1, FlightStep, OpenStep
  <2>4. NewsInv' /\ CallInv'
    BY <2>1, NewsStep, CallStep
  <2>5. QED
    BY <2>2, <2>3, <2>4 DEF BInv
<1>2. QED
  BY <1>1, InitBInv, PTL DEF Spec

\* What is in the pipe or in the hands of the reader is under way.
LEMMA MessageFacts ==
  ASSUME TypeOK, WireInv
  PROVE  /\ \A i \in DOMAIN pipe : pipe[i] \in Messages
         /\ Held => rdMsg \in Messages
         /\ \A f \in Fields : \A x \in Messages : Tells(x, f) => UnderWay(f)
         /\ \A f \in Fields : RspTells(f) => UnderWay(f)
<1>1. Held => rdMsg \in Messages
  BY HandFacts DEF Messages
<1>2. \A i \in DOMAIN pipe : pipe[i] \in Messages
  BY DEF Messages
<1>3. \A q \in Queries : q \in DOMAIN Sets
  BY DEF Queries, Sets
<1>4. \A f \in Fields : \A x \in Messages : Tells(x, f) => UnderWay(f)
  BY <1>3 DEF Tells, UnderWay
<1>5. \A f \in Fields : RspTells(f) => UnderWay(f)
  BY <1>3 DEF RspTells, UnderWay
<1>6. QED
  BY <1>1, <1>2, <1>4, <1>5

\* What the program believes of an open modem is true, or news of it is under way, although
\* the main thread and the reader thread both write the state variables (BeliefAgrees).
THEOREM Beliefs == Spec => []BeliefAgrees
<1>1. BInv => BeliefAgrees
  <2> SUFFICES ASSUME BInv, InLoop, open_state, m.opened, NEW f \in Fields \ wrong, ~UnderWay(f)
               PROVE  st[f] \in {Unset[f], m.is[f]}
    BY DEF BeliefAgrees
  <2>1. TypeOK /\ WireInv /\ FieldInv(f)
    BY DEF BInv, IInv, NewsInv
  <2>2. Quiet(pipe, f) /\ ~(Held /\ Tells(rdMsg, f)) /\ ~RspTells(f)
    BY <2>1, MessageFacts DEF Quiet
  <2>3. QED
    BY <2>1, <2>2 DEF FieldInv
<1>2. QED
  BY <1>1, BeliefInvariance, PTL

\* The interface is up only with a call in the modem, or while the end of the call is under
\* way, unless the configuration raced with it (NetNeedsCall).
THEOREM NetHasCall == Spec => []NetNeedsCall
<1>1. BInv => NetNeedsCall
  <2> SUFFICES ASSUME BInv, net, InLoop, m.opened, ~raced, m.is.act # "activated"
               PROVE  UnderWay("act")
    BY DEF NetNeedsCall
  <2>1. TypeOK /\ WireInv /\ CallInv
    BY DEF BInv, IInv
  <2>2. m.is \in State
    BY <2>1 DEF TypeOK, Modem
  <2>3. EndTold
    BY <2>1, <2>2, StateFacts DEF CallInv
  <2>4. \E x \in Messages : IsEnd(x)
    BY <2>1, <2>3, MessageFacts DEF EndTold, EndInPipe, Held
  <2>5. QED
    BY <2>4 DEF IsEnd, UnderWay
<1>2. QED
  BY <1>1, BeliefInvariance, PTL
===============================================================================
