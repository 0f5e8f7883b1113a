---------------------------- MODULE MbimRoundProofs ----------------------------
(***************************************************************************)
(* Proofs about the rounds of the MBIM dialler's loop: whatever the reader *)
(* thread makes of the state variables meanwhile, the main thread goes     *)
(* through its round and its waits towards the next round, in which a      *)
(* modem that is not open is opened and a call that is down is dialled.    *)
(* Only a notification or a signal within the second wait, the one of a    *)
(* second without news, puts the next round off.                           *)
(***************************************************************************)
EXTENDS MbimMainProofs

\* The way through a round, the first wait ("long" or "retry") and the second ("settle") to
\* the head of the loop: the steps that are left at most.  A wait that ends, by a signal or
\* by its time, is followed by another second wait unless that was one and its time is over.
Awake == [woken |-> 3, signalled |-> 2, timedout |-> 2, settle |-> 1]
OfSlice(i) == [sleep |-> 3 * Slices + 4, locked |-> 3 * (Slices - i) + 6,
               asleep |-> 3 * (Slices - i) + 5, gap |-> 3 * (Slices - i) + 4, timedout |-> 3]
WaitRank(l, w, i) ==
  IF l = "head" THEN 0
  ELSE IF l \in DOMAIN Awake /\ (l = "timedout" => w # "settle") THEN 3 * Slices + 4 + Awake[l]
  ELSE OfSlice(i)[l] + (IF w = "settle" THEN 0 ELSE 3 * Slices + 7)
LoopRank == IF Place \in DOMAIN OfRound THEN 6 * Slices + 11 + OfRound[Place]
            ELSE WaitRank(pc, wt, slice)

\* News, or a signal, in the second wait: it begins again.
WokenInSettle == pc = "asleep" /\ wt = "settle" /\ (Notify \/ StopSignal)

\* From the answer that says that the modem is not open, every move of the main thread
\* brings the next open nearer, unless it leaves the loop, and nothing else makes it
\* take the modem for open again.
ReopenNearer ==
  [][InLoop /\ ~open_state /\ op # "open" =>
       \/ op' = "open" \/ ~InLoop'
       \/ /\ ~open_state'
          /\ UNCHANGED <<pc, op>> \/ WokenInSettle \/ LoopRank' < LoopRank]_vars

\* While the call is known to be down and the modem is attached as far as the program knows,
\* every move of the main thread brings the connect command nearer: in a round before it
\* by the tests and queries that are left, and no wait comes between; else by the way to
\* the next round first.
KnownDown == InLoop /\ Dialable /\ st.act = "deactivated" /\ op # "connect"
DialRank == IF Place \in DOMAIN OfRound /\ OfRound[Place] > 3 THEN OfRound[Place]
            ELSE 20 + LoopRank
DialNearer ==
  [][KnownDown /\ KnownDown' =>
       UNCHANGED <<pc, op>> \/ WokenInSettle \/ DialRank' < DialRank]_vars

-------------------------------------------------------------------------------

\* The steps that leave the main thread where it is.
Beside == \/ Read \/ Deliver \/ Indicated \/ Unlock \/ ReaderQuits \/ LastUnlock \/ ReaderExits
          \/ Hangup \/ Serve \/ Ignore \/ Change \/ Suspend \/ UNCHANGED vars

\* Inside the loop a step is the main thread's own, or leaves pc, the command and open_state.
LEMMA Steps ==
  ASSUME [Next]_vars, InLoop
  PROVE  \/ LoopHead
         \/ Round \/ CommandDone \/ CommandFails
         \/ Waiting \/ StopSignal \/ Notify
         \/ UNCHANGED <<pc, op>> /\ open_state' = open_state
<1>1. ~Exit /\ ~WhileReader /\ ~KillReader
  BY DEF Exit, WhileReader, KillReader, InLoop
<1>2. Beside => UNCHANGED <<pc, op>> /\ open_state' = open_state
  BY DEF Beside, Read, Deliver, Indicated, Unlock, ReaderQuits, LastUnlock, ReaderExits,
     Hangup, Serve, Ignore, Change, Suspend, vars, command, waiting, beliefs
<1>3. QED
  BY <1>1, <1>2 DEF Next, MainStep, ReaderStep, Waiting, Beside

\* A move within a wait, or from one to the next, shortens the way to the next round, unless
\* the second wait begins again.
LEMMA WaitMoves ==
  ASSUME OpInv, PcInv, InLoop, InLoop', <<pc, op>>' # <<pc, op>>,
         Waiting \/ StopSignal \/ Notify, ~WokenInSettle
  PROVE  /\ Place \notin DOMAIN OfRound /\ Place' \notin DOMAIN OfRound
         /\ LoopRank' < LoopRank /\ LoopRank \in Int /\ LoopRank' \in Int
<1> USE DEF command, waiting, reader
<1> DEFINE AtWait(l) == l \in {"sleep", "locked", "asleep", "gap", "woken", "signalled", "timedout",
                               "settle", "head"}
<1>1. Slices \in Nat \ {0} /\ slice \in 1..Slices /\ wt \in {"long", "retry", "settle"}
  BY Constants DEF OpInv
<1>0. ASSUME NEW l, AtWait(l), NEW w, NEW i \in Int PROVE WaitRank(l, w, i) \in Int
  BY <1>0, <1>1 DEF WaitRank, OfSlice, Awake
<1>12. slice' \in Int
  BY <1>1 DEF Waiting, Lock, Wait, SliceOver, Relock, Rewake, Return, Settle, StopSignal, Notify
<1>2. ASSUME AtWait(pc), AtWait(pc')
      PROVE  /\ Place \notin DOMAIN OfRound /\ Place' \notin DOMAIN OfRound
             /\ LoopRank = WaitRank(pc, wt, slice) /\ LoopRank' = WaitRank(pc', wt', slice')
             /\ LoopRank \in Int /\ LoopRank' \in Int
  <2>1. Place = pc /\ Place' = pc'
    BY <1>2 DEF Place
  <2>2. Place \notin DOMAIN OfRound
    BY <1>2, <2>1, RoundRank
  <2>3. Place' \notin DOMAIN OfRound
    BY <1>2, <2>1, RoundRank
  <2>4. OfRound' = OfRound
    BY DEF OfRound
  <2>5. LoopRank' = WaitRank(pc', wt', slice')
    BY <2>3, <2>4 DEF LoopRank, WaitRank, OfSlice, Awake
  <2>6. LoopRank = WaitRank(pc, wt, slice)
    BY <2>2 DEF LoopRank
  <2>7. LoopRank \in Int /\ LoopRank' \in Int
    BY <1>0, <1>1, <1>2, <1>12, <2>5, <2>6
  <2>8. QED
    BY <2>2, <2>3, <2>5, <2>6, <2>7
<1>3. CASE Lock
  <2>1. pc = "sleep" /\ pc' = "locked" /\ wt' = wt /\ slice' = slice
    BY <1>3 DEF Lock
  <2>2. WaitRank("locked", wt, slice) < WaitRank("sleep", wt, slice)
    BY <1>1 DEF WaitRank, OfSlice, Awake
  <2>3. QED
    BY <1>2, <2>1, <2>2
<1>4. CASE Wait
  <2>1. pc = "locked" /\ pc' = "asleep" /\ wt' = wt /\ slice' = slice
    BY <1>4 DEF Wait
  <2>2. WaitRank("asleep", wt, slice) < WaitRank("locked", wt, slice)
    BY <1>1 DEF WaitRank, OfSlice, Awake
  <2>3. QED
    BY <1>2, <2>1, <2>2
<1>5. CASE SliceOver
  <2>1. pc = "asleep" /\ pc' = "gap" /\ wt' = wt /\ slice' = slice
    BY <1>5 DEF SliceOver
  <2>2. WaitRank("gap", wt, slice) < WaitRank("asleep", wt, slice)
    BY <1>1 DEF WaitRank, OfSlice, Awake
  <2>3. QED
    BY <1>2, <2>1, <2>2
<1>6. CASE Relock
  <2>1. /\ pc = "gap" /\ wt' = wt
        /\ \/ pc' = "locked" /\ slice' = slice + 1 /\ slice < Slices
           \/ pc' = "timedout" /\ slice' = slice
    BY <1>6 DEF Relock
  <2>2. WaitRank("locked", wt, slice + 1) < WaitRank("gap", wt, slice)
    BY <1>1 DEF WaitRank, OfSlice, Awake
  <2>3. WaitRank("timedout", wt, slice) < WaitRank("gap", wt, slice)
    BY <1>1 DEF WaitRank, OfSlice, Awake
  <2>4. QED
    BY <1>2, <2>1, <2>2, <2>3
<1>7. CASE Rewake
  <2>1. pc = "woken" /\ pc' = "signalled" /\ wt' = wt /\ slice' = slice
    BY <1>7 DEF Rewake
  <2>2. WaitRank("signalled", wt, slice) < WaitRank("woken", wt, slice)
    BY <1>1 DEF WaitRank, Awake
  <2>3. QED
    BY <1>2, <2>1, <2>2
<1>8. CASE Return
  <2>1. /\ pc \in {"signalled", "timedout"} /\ wt' = wt /\ slice' = 1
        /\ \/ wt = "settle" /\ pc = "timedout" /\ pc' = "head"
           \/ ~(wt = "settle" /\ pc = "timedout") /\ pc' = "settle"
    BY <1>8 DEF Return
  <2>2. CASE pc' = "head"
    <3>1. WaitRank("head", wt, 1) < WaitRank("timedout", "settle", slice)
      BY <1>1 DEF WaitRank, OfSlice, Awake
    <3>2. QED
      BY <1>2, <2>1, <2>2, <3>1
  <2>3. CASE pc' = "settle"
    <3>1. WaitRank("settle", wt, 1) < WaitRank(pc, wt, slice)
      BY <1>1, <2>1, <2>3 DEF WaitRank, Awake
    <3>2. QED
      BY <1>2, <2>1, <2>3, <3>1
  <2>4. QED
    BY <2>1, <2>2, <2>3
<1>9. CASE Settle
  <2>1. /\ pc = "settle" /\ slice' = slice
        /\ (pc' = "sleep" /\ wt' = "settle") \/ (pc' = "head" /\ wt' = wt)
    BY <1>9 DEF Settle
  <2>2. WaitRank("sleep", "settle", slice) < WaitRank("settle", wt, slice)
    BY <1>1 DEF WaitRank, OfSlice, Awake
  <2>3. WaitRank("head", wt, slice) < WaitRank("settle", wt, slice)
    BY <1>1 DEF WaitRank, Awake
  <2>4. QED
    BY <1>2, <2>1, <2>2, <2>3
<1>10. CASE StopSignal \/ Notify
  <2>1. pc = "asleep" /\ pc' = "woken" /\ slice' = slice /\ wt' = wt
    BY <1>10 DEF StopSignal, Notify, Wake, InLoop
  <2>2. wt # "settle"
    BY <1>10, <2>1 DEF WokenInSettle
  <2>3. WaitRank("woken", wt, slice) < WaitRank("asleep", wt, slice)
    BY <1>1, <2>2 DEF WaitRank, OfSlice, Awake
  <2>4. QED
    BY <1>2, <2>1, <2>3
<1>11. QED
  BY <1>3, <1>4, <1>5, <1>6, <1>7, <1>8, <1>9, <1>10 DEF Waiting

\* A move within a round, or from it to the first wait, shortens the way as well.
LEMMA RoundShortens ==
  ASSUME OpInv, PcInv, InLoop, InLoop', Round \/ CommandDone \/ CommandFails
  PROVE  LoopRank' < LoopRank /\ LoopRank' \in Int
<1>1. Slices \in Nat \ {0}
  BY Constants
<1>2. /\ Place \in DOMAIN OfRound
      /\ \/ Place' = "sleep" /\ pc' = "sleep" /\ wt' \in {"long", "retry"}
         \/ Place' \in DOMAIN OfRound /\ OfRound[Place'] < OfRound[Place]
  BY RoundMoves
<1>3. OfRound' = OfRound
  BY DEF OfRound
<1>4. LoopRank = 6 * Slices + 11 + OfRound[Place] /\ OfRound[Place] \in 1..19
  BY <1>2, RoundRank DEF LoopRank
<1>5. CASE Place' = "sleep" /\ pc' = "sleep" /\ wt' \in {"long", "retry"}
  <2>1. "sleep" \notin DOMAIN OfRound
    BY RoundRank
  <2>2. LoopRank' = WaitRank("sleep", wt', slice')
    BY <1>3, <1>5, <2>1 DEF LoopRank, WaitRank, OfSlice, Awake
  <2>3. WaitRank("sleep", wt', slice') = 6 * Slices + 11
    BY <1>1, <1>5 DEF WaitRank, OfSlice, Awake
  <2>4. QED
    BY <1>1, <1>4, <2>2, <2>3
<1>6. CASE Place' \in DOMAIN OfRound /\ OfRound[Place'] < OfRound[Place]
  <2>1. LoopRank' = 6 * Slices + 11 + OfRound[Place'] /\ OfRound[Place'] \in 1..19
    BY <1>3, <1>6, RoundRank DEF LoopRank
  <2>2. QED
    BY <1>1, <1>4, <1>6, <2>1
<1>7. QED
  BY <1>2, <1>5, <1>6

\* Only the answer to an open makes the program take the modem for open.
LEMMA StaysUnopened ==
  ASSUME ~open_state, op # "open", Round \/ CommandDone \/ CommandFails
  PROVE  ~open_state'
<1>1. CASE Round \/ CommandFails
  BY <1>1 DEF Round, CommandFails, beliefs
<1>2. ~OpenAnswered
  BY DEF OpenAnswered, Answered
<1>3. CASE InitAnswered \/ IpAnswered \/ CloseAnswered \/ DisconnectAnswered
  BY <1>3 DEF InitAnswered, IpAnswered, CloseAnswered, DisconnectAnswered, Assign
<1>4. ASSUME NEW o \in Queries, QueryAnswered(o) PROVE ~open_state'
  BY <1>4 DEF QueryAnswered, Assign
<1>5. QED
  BY <1>1, <1>2, <1>3, <1>4 DEF CommandDone

\* A modem that says it is not open is opened again, as soon as the loop comes round.
THEOREM ReopenGetsNearer == Spec => ReopenNearer
<1>1. IInv /\ [Next]_vars =>
        [InLoop /\ ~open_state /\ op # "open" =>
           \/ op' = "open" \/ ~InLoop'
           \/ /\ ~open_state'
              /\ UNCHANGED <<pc, op>> \/ WokenInSettle \/ LoopRank' < LoopRank]_vars
  <2> SUFFICES ASSUME IInv, [Next]_vars, InLoop, ~open_state, op # "open", op' # "open", InLoop'
               PROVE  /\ ~open_state'
                      /\ UNCHANGED <<pc, op>> \/ WokenInSettle \/ LoopRank' < LoopRank
    OBVIOUS
  <2>1. OpInv /\ PcInv
    BY DEF IInv, TypeOK, OpInv
  <2>2. ~LoopHead
    BY DEF LoopHead, Goto, Issue, InLoop
  <2>3. CASE Round \/ CommandDone \/ CommandFails
    BY <2>1, <2>3, RoundShortens, StaysUnopened
  <2>4. CASE Waiting \/ StopSignal \/ Notify
    <3>1. open_state' = open_state
      BY <2>4 DEF Waiting, Lock, Wait, SliceOver, Relock, Rewake, Return, Settle, Still,
         StopSignal, Notify, beliefs
    <3>2. <<pc, op>>' # <<pc, op>> /\ ~WokenInSettle => LoopRank' < LoopRank
      BY <2>1, <2>4, WaitMoves
    <3>3. QED
      BY <3>1, <3>2
  <2>5. CASE UNCHANGED <<pc, op>> /\ open_state' = open_state
    BY <2>5
  <2>6. QED
    BY <2>2, <2>3, <2>4, <2>5, Steps
<1>2. QED
  BY <1>1, Invariance, PTL DEF Spec, ReopenNearer

\* A round in which the call is known to be down does not end before the connect command.
LEMMA NoWaitBeforeConnect ==
  ASSUME OpInv, PcInv, KnownDown, KnownDown', Round \/ CommandDone \/ CommandFails,
         Place \notin {"act3", "ip"}
  PROVE  Place' # "sleep" /\ Place' \notin {"connect", "act3", "ip"}
<1> USE DEF command, waiting, reader
<1>1. /\ st.ready = "yes" /\ st.reg = "home" /\ st.ps = "attached" /\ st.act = "deactivated"
      /\ op # "connect" /\ op' # "connect" /\ InLoop /\ InLoop'
  BY DEF KnownDown, Dialable
<1>2. ASSUME NEW l, Goto(l), l # "wait" PROVE Place' = l
  BY <1>2 DEF Goto, Place
<1>3. ASSUME NEW o, Issue(o) PROVE Place' = o /\ op' = o
  BY <1>3 DEF Issue, Place
<1>4. ~CommandFails
  BY <1>1 DEF CommandFails, FailTo, Goto, Issue, InLoop
<1>5. CASE Round
  <2>1. Place = pc
    BY <1>5 DEF Round, Test, Place
  <2>2. pc # "act2"
    BY <1>1, <1>3, <1>5 DEF Round, Test, MayConnect
  <2>3. CASE pc \in {"ready", "ready2"}
    BY <1>1, <1>2, <1>3, <1>5, <2>3 DEF Round, Test
  <2>4. CASE pc \in {"reg", "reg2"}
    BY <1>1, <1>2, <1>3, <1>5, <2>4 DEF Round, Test
  <2>5. CASE pc \in {"ps", "ps2", "ps3"}
    BY <1>1, <1>2, <1>3, <1>5, <2>5 DEF Round, Test
  <2>6. CASE pc = "act"
    BY <1>1, <1>2, <1>3, <1>5, <2>6 DEF Round, Test
  <2>7. QED
    BY <1>5, <2>1, <2>2, <2>3, <2>4, <2>5, <2>6 DEF Round, Test
<1>6. CASE OpenAnswered \/ InitAnswered \/ IpAnswered
  <2>1. Place' \in {"init", "ready"} \/ Place = "ip"
    BY <1>1, <1>2, <1>3, <1>6 DEF OpenAnswered, InitAnswered, IpAnswered, Answered, Goto, InLoop, Place
  <2>2. QED
    BY <2>1
<1>7. ASSUME NEW o \in Queries, QueryAnswered(o)
      PROVE  Place' # "sleep" /\ Place' \notin {"connect", "act3", "ip"}
  <2>1. op = o /\ Place' = After[o]
    BY <1>2, <1>7 DEF QueryAnswered, Answered, After, Queries
  <2>2. QED
    BY <1>1, <2>1 DEF After, Queries
<1>8. ~DisconnectAnswered /\ ~CloseAnswered
  BY <1>1 DEF DisconnectAnswered, CloseAnswered, Answered, InLoop
<1>9. QED
  BY <1>4, <1>5, <1>6, <1>7, <1>8 DEF CommandDone

\* A call known to be down is dialled again as soon as the loop comes round, though the
\* variables that the round tests may change under it.
THEOREM RedialGetsNearer == Spec => DialNearer
<1>1. IInv /\ [Next]_vars =>
        [KnownDown /\ KnownDown' =>
           UNCHANGED <<pc, op>> \/ WokenInSettle \/ DialRank' < DialRank]_vars
  <2> SUFFICES ASSUME IInv, [Next]_vars, KnownDown, KnownDown', ~UNCHANGED <<pc, op>>,
                      ~WokenInSettle
               PROVE  DialRank' < DialRank
    OBVIOUS
  <2>1. OpInv /\ PcInv /\ InLoop /\ InLoop' /\ Slices \in Nat \ {0} /\ slice \in 1..Slices
    BY Constants DEF IInv, TypeOK, OpInv, KnownDown
  <2>2. OfRound' = OfRound
    BY DEF OfRound
  <2>3. CASE LoopHead
    <3>1. pc = "head" /\ Place = "head" /\ (Place' = "open" \/ Place' = "ready")
      BY <2>1, <2>3 DEF LoopHead, Goto, Issue, InLoop, Place
    <3>2. DialRank = 20
      BY <3>1, RoundRank DEF DialRank, LoopRank, WaitRank
    <3>3. OfRound["open"] = 19 /\ OfRound["ready"] = 17
      BY DEF OfRound
    <3>4. DialRank' \in {17, 19}
      BY <2>2, <3>1, <3>3, RoundRank DEF DialRank
    <3>5. QED
      BY <3>2, <3>4
  <2>4. CASE Round \/ CommandDone \/ CommandFails
    <3>1. /\ Place \in DOMAIN OfRound /\ OfRound[Place] \in 1..19
          /\ Place' = "sleep" \/ (Place' \in DOMAIN OfRound /\ OfRound[Place'] < OfRound[Place])
      BY <2>1, <2>4, RoundMoves, RoundRank
    <3>2. LoopRank' < LoopRank /\ LoopRank' \in Int /\ LoopRank = 6 * Slices + 11 + OfRound[Place]
      BY <2>1, <2>4, <3>1, RoundShortens DEF LoopRank
    <3>3. \A o \in DOMAIN OfRound : OfRound[o] > 3 <=> o \notin {"connect", "act3", "ip"}
      BY DEF OfRound
    <3>4. CASE Place \in {"act3", "ip"}
      <4>1. DialRank = 20 + LoopRank
        BY <3>1, <3>3, <3>4 DEF DialRank
      <4>2. ~(Place' \in DOMAIN OfRound /\ OfRound[Place'] > 3)
        <5>1. OfRound[Place] <= 3
          BY <3>1, <3>3, <3>4
        <5>2. "sleep" \notin DOMAIN OfRound
          BY RoundRank
        <5>3. \A o \in DOMAIN OfRound : OfRound[o] \in Int
          BY RoundRank
        <5>4. QED
          BY <3>1, <5>1, <5>2, <5>3
      <4>3. DialRank' = 20 + LoopRank'
        BY <2>2, <4>2 DEF DialRank
      <4>4. QED
        BY <2>1, <3>1, <3>2, <4>1, <4>3
    <3>5. CASE Place \notin {"act3", "ip"}
      <4>1. Place' # "sleep" /\ Place' \notin {"connect", "act3", "ip"}
        BY <2>1, <2>4, <3>5, NoWaitBeforeConnect
      <4>2. Place' \in DOMAIN OfRound /\ OfRound[Place'] > 3 /\ OfRound[Place'] < OfRound[Place]
        BY <3>1, <3>3, <4>1
      <4>3. Place # "connect"
        BY DEF Place, KnownDown, IInv, PcInv
      <4>4. DialRank = OfRound[Place] /\ DialRank' = OfRound[Place']
        BY <2>2, <3>1, <3>3, <3>5, <4>2, <4>3 DEF DialRank
      <4>5. QED
        BY <4>2, <4>4
    <3>6. QED
      BY <3>4, <3>5
  <2>5. CASE Waiting \/ StopSignal \/ Notify
    <3>1. /\ Place \notin DOMAIN OfRound /\ Place' \notin DOMAIN OfRound
          /\ LoopRank' < LoopRank /\ LoopRank \in Int /\ LoopRank' \in Int
      BY <2>1, <2>5, WaitMoves
    <3>2. DialRank = 20 + LoopRank /\ DialRank' = 20 + LoopRank'
      BY <2>2, <3>1 DEF DialRank
    <3>3. \A a, b \in Int : a < b => 20 + a < 20 + b
      OBVIOUS
    <3>4. 20 + LoopRank' < 20 + LoopRank
      BY <3>1, <3>3
    <3>5. QED
      BY <3>2, <3>4
  <2>6. QED
    BY <2>1, <2>3, <2>4, <2>5, Steps
<1>2. QED
  BY <1>1, Invariance, PTL DEF Spec, DialNearer
===============================================================================
