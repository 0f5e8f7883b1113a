-------------------------------- MODULE QmiRpc --------------------------------
(***************************************************************************)
(* What the QMI transaction layer of quectelCM promises its callers: one   *)
(* call is outstanding at a time, and when a call hands back an answer it  *)
(* is the answer the modem gave to that very request.  A call may also end *)
(* with no answer (timeout, send error, abort by the reader thread).       *)
(* QmiTransaction is shown to implement this specification.                *)
(***************************************************************************)
EXTENDS Naturals

CONSTANTS Calls,   \* the numbers calls may have
          NULL     \* no answer

VARIABLES pending, \* number of the outstanding call, 0 when there is none
          served,  \* numbers of the requests the modem has answered
          outcome  \* the answer (a request number) the last call returned, or NULL

vars == <<pending, served, outcome>>

Init == /\ pending = 0
        /\ served = {}
        /\ outcome = NULL

\* A caller enters QmiThreadSendQMITimeout with a request never used before.
Begin(n) == /\ pending = 0
            /\ n \notin served
            /\ pending' = n
            /\ UNCHANGED <<served, outcome>>

\* The modem executes request n and answers it, perhaps after the caller gave up.
Serve(n) == /\ n \notin served
            /\ served' = served \cup {n}
            /\ UNCHANGED <<pending, outcome>>

\* The call returns the answer to its own request.
EndAnswered == /\ pending # 0
               /\ pending \in served
               /\ outcome' = pending
               /\ pending' = 0
               /\ UNCHANGED served

\* The call returns without an answer.
EndUnanswered == /\ outcome' = NULL
                 /\ pending' = 0
                 /\ UNCHANGED served

Next == \/ \E n \in Calls : Begin(n) \/ Serve(n)
        \/ EndAnswered
        \/ EndUnanswered

Spec == Init /\ [][Next]_vars
===============================================================================
