----------------------------- MODULE OneAnswer -----------------------------
(***************************************************************************)
(* What the asynchronous facility of the interpreter promises a program,   *)
(* with no worker, channel, generation or payload in sight: a control has  *)
(* at most one operation in flight, an operation that was started ends     *)
(* once - answered, failed, cancelled or timed out - and the program is    *)
(* told of every ending once, in the order in which the operations of the  *)
(* control ended (rules R3, R5 and R6 of specs/032-async-io-operations, as *)
(* async_op.rs and drain_async_ops carry them out).                        *)
(***************************************************************************)
EXTENDS Naturals, Sequences

CONSTANTS Control, Ops

VARIABLES running,      \* the operation of each control in flight, or 0
          ended,        \* those that ended, the program not being told yet
          told          \* those it was told of

vars == <<running, ended, told>>

InSeq(s) == {s[i] : i \in DOMAIN s}

Init == /\ running = [c \in Control |-> 0]
        /\ ended = [c \in Control |-> {}]
        /\ told = [c \in Control |-> <<>>]

(* Operations are numbered as they are started, one after the other: of     *)
(* two that ended the one with the lower number ended first.                *)
Begin(c) == /\ running[c] = 0
            /\ \E op \in Ops : /\ \A o \in ended[c] \cup InSeq(told[c]) : o < op
                               /\ running' = [running EXCEPT ![c] = op]
            /\ UNCHANGED <<ended, told>>

Finish(c) == /\ running[c] # 0
             /\ running' = [running EXCEPT ![c] = 0]
             /\ ended' = [ended EXCEPT ![c] = @ \cup {running[c]}]
             /\ UNCHANGED told

Tell(c) == \E op \in ended[c] :
             /\ \A o \in ended[c] : op <= o
             /\ told' = [told EXCEPT ![c] = Append(@, op)]
             /\ ended' = [ended EXCEPT ![c] = @ \ {op}]
             /\ UNCHANGED running

Next == \E c \in Control : Begin(c) \/ Finish(c) \/ Tell(c)

Spec == Init /\ [][Next]_vars

(* An operation ends, and its ending is told.                               *)
FairSpec == Spec /\ \A c \in Control : WF_vars(Finish(c)) /\ WF_vars(Tell(c))
=============================================================================
