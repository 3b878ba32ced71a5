-------------------------- MODULE AgentLoopsProofs --------------------------
(***************************************************************************)
(* The invariants of AgentLoops, and that it implements OneAnswer, for any *)
(* controls, forms, replies and bounds.                                    *)
(***************************************************************************)
EXTENDS AgentLoops, FiniteSetTheorems, SequenceTheorems, WellFoundedInduction, TLAPS

(* Gen holds every generation a control can come to.                       *)
LEMMA Generation ==
  /\ Gen \subseteq Nat
  /\ \A c \in Control : 0 \in Gen
  /\ \A k \in DOMAIN Forms, c \in Control : \A n \in 0 .. Forms[k][c] + 1 : n \in Gen
<1>1. \A k \in DOMAIN Forms, c \in Control : Forms[k][c] \in Nat /\ Forms[k][c] \in LastGens
  BY FormsAssumption DEF LastGens
<1>2. LastGens \subseteq Nat  BY FormsAssumption DEF LastGens
<1> QED  BY <1>1, <1>2, FormsAssumption DEF Gen

(* A set of naturals that is not empty has a least member.                 *)
LEMMA Least ==
  ASSUME NEW S, S \subseteq Nat, S # {}
  PROVE  \E i \in S : \A k \in S : i <= k
<1>1. IsWellFoundedOn(OpToRel(<, Nat), Nat)  BY NatLessThanWellFounded
<1>2. PICK i \in S : \A k \in S : ~(<<k, i>> \in OpToRel(<, Nat))  BY <1>1, WFMin
<1>3. \A k \in S : ~(k < i)  BY <1>2 DEF OpToRel
<1> QED  BY <1>3

(* A function on an initial segment of the naturals is a sequence.         *)
LEMMA FunctionIsSeq ==
  ASSUME NEW S, NEW n \in Nat, NEW f \in [1 .. n -> S]
  PROVE  f \in Seq(S) /\ Len(f) = n /\ DOMAIN f = 1 .. n
<1>1. f \in Seq(S)  BY SeqDef
<1> QED  BY <1>1, LenProperties

ReportType == /\ worker \subseteq Thread
              /\ results \in Seq(Report)
              /\ \A i \in DOMAIN results : DOMAIN results[i].calls \subseteq Ids

EventType == /\ queue \in Seq(Raised)
             /\ payload \in [Control -> Seq(Payload)]
             /\ event \in Raised \cup {NoEvent, UiEvent}
             /\ told \in [Control -> Seq(Gen)]

DbType == /\ handle \in [Control -> 0 .. LastHandle]
          /\ home \subseteq Handle /\ lent \subseteq Handle
          /\ opened \in 0 .. LastHandle

(* A loop that waits does so for the first of its calls without a result.  *)
LoopOK(l) == /\ l \in Loop
             /\ DOMAIN l.asked \subseteq Ids
             /\ l.waiting # "nothing" => Len(l.got) + 1 \in DOMAIN l.asked

LoopType == /\ loop \in [Control -> Loop \cup {None}]
            /\ \A c \in Control : loop[c] # None => LoopOK(loop[c])
            /\ shown \in [Control -> Call \cup {None}]
            /\ toolResults \in [Ids -> Call \cup {None}]

TypeOK == /\ kind \in DOMAIN Forms
          /\ gen \in [Control -> Gen] /\ pending \in [Control -> Gen]
          /\ values \in [Control -> Gen] /\ busy \in [Control -> BOOLEAN]
          /\ cut \in [Control -> SUBSET Gen]
          /\ at \in {"handler", "drain", "sweep", "pop"}
          /\ ReportType /\ EventType /\ DbType /\ LoopType

(* Generations: the operation in flight is that of the last one, and a     *)
(* generation is left behind when an operation is cut off.                 *)
Generations ==
  \A c \in Control :
    /\ pending[c] \in {0, gen[c]}
    /\ pending[c] # 0 => gen[c] <= Forms[kind][c]
    /\ gen[c] <= Forms[kind][c] + 1
    /\ \A g \in cut[c] : g < gen[c]

(* What the control holds, or is about to be given, is of an operation     *)
(* that was answered: neither cut off nor in flight.                       *)
Answered(c, op) == op \notin cut[c] /\ op <= gen[c] /\ (pending[c] # 0 => op < gen[c])

ValuesAnswered ==
  \A c \in Control :
    /\ Answered(c, values[c])
    /\ \A i \in DOMAIN payload[c] : payload[c][i].final => Answered(c, payload[c][i].op)

(* Who can still answer for the last generation of a control: while it is  *)
(* in flight one thread, or one report after words on the way, or, when a  *)
(* call waits for the program, nobody; afterwards nobody.                  *)
Live(x) == x.op = gen[x.ctrl]

ByProgram(c) == loop[c] # None /\ loop[c].waiting \in {"queued", "dispatched"}

ThreadsLive ==
  \A w \in worker : /\ w.op <= gen[w.ctrl]
                    /\ Live(w) => pending[w.ctrl] # 0 /\ ~ByProgram(w.ctrl)
ReportsLive ==
  \A i \in DOMAIN results :
    /\ results[i].op <= gen[results[i].ctrl]
    /\ Live(results[i]) => pending[results[i].ctrl] # 0 /\ ~ByProgram(results[i].ctrl)
OneThread == \A v, w \in worker : v.ctrl = w.ctrl /\ Live(v) /\ Live(w) => v = w
ThreadOrReport ==
  \A w \in worker : \A i \in DOMAIN results :
    results[i].ctrl = w.ctrl /\ Live(w) /\ Live(results[i]) => results[i].out = "progress"
OneReport ==
  \A i, j \in DOMAIN results :
    i < j /\ results[i].ctrl = results[j].ctrl /\ Live(results[i]) /\ Live(results[j])
    => results[i].out = "progress"

Tokens == ThreadsLive /\ ReportsLive /\ OneThread /\ ThreadOrReport /\ OneReport

(* A loop of an earlier generation has nobody left who could answer it.    *)
Loops ==
  \A c \in Control : loop[c] # None =>
    /\ loop[c].op <= gen[c]
    /\ loop[c].op < gen[c] => pending[c] = 0

(* What a thread can report is a matter of the class of its control.       *)
Kinds ==
  /\ \A i \in DOMAIN results :
       /\ results[i].out = "progress" => kind[results[i].ctrl] = "kb"
       /\ kind[results[i].ctrl] = "aws" => results[i].out \in {"done", "error", "timeout"}
  /\ \A c \in Control : loop[c] # None => kind[c] = "agent"

IInv == TypeOK /\ Generations /\ ValuesAnswered /\ Tokens /\ Loops /\ Kinds

(* The endings of a control wait in the queue in the order its operations  *)
(* were started, after those the program was told of: drain_async_ops and  *)
(* the sweep only append, and next_wait_outcome hands out the first.       *)
QueueBounds ==
  \A i \in DOMAIN queue :
    /\ queue[i].op <= gen[queue[i].ctrl]
    /\ Ends(queue[i]) /\ pending[queue[i].ctrl] # 0 => queue[i].op < gen[queue[i].ctrl]
QueueOrder ==
  \A i, j \in DOMAIN queue :
    i < j /\ queue[i].ctrl = queue[j].ctrl /\ Ends(queue[i]) /\ Ends(queue[j])
    => queue[i].op < queue[j].op
ToldOrder ==
  \A c \in Control : \A k \in DOMAIN told[c] :
    /\ told[c][k] <= gen[c]
    /\ pending[c] # 0 => told[c][k] < gen[c]
    /\ \A i \in EndsOf(c) : told[c][k] < queue[i].op

Ordered == QueueBounds /\ QueueOrder /\ ToldOrder

(* The values that an event of a KnowledgeBase or of an AWS control brings *)
(* travel beside it: the payloads of the control are those of its events   *)
(* that carry one, in their order.                                         *)
Carrying == {"onProgress", "onIndexed", "onInvoked", "onError", "onTimeout"}
Carriers(q, c) == {i \in DOMAIN q : q[i].ctrl = c /\ q[i].name \in Carrying}
Matches(p, e) == /\ p.name = e.name /\ p.op = e.op
                 /\ (p.final <=> (e.op # 0 /\ e.name # "onProgress"))
Beside(f, q, ps, c) ==
  /\ \A i, j \in DOMAIN ps : i < j => f[i] < f[j]
  /\ \A i \in DOMAIN ps : f[i] \in Carriers(q, c) /\ Matches(ps[i], q[f[i]])
  /\ \A k \in Carriers(q, c) : \E i \in DOMAIN ps : f[i] = k
Aligned(q, ps, c) == \E f \in [DOMAIN ps -> DOMAIN q] : Beside(f, q, ps, c)

Payloads == \A c \in Control : kind[c] \in {"kb", "aws"} => Aligned(queue, payload[c], c)
Names ==
  \A i \in DOMAIN queue :
    /\ (kind[queue[i].ctrl] = "kb" =>
          queue[i].name \in {"onProgress", "onIndexed", "onError", "onCancelled"})
    /\ (kind[queue[i].ctrl] = "aws" =>
          queue[i].name \in {"onInvoked", "onComplete", "onError", "onTimeout", "onCancelled"})
    /\ (kind[queue[i].ctrl] = "aws" /\ queue[i].name \in {"onInvoked", "onComplete"} =>
          queue[i].op # 0)
(* The onComplete of an AWS operation finds what its onInvoked brought.    *)
Completes(i) ==
  kind[queue[i].ctrl] = "aws" /\ queue[i].name = "onComplete" =>
    /\ i = 1 => values[queue[i].ctrl] = queue[i].op
    /\ i # 1 => queue[i - 1] = Says(queue[i].ctrl, "onInvoked", queue[i].op)

Travel == Payloads /\ Names /\ \A i \in DOMAIN queue : Completes(i)

(* The results a loop gathered answer its calls, in their order.           *)
OwnResults(l) == \A i \in DOMAIN l.got : l.got[i].call = CallOf(l, i)

(* SetToolResult files a result under the id of the call alone, and ids    *)
(* start again with each question: two agents of one form whose service    *)
(* gives no ids share them.  A form with one agent has nobody to share     *)
(* them with.                                                              *)
OneAgent == \A k \in DOMAIN Forms : \A c, d \in Control : k[c] = "agent" /\ k[d] = "agent" => c = d

(* While the program answers a call, the call its handler was shown is the *)
(* first without a result, and what is filed under its id was given for it *)
(* or is nothing.                                                          *)
Tools ==
  \A c \in Control : ByProgram(c) =>
       LET id == Len(loop[c].got) + 1
       IN shown[c] = CallOf(loop[c], id) /\ toolResults[id] \in {None, shown[c]}

-----------------------------------------------------------------------------
(* What the end of a round trip with the model comes to.                   *)

OnTheWay(uses, c, op) ==
  \A i \in DOMAIN uses : /\ uses[i].ctrl = c /\ uses[i].op = op
                         /\ uses[i].name \in {"onToolUse", "onToolCall"}

(* The loop l of c goes on: with another thread, or with a call for the    *)
(* program.                                                                *)
Continued(c, l) ==
  /\ pending' = [pending EXCEPT ![c] = l.op]
  /\ \E uses \in Seq(Raised) : OnTheWay(uses, c, l.op) /\ queue' = queue \o uses
  /\ toolResults' \in [Ids -> Call \cup {None}]
  /\ \E m \in Loop :
       /\ loop' = [loop EXCEPT ![c] = m]
       /\ LoopOK(m) /\ m.op = l.op
       /\ OwnResults(l) => OwnResults(m)
       /\ \/ /\ m.waiting \in {"nothing", "search"} /\ shown' = shown
             /\ \E w \in Thread : /\ w.ctrl = c /\ w.op = l.op
                                  /\ worker' = worker \cup {w}
          \/ /\ m.waiting = "queued" /\ worker' = worker
             /\ Len(m.got) + 1 \in Ids
             /\ shown' = [shown EXCEPT ![c] = CallOf(m, Len(m.got) + 1)]
             /\ toolResults'[Len(m.got) + 1] = None

(* A loop whose results are those of the first of its calls.               *)
Ready(l) == l \in Loop /\ DOMAIN l.asked \subseteq Ids /\ Len(l.got) <= Len(l.asked)

LEMMA SendStep ==
  ASSUME NEW c \in Control, NEW l \in Loop, DOMAIN l.asked \subseteq Ids, Send(c, l)
  PROVE  LET m == [l EXCEPT !.waiting = "nothing"]
         IN /\ m \in Loop /\ LoopOK(m) /\ m.op = l.op /\ m.waiting = "nothing"
            /\ m.got = l.got /\ m.rounds = l.rounds
            /\ loop' = [loop EXCEPT ![c] = m]
            /\ pending' = [pending EXCEPT ![c] = l.op]
            /\ \E w \in Thread : w.ctrl = c /\ w.op = l.op /\ worker' = worker \cup {w}
<1> DEFINE m == [l EXCEPT !.waiting = "nothing"]
           w == [ctrl |-> c, op |-> l.op, does |-> IF l.offers THEN "round" ELSE "op",
                 db |-> 0, said |-> FALSE]
<1>1. m \in Loop /\ m.op = l.op /\ m.waiting = "nothing" /\ m.got = l.got /\ m.rounds = l.rounds
      /\ m.asked = l.asked
  BY DEF Loop
<1>2. LoopOK(m)  BY <1>1 DEF LoopOK
<1>3. w \in Thread /\ w.ctrl = c /\ w.op = l.op
  BY BoundsAssumption DEF Loop, Thread
<1>4. /\ loop' = [loop EXCEPT ![c] = m] /\ pending' = [pending EXCEPT ![c] = l.op]
      /\ worker' = worker \cup {w}
  BY DEF Send
<1> QED  BY <1>1, <1>2, <1>3, <1>4

LEMMA OneMoreUse ==
  ASSUME NEW c \in Control, NEW op \in Gen, NEW uses \in Seq(Raised), OnTheWay(uses, c, op),
         NEW name \in {"onToolUse", "onToolCall"}
  PROVE  /\ uses \o <<Says(c, name, op)>> \in Seq(Raised)
         /\ OnTheWay(uses \o <<Says(c, name, op)>>, c, op)
<1> DEFINE e == Says(c, name, op)
           all == uses \o <<e>>
<1>1. e \in Raised /\ e.ctrl = c /\ e.op = op /\ e.name = name  BY DEF Says, Raised, Event
<1> HIDE DEF e
<1>2. /\ all \in Seq(Raised) /\ DOMAIN all = 1 .. Len(uses) + 1
      /\ all[Len(uses) + 1] = e /\ \A i \in 1 .. Len(uses) : all[i] = uses[i]
  BY <1>1
<1> HIDE DEF all
<1>3. OnTheWay(all, c, op)  BY <1>1, <1>2 DEF OnTheWay
<1> QED  BY <1>2, <1>3 DEF all, e

(* tool_loop_advance: the calls from the first without a result on.        *)
LEMMA AdvanceStep ==
  ASSUME NEW c \in Control, NEW l, Ready(l),
         NEW given \in [Ids -> Call \cup {None}], Advance(c, l, given),
         shown \in [Control -> Call \cup {None}], queue \in Seq(Raised)
  PROVE  Continued(c, l)
<1> DEFINE from  == Len(l.got) + 1
           out   == {i \in from .. Len(l.asked) : l.asked[i] \notin {"file", "wrong"}}
           stop  == IF out = {} THEN Len(l.asked) + 1
                    ELSE CHOOSE i \in out : \A k \in out : i <= k
           files == {i \in from .. stop - 1 : l.asked[i] = "file"}
           own   == [i \in 1 .. stop - from |-> Gives(l, "runtime", from + i - 1)]
           uses  == [i \in 1 .. Cardinality(files) |-> Says(c, "onToolUse", l.op)]
           l2    == [l EXCEPT !.got = @ \o own]
<1>1. /\ Len(l.got) \in Nat /\ Len(l.asked) \in Nat /\ l.got \in Seq(Given) /\ l.op \in Gen
      /\ DOMAIN l.asked = 1 .. Len(l.asked) /\ DOMAIN l.got = 1 .. Len(l.got) /\ l.rounds \in Nat
      /\ Len(l.got) <= Len(l.asked) /\ 1 .. Len(l.asked) \subseteq Ids
  BY DEF Ready, Loop
<1>o. /\ from \in Nat \ {0} /\ from <= Len(l.asked) + 1 /\ from = Len(l.got) + 1
      /\ out \subseteq from .. Len(l.asked) /\ out \subseteq Nat
  BY <1>1
<1> HIDE DEF out, from
<1>2. /\ out # {} => stop \in out /\ stop \in from .. Len(l.asked)
      /\ stop \in from .. Len(l.asked) + 1
  <2>1. CASE out = {}  BY <2>1, <1>1, <1>o
  <2>2. CASE out # {}
    <3>1. \E i \in out : \A k \in out : i <= k  BY <1>o, <2>2, Least
    <3>2. stop \in out  BY <2>2, <3>1
    <3> HIDE DEF stop
    <3> QED  BY <3>2, <1>1, <1>o
  <2> QED  BY <2>1, <2>2
<1> HIDE DEF stop
<1>m. stop \in Nat /\ stop - from \in Nat /\ stop - from = stop - 1 - Len(l.got)
  BY <1>1, <1>o, <1>2
<1>s. out # {} => stop \in DOMAIN l.asked /\ stop \in Ids
  <2>1. out # {} => stop \in 1 .. Len(l.asked)  BY <1>1, <1>o, <1>2, <1>m
  <2> QED  BY <1>1, <2>1
<1>3. own \in Seq(Given) /\ Len(own) = stop - from
  <2>1. \A i \in 1 .. stop - from : from + i - 1 \in 1 .. Len(l.asked)  BY <1>1, <1>o, <1>2, <1>m
  <2>2. \A i \in 1 .. stop - from : from + i - 1 \in Ids  BY <1>1, <2>1
  <2>3. \A i \in 1 .. stop - from : Gives(l, "runtime", from + i - 1) \in Given
    BY <1>1, <2>2 DEF Gives, CallOf, Given, Call
  <2>4. own \in [1 .. stop - from -> Given]  BY <2>3
  <2> HIDE DEF own
  <2> QED  BY <1>m, <2>4, FunctionIsSeq
<1>f. Cardinality(files) \in Nat
  <2>1. files \subseteq from .. stop - 1  OBVIOUS
  <2> HIDE DEF files
  <2>2. IsFiniteSet(from .. stop - 1)  BY <1>o, <1>m, FS_Interval
  <2> QED  BY <2>1, <2>2, FS_Subset, FS_CardinalityType
<1> HIDE DEF files
<1>4. uses \in Seq(Raised) /\ OnTheWay(uses, c, l.op)
  <2>1. Says(c, "onToolUse", l.op) \in Raised  BY <1>1 DEF Says, Raised, Event
  <2>2. uses \in [1 .. Cardinality(files) -> Raised]  BY <2>1
  <2>3. uses \in Seq(Raised) /\ DOMAIN uses = 1 .. Cardinality(files)
    BY <1>f, <2>2, FunctionIsSeq
  <2>4. \A i \in DOMAIN uses : uses[i] = Says(c, "onToolUse", l.op)  BY <2>3
  <2> HIDE DEF uses
  <2> QED  BY <2>3, <2>4 DEF OnTheWay, Says
<1>5. /\ l2 \in Loop /\ l2.op = l.op /\ l2.rounds = l.rounds /\ l2.asked = l.asked
      /\ Len(l2.got) = stop - 1
      /\ l2.got \in Seq(Given) /\ DOMAIN l2.got = 1 .. stop - 1
      /\ \A i \in 1 .. Len(l.got) : l2.got[i] = l.got[i]
      /\ \A i \in 1 .. stop - from : l2.got[Len(l.got) + i] = Gives(l, "runtime", Len(l.got) + i)
  <2> DEFINE got == l.got \o own
  <2>1. /\ got \in Seq(Given) /\ Len(got) = Len(l.got) + Len(own)
        /\ \A i \in 1 .. Len(l.got) + Len(own) :
             got[i] = IF i <= Len(l.got) THEN l.got[i] ELSE own[i - Len(l.got)]
    <3> HIDE DEF own
    <3> QED  BY <1>1, <1>3, ConcatProperties, Zenon
  <2>2. \A i \in 1 .. stop - from : own[i] = Gives(l, "runtime", Len(l.got) + i)
    BY <1>m, <1>1, <1>o
  <2>6. l2.got = got
    BY DEF Ready, Loop
  <2> HIDE DEF own, got
  <2>3. Len(got) = stop - 1 /\ DOMAIN got = 1 .. stop - 1
    BY <1>1, <1>o, <1>3, <1>m, <2>1, LenProperties
  <2>4. \A i \in 1 .. Len(l.got) : got[i] = l.got[i]  BY <1>1, <1>3, <1>m, <2>1
  <2>5. ASSUME NEW i \in 1 .. stop - from PROVE got[Len(l.got) + i] = Gives(l, "runtime", Len(l.got) + i)
    BY <1>1, <1>3, <1>m, <2>1, <2>2
  <2>7. l2 \in Loop /\ l2.op = l.op /\ l2.rounds = l.rounds /\ l2.asked = l.asked
    BY <2>1, <2>6 DEF Ready, Loop
  <2> QED  BY <2>1, <2>3, <2>4, <2>5, <2>6, <2>7
<1> HIDE DEF own, l2
<1>6. OwnResults(l) => OwnResults(l2)
  <2> SUFFICES ASSUME OwnResults(l), NEW i \in DOMAIN l2.got PROVE l2.got[i].call = CallOf(l2, i)
    BY DEF OwnResults
  <2>1. i \in 1 .. stop - 1  BY <1>5
  <2>2. CASE i <= Len(l.got)
    <3>1. i \in 1 .. Len(l.got)  BY <1>1, <1>m, <2>1, <2>2
    <3> QED  BY <3>1, <1>1, <1>5 DEF OwnResults, CallOf
  <2>3. CASE i > Len(l.got)
    <3>1. i - Len(l.got) \in 1 .. stop - from /\ i = Len(l.got) + (i - Len(l.got))
      BY <1>1, <1>o, <1>m, <2>1, <2>3
    <3> DEFINE k == i - Len(l.got)
    <3> HIDE DEF k
    <3>2. k \in 1 .. stop - from /\ i = Len(l.got) + k  BY <3>1 DEF k
    <3>3. l2.got[i] = Gives(l, "runtime", i)  BY <3>2, <1>5
    <3>4. l2.got[i].call = CallOf(l, i)  BY <3>3 DEF Gives
    <3> QED  BY <3>4, <1>5 DEF CallOf
  <2> QED  BY <1>1, <1>m, <2>1, <2>2, <2>3
<1>7. CASE out = {} /\ Send(c, l2) /\ queue' = queue \o uses /\ toolResults' = given /\ UNCHANGED shown
  <2>1. l2 \in Loop /\ DOMAIN l2.asked \subseteq Ids  BY <1>5 DEF Ready
  <2> DEFINE m == [l2 EXCEPT !.waiting = "nothing"]
  <2>2. /\ m \in Loop /\ LoopOK(m) /\ m.op = l2.op /\ m.waiting = "nothing"
        /\ m.got = l2.got /\ m.rounds = l2.rounds
        /\ loop' = [loop EXCEPT ![c] = m]
        /\ pending' = [pending EXCEPT ![c] = l2.op]
        /\ \E w \in Thread : w.ctrl = c /\ w.op = l2.op /\ worker' = worker \cup {w}
    BY <1>7, <2>1, SendStep
  <2> HIDE DEF m
  <2>3. OwnResults(l2) => OwnResults(m)  BY <2>2 DEF OwnResults, CallOf
  <2> QED  BY <1>4, <1>5, <1>6, <1>7, <2>2, <2>3 DEF Continued
<1>8. CASE /\ out # {} /\ l.asked[stop] = "search"
           /\ loop' = [loop EXCEPT ![c] = [l2 EXCEPT !.waiting = "search"]]
           /\ pending' = [pending EXCEPT ![c] = l.op]
           /\ worker' = worker \cup {[ctrl |-> c, op |-> l.op, does |-> "search",
                                      db |-> 0, said |-> FALSE]}
           /\ queue' = queue \o uses \o <<Says(c, "onToolUse", l.op)>>
           /\ toolResults' = given /\ UNCHANGED shown
  <2> DEFINE m == [l2 EXCEPT !.waiting = "search"]
             w == [ctrl |-> c, op |-> l.op, does |-> "search", db |-> 0, said |-> FALSE]
             all == uses \o <<Says(c, "onToolUse", l.op)>>
  <2>1. m \in Loop /\ m.op = l.op /\ m.rounds = l2.rounds /\ m.got = l2.got /\ m.waiting = "search"
        /\ m.asked = l.asked
    BY <1>5 DEF Loop
  <2>7. loop' = [loop EXCEPT ![c] = m] /\ worker' = worker \cup {w}  BY <1>8
  <2> HIDE DEF m
  <2>2. LoopOK(m)
    <3>0. Len(m.got) + 1 = stop  BY <1>m, <1>5, <2>1
    <3>1. Len(m.got) + 1 \in DOMAIN m.asked  BY <1>s, <1>8, <2>1, <3>0
    <3> QED  BY <3>1, <2>1 DEF LoopOK, Ready
  <2>3. w \in Thread /\ w.ctrl = c /\ w.op = l.op  BY <1>1, BoundsAssumption DEF Thread
  <2>4. all \in Seq(Raised) /\ OnTheWay(all, c, l.op)
    BY <1>1, <1>4, OneMoreUse
  <2>5. queue' = queue \o all
    <3> DEFINE e == Says(c, "onToolUse", l.op)
    <3>1. e \in Raised /\ uses \in Seq(Raised)  BY <1>1, <1>4 DEF Says, Raised, Event
    <3>2. queue' = queue \o uses \o <<e>>  BY <1>8
    <3> HIDE DEF e, uses
    <3>3. queue \o uses \o <<e>> = queue \o (uses \o <<e>>)  BY <3>1
    <3> QED  BY <3>2, <3>3 DEF e
  <2>6. OwnResults(l2) => OwnResults(m)  BY <1>5, <2>1 DEF OwnResults, CallOf
  <2> HIDE DEF w, all
  <2> QED  BY <1>6, <1>8, <2>1, <2>2, <2>3, <2>4, <2>5, <2>6, <2>7 DEF Continued
<1>9. CASE /\ out # {} /\ l.asked[stop] = "program"
           /\ loop' = [loop EXCEPT ![c] = [l2 EXCEPT !.waiting = "queued"]]
           /\ pending' = [pending EXCEPT ![c] = l.op]
           /\ queue' = queue \o uses \o <<Says(c, "onToolCall", l.op)>>
           /\ shown' = [shown EXCEPT ![c] = CallOf(l, stop)]
           /\ toolResults' = Forgotten(given, stop)
           /\ UNCHANGED worker
  <2> DEFINE m == [l2 EXCEPT !.waiting = "queued"]
             all == uses \o <<Says(c, "onToolCall", l.op)>>
  <2>1. m \in Loop /\ m.op = l.op /\ m.rounds = l.rounds /\ m.got = l2.got /\ m.waiting = "queued"
        /\ m.asked = l.asked
    BY <1>5 DEF Loop
  <2>7. loop' = [loop EXCEPT ![c] = m]  BY <1>9
  <2> HIDE DEF m
  <2>2. Len(m.got) + 1 = stop /\ stop \in Ids /\ stop \in DOMAIN m.asked
    <3>1. Len(m.got) + 1 = stop  BY <1>m, <1>5, <2>1
    <3> QED  BY <1>s, <1>9, <2>1, <3>1
  <2>3. LoopOK(m)  BY <2>1, <2>2 DEF LoopOK, Ready
  <2>4. all \in Seq(Raised) /\ OnTheWay(all, c, l.op)
    BY <1>1, <1>4, OneMoreUse
  <2>5. queue' = queue \o all
    <3> DEFINE e == Says(c, "onToolCall", l.op)
    <3>1. e \in Raised /\ uses \in Seq(Raised)  BY <1>1, <1>4 DEF Says, Raised, Event
    <3>2. queue' = queue \o uses \o <<e>>  BY <1>9
    <3> HIDE DEF e, uses
    <3>3. queue \o uses \o <<e>> = queue \o (uses \o <<e>>)  BY <3>1
    <3> QED  BY <3>2, <3>3 DEF e
  <2>6. OwnResults(l2) => OwnResults(m)  BY <2>1, <1>5 DEF OwnResults, CallOf
  <2>8. shown' = [shown EXCEPT ![c] = CallOf(m, Len(m.got) + 1)]
    BY <1>9, <2>1, <2>2 DEF CallOf
  <2>9. toolResults' \in [Ids -> Call \cup {None}] /\ toolResults'[stop] = None
    BY <1>9, <2>2 DEF Forgotten
  <2> HIDE DEF all
  <2> QED  BY <1>6, <1>9, <2>1, <2>2, <2>3, <2>4, <2>5, <2>6, <2>7, <2>8, <2>9 DEF Continued
<1> QED  BY <1>7, <1>8, <1>9 DEF Advance, from, out, stop, files, own, uses, l2

(* The question of c in flight goes on, with the loop l brought forward.   *)
GoesOn(c, l) == /\ l.op = gen[c] /\ Continued(c, l)
                /\ values' = values /\ busy' \in [Control -> BOOLEAN]

NothingComesOfIt == UNCHANGED <<pending, busy, values, worker, queue, agentVars>>

LEMMA NewRound ==
  ASSUME NEW l \in Loop, l.got = <<>>, DOMAIN l.asked \subseteq Ids
  PROVE  Ready(l) /\ OwnResults(l)
<1>1. Len(l.got) <= Len(l.asked) /\ DOMAIN l.got = {}  BY DEF Loop
<1> QED  BY <1>1 DEF Ready, OwnResults

(* A result that is not stale: the question of c is in flight.             *)
LEMMA OwnLoop ==
  ASSUME TypeOK, Generations, Loops, NEW c \in Control, loop[c] # None, pending[c] # 0
  PROVE  /\ loop[c] \in Loop /\ LoopOK(loop[c]) /\ loop[c].op = gen[c] /\ pending[c] = gen[c]
         /\ gen[c] \in Nat
<1>1. loop[c] \in Loop /\ LoopOK(loop[c])  BY DEF TypeOK, LoopType
<1>2. loop[c].op <= gen[c] /\ ~(loop[c].op < gen[c])  BY DEF Loops
<1>3. loop[c].op \in Nat /\ gen[c] \in Nat  BY <1>1, Generation DEF TypeOK, Loop
<1> QED  BY <1>1, <1>2, <1>3 DEF Generations

(* The next of the results of a loop.                                      *)
LEMMA OneMoreResult ==
  ASSUME NEW l \in Loop, LoopOK(l), l.waiting # "nothing", NEW r \in Given
  PROVE  LET m == [l EXCEPT !.got = Append(@, r), !.waiting = "nothing"]
         IN /\ Ready(m) /\ m.op = l.op
            /\ OwnResults(l) /\ r.call = CallOf(l, Len(l.got) + 1) => OwnResults(m)
<1> DEFINE m == [l EXCEPT !.got = Append(@, r), !.waiting = "nothing"]
           got == Append(l.got, r)
<1>1. l.got \in Seq(Given) /\ l.asked \in Seq(Tool)  BY DEF Loop
<1>2. /\ got \in Seq(Given) /\ Len(got) = Len(l.got) + 1 /\ DOMAIN got = 1 .. Len(l.got) + 1
      /\ \A i \in 1 .. Len(l.got) : got[i] = l.got[i]
      /\ got[Len(l.got) + 1] = r /\ DOMAIN l.got = 1 .. Len(l.got)
  BY <1>1
<1>3. m.got = got /\ m.asked = l.asked /\ m.op = l.op /\ m.rounds = l.rounds
  BY DEF Loop
<1>4. m \in Loop  BY <1>2 DEF Loop
<1> HIDE DEF m, got
<1>5. Len(l.got) + 1 \in DOMAIN l.asked  BY DEF LoopOK
<1>6. Len(m.got) <= Len(m.asked)  BY <1>1, <1>2, <1>3, <1>5
<1>7. Ready(m)  BY <1>3, <1>4, <1>6 DEF Ready, LoopOK
<1>8. ASSUME OwnResults(l), r.call = CallOf(l, Len(l.got) + 1) PROVE OwnResults(m)
  <2>1. \A i \in 1 .. Len(l.got) : l.got[i].call = CallOf(l, i)  BY <1>2, <1>8 DEF OwnResults
  <2>2. \A i : CallOf(m, i) = CallOf(l, i)  BY <1>3 DEF CallOf
  <2>3. \A i \in DOMAIN m.got : i \in 1 .. Len(l.got) \/ i = Len(l.got) + 1  BY <1>1, <1>2, <1>3
  <2> QED  BY <2>1, <2>2, <2>3, <1>2, <1>3, <1>8 DEF OwnResults
<1> QED  BY <1>3, <1>7, <1>8 DEF m

(* agent_delivered: what comes of a result that is not stale.              *)
LEMMA DeliveredStep ==
  ASSUME TypeOK, Generations, Loops,
         NEW r \in Report, DOMAIN r.calls \subseteq Ids, r.op = gen[r.ctrl], pending[r.ctrl] # 0,
         IF r.out = "found" THEN Found(r) ELSE Reply(r)
  PROVE  \/ NothingComesOfIt
         \/ \E name \in {"onError", "onResponse"} : Conclude(r.ctrl, r.op, name)
         \/ \E l : /\ GoesOn(r.ctrl, l)
                   /\ loop[r.ctrl] = None \/ OwnResults(loop[r.ctrl]) => OwnResults(l)
<1> DEFINE c == r.ctrl
<1>1. c \in Control /\ r.op \in Gen /\ r.calls \in Seq(Tool)  BY DEF Report
<1>2. /\ loop[c] # None => /\ loop[c] \in Loop /\ LoopOK(loop[c]) /\ loop[c].op = gen[c]
      /\ busy \in [Control -> BOOLEAN] /\ shown \in [Control -> Call \cup {None}]
      /\ toolResults \in [Ids -> Call \cup {None}] /\ queue \in Seq(Raised)
  BY <1>1, OwnLoop DEF TypeOK, LoopType, EventType
<1>3. CASE r.out = "found"
  <2>1. CASE loop[c] # None /\ loop[c].waiting = "search"
    <3> DEFINE g == Gives(loop[c], "search", Len(loop[c].got) + 1)
               l == [loop[c] EXCEPT !.got = Append(@, g), !.waiting = "nothing"]
    <3>1. Len(loop[c].got) + 1 \in Ids /\ loop[c].op \in Gen /\ loop[c].rounds \in Nat
      BY <1>2, <2>1 DEF LoopOK, Loop
    <3>2. g \in Given /\ g.call = CallOf(loop[c], Len(loop[c].got) + 1)
      BY <3>1 DEF Gives, CallOf, Given, Call
    <3>3. Ready(l) /\ l.op = gen[c] /\ (OwnResults(loop[c]) => OwnResults(l))
      <4> HIDE DEF g
      <4> QED  BY <1>2, <2>1, <3>2, OneMoreResult
    <3>4. Advance(c, l, toolResults) /\ UNCHANGED <<busy, values>>  BY <1>3, <2>1 DEF Found
    <3> HIDE DEF l
    <3>5. Continued(c, l)  BY <1>1, <1>2, <3>3, <3>4, AdvanceStep
    <3>6. GoesOn(c, l)  BY <3>3, <3>4, <3>5, <1>2 DEF GoesOn
    <3> QED  BY <3>3, <3>6, <2>1
  <2>2. CASE ~(loop[c] # None /\ loop[c].waiting = "search")
    BY <1>3, <2>2 DEF Found, NothingComesOfIt
  <2> QED  BY <2>1, <2>2
<1>4. CASE r.out # "found"
  <2> DEFINE l == IF loop[c] = None THEN NewLoop(r.op, FALSE) ELSE loop[c]
             next == [l EXCEPT !.rounds = @ + 1, !.asked = <<>>, !.got = <<>>]
             goOn == [next EXCEPT !.more = @ + 1]
             called == [next EXCEPT !.asked = r.calls]
  <2>1. l \in Loop /\ l.op = gen[c]
    <3>1. CASE loop[c] = None  BY <3>1, <1>1 DEF NewLoop, Loop
    <3>2. CASE loop[c] # None  BY <3>2, <1>2
    <3> QED  BY <3>1, <3>2
  <2> HIDE DEF l
  <2>n. next \in Loop /\ next.op = l.op /\ next.got = <<>> /\ next.asked = <<>>
    <3>1. l.op \in Gen /\ l.rounds + 1 \in Nat  BY <2>1 DEF Loop
    <3>2. next.op = l.op /\ next.got = <<>> /\ next.asked = <<>>  BY <2>1 DEF Loop
    <3>3. <<>> \in Seq(Given) /\ <<>> \in Seq(Tool)  OBVIOUS
    <3>4. next \in Loop  BY <2>1, <3>1, <3>3 DEF Loop
    <3> QED  BY <3>2, <3>4
  <2>2. ASSUME Send(c, goOn), busy' = [busy EXCEPT ![c] = TRUE],
               UNCHANGED <<values, queue, shown, toolResults>>
        PROVE  GoesOn(c, goOn) /\ OwnResults(goOn)
    <3> HIDE DEF next
    <3>7. goOn \in Loop /\ goOn.op = l.op /\ goOn.got = <<>> /\ DOMAIN goOn.asked \subseteq Ids
      BY <2>n DEF Loop
    <3>2. Ready(goOn) /\ goOn.op = l.op /\ OwnResults(goOn)
      BY <3>7, NewRound
    <3> DEFINE m == [goOn EXCEPT !.waiting = "nothing"]
    <3> HIDE DEF goOn
    <3>3. /\ m \in Loop /\ LoopOK(m) /\ m.op = goOn.op /\ m.waiting = "nothing"
          /\ m.got = goOn.got /\ m.rounds = goOn.rounds
          /\ loop' = [loop EXCEPT ![c] = m]
          /\ pending' = [pending EXCEPT ![c] = goOn.op]
          /\ \E w \in Thread : w.ctrl = c /\ w.op = goOn.op /\ worker' = worker \cup {w}
      BY <1>1, <2>2, <3>2, SendStep DEF Ready
    <3> HIDE DEF m
    <3>4. OwnResults(goOn) => OwnResults(m)  BY <3>3 DEF OwnResults, CallOf
    <3>5. queue' = queue \o <<>> /\ <<>> \in Seq(Raised) /\ OnTheWay(<<>>, c, goOn.op)
      BY <2>2 DEF OnTheWay, TypeOK, EventType
    <3>6. Continued(c, goOn)  BY <1>2, <2>2, <3>3, <3>4, <3>5 DEF Continued
    <3> QED  BY <1>1, <1>2, <2>1, <2>2, <3>2, <3>6 DEF GoesOn
  <2>3. ASSUME Advance(c, called, toolResults), UNCHANGED <<busy, values>>
        PROVE  GoesOn(c, called) /\ OwnResults(called)
    <3> HIDE DEF next
    <3>4. called \in Loop /\ called.op = l.op /\ called.got = <<>> /\ DOMAIN called.asked \subseteq Ids
      BY <1>1, <2>n DEF Loop
    <3>2. Ready(called) /\ called.op = l.op /\ OwnResults(called)
      BY <3>4, NewRound
    <3> HIDE DEF called
    <3>3. Continued(c, called)  BY <1>1, <1>2, <2>3, <3>2, AdvanceStep
    <3> QED  BY <1>2, <2>1, <2>3, <3>2, <3>3 DEF GoesOn
  <2>4. Reply(r)  BY <1>4
  <2> HIDE DEF goOn, called
  <2>5. CASE \E name \in {"onError", "onResponse"} : Conclude(c, r.op, name)  BY <2>5
  <2>6. CASE /\ Send(c, goOn) /\ busy' = [busy EXCEPT ![c] = TRUE]
             /\ UNCHANGED <<values, queue, shown, toolResults>>
    BY <2>2, <2>6
  <2>7. CASE Advance(c, called, toolResults) /\ UNCHANGED <<busy, values>>
    BY <2>3, <2>7
  <2> QED  BY <2>4, <2>5, <2>6, <2>7 DEF Reply, l, next, goOn, called
<1> QED  BY <1>3, <1>4

(* tool_loops_resume: what comes of a handler that returned.               *)
LEMMA ResumeStep ==
  ASSUME TypeOK, Generations, Loops, NEW c \in Control, Returned(c), Resume(c),
         UNCHANGED <<busy, values>>
  PROVE  \/ /\ ~LoopLive(c) /\ loop' = [loop EXCEPT ![c] = None]
            /\ UNCHANGED <<pending, worker, queue, shown, toolResults>>
         \/ /\ pending[c] # 0
            /\ \E l : /\ GoesOn(c, l)
                      /\ OwnResults(loop[c]) /\ Tools => OwnResults(l)
<1>1. CASE ~LoopLive(c)  BY <1>1 DEF Resume
<1>2. CASE LoopLive(c)
  <2> DEFINE id == Len(loop[c].got) + 1
             g  == IF toolResults[id] = None THEN Gives(loop[c], "nobody", id)
                   ELSE [by |-> "program", call |-> toolResults[id]]
             l == [loop[c] EXCEPT !.got = Append(@, g), !.waiting = "nothing"]
             given == [toolResults EXCEPT ![id] = None]
  <2>1. /\ pending[c] # 0 /\ loop[c] # None /\ loop[c].waiting = "dispatched"
        /\ loop[c] \in Loop /\ LoopOK(loop[c]) /\ loop[c].op = gen[c]
    BY <1>2, OwnLoop DEF LoopLive, Returned
  <2>2. /\ busy \in [Control -> BOOLEAN] /\ shown \in [Control -> Call \cup {None}]
        /\ toolResults \in [Ids -> Call \cup {None}] /\ queue \in Seq(Raised)
    BY DEF TypeOK, LoopType, EventType
  <2>3. id \in Ids /\ loop[c].op \in Gen /\ loop[c].rounds \in Nat
    BY <2>1 DEF LoopOK, Loop
  <2>4. Advance(c, l, given)  BY <1>2 DEF Resume
  <2>5. Tools => toolResults[id] \in {None, CallOf(loop[c], id)}
    BY <2>1 DEF Tools, ByProgram
  <2> HIDE DEF id
  <2>6. g \in Given /\ (Tools => g.call = CallOf(loop[c], id))
    BY <2>2, <2>3, <2>5 DEF Gives, CallOf, Given, Call
  <2>7. Ready(l) /\ l.op = gen[c] /\ (OwnResults(loop[c]) /\ Tools => OwnResults(l))
    <3> HIDE DEF g
    <3> QED  BY <2>1, <2>6, OneMoreResult DEF id
  <2>8. given \in [Ids -> Call \cup {None}]  BY <2>2, <2>3
  <2> HIDE DEF l, given
  <2>9. GoesOn(c, l)  BY <2>2, <2>4, <2>7, <2>8, AdvanceStep DEF GoesOn
  <2> QED  BY <2>1, <2>7, <2>9
<1> QED  BY <1>1, <1>2

(* What comes of a result of another control that is not stale.            *)
Carry(c, name, op, final) ==
  payload' = [payload EXCEPT ![c] = Append(@, [name |-> name, op |-> op, final |-> final])]

Word(r) ==
  /\ queue' = Append(queue, Says(r.ctrl, "onProgress", r.op))
  /\ Carry(r.ctrl, "onProgress", r.op, FALSE)
  /\ UNCHANGED <<pending, busy, values>>

Wrote(r) ==
  /\ pending' = [pending EXCEPT ![r.ctrl] = 0]
  /\ busy' = [busy EXCEPT ![r.ctrl] = FALSE]
  /\ values' = [values EXCEPT ![r.ctrl] = r.op]
  /\ UNCHANGED payload

Written(r, name) == Wrote(r) /\ queue' = Append(queue, Says(r.ctrl, name, r.op))

Searched(r) ==
  /\ Wrote(r)
  /\ queue' = queue \o <<Says(r.ctrl, "onResultsReceived", r.op), Says(r.ctrl, "onComplete", r.op)>>

Carried(r, name) ==
  /\ pending' = [pending EXCEPT ![r.ctrl] = 0]
  /\ Carry(r.ctrl, name, r.op, TRUE)
  /\ UNCHANGED <<busy, values>>

LEMMA ApplyStep ==
  ASSUME TypeOK, NEW r \in Report, kind[r.ctrl] # "agent", Apply(r),
         r.out = "progress" => kind[r.ctrl] = "kb",
         kind[r.ctrl] = "aws" => r.out \in {"done", "error", "timeout"}
  PROVE  \/ kind[r.ctrl] = "kb" /\ r.out = "progress" /\ Word(r)
         \/ /\ kind[r.ctrl] \in {"rest", "web"} /\ r.out # "progress"
            /\ \E name \in {"onComplete", "onError"} : Written(r, name)
         \/ kind[r.ctrl] = "web" /\ r.out # "progress" /\ Searched(r)
         \/ /\ kind[r.ctrl] = "sql" /\ r.out # "progress"
            /\ \E name \in {"onQueryComplete", "onQueryError"} : Written(r, name)
         \/ /\ kind[r.ctrl] = "kb" /\ r.out # "progress"
            /\ \E name \in {"onIndexed", "onError"} :
                 Carried(r, name) /\ queue' = Append(queue, Says(r.ctrl, name, r.op))
         \/ /\ kind[r.ctrl] = "aws" /\ r.out # "progress"
            /\ \E name \in {"onError", "onTimeout"} :
                 Carried(r, name) /\ queue' = Append(queue, Says(r.ctrl, name, r.op))
         \/ /\ kind[r.ctrl] = "aws" /\ r.out # "progress"
            /\ Carried(r, "onInvoked")
            /\ queue' = queue \o <<Says(r.ctrl, "onInvoked", r.op), Says(r.ctrl, "onComplete", r.op)>>
<1> DEFINE c == r.ctrl
<1>1. c \in Control /\ kind[c] \in {"rest", "web", "kb", "aws", "sql"}
  BY FormsAssumption DEF TypeOK, Report, Kind
<1>2. ASSUME NEW n, queue' = queue \o [i \in DOMAIN <<n>> |-> Says(c, <<n>>[i], r.op)]
      PROVE  queue' = Append(queue, Says(c, n, r.op))
  BY <1>2 DEF TypeOK, EventType
<1>3. ASSUME NEW m, NEW n, queue' = queue \o [i \in DOMAIN <<m, n>> |-> Says(c, <<m, n>>[i], r.op)]
      PROVE  queue' = queue \o <<Says(c, m, r.op), Says(c, n, r.op)>>
  BY <1>3
<1>4. CASE r.out = "progress"  BY <1>1, <1>2, <1>4 DEF Apply, Word, Carry
<1>5. CASE r.out # "progress" /\ kind[c] \in {"rest", "web"}
  <2>1. CASE r.out = "done" /\ kind[c] = "rest"  BY <1>2, <1>5, <2>1 DEF Apply, Completion, Written, Wrote
  <2>2. CASE r.out = "done" /\ kind[c] = "web"
    <3>1. Completion(c) = <<"onResultsReceived", "onComplete">>  BY <2>2 DEF Completion
    <3>2. /\ pending' = [pending EXCEPT ![c] = 0] /\ busy' = [busy EXCEPT ![c] = FALSE]
          /\ values' = [values EXCEPT ![c] = r.op] /\ UNCHANGED payload
          /\ queue' = queue \o [i \in DOMAIN Completion(c) |-> Says(c, Completion(c)[i], r.op)]
      BY <1>5, <2>2 DEF Apply
    <3> QED  BY <1>3, <2>2, <3>1, <3>2 DEF Searched, Wrote
  <2>3. CASE r.out # "done"  BY <1>2, <1>5, <2>3 DEF Apply, Written, Wrote
  <2> QED  BY <1>5, <2>1, <2>2, <2>3
<1>6. CASE r.out # "progress" /\ kind[c] = "sql"
  <2>1. CASE r.out = "done"  BY <1>2, <1>6, <2>1 DEF Apply, Written, Wrote
  <2>2. CASE r.out # "done"  BY <1>2, <1>6, <2>2 DEF Apply, Written, Wrote
  <2> QED  BY <2>1, <2>2
<1>7. CASE r.out # "progress" /\ kind[c] = "kb"
  <2>1. CASE r.out = "done"  BY <1>2, <1>7, <2>1 DEF Apply, Carried, Carry
  <2>2. CASE r.out # "done"  BY <1>2, <1>7, <2>2 DEF Apply, Carried, Carry
  <2> QED  BY <2>1, <2>2
<1>8. CASE r.out # "progress" /\ kind[c] = "aws"
  <2>1. CASE r.out = "done"  BY <1>3, <1>8, <2>1 DEF Apply, Carried, Carry
  <2>2. CASE r.out = "error"  BY <1>2, <1>8, <2>2 DEF Apply, Carried, Carry
  <2>3. CASE r.out = "timeout"  BY <1>2, <1>8, <2>3 DEF Apply, Carried, Carry
  <2> QED  BY <1>8, <2>1, <2>2, <2>3
<1> QED  BY <1>1, <1>4, <1>5, <1>6, <1>7, <1>8

-----------------------------------------------------------------------------
(* Types.                                                                  *)

LEMMA InitType == Init => TypeOK
<1> SUFFICES ASSUME Init PROVE TypeOK
  OBVIOUS
<1> USE DEF Init, AsyncInit
<1>1. kind \in DOMAIN Forms  OBVIOUS
<1>2. gen \in [Control -> Gen] /\ pending \in [Control -> Gen] /\ values \in [Control -> Gen]
  BY Generation
<1>3. /\ busy \in [Control -> BOOLEAN] /\ cut \in [Control -> SUBSET Gen]
      /\ at \in {"handler", "drain", "sweep", "pop"}
  OBVIOUS
<1>4. ReportType  BY DEF ReportType
<1>5. EventType  BY DEF EventType
<1>6. DbType  BY BoundsAssumption DEF DbType
<1>7. LoopType  BY DEF LoopType
<1> QED  BY <1>1, <1>2, <1>3, <1>4, <1>5, <1>6, <1>7 DEF TypeOK

LEMMA Says1 ==
  ASSUME NEW c \in Control, NEW n \in Event, NEW op \in Gen
  PROVE  Says(c, n, op) \in Raised
  BY DEF Says, Raised

(* The generations a start and a cut-off come to.                          *)
LEMMA NextGeneration ==
  ASSUME TypeOK, Generations, NEW c \in Control
  PROVE  /\ gen[c] \in Nat /\ pending[c] \in Nat /\ Forms[kind][c] \in Nat
         /\ gen[c] <= Forms[kind][c] => gen[c] + 1 \in Gen
<1>1. gen[c] \in Nat /\ pending[c] \in Nat  BY Generation DEF TypeOK
<1>2. Forms[kind][c] \in Nat /\ kind \in DOMAIN Forms  BY FormsAssumption DEF TypeOK
<1>3. gen[c] <= Forms[kind][c] => gen[c] + 1 \in 0 .. Forms[kind][c] + 1  BY <1>1, <1>2
<1> QED  BY <1>1, <1>2, <1>3, Generation

LEMMA BeginType ==
  ASSUME TypeOK, Generations, NEW c \in Control, MayStart(c),
         NEW does \in {"op", "round", "search"}, NEW h \in 0 .. LastHandle, Begin(c, does, h)
  PROVE  /\ gen[c] + 1 \in Gen
         /\ gen' \in [Control -> Gen] /\ pending' \in [Control -> Gen]
         /\ busy' \in [Control -> BOOLEAN] /\ worker' \subseteq Thread
         /\ values' \in [Control -> Gen]
<1>1. gen[c] + 1 \in Gen  BY NextGeneration DEF MayStart
<1>2. [ctrl |-> c, op |-> gen[c] + 1, does |-> does, db |-> h, said |-> FALSE] \in Thread
  BY <1>1 DEF Thread
<1> QED  BY <1>1, <1>2 DEF Begin, TypeOK, ReportType

LEMMA CutOffType ==
  ASSUME TypeOK, Generations, NEW c \in Control, NEW name \in Event, CutOff(c, name),
         UNCHANGED agentVars, at' \in {"handler", "drain", "sweep", "pop"}
  PROVE  TypeOK'
<1>1. gen[c] + 1 \in Gen /\ pending[c] \in Gen /\ 0 \in Gen
  BY NextGeneration, Generation DEF CutOff, Generations, TypeOK
<1>2. Says(c, name, pending[c]) \in Raised  BY <1>1, Says1
<1>3. gen' \in [Control -> Gen] /\ pending' \in [Control -> Gen] /\ busy' \in [Control -> BOOLEAN]
      /\ cut' \in [Control -> SUBSET Gen]
  BY <1>1 DEF CutOff, TypeOK
<1>4. ReportType'  BY DEF CutOff, TypeOK, ReportType
<1>5. EventType'  BY <1>2 DEF CutOff, TypeOK, EventType
<1>6. DbType'  BY DEF CutOff, TypeOK, DbType, db
<1>7. LoopType'  BY DEF TypeOK, LoopType, agentVars
<1> QED  BY <1>3, <1>4, <1>5, <1>6, <1>7 DEF CutOff, TypeOK

(* The report of a thread.                                                 *)
LEMMA ReportedType ==
  ASSUME TypeOK, NEW w \in worker,
         NEW out \in {"done", "error", "timeout", "progress", "cut", "calls", "found"},
         NEW calls \in Replies \cup {<<>>}, results' = Append(results, Answer(w, out, calls)),
         worker' \subseteq Thread
  PROVE  ReportType'
<1>1. DOMAIN calls \subseteq Ids  BY DEF Ids
<1>3. calls \in Seq(Tool)
  <2>1. <<>> \in Seq(Tool)  OBVIOUS
  <2> QED  BY <2>1, RepliesAssumption, Zenon
<1>4. w \in Thread  BY DEF TypeOK, ReportType
<1>2. Answer(w, out, calls) \in Report /\ DOMAIN Answer(w, out, calls).calls \subseteq Ids
  BY <1>1, <1>3, <1>4 DEF Answer, Report, Thread
<1> QED  BY <1>2 DEF ReportType, TypeOK

LEMMA ContinuedType ==
  ASSUME TypeOK, NEW c \in Control, NEW l, GoesOn(c, l)
  PROVE  /\ pending' \in [Control -> Gen] /\ values' \in [Control -> Gen]
         /\ busy' \in [Control -> BOOLEAN]
         /\ worker' \subseteq Thread /\ queue' \in Seq(Raised) /\ LoopType'
<1>1. PICK m \in Loop :
       /\ loop' = [loop EXCEPT ![c] = m]
       /\ LoopOK(m) /\ m.op = l.op
       /\ \/ /\ shown' = shown
             /\ \E w \in Thread : worker' = worker \cup {w}
          \/ /\ worker' = worker
             /\ Len(m.got) + 1 \in Ids
             /\ shown' = [shown EXCEPT ![c] = CallOf(m, Len(m.got) + 1)]
  BY DEF GoesOn, Continued
<1>2. l.op \in Gen  BY DEF GoesOn, TypeOK
<1>3. m.rounds \in Nat /\ m.op \in Gen  BY DEF Loop
<1>l. /\ loop' \in [Control -> Loop \cup {None}]
      /\ \A d \in Control : loop'[d] # None => LoopOK(loop'[d])
      /\ toolResults' \in [Ids -> Call \cup {None}]
  BY <1>1 DEF GoesOn, Continued, TypeOK, LoopType
<1>4. shown' \in [Control -> Call \cup {None}]
  <2>1. CASE shown' = shown  BY <2>1 DEF TypeOK, LoopType
  <2>2. CASE /\ Len(m.got) + 1 \in Ids /\ shown' = [shown EXCEPT ![c] = CallOf(m, Len(m.got) + 1)]
    <3>1. CallOf(m, Len(m.got) + 1) \in Call  BY <1>3, <2>2 DEF CallOf, Call
    <3> QED  BY <2>2, <3>1 DEF TypeOK, LoopType
  <2> QED  BY <1>1, <2>1, <2>2
<1>6. LoopType'  BY <1>l, <1>4 DEF LoopType, LoopOK
<1>7. queue' \in Seq(Raised)
  BY DEF GoesOn, Continued, TypeOK, EventType
<1>8. worker' \subseteq Thread  BY <1>1 DEF TypeOK, ReportType
<1>9. pending' \in [Control -> Gen]  BY <1>2 DEF GoesOn, Continued, TypeOK
<1> QED  BY <1>6, <1>7, <1>8, <1>9 DEF GoesOn, TypeOK

(* The oldest report and those behind it.                                  *)
LEMMA FirstReport ==
  ASSUME TypeOK, results # <<>>
  PROVE  /\ Head(results) \in Report /\ DOMAIN Head(results).calls \subseteq Ids
         /\ Head(results) = results[1] /\ 1 \in DOMAIN results
         /\ Tail(results) \in Seq(Report)
         /\ \A i \in DOMAIN Tail(results) : /\ i + 1 \in DOMAIN results /\ i \in Nat /\ i > 0
                                            /\ Tail(results)[i] = results[i + 1]
<1>1. results \in Seq(Report) /\ \A i \in DOMAIN results : DOMAIN results[i].calls \subseteq Ids
  BY DEF TypeOK, ReportType
<1>2. results[1] \in Report /\ 1 \in DOMAIN results /\ Head(results) = results[1]
  BY <1>1
<1>3. Tail(results) \in Seq(Report) /\ Len(Tail(results)) = Len(results) - 1
      /\ \A i \in 1 .. Len(results) - 1 : Tail(results)[i] = results[i + 1]
  BY <1>1
<1> QED  BY <1>1, <1>2, <1>3

LEMMA TailReports ==
  ASSUME TypeOK, results # <<>>, results' = Tail(results), worker' \subseteq Thread
  PROVE  ReportType'
<1>1. /\ Tail(results) \in Seq(Report)
      /\ \A i \in DOMAIN Tail(results) : /\ i + 1 \in DOMAIN results
                                         /\ Tail(results)[i] = results[i + 1]
  BY FirstReport
<1> QED  BY <1>1 DEF ReportType, TypeOK

(* A result that is not stale is of an operation in flight.                *)
LEMMA LiveReport ==
  ASSUME IInv, results # <<>>, ~Stale(Head(results))
  PROVE  /\ Head(results).ctrl \in Control /\ Head(results).op \in Gen
         /\ Head(results).op = gen[Head(results).ctrl] /\ pending[Head(results).ctrl] # 0
         /\ pending[Head(results).ctrl] = gen[Head(results).ctrl]
         /\ ~ByProgram(Head(results).ctrl)
<1>1. /\ Head(results) \in Report /\ Head(results) = results[1] /\ 1 \in DOMAIN results
      /\ Head(results).ctrl \in Control /\ Head(results).op \in Gen
  BY FirstReport DEF IInv, Report
<1>2. Live(results[1])  BY <1>1 DEF Stale, Live
<1>3. pending[results[1].ctrl] # 0 /\ ~ByProgram(results[1].ctrl)
  BY <1>1, <1>2 DEF IInv, Tokens, ReportsLive
<1> QED  BY <1>1, <1>2, <1>3 DEF IInv, Generations, Live

(* An event of which only the types matter.                                *)
LEMMA RaisedType ==
  ASSUME TypeOK, NEW e \in Raised, queue' = Append(queue, e), UNCHANGED <<event, told>>,
         payload' \in [Control -> Seq(Payload)]
  PROVE  EventType'
  BY DEF EventType, TypeOK

LEMMA StartType ==
  ASSUME IInv, NEW c \in Control, Start(c), UNCHANGED agentVars
  PROVE  TypeOK'
<1>1. /\ gen' \in [Control -> Gen] /\ pending' \in [Control -> Gen]
      /\ busy' \in [Control -> BOOLEAN] /\ worker' \subseteq Thread
      /\ values' \in [Control -> Gen]
  BY BeginType, BoundsAssumption DEF Start, IInv
<1> QED
  BY <1>1 DEF Start, IInv, TypeOK, ReportType, EventType, DbType, LoopType, events, db, agentVars

LEMMA AskType ==
  ASSUME IInv, NEW c \in Control, NEW offers \in BOOLEAN, Ask(c, offers)
  PROVE  TypeOK'
<1>1. /\ gen' \in [Control -> Gen] /\ pending' \in [Control -> Gen]
      /\ busy' \in [Control -> BOOLEAN] /\ worker' \subseteq Thread
      /\ values' \in [Control -> Gen] /\ gen[c] + 1 \in Gen
  BY BeginType, BoundsAssumption DEF Ask, IInv
<1> DEFINE l == NewLoop(gen[c] + 1, TRUE)
<1>2. l \in Loop /\ LoopOK(l)
  <2>1. l \in Loop
    <3>1. <<>> \in Seq(Given) /\ <<>> \in Seq(Tool)  OBVIOUS
    <3> QED  BY <1>1, <3>1 DEF NewLoop, Loop
  <2> QED  BY <2>1 DEF LoopOK, NewLoop
<1> HIDE DEF l
<1>3. loop' = [loop EXCEPT ![c] = IF offers THEN l ELSE None]  BY DEF Ask, l
<1>4. LoopType'
  <2>1. loop' \in [Control -> Loop \cup {None}]  BY <1>2, <1>3 DEF IInv, TypeOK, LoopType
  <2>2. \A d \in Control : loop'[d] # None => LoopOK(loop'[d])
    BY <1>2, <1>3 DEF IInv, TypeOK, LoopType
  <2>3. shown' \in [Control -> Call \cup {None}] /\ toolResults' \in [Ids -> Call \cup {None}]
    BY DEF Ask, IInv, TypeOK, LoopType
  <2> QED  BY <2>1, <2>2, <2>3 DEF LoopType, LoopOK
<1> QED
  BY <1>1, <1>4 DEF Ask, IInv, TypeOK, ReportType, EventType, DbType, events, db

(* Handlers that touch the connections or only raise an event.             *)
LEMMA HandlerType ==
  ASSUME IInv, NEW c \in Control, Query(c) \/ Refuse(c) \/ OpenDb(c) \/ CloseDb(c),
         UNCHANGED agentVars
  PROVE  TypeOK'
<1> USE DEF agentVars, ops, db, events
<1>0. 0 \in Gen  BY Generation
<1>t. /\ TypeOK /\ ReportType /\ EventType /\ DbType /\ LoopType  BY DEF IInv, TypeOK
<1>1. CASE Query(c)
  <2>1. CASE handle[c] \in home
    <3>1. handle[c] \in 0 .. LastHandle  BY <1>t DEF DbType
    <3>2. /\ gen' \in [Control -> Gen] /\ pending' \in [Control -> Gen]
          /\ busy' \in [Control -> BOOLEAN] /\ worker' \subseteq Thread
          /\ values' \in [Control -> Gen]
      BY <1>1, <2>1, <3>1, BeginType DEF Query, IInv
    <3>3. home' = home \ {handle[c]} /\ lent' = lent \cup {handle[c]}  BY <1>1, <2>1 DEF Query
    <3>4. DbType'
      BY <1>1, <1>t, <2>1, <3>3 DEF Query, DbType
    <3>5. EventType' /\ LoopType'  BY <1>1, <1>t, <2>1 DEF Query, EventType, LoopType
    <3>6. ReportType'  BY <1>1, <1>t, <3>2 DEF Query, ReportType
    <3> QED  BY <1>1, <1>t, <2>1, <3>2, <3>4, <3>5, <3>6 DEF Query, TypeOK
  <2>2. CASE handle[c] \notin home
    <3>1. Says(c, "onQueryError", 0) \in Raised  BY <1>0, Says1 DEF Event
    <3>4. /\ queue' = Append(queue, Says(c, "onQueryError", 0))
          /\ UNCHANGED <<payload, event, told>>
      BY <1>1, <2>2 DEF Query
    <3>2. EventType'  BY <1>t, <3>1, <3>4 DEF EventType
    <3>3. ReportType' /\ DbType' /\ LoopType'
      BY <1>1, <1>t, <2>2 DEF Query, ReportType, DbType, LoopType
    <3> QED  BY <1>1, <1>t, <2>2, <3>2, <3>3 DEF Query, TypeOK
  <2> QED  BY <2>1, <2>2
<1>2. CASE Refuse(c)
  <2>1. Says(c, "onError", 0) \in Raised  BY <1>0, Says1 DEF Event
  <2>2. [name |-> "onError", op |-> 0, final |-> FALSE] \in Payload  BY <1>0 DEF Payload, Event
  <2>3. payload' \in [Control -> Seq(Payload)]
    <3> DEFINE p == [name |-> "onError", op |-> 0, final |-> FALSE]
    <3>1. payload' = payload \/ payload' = [payload EXCEPT ![c] = Append(@, p)]  BY <1>2 DEF Refuse
    <3>2. payload[c] \in Seq(Payload) /\ p \in Payload  BY <1>t, <2>2 DEF EventType
    <3> HIDE DEF p
    <3>3. Append(payload[c], p) \in Seq(Payload)  BY <3>2
    <3> QED  BY <1>t, <3>1, <3>3 DEF EventType
  <2>4. EventType'  BY <1>2, <1>t, <2>1, <2>3 DEF Refuse, EventType
  <2>5. ReportType' /\ DbType' /\ LoopType'  BY <1>2, <1>t DEF Refuse, ReportType, DbType, LoopType
  <2> QED  BY <1>2, <1>t, <2>4, <2>5 DEF Refuse, TypeOK
<1>3. CASE OpenDb(c)
  <2>1. Says(c, "onConnectOk", 0) \in Raised  BY <1>0, Says1 DEF Event
  <2>2. EventType'  BY <1>3, <1>t, <2>1 DEF OpenDb, EventType
  <2>3. opened + 1 \in 1 .. LastHandle  BY <1>3, <1>t, BoundsAssumption DEF OpenDb, DbType
  <2>4. DbType'  BY <1>3, <1>t, <2>3 DEF OpenDb, DbType, Handle
  <2>5. ReportType' /\ LoopType'  BY <1>3, <1>t DEF OpenDb, ReportType, LoopType
  <2> QED  BY <1>3, <1>t, <2>2, <2>4, <2>5 DEF OpenDb, TypeOK
<1>4. CASE CloseDb(c)
  <2>1. DbType'  BY <1>4, <1>t DEF CloseDb, DbType
  <2>2. EventType' /\ ReportType' /\ LoopType'
    BY <1>4, <1>t DEF CloseDb, EventType, ReportType, LoopType
  <2> QED  BY <1>4, <1>t, <2>1, <2>2 DEF CloseDb, TypeOK
<1> QED  BY <1>1, <1>2, <1>3, <1>4

LEMMA ReportType1 ==
  ASSUME IInv, NEW w \in worker,
         \/ EndOfRound(w)
         \/ (EndOfOp(w) \/ Progress(w)) /\ UNCHANGED agentVars
  PROVE  TypeOK'
<1> USE DEF agentVars, db, events
<1>t. TypeOK /\ ReportType /\ EventType /\ DbType /\ LoopType /\ w \in Thread
  BY DEF IInv, TypeOK, ReportType
<1>1. ReportType'
  <2>1. CASE EndOfRound(w)
    <3>1. worker' \subseteq Thread  BY <1>t, <2>1 DEF EndOfRound, ReportType
    <3>2. PICK out \in {"done", "error", "timeout", "progress", "cut", "calls", "found"},
               calls \in Replies \cup {<<>>} : results' = Append(results, Answer(w, out, calls))
      BY <2>1 DEF EndOfRound
    <3> QED  BY <1>t, <3>1, <3>2, ReportedType
  <2>2. CASE EndOfOp(w)
    <3>1. worker' \subseteq Thread  BY <1>t, <2>2 DEF EndOfOp, ReportType
    <3>2. PICK out \in {"done", "error", "timeout", "progress", "cut", "calls", "found"} :
               results' = Append(results, Answer(w, out, <<>>))
      BY <2>2 DEF EndOfOp
    <3> QED  BY <1>t, <3>1, <3>2, ReportedType
  <2>3. CASE Progress(w)
    <3>1. worker' \subseteq Thread
      <4>1. [w EXCEPT !.said = TRUE] \in Thread  BY <1>t DEF Thread
      <4> QED  BY <1>t, <2>3, <4>1 DEF Progress, ReportType
    <3>2. results' = Append(results, Answer(w, "progress", <<>>))  BY <2>3 DEF Progress
    <3> QED  BY <1>t, <3>1, <3>2, ReportedType
  <2> QED  BY <2>1, <2>2, <2>3
<1>2. EventType' /\ DbType' /\ LoopType'
  BY <1>t DEF EndOfRound, EndOfOp, Progress, EventType, DbType, LoopType
<1>3. UNCHANGED <<kind, gen, pending, values, busy, cut, at>>
  BY DEF EndOfRound, EndOfOp, Progress
<1> QED  BY <1>1, <1>2, <1>3, <1>t DEF TypeOK

LEMMA WaitType ==
  ASSUME IInv, Wait
  PROVE  TypeOK'
<1> USE DEF agentVars, db, events
<1>t. TypeOK /\ Generations /\ Loops /\ ReportType /\ EventType /\ DbType /\ LoopType
  BY DEF IInv, TypeOK
<1>1. DbType'  BY <1>t DEF Wait, DbType
<1>2. /\ pending' \in [Control -> Gen] /\ worker' \subseteq Thread
      /\ queue' \in Seq(Raised) /\ LoopType'
  <2>1. CASE \E c \in Control : Returned(c) /\ Resume(c)
    <3>1. PICK c \in Control : Returned(c) /\ Resume(c)  BY <2>1
    <3>2. UNCHANGED <<busy, values>>  BY DEF Wait
    <3>3. CASE /\ loop' = [loop EXCEPT ![c] = None]
               /\ UNCHANGED <<pending, worker, queue, shown, toolResults>>
      BY <1>t, <3>3 DEF TypeOK, ReportType, EventType, LoopType, LoopOK
    <3>4. CASE \E l : GoesOn(c, l)  BY <1>t, <3>4, ContinuedType
    <3> QED  BY <1>t, <3>1, <3>2, <3>3, <3>4, ResumeStep
  <2>2. CASE UNCHANGED <<pending, worker, queue, agentVars>>
    BY <1>t, <2>2 DEF TypeOK, ReportType, EventType, LoopType
  <2> QED  BY <2>1, <2>2 DEF Wait
<1>3. EventType'  BY <1>2, <1>t DEF Wait, EventType
<1>4. ReportType'  BY <1>2, <1>t DEF Wait, ReportType
<1> QED  BY <1>1, <1>2, <1>3, <1>4, <1>t DEF Wait, TypeOK

LEMMA DeliverAgentType ==
  ASSUME IInv, DeliverAgent
  PROVE  TypeOK'
<1> USE DEF agentVars, db, events
<1>t. TypeOK /\ Generations /\ Loops /\ ReportType /\ EventType /\ DbType /\ LoopType
  BY DEF IInv, TypeOK
<1>1. DbType'  BY <1>t DEF DeliverAgent, DbType
<1> DEFINE r == Head(results)
<1>r. r \in Report /\ DOMAIN r.calls \subseteq Ids  BY <1>t, FirstReport DEF DeliverAgent
<1>2. /\ pending' \in [Control -> Gen] /\ values' \in [Control -> Gen]
      /\ busy' \in [Control -> BOOLEAN] /\ worker' \subseteq Thread
      /\ queue' \in Seq(Raised) /\ LoopType'
  <2>1. CASE NothingComesOfIt
    BY <1>t, <2>1 DEF NothingComesOfIt, TypeOK, ReportType, EventType, LoopType
  <2>2. ASSUME ~Stale(r)
        PROVE  \/ NothingComesOfIt
               \/ \E name \in {"onError", "onResponse"} : Conclude(r.ctrl, r.op, name)
               \/ \E l : GoesOn(r.ctrl, l)
    <3>1. r.op = gen[r.ctrl] /\ pending[r.ctrl] # 0  BY <2>2, LiveReport DEF DeliverAgent
    <3>2. IF r.out = "found" THEN Found(r) ELSE Reply(r)  BY <2>2 DEF DeliverAgent
    <3> HIDE DEF r
    <3> QED  BY <1>t, <1>r, <3>1, <3>2, DeliveredStep
  <2>3. Stale(r) => NothingComesOfIt  BY DEF DeliverAgent, NothingComesOfIt
  <2> HIDE DEF r
  <2>4. r.ctrl \in Control /\ r.op \in Gen /\ 0 \in Gen  BY <1>r, Generation DEF Report
  <2>5. ASSUME NEW name \in {"onError", "onResponse"}, Conclude(r.ctrl, r.op, name)
        PROVE  /\ pending' \in [Control -> Gen] /\ values' \in [Control -> Gen]
               /\ busy' \in [Control -> BOOLEAN] /\ worker' \subseteq Thread
               /\ queue' \in Seq(Raised) /\ LoopType'
    <3>1. Says(r.ctrl, name, r.op) \in Raised  BY <2>4, Says1 DEF Event
    <3>2. queue' \in Seq(Raised)  BY <1>t, <2>5, <3>1 DEF Conclude, EventType
    <3>3. LoopType'  BY <1>t, <2>5 DEF Conclude, LoopType, LoopOK
    <3> QED  BY <1>t, <2>4, <2>5, <3>2, <3>3 DEF Conclude, TypeOK, ReportType
  <2>6. CASE \E l : GoesOn(r.ctrl, l)  BY <1>t, <2>4, <2>6, ContinuedType
  <2> QED  BY <2>1, <2>2, <2>3, <2>5, <2>6
<1>3. EventType'  BY <1>2, <1>t DEF DeliverAgent, EventType
<1>4. ReportType'  BY <1>2, <1>t, TailReports DEF DeliverAgent
<1> QED  BY <1>1, <1>2, <1>3, <1>4, <1>t DEF DeliverAgent, TypeOK

(* What comes of the oldest report when it is of another control.          *)
LEMMA DeliverStep ==
  ASSUME IInv, Deliver
  PROVE  LET r == Head(results) IN
         /\ r \in Report /\ r.ctrl \in Control /\ r.op \in Gen /\ kind[r.ctrl] # "agent"
         /\ \/ UNCHANGED <<pending, busy, values, events>>
            \/ /\ r.op = gen[r.ctrl] /\ pending[r.ctrl] = gen[r.ctrl] /\ pending[r.ctrl] # 0
               /\ ~Stale(r) /\ Apply(r)
               /\ r.out = "progress" => kind[r.ctrl] = "kb"
               /\ kind[r.ctrl] = "aws" => r.out \in {"done", "error", "timeout"}
<1> DEFINE r == Head(results)
<1>1. r \in Report /\ r = results[1] /\ 1 \in DOMAIN results /\ kind[r.ctrl] # "agent"
      /\ r.ctrl \in Control /\ r.op \in Gen
  BY FirstReport DEF IInv, Deliver, Report
<1>2. r.out = "progress" => kind[r.ctrl] = "kb"  BY <1>1 DEF IInv, Kinds
<1>3. kind[r.ctrl] = "aws" => r.out \in {"done", "error", "timeout"}  BY <1>1 DEF IInv, Kinds
<1>4. CASE Stale(r)  BY <1>1, <1>4 DEF Deliver
<1>5. CASE ~Stale(r)
  <2>1. /\ r.op = gen[r.ctrl] /\ pending[r.ctrl] # 0 /\ pending[r.ctrl] = gen[r.ctrl]
    BY <1>5, LiveReport DEF Deliver
  <2>2. Apply(r)  BY <1>5 DEF Deliver
  <2> HIDE DEF r
  <2> QED  BY <1>1, <1>2, <1>3, <1>5, <2>1, <2>2 DEF r
<1> QED  BY <1>4, <1>5

LEMMA DeliverType ==
  ASSUME IInv, Deliver, UNCHANGED agentVars
  PROVE  TypeOK'
<1> USE DEF agentVars, db, events
<1>t. TypeOK /\ ReportType /\ EventType /\ DbType /\ LoopType  BY DEF IInv, TypeOK
<1> DEFINE r == Head(results)
<1>1. r \in Report /\ r.ctrl \in Control /\ r.op \in Gen /\ kind[r.ctrl] # "agent"
  BY DeliverStep
<1>2. DbType'
  <2>1. home' \subseteq home \cup lent /\ lent' \subseteq lent /\ handle' = handle /\ opened' = opened
    BY DEF Deliver, GiveBack
  <2> QED  BY <1>t, <2>1 DEF DbType
<1>3. ReportType'  BY <1>t, TailReports DEF Deliver, ReportType
<1>4. LoopType'  BY <1>t DEF LoopType
<1>5. /\ pending' \in [Control -> Gen] /\ values' \in [Control -> Gen]
      /\ busy' \in [Control -> BOOLEAN] /\ queue' \in Seq(Raised)
      /\ payload' \in [Control -> Seq(Payload)]
  <2>1. CASE UNCHANGED <<pending, busy, values, events>>  BY <1>t, <2>1 DEF TypeOK, EventType
  <2>2. CASE /\ Apply(r)
             /\ r.out = "progress" => kind[r.ctrl] = "kb"
             /\ kind[r.ctrl] = "aws" => r.out \in {"done", "error", "timeout"}
    <3> HIDE DEF r
    <3>0. 0 \in Gen  BY <1>1, Generation
    <3>1. \A n \in Event : Says(r.ctrl, n, r.op) \in Raised  BY <1>1, Says1
    <3>2. ASSUME NEW n \in Event, NEW final \in BOOLEAN, Carry(r.ctrl, n, r.op, final)
          PROVE  payload' \in [Control -> Seq(Payload)]
      <4> DEFINE p == [name |-> n, op |-> r.op, final |-> final]
      <4>1. p \in Payload /\ payload[r.ctrl] \in Seq(Payload)
        BY <1>1, <1>t DEF Payload, EventType
      <4>2. payload' = [payload EXCEPT ![r.ctrl] = Append(@, p)]  BY <3>2 DEF Carry
      <4> HIDE DEF p
      <4>3. Append(payload[r.ctrl], p) \in Seq(Payload)  BY <4>1
      <4> QED  BY <1>t, <4>2, <4>3 DEF EventType
    <3>3. ASSUME NEW n \in Event, queue' = Append(queue, Says(r.ctrl, n, r.op))
          PROVE  queue' \in Seq(Raised)
      BY <1>t, <3>1, <3>3 DEF EventType
    <3>4. CASE Word(r)
      <4>1. queue' \in Seq(Raised)  BY <3>3, <3>4 DEF Word, Event
      <4>2. payload' \in [Control -> Seq(Payload)]  BY <3>2, <3>4 DEF Word, Event
      <4> QED  BY <1>t, <3>4, <4>1, <4>2 DEF Word, TypeOK
    <3>5. ASSUME NEW n \in Event, Written(r, n)
          PROVE  /\ pending' \in [Control -> Gen] /\ values' \in [Control -> Gen]
                 /\ busy' \in [Control -> BOOLEAN] /\ queue' \in Seq(Raised)
                 /\ payload' \in [Control -> Seq(Payload)]
      <4>1. queue' \in Seq(Raised)  BY <3>3, <3>5 DEF Written, Wrote
      <4> QED  BY <1>1, <1>t, <3>0, <3>5, <4>1 DEF Written, Wrote, TypeOK, EventType
    <3>s. CASE Searched(r)
      <4>1. queue' \in Seq(Raised)  BY <1>t, <3>1, <3>s DEF Searched, Wrote, EventType, Event
      <4> QED  BY <1>1, <1>t, <3>0, <3>s, <4>1 DEF Searched, Wrote, TypeOK, EventType
    <3>6. ASSUME NEW n \in Event, Carried(r, n)
          PROVE  /\ pending' \in [Control -> Gen] /\ values' \in [Control -> Gen]
                 /\ busy' \in [Control -> BOOLEAN] /\ payload' \in [Control -> Seq(Payload)]
      <4>1. payload' \in [Control -> Seq(Payload)]  BY <3>2, <3>6 DEF Carried
      <4> QED  BY <1>t, <3>0, <3>6, <4>1 DEF Carried, TypeOK
    <3>7. queue' = queue \o <<Says(r.ctrl, "onInvoked", r.op), Says(r.ctrl, "onComplete", r.op)>>
            => queue' \in Seq(Raised)
      BY <1>t, <3>1 DEF EventType, Event
    <3>8. {"onComplete", "onError", "onQueryComplete", "onQueryError", "onIndexed", "onTimeout",
           "onInvoked"} \subseteq Event
      BY DEF Event
    <3>9. \/ Word(r) \/ Searched(r)
          \/ \E n \in Event : Written(r, n)
          \/ \E n \in Event : Carried(r, n) /\ queue' = Append(queue, Says(r.ctrl, n, r.op))
          \/ /\ Carried(r, "onInvoked")
             /\ queue' = queue \o <<Says(r.ctrl, "onInvoked", r.op), Says(r.ctrl, "onComplete", r.op)>>
      BY <1>1, <1>t, <2>2, <3>8, ApplyStep
    <3> QED  BY <3>3, <3>4, <3>5, <3>s, <3>6, <3>7, <3>8, <3>9
  <2> QED  BY <2>1, <2>2, DeliverStep
<1>6. EventType'  BY <1>5, <1>t DEF Deliver, EventType
<1> QED  BY <1>2, <1>3, <1>4, <1>5, <1>6, <1>t DEF Deliver, TypeOK

(* The oldest event and those behind it.                                   *)
LEMMA FirstEvent ==
  ASSUME TypeOK, queue # <<>>
  PROVE  /\ Head(queue) \in Raised /\ Head(queue) = queue[1] /\ 1 \in DOMAIN queue
         /\ Head(queue).ctrl \in Control /\ Head(queue).op \in Gen /\ Head(queue).name \in Event
         /\ Tail(queue) \in Seq(Raised)
         /\ \A i \in DOMAIN Tail(queue) : /\ i + 1 \in DOMAIN queue /\ i \in Nat /\ i > 0
                                          /\ Tail(queue)[i] = queue[i + 1]
<1>1. queue \in Seq(Raised)  BY DEF TypeOK, EventType
<1>2. queue[1] \in Raised /\ 1 \in DOMAIN queue /\ Head(queue) = queue[1]
  BY <1>1
<1>3. Tail(queue) \in Seq(Raised) /\ Len(Tail(queue)) = Len(queue) - 1
      /\ \A i \in 1 .. Len(queue) - 1 : Tail(queue)[i] = queue[i + 1]
  BY <1>1
<1> QED  BY <1>1, <1>2, <1>3 DEF Raised

(* The oldest of the values waiting for their events.                      *)
LEMMA FirstPayload ==
  ASSUME TypeOK, NEW c \in Control, payload[c] # <<>>
  PROVE  /\ Head(payload[c]) \in Payload /\ Head(payload[c]) = payload[c][1]
         /\ 1 \in DOMAIN payload[c] /\ Tail(payload[c]) \in Seq(Payload)
         /\ DOMAIN Tail(payload[c]) = 1 .. Len(payload[c]) - 1 /\ Len(payload[c]) \in Nat
         /\ DOMAIN payload[c] = 1 .. Len(payload[c])
         /\ \A i \in DOMAIN Tail(payload[c]) :
              /\ i + 1 \in DOMAIN payload[c] /\ i \in Nat /\ i > 0
              /\ Tail(payload[c])[i] = payload[c][i + 1]
<1> DEFINE s == payload[c]
<1>1. s \in Seq(Payload)  BY DEF TypeOK, EventType
<1> HIDE DEF s
<1>2. s # <<>> => s[1] \in Payload /\ 1 \in DOMAIN s /\ Head(s) = s[1]
  BY <1>1
<1>3. s # <<>> => /\ Tail(s) \in Seq(Payload) /\ Len(Tail(s)) = Len(s) - 1
                  /\ \A i \in 1 .. Len(s) - 1 : Tail(s)[i] = s[i + 1]
  BY <1>1
<1> QED  BY <1>1, <1>2, <1>3 DEF s

LEMMA HandOutType ==
  ASSUME IInv, HandOut
  PROVE  TypeOK'
<1> USE DEF db
<1>t. TypeOK /\ ReportType /\ EventType /\ DbType /\ LoopType  BY DEF IInv, TypeOK
<1>0. Dispatch  BY DEF HandOut
<1> DEFINE e == Head(queue)
<1>1. e \in Raised /\ e.ctrl \in Control /\ e.op \in Gen /\ Tail(queue) \in Seq(Raised)
  BY <1>t, <1>0, FirstEvent DEF Dispatch
<1>2. /\ payload' \in [Control -> Seq(Payload)] /\ values' \in [Control -> Gen]
      /\ busy' \in [Control -> BOOLEAN]
  <2>1. ApplyPayload(e)  BY <1>0 DEF Dispatch
  <2> HIDE DEF e
  <2>2. CASE ~Carries(e)  BY <1>t, <2>1, <2>2 DEF ApplyPayload, TypeOK, EventType
  <2>3. CASE Carries(e)
    <3> DEFINE p == Head(payload[e.ctrl])
    <3>1. p \in Payload /\ Tail(payload[e.ctrl]) \in Seq(Payload)
      BY <1>t, <1>1, <2>3, FirstPayload DEF Carries
    <3>2. /\ payload' = [payload EXCEPT ![e.ctrl] = Tail(@)]
          /\ values' = IF p.final THEN [values EXCEPT ![e.ctrl] = p.op] ELSE values
          /\ busy' = IF p.final THEN [busy EXCEPT ![e.ctrl] = FALSE] ELSE busy
      BY <2>1, <2>3 DEF ApplyPayload
    <3> HIDE DEF p
    <3> QED  BY <1>t, <3>1, <3>2 DEF Payload, TypeOK, EventType
  <2> QED  BY <2>2, <2>3
<1>3. told' \in [Control -> Seq(Gen)]
  <2>1. told' = told \/ told' = [told EXCEPT ![e.ctrl] = Append(@, e.op)]  BY <1>0 DEF Dispatch
  <2> HIDE DEF e
  <2>2. told[e.ctrl] \in Seq(Gen)  BY <1>t, <1>1 DEF EventType
  <2>3. Append(told[e.ctrl], e.op) \in Seq(Gen)  BY <1>1, <2>2
  <2> QED  BY <1>t, <2>1, <2>3 DEF EventType
<1>4. EventType'  BY <1>0, <1>1, <1>2, <1>3 DEF Dispatch, EventType
<1>5. LoopType'
  <2>1. ASSUME NEW l \in Loop, LoopOK(l), l.waiting = "queued"
        PROVE  [l EXCEPT !.waiting = "dispatched"] \in Loop /\ LoopOK([l EXCEPT !.waiting = "dispatched"])
    <3> DEFINE m == [l EXCEPT !.waiting = "dispatched"]
    <3>1. m \in Loop /\ m.asked = l.asked /\ m.got = l.got  BY DEF Loop
    <3> HIDE DEF m
    <3>2. LoopOK(m)  BY <2>1, <3>1 DEF LoopOK
    <3> QED  BY <3>1, <3>2 DEF m
  <2>2. /\ loop' \in [Control -> Loop \cup {None}]
        /\ \A d \in Control : loop'[d] # None => LoopOK(loop'[d])
    <3>1. ASSUME NEW d \in Control
          PROVE  loop'[d] \in Loop \cup {None} /\ (loop'[d] # None => LoopOK(loop'[d]))
      <4>1. CASE loop[d] # None /\ loop'[d] = [loop[d] EXCEPT !.waiting = "dispatched"] /\ loop[d].waiting = "queued"
        <5>1. loop[d] \in Loop /\ LoopOK(loop[d])  BY <1>t, <4>1 DEF LoopType
        <5> QED  BY <2>1, <4>1, <5>1
      <4>2. CASE loop'[d] = loop[d]  BY <1>t, <4>2 DEF LoopType
      <4> QED  BY <4>1, <4>2 DEF HandOut
    <3> QED  BY <3>1 DEF HandOut
  <2>3. shown' \in [Control -> Call \cup {None}] /\ toolResults' \in [Ids -> Call \cup {None}]
    BY <1>t DEF HandOut, LoopType
  <2> QED  BY <2>2, <2>3 DEF LoopType, LoopOK
<1>6. ReportType' /\ DbType'  BY <1>t, <1>0 DEF Dispatch, ReportType, DbType
<1> QED  BY <1>0, <1>2, <1>4, <1>5, <1>6, <1>t DEF Dispatch, TypeOK

LEMMA QuietType ==
  ASSUME IInv, \/ (Drained \/ Swept \/ Poll \/ TakeUiEvent) /\ UNCHANGED agentVars
               \/ UNCHANGED vars
  PROVE  TypeOK'
<1> USE DEF agentVars, db, events, ops
<1>t. TypeOK /\ ReportType /\ EventType /\ DbType /\ LoopType  BY DEF IInv, TypeOK
<1>1. event' \in Raised \cup {NoEvent, UiEvent}
  BY <1>t DEF Drained, Swept, Poll, TakeUiEvent, EventType, vars, asyncVars
<1>2. at' \in {"handler", "drain", "sweep", "pop"}
  BY <1>t DEF Drained, Swept, Poll, TakeUiEvent, TypeOK, vars, asyncVars
<1>3. UNCHANGED <<kind, ops, results, events, db, cut, told, agentVars>>
  BY DEF Drained, Swept, Poll, TakeUiEvent, vars, asyncVars
<1>4. EventType' /\ ReportType' /\ DbType' /\ LoopType'
  BY <1>t, <1>1, <1>3 DEF EventType, ReportType, DbType, LoopType
<1> QED  BY <1>t, <1>2, <1>3, <1>4 DEF TypeOK

LEMMA SetToolResultType ==
  ASSUME IInv, NEW c \in Control, SetToolResult(c)
  PROVE  TypeOK'
<1>t. TypeOK /\ ReportType /\ EventType /\ DbType /\ LoopType  BY DEF IInv, TypeOK
<1>1. UNCHANGED <<kind, gen, pending, values, busy, cut, at, worker, results, events, event, told, db,
                  loop, shown>>
  BY DEF SetToolResult, asyncVars, ops
<1>2. shown[c] \in Call  BY <1>t DEF SetToolResult, LoopType
<1>3. toolResults' \in [Ids -> Call \cup {None}]  BY <1>t, <1>2 DEF SetToolResult, LoopType
<1>4. LoopType'  BY <1>t, <1>1, <1>3 DEF LoopType
<1>5. EventType' /\ ReportType' /\ DbType'
  BY <1>t, <1>1 DEF EventType, ReportType, DbType, events, db
<1> QED  BY <1>t, <1>1, <1>4, <1>5 DEF TypeOK

LEMMA TypeStep ==
  ASSUME IInv, [Next]_vars
  PROVE  TypeOK'
<1>t. TypeOK /\ Generations  BY DEF IInv
<1>1. ASSUME NEW c \in Control,
             (Start(c) \/ Query(c) \/ Refuse(c) \/ Cancel(c) \/ OpenDb(c) \/ CloseDb(c))
               /\ UNCHANGED agentVars
      PROVE  TypeOK'
  <2>1. CASE Cancel(c)  BY <1>1, <1>t, <2>1, CutOffType DEF Cancel, Event, TypeOK
  <2> QED  BY <1>1, <2>1, StartType, HandlerType
<1>2. ASSUME NEW c \in Control, Timeout(c), UNCHANGED agentVars PROVE TypeOK'
  BY <1>2, <1>t, CutOffType DEF Timeout, Event, TypeOK
<1> QED
  BY <1>1, <1>2, AskType, SetToolResultType, WaitType, ReportType1, DeliverAgentType, HandOutType,
     DeliverType, QuietType
  DEF Next, Program, Threads, Waiting

-----------------------------------------------------------------------------
(* Generations, and who can still answer.                                  *)

Core == Generations /\ ValuesAnswered /\ Tokens /\ Loops /\ Kinds

LEMMA Nats ==
  ASSUME TypeOK
  PROVE  /\ gen \in [Control -> Nat] /\ pending \in [Control -> Nat] /\ values \in [Control -> Nat]
         /\ cut \in [Control -> SUBSET Nat]
         /\ kind \in [Control -> Kind] /\ Forms[kind] \in [Control -> Nat]
         /\ \A w \in worker : w.ctrl \in Control /\ w.op \in Nat
         /\ \A i \in DOMAIN results : /\ results[i].ctrl \in Control /\ results[i].op \in Nat
                                      /\ i \in Nat
         /\ \A c \in Control : \A i \in DOMAIN payload[c] : payload[c][i].op \in Nat
         /\ \A c \in Control : loop[c] # None => loop[c].op \in Nat
<1>0. Gen \subseteq Nat  BY Generation
<1>1. gen \in [Control -> Nat] /\ pending \in [Control -> Nat] /\ values \in [Control -> Nat]
      /\ cut \in [Control -> SUBSET Nat]
  BY <1>0 DEF TypeOK
<1>2. kind \in [Control -> Kind] /\ Forms[kind] \in [Control -> Nat]  BY FormsAssumption DEF TypeOK
<1>3. \A w \in worker : w.ctrl \in Control /\ w.op \in Nat
  BY <1>0 DEF TypeOK, ReportType, Thread
<1>4. \A i \in DOMAIN results : /\ results[i].ctrl \in Control /\ results[i].op \in Nat /\ i \in Nat
  <2>1. results \in Seq(Report)  BY DEF TypeOK, ReportType
  <2>2. \A i \in DOMAIN results : results[i] \in Report /\ i \in Nat  BY <2>1
  <2> QED  BY <1>0, <2>2 DEF Report
<1>5. ASSUME NEW c \in Control PROVE \A i \in DOMAIN payload[c] : payload[c][i].op \in Nat
  <2>1. payload[c] \in Seq(Payload)  BY DEF TypeOK, EventType
  <2>2. \A i \in DOMAIN payload[c] : payload[c][i] \in Payload  BY <2>1
  <2> QED  BY <1>0, <2>2 DEF Payload
<1>6. \A c \in Control : loop[c] # None => loop[c].op \in Nat
  BY <1>0 DEF TypeOK, LoopType, Loop
<1> QED  BY <1>1, <1>2, <1>3, <1>4, <1>5, <1>6

LEMMA InitCore == Init => Core
<1> SUFFICES ASSUME Init PROVE Core
  OBVIOUS
<1>0. TypeOK  BY InitType
<1>1. Generations  BY <1>0, Nats DEF Generations, Init, AsyncInit
<1>2. ValuesAnswered  BY DEF ValuesAnswered, Answered, Init, AsyncInit
<1>3. Tokens
  BY DEF Tokens, ThreadsLive, ReportsLive, OneThread, ThreadOrReport, OneReport, Init, AsyncInit
<1>4. Loops  BY DEF Loops, Init
<1>5. Kinds  BY DEF Kinds, Init, AsyncInit
<1> QED  BY <1>1, <1>2, <1>3, <1>4, <1>5 DEF Core

Asks(c, lp) == lp[c] # None /\ lp[c].waiting \in {"queued", "dispatched"}

(* When no report of an operation in flight is added, and a thread only    *)
(* where there was none: k reports were taken from the channel.            *)
LEMMA TokensKept ==
  ASSUME TypeOK, Tokens, NEW k \in Nat,
         gen' \in [Control -> Nat], \A d \in Control : gen[d] <= gen'[d],
         results' \in Seq(Report),
         \A i \in DOMAIN results' :
           /\ i + k \in DOMAIN results /\ results'[i] = results[i + k]
           /\ results'[i].op = gen'[results'[i].ctrl] =>
                /\ results'[i].op = gen[results'[i].ctrl]
                /\ pending'[results'[i].ctrl] # 0 /\ ~Asks(results'[i].ctrl, loop'),
         \A w \in worker :
           w.op = gen'[w.ctrl] =>
             w.op = gen[w.ctrl] /\ pending'[w.ctrl] # 0 /\ ~Asks(w.ctrl, loop'),
         \A v \in worker' \ worker :
           /\ v.op <= gen'[v.ctrl]
           /\ v.op = gen'[v.ctrl] =>
                /\ pending'[v.ctrl] # 0 /\ ~Asks(v.ctrl, loop')
                /\ \A w \in worker' : w.ctrl = v.ctrl /\ w.op = gen'[w.ctrl] => w = v
                /\ \A i \in DOMAIN results' :
                     results'[i].ctrl = v.ctrl /\ results'[i].op = gen'[results'[i].ctrl]
                     => results'[i].out = "progress"
  PROVE  Tokens'
<1>n. /\ gen \in [Control -> Nat]
      /\ \A w \in worker : w.ctrl \in Control /\ w.op \in Nat
      /\ \A i \in DOMAIN results : results[i].ctrl \in Control /\ results[i].op \in Nat /\ i \in Nat
  BY Nats
<1>i. \A i \in DOMAIN results' : i \in Nat  OBVIOUS
<1>t. ThreadsLive /\ ReportsLive /\ OneThread /\ ThreadOrReport /\ OneReport  BY DEF Tokens
<1>1. ThreadsLive'
  <2>1. \A w \in worker' : /\ w.op <= gen'[w.ctrl]
                           /\ w.op = gen'[w.ctrl] => pending'[w.ctrl] # 0 /\ ~Asks(w.ctrl, loop')
    BY <1>n, <1>t DEF ThreadsLive
  <2> QED  BY <2>1 DEF ThreadsLive, Live, ByProgram, Asks
<1>2. ReportsLive'
  <2> SUFFICES ASSUME NEW i \in DOMAIN results'
               PROVE  /\ results'[i].op <= gen'[results'[i].ctrl]
                      /\ Live(results[i])' => /\ pending'[results'[i].ctrl] # 0
                                             /\ ~ByProgram(results[i].ctrl)'
    BY DEF ReportsLive
  <2>1. /\ i + k \in DOMAIN results /\ results'[i] = results[i + k]
        /\ results[i + k].op <= gen[results[i + k].ctrl]
    BY <1>t DEF ReportsLive
  <2>2. results'[i].op <= gen'[results'[i].ctrl]  BY <1>n, <2>1
  <2>3. results'[i].op = gen'[results'[i].ctrl] => /\ pending'[results'[i].ctrl] # 0
                                                   /\ ~Asks(results'[i].ctrl, loop')
    OBVIOUS
  <2> QED  BY <2>2, <2>3 DEF Live, ByProgram, Asks
<1>3. OneThread'
  <2>1. \A v, w \in worker' : v.ctrl = w.ctrl /\ v.op = gen'[v.ctrl] /\ w.op = gen'[w.ctrl] => v = w
    BY <1>t DEF OneThread, Live
  <2> QED  BY <2>1 DEF OneThread, Live
<1>4. ThreadOrReport'
  <2> SUFFICES ASSUME NEW w \in worker', NEW i \in DOMAIN results', results'[i].ctrl = w.ctrl,
                      w.op = gen'[w.ctrl], results'[i].op = gen'[results'[i].ctrl]
               PROVE  results'[i].out = "progress"
    BY DEF ThreadOrReport, Live
  <2>1. /\ i + k \in DOMAIN results /\ results'[i] = results[i + k]
        /\ results'[i].op = gen[results'[i].ctrl]
    OBVIOUS
  <2>2. CASE w \in worker
    <3>1. w.op = gen[w.ctrl]  BY <2>2
    <3> QED  BY <1>t, <2>1, <2>2, <3>1 DEF ThreadOrReport, Live
  <2>3. CASE w \notin worker  BY <2>3
  <2> QED  BY <2>2, <2>3
<1>5. OneReport'
  <2> SUFFICES ASSUME NEW i \in DOMAIN results', NEW j \in DOMAIN results', i < j,
                      results'[i].ctrl = results'[j].ctrl,
                      results'[i].op = gen'[results'[i].ctrl], results'[j].op = gen'[results'[j].ctrl]
               PROVE  results'[i].out = "progress"
    BY DEF OneReport, Live
  <2>1. /\ i + k \in DOMAIN results /\ results'[i] = results[i + k]
        /\ j + k \in DOMAIN results /\ results'[j] = results[j + k]
        /\ results'[i].op = gen[results'[i].ctrl] /\ results'[j].op = gen[results'[j].ctrl]
    OBVIOUS
  <2>2. i + k < j + k  BY <1>i
  <2> QED  BY <1>t, <2>1, <2>2 DEF OneReport, Live
<1> QED  BY <1>1, <1>2, <1>3, <1>4, <1>5 DEF Tokens

(* A start.                                                                *)
LEMMA BeginCore ==
  ASSUME IInv, NEW c \in Control, NEW does, NEW h, MayStart(c), Begin(c, does, h),
         UNCHANGED <<kind, results, payload, cut>>,
         \/ kind[c] # "agent" /\ loop' = loop
         \/ /\ kind[c] = "agent"
            /\ \E l : /\ loop' = [loop EXCEPT ![c] = l]
                      /\ l # None => l.op = gen[c] + 1 /\ l.waiting = "nothing"
  PROVE  Core'
<1>i. TypeOK /\ Generations /\ ValuesAnswered /\ Tokens /\ Loops /\ Kinds  BY DEF IInv
<1>n. /\ gen \in [Control -> Nat] /\ pending \in [Control -> Nat] /\ values \in [Control -> Nat]
      /\ Forms[kind] \in [Control -> Nat] /\ cut \in [Control -> SUBSET Nat]
  BY <1>i, Nats
<1>1. /\ pending[c] = 0 /\ gen[c] < Forms[kind][c]
      /\ gen' = [gen EXCEPT ![c] = @ + 1] /\ pending' = [pending EXCEPT ![c] = gen[c] + 1]
      /\ worker' = worker \cup {[ctrl |-> c, op |-> gen[c] + 1, does |-> does, db |-> h, said |-> FALSE]}
      /\ UNCHANGED <<kind, results, payload, cut, values>>
  BY DEF MayStart, Begin
<1>2. loop \in [Control -> Loop \cup {None}]  BY <1>i DEF TypeOK, LoopType
<1>3. /\ \A d \in Control : d # c => loop'[d] = loop[d]
      /\ loop'[c] # None => /\ loop'[c].op = gen[c] + 1 /\ loop'[c].waiting = "nothing"
                            /\ kind[c] = "agent"
  <2>1. kind[c] # "agent" => loop[c] = None  BY <1>i, Zenon DEF Kinds
  <2>2. CASE kind[c] # "agent" /\ loop' = loop  BY <2>1, <2>2
  <2>3. ASSUME NEW l, kind[c] = "agent", loop' = [loop EXCEPT ![c] = l],
               l # None => l.op = gen[c] + 1 /\ l.waiting = "nothing"
        PROVE  /\ \A d \in Control : d # c => loop'[d] = loop[d]
               /\ loop'[c] = l
    BY <1>2, <2>3
  <2> QED  BY <2>1, <2>2, <2>3
<1>4. Generations'  BY <1>i, <1>n, <1>1 DEF Generations
<1>5. ValuesAnswered'
  <2>1. \A d \in Control : \A op \in Nat : Answered(d, op) => Answered(d, op)'
    BY <1>n, <1>1 DEF Answered
  <2>2. \A d \in Control : \A i \in DOMAIN payload[d] : payload[d][i].op \in Nat  BY <1>i, Nats
  <2> QED  BY <1>i, <1>n, <1>1, <2>1, <2>2 DEF ValuesAnswered
<1>6. Tokens'
  <2> DEFINE w0 == [ctrl |-> c, op |-> gen[c] + 1, does |-> does, db |-> h, said |-> FALSE]
  <2>0. w0.ctrl = c /\ w0.op = gen[c] + 1 /\ worker' = worker \cup {w0}  BY <1>1
  <2> HIDE DEF w0
  <2>1. ~Asks(c, loop') /\ \A d \in Control : d # c => (Asks(d, loop') <=> Asks(d, loop))
    BY <1>3 DEF Asks
  <2>2. /\ gen' \in [Control -> Nat] /\ \A d \in Control : gen[d] <= gen'[d]
        /\ \A d \in Control \ {c} : gen'[d] = gen[d] /\ pending'[d] = pending[d]
        /\ gen'[c] = gen[c] + 1 /\ pending'[c] # 0
    BY <1>n, <1>1
  <2>3. ASSUME NEW w \in worker
        PROVE  /\ w.ctrl \in Control
               /\ w.op = gen'[w.ctrl] => /\ w.ctrl # c /\ w.op = gen[w.ctrl]
                                        /\ pending'[w.ctrl] # 0 /\ ~Asks(w.ctrl, loop')
    <3>1. w.ctrl \in Control /\ w.op \in Nat  BY <1>i, Nats
    <3>2. w.op <= gen[w.ctrl] /\ (w.op = gen[w.ctrl] => pending[w.ctrl] # 0 /\ ~Asks(w.ctrl, loop))
      BY <1>i DEF Tokens, ThreadsLive, Live, ByProgram, Asks
    <3> QED  BY <1>n, <2>1, <2>2, <3>1, <3>2
  <2>5. results' \in Seq(Report)  BY <1>i, <1>1 DEF TypeOK, ReportType
  <2>4. ASSUME NEW i \in DOMAIN results'
        PROVE  /\ i + 0 \in DOMAIN results /\ results'[i] = results[i + 0]
               /\ results'[i].ctrl \in Control
               /\ results'[i].op = gen'[results'[i].ctrl] =>
                    /\ results'[i].ctrl # c /\ results'[i].op = gen[results'[i].ctrl]
                    /\ pending'[results'[i].ctrl] # 0 /\ ~Asks(results'[i].ctrl, loop')
    <3>1. results[i].ctrl \in Control /\ results[i].op \in Nat /\ i \in Nat /\ i \in DOMAIN results
          /\ results'[i] = results[i]
      BY <1>i, <1>1, Nats
    <3>2. /\ results[i].op <= gen[results[i].ctrl]
          /\ results[i].op = gen[results[i].ctrl] =>
               pending[results[i].ctrl] # 0 /\ ~Asks(results[i].ctrl, loop)
      BY <1>i, <3>1 DEF Tokens, ReportsLive, Live, ByProgram, Asks
    <3>3. i + 0 = i  BY <3>1
    <3> QED  BY <1>n, <2>1, <2>2, <3>1, <3>2, <3>3
  <2>6. ASSUME NEW v \in worker' \ worker
        PROVE  /\ v.op <= gen'[v.ctrl]
               /\ pending'[v.ctrl] # 0 /\ ~Asks(v.ctrl, loop')
               /\ \A w \in worker' : w.ctrl = v.ctrl /\ w.op = gen'[w.ctrl] => w = v
               /\ \A i \in DOMAIN results' :
                    results'[i].ctrl = v.ctrl /\ results'[i].op = gen'[results'[i].ctrl]
                    => results'[i].out = "progress"
    <3>1. v = w0  BY <2>0
    <3>2. v.ctrl = c /\ v.op = gen'[c] /\ gen'[c] \in Nat  BY <3>1, <2>0, <2>2
    <3>3. \A w \in worker' : w.ctrl = c /\ w.op = gen'[w.ctrl] => w = v  BY <3>1, <2>0, <2>3
    <3> QED  BY <2>1, <2>2, <2>4, <3>2, <3>3
  <2>7. 0 \in Nat /\ \A i \in DOMAIN results' :
           /\ i + 0 \in DOMAIN results /\ results'[i] = results[i + 0]
           /\ results'[i].op = gen'[results'[i].ctrl] =>
                /\ results'[i].op = gen[results'[i].ctrl]
                /\ pending'[results'[i].ctrl] # 0 /\ ~Asks(results'[i].ctrl, loop')
    BY <2>4
  <2>8. \A w \in worker :
           w.op = gen'[w.ctrl] => w.op = gen[w.ctrl] /\ pending'[w.ctrl] # 0 /\ ~Asks(w.ctrl, loop')
    BY <2>3
  <2>9. \A v \in worker' \ worker :
           /\ v.op <= gen'[v.ctrl]
           /\ v.op = gen'[v.ctrl] =>
                /\ pending'[v.ctrl] # 0 /\ ~Asks(v.ctrl, loop')
                /\ \A w \in worker' : w.ctrl = v.ctrl /\ w.op = gen'[w.ctrl] => w = v
                /\ \A i \in DOMAIN results' :
                     results'[i].ctrl = v.ctrl /\ results'[i].op = gen'[results'[i].ctrl]
                     => results'[i].out = "progress"
    BY <2>6
  <2> QED  BY <1>i, <2>2, <2>5, <2>7, <2>8, <2>9, TokensKept
<1>7. Loops'  BY <1>i, <1>n, <1>1, <1>3 DEF Loops
<1>8. Kinds'  BY <1>i, <1>1, <1>3 DEF Kinds
<1> QED  BY <1>4, <1>5, <1>6, <1>7, <1>8 DEF Core

LEMMA SameValues ==
  ASSUME IInv, UNCHANGED <<values, payload>>,
         \A d \in Control : \A op \in Nat : Answered(d, op) => Answered(d, op)'
  PROVE  ValuesAnswered'
<1>1. values \in [Control -> Nat] /\ \A d \in Control : \A i \in DOMAIN payload[d] : payload[d][i].op \in Nat
  BY Nats DEF IInv
<1> QED  BY <1>1 DEF IInv, ValuesAnswered

(* A step that leaves generations, threads and reports alone.              *)
LEMMA QuietCore ==
  ASSUME IInv, UNCHANGED <<kind, gen, pending, cut, worker, results>>,
         \A d \in Control : loop'[d] # None =>
           /\ loop[d] # None /\ loop'[d].op = loop[d].op
           /\ Asks(d, loop') => Asks(d, loop),
         ValuesAnswered'
  PROVE  Core'
<1>i. TypeOK /\ Generations /\ Tokens /\ Loops /\ Kinds  BY DEF IInv
<1>1. Generations'  BY <1>i DEF Generations
<1>2. Tokens'
  <2>1. gen \in [Control -> Nat] /\ results \in Seq(Report)  BY <1>i, Nats DEF TypeOK, ReportType
  <2>2. \A d \in Control : Asks(d, loop') => Asks(d, loop)  BY DEF Asks
  <2>3. /\ \A w \in worker : w.ctrl \in Control
        /\ \A i \in DOMAIN results : i \in Nat /\ results[i].ctrl \in Control
    BY <1>i, Nats
  <2>4. \A w \in worker : w.op = gen[w.ctrl] => pending[w.ctrl] # 0 /\ ~Asks(w.ctrl, loop)
    BY <1>i DEF Tokens, ThreadsLive, Live, ByProgram, Asks
  <2>5. \A i \in DOMAIN results :
          results[i].op = gen[results[i].ctrl] =>
            pending[results[i].ctrl] # 0 /\ ~Asks(results[i].ctrl, loop)
    BY <1>i DEF Tokens, ReportsLive, Live, ByProgram, Asks
  <2>6. /\ 0 \in Nat /\ gen' = gen /\ results' = results /\ worker' = worker /\ pending' = pending
        /\ \A i \in DOMAIN results : i + 0 = i /\ i + 0 \in DOMAIN results
        /\ \A d \in Control : gen[d] <= gen[d]
    BY <2>1, <2>3
  <2>7. \A i \in DOMAIN results' :
           /\ i + 0 \in DOMAIN results /\ results'[i] = results[i + 0]
           /\ results'[i].op = gen'[results'[i].ctrl] =>
                /\ results'[i].op = gen[results'[i].ctrl]
                /\ pending'[results'[i].ctrl] # 0 /\ ~Asks(results'[i].ctrl, loop')
    BY <2>2, <2>3, <2>5, <2>6
  <2>8. \A w \in worker :
           w.op = gen'[w.ctrl] => w.op = gen[w.ctrl] /\ pending'[w.ctrl] # 0 /\ ~Asks(w.ctrl, loop')
    BY <2>2, <2>3, <2>4, <2>6
  <2>9. worker' \ worker = {}  BY <2>6
  <2> QED  BY <1>i, <2>1, <2>6, <2>7, <2>8, <2>9, TokensKept
<1>3. Loops'  BY <1>i DEF Loops
<1>4. Kinds'  BY <1>i DEF Kinds
<1> QED  BY <1>1, <1>2, <1>3, <1>4 DEF Core

LEMMA CutOffCore ==
  ASSUME IInv, NEW c \in Control, NEW name, CutOff(c, name), UNCHANGED agentVars
  PROVE  Core'
<1>i. TypeOK /\ Generations /\ ValuesAnswered /\ Tokens /\ Loops /\ Kinds  BY DEF IInv
<1>n. /\ gen \in [Control -> Nat] /\ pending \in [Control -> Nat] /\ values \in [Control -> Nat]
      /\ Forms[kind] \in [Control -> Nat] /\ cut \in [Control -> SUBSET Nat]
      /\ \A w \in worker : w.ctrl \in Control /\ w.op \in Nat
      /\ \A i \in DOMAIN results : results[i].ctrl \in Control /\ results[i].op \in Nat /\ i \in Nat
  BY <1>i, Nats
<1>1. /\ pending[c] = gen[c] /\ pending[c] # 0 /\ gen[c] <= Forms[kind][c]
      /\ gen' = [gen EXCEPT ![c] = @ + 1] /\ pending' = [pending EXCEPT ![c] = 0]
      /\ cut' = [cut EXCEPT ![c] = @ \cup {gen[c]}]
      /\ UNCHANGED <<kind, values, worker, results, payload, loop>>
  BY <1>i DEF CutOff, Generations, agentVars
<1>2. Generations'  BY <1>i, <1>n, <1>1 DEF Generations
<1>3. ValuesAnswered'
  <2>1. \A d \in Control : \A op \in Nat : Answered(d, op) => Answered(d, op)'
    BY <1>n, <1>1 DEF Answered
  <2> QED  BY <1>1, <2>1, SameValues
<1>4. Tokens'
  <2>1. /\ gen' \in [Control -> Nat] /\ \A d \in Control : gen[d] <= gen'[d]
        /\ \A d \in Control \ {c} : gen'[d] = gen[d] /\ pending'[d] = pending[d]
        /\ gen'[c] = gen[c] + 1
    BY <1>n, <1>1
  <2>2. \A w \in worker : w.op <= gen[w.ctrl] /\ (w.op = gen[w.ctrl] => pending[w.ctrl] # 0 /\ ~Asks(w.ctrl, loop))
    BY <1>i DEF Tokens, ThreadsLive, Live, ByProgram, Asks
  <2>3. \A i \in DOMAIN results :
          /\ results[i].op <= gen[results[i].ctrl]
          /\ results[i].op = gen[results[i].ctrl] =>
               pending[results[i].ctrl] # 0 /\ ~Asks(results[i].ctrl, loop)
    BY <1>i DEF Tokens, ReportsLive, Live, ByProgram, Asks
  <2>4. \A w \in worker :
           w.op = gen'[w.ctrl] => w.op = gen[w.ctrl] /\ pending'[w.ctrl] # 0 /\ ~Asks(w.ctrl, loop')
    <3> SUFFICES ASSUME NEW w \in worker, w.op = gen'[w.ctrl]
                 PROVE  w.op = gen[w.ctrl] /\ pending'[w.ctrl] # 0 /\ ~Asks(w.ctrl, loop')
      OBVIOUS
    <3>1. w.ctrl \in Control /\ w.op \in Nat /\ w.op <= gen[w.ctrl]  BY <1>n, <2>2
    <3>2. w.ctrl # c  BY <1>n, <2>1, <3>1
    <3> QED  BY <1>1, <2>1, <2>2, <3>1, <3>2
  <2>5. \A i \in DOMAIN results' :
           /\ i + 0 \in DOMAIN results /\ results'[i] = results[i + 0]
           /\ results'[i].op = gen'[results'[i].ctrl] =>
                /\ results'[i].op = gen[results'[i].ctrl]
                /\ pending'[results'[i].ctrl] # 0 /\ ~Asks(results'[i].ctrl, loop')
    <3> SUFFICES ASSUME NEW i \in DOMAIN results
                 PROVE  /\ i + 0 \in DOMAIN results /\ results'[i] = results[i + 0]
                        /\ results[i].op = gen'[results[i].ctrl] =>
                             /\ results[i].op = gen[results[i].ctrl]
                             /\ pending'[results[i].ctrl] # 0 /\ ~Asks(results[i].ctrl, loop')
      BY <1>1
    <3>1. /\ results[i].ctrl \in Control /\ results[i].op \in Nat
          /\ results[i].op <= gen[results[i].ctrl] /\ i + 0 = i
      BY <1>n, <2>3
    <3>2. results[i].op = gen'[results[i].ctrl] => results[i].ctrl # c  BY <1>n, <2>1, <3>1
    <3> QED  BY <1>1, <2>1, <2>3, <3>1, <3>2
  <2>6. worker' \ worker = {} /\ results' \in Seq(Report) /\ 0 \in Nat
    BY <1>i, <1>1 DEF TypeOK, ReportType
  <2> QED  BY <1>i, <2>1, <2>4, <2>5, <2>6, TokensKept
<1>5. Loops'
  <2>1. \A d \in Control : loop[d] # None => loop[d].op \in Nat  BY <1>i, Nats
  <2> QED  BY <1>i, <1>n, <1>1, <2>1 DEF Loops
<1>6. Kinds'  BY <1>i, <1>1 DEF Kinds
<1> QED  BY <1>2, <1>3, <1>4, <1>5, <1>6 DEF Core

(* The report r of the thread w.                                           *)
LEMMA ReportedCore ==
  ASSUME IInv, NEW w \in worker, NEW r, r \in Report, results' = Append(results, r),
         r.ctrl = w.ctrl, r.op = w.op,
         \/ worker' = worker \ {w}
         \/ /\ r.out = "progress"
            /\ \E v : v.ctrl = w.ctrl /\ v.op = w.op /\ worker' = (worker \ {w}) \cup {v},
         r.out = "progress" => kind[r.ctrl] = "kb",
         kind[r.ctrl] = "aws" => r.out \in {"done", "error", "timeout"},
         UNCHANGED <<kind, gen, pending, values, cut, payload, loop>>
  PROVE  Core'
<1>i. TypeOK /\ Generations /\ ValuesAnswered /\ Tokens /\ Loops /\ Kinds  BY DEF IInv
<1>t. ThreadsLive /\ ReportsLive /\ OneThread /\ ThreadOrReport /\ OneReport  BY <1>i DEF Tokens
<1>1. /\ results' \in Seq(Report) /\ DOMAIN results' = 1 .. Len(results) + 1
      /\ DOMAIN results = 1 .. Len(results) /\ Len(results) \in Nat
      /\ \A i \in DOMAIN results : results'[i] = results[i]
      /\ results'[Len(results) + 1] = r
  BY <1>i DEF TypeOK, ReportType
<1>2. \A i \in DOMAIN results' : i \in DOMAIN results \/ i = Len(results) + 1  BY <1>1
<1>3. PICK x : /\ x.ctrl = w.ctrl /\ x.op = w.op
               /\ \A v \in worker' : (v \in worker /\ v # w) \/ (v = x /\ r.out = "progress")
  <2>1. CASE worker' = worker \ {w}
    <3>1. /\ w.ctrl = w.ctrl /\ w.op = w.op
          /\ \A v \in worker' : (v \in worker /\ v # w) \/ (v = w /\ r.out = "progress")
      BY <2>1
    <3> QED  BY <3>1
  <2>2. ASSUME NEW v, r.out = "progress", v.ctrl = w.ctrl, v.op = w.op, worker' = (worker \ {w}) \cup {v}
        PROVE  /\ v.ctrl = w.ctrl /\ v.op = w.op
               /\ \A u \in worker' : (u \in worker /\ u # w) \/ (u = v /\ r.out = "progress")
    BY <2>2
  <2> QED  BY <2>1, <2>2
<1>4. Generations'  BY <1>i DEF Generations
<1>5. ValuesAnswered'  BY SameValues DEF Answered
<1>6. Tokens'
  <2>1. ThreadsLive'
    <3>1. \A v \in worker' : /\ v.op <= gen[v.ctrl]
                             /\ v.op = gen[v.ctrl] => pending[v.ctrl] # 0 /\ ~ByProgram(v.ctrl)
      BY <1>t, <1>3 DEF ThreadsLive, Live
    <3> QED  BY <3>1 DEF ThreadsLive, Live, ByProgram
  <2>2. ReportsLive'
    <3> SUFFICES ASSUME NEW i \in DOMAIN results'
                 PROVE  /\ results'[i].op <= gen[results'[i].ctrl]
                        /\ Live(results[i])' => pending[results'[i].ctrl] # 0 /\ ~ByProgram(results[i].ctrl)'
      BY DEF ReportsLive
    <3>1. /\ results'[i].op <= gen[results'[i].ctrl]
          /\ results'[i].op = gen[results'[i].ctrl] =>
               pending[results'[i].ctrl] # 0 /\ ~ByProgram(results'[i].ctrl)
      BY <1>1, <1>2, <1>t DEF ReportsLive, ThreadsLive, Live
    <3> QED  BY <3>1 DEF Live, ByProgram
  <2>3. OneThread'
    <3>1. \A u, v \in worker' : u.ctrl = v.ctrl /\ u.op = gen[u.ctrl] /\ v.op = gen[v.ctrl] => u = v
      BY <1>t, <1>3 DEF OneThread, Live
    <3> QED  BY <3>1 DEF OneThread, Live
  <2>4. ThreadOrReport'
    <3> SUFFICES ASSUME NEW v \in worker', NEW i \in DOMAIN results', results'[i].ctrl = v.ctrl,
                        v.op = gen[v.ctrl], results'[i].op = gen[results'[i].ctrl]
                 PROVE  results'[i].out = "progress"
      BY DEF ThreadOrReport, Live
    <3>1. CASE i \in DOMAIN results  BY <1>1, <1>3, <1>t, <3>1 DEF ThreadOrReport, Live
    <3>2. CASE i = Len(results) + 1 /\ v \in worker /\ v # w
      BY <1>1, <1>t, <3>2 DEF OneThread, Live
    <3> QED  BY <1>1, <1>2, <1>3, <3>1, <3>2
  <2>5. OneReport'
    <3> SUFFICES ASSUME NEW i \in DOMAIN results', NEW j \in DOMAIN results', i < j,
                        results'[i].ctrl = results'[j].ctrl,
                        results'[i].op = gen[results'[i].ctrl], results'[j].op = gen[results'[j].ctrl]
                 PROVE  results'[i].out = "progress"
      BY DEF OneReport, Live
    <3>1. i \in DOMAIN results  BY <1>1
    <3>2. CASE j \in DOMAIN results  BY <1>1, <1>t, <3>1, <3>2 DEF OneReport, Live
    <3>3. CASE j = Len(results) + 1  BY <1>1, <1>t, <3>1, <3>3 DEF ThreadOrReport, Live
    <3> QED  BY <1>2, <3>2, <3>3
  <2> QED  BY <2>1, <2>2, <2>3, <2>4, <2>5 DEF Tokens
<1>7. Loops'  BY <1>i DEF Loops
<1>8. Kinds'
  <2>1. ASSUME NEW i \in DOMAIN results'
        PROVE  /\ results'[i].out = "progress" => kind[results'[i].ctrl] = "kb"
               /\ kind[results'[i].ctrl] = "aws" => results'[i].out \in {"done", "error", "timeout"}
    BY <1>1, <1>2, <1>i DEF Kinds
  <2> QED  BY <1>i, <2>1 DEF Kinds
<1> QED  BY <1>4, <1>5, <1>6, <1>7, <1>8 DEF Core

(* The oldest report is taken and comes to nothing, or to a word on the    *)
(* way, or answers, or its question goes on.                               *)
LEMMA TakenTokens ==
  ASSUME IInv, results # <<>>, results' = Tail(results), gen' = gen,
         \A d \in Control : d # Head(results).ctrl => pending'[d] = pending[d] /\ loop'[d] = loop[d],
         \/ /\ pending' = pending /\ worker' = worker
            /\ Asks(Head(results).ctrl, loop') => Asks(Head(results).ctrl, loop)
         \/ /\ Live(Head(results)) /\ Head(results).out # "progress"
            /\ \/ worker' = worker
               \/ /\ pending'[Head(results).ctrl] # 0 /\ ~Asks(Head(results).ctrl, loop')
                  /\ \E v : /\ v.ctrl = Head(results).ctrl /\ v.op = gen[v.ctrl]
                            /\ worker' = worker \cup {v}
  PROVE  Tokens'
<1> DEFINE r == Head(results)
<1>i. TypeOK /\ Tokens /\ ThreadsLive /\ ReportsLive /\ OneThread /\ ThreadOrReport /\ OneReport
  BY DEF IInv, Tokens
<1>n. /\ gen \in [Control -> Nat] /\ pending \in [Control -> Nat]
      /\ \A w \in worker : w.ctrl \in Control /\ w.op \in Nat
      /\ \A i \in DOMAIN results : results[i].ctrl \in Control /\ results[i].op \in Nat /\ i \in Nat
  BY <1>i, Nats
<1>1. /\ r = results[1] /\ 1 \in DOMAIN results /\ r.ctrl \in Control
      /\ results' \in Seq(Report)
      /\ \A i \in DOMAIN results' : /\ i + 1 \in DOMAIN results /\ i \in Nat /\ i > 0
                                    /\ results'[i] = results[i + 1]
  BY <1>i, <1>n, FirstReport
<1> HIDE DEF r
<1>2. \A w \in worker : w.op = gen[w.ctrl] => pending[w.ctrl] # 0 /\ ~Asks(w.ctrl, loop)
  BY <1>i DEF ThreadsLive, Live, ByProgram, Asks
<1>3. \A i \in DOMAIN results :
        results[i].op = gen[results[i].ctrl] =>
          pending[results[i].ctrl] # 0 /\ ~Asks(results[i].ctrl, loop)
  BY <1>i DEF ReportsLive, Live, ByProgram, Asks
<1>4. ASSUME Live(r), r.out # "progress"
      PROVE  /\ \A w \in worker : w.op = gen[w.ctrl] => w.ctrl # r.ctrl
             /\ \A i \in DOMAIN results' :
                  results'[i].op = gen[results'[i].ctrl] => results'[i].ctrl # r.ctrl
  <2>1. \A w \in worker : w.op = gen[w.ctrl] => w.ctrl # r.ctrl
    BY <1>i, <1>1, <1>4 DEF ThreadOrReport, Live
  <2>2. ASSUME NEW i \in DOMAIN results', results'[i].op = gen[results'[i].ctrl]
        PROVE  results'[i].ctrl # r.ctrl
    <3>1. i + 1 \in DOMAIN results /\ 1 < i + 1 /\ results'[i] = results[i + 1]  BY <1>1
    <3> QED  BY <1>i, <1>1, <1>4, <2>2, <3>1 DEF OneReport, Live
  <2> QED  BY <2>1, <2>2
<1>c. \/ /\ pending' = pending /\ worker' = worker
         /\ Asks(r.ctrl, loop') => Asks(r.ctrl, loop)
      \/ /\ Live(r) /\ r.out # "progress"
         /\ \/ worker' = worker
            \/ /\ pending'[r.ctrl] # 0 /\ ~Asks(r.ctrl, loop')
               /\ \E v : /\ v.ctrl = r.ctrl /\ v.op = gen[v.ctrl]
                         /\ worker' = worker \cup {v}
  BY DEF r
<1>5. \A d \in Control : d # r.ctrl => pending'[d] = pending[d] /\ (Asks(d, loop') <=> Asks(d, loop))
  BY DEF Asks, r
<1>6. \A w \in worker :
         w.op = gen[w.ctrl] => pending'[w.ctrl] # 0 /\ ~Asks(w.ctrl, loop')
  BY <1>n, <1>c, <1>2, <1>4, <1>5
<1>7. ASSUME NEW i \in DOMAIN results', results'[i].op = gen[results'[i].ctrl]
      PROVE  pending'[results'[i].ctrl] # 0 /\ ~Asks(results'[i].ctrl, loop')
  <2>1. /\ i + 1 \in DOMAIN results /\ results'[i] = results[i + 1] /\ results'[i].ctrl \in Control
    BY <1>1, <1>n
  <2>2. pending[results'[i].ctrl] # 0 /\ ~Asks(results'[i].ctrl, loop)  BY <1>3, <1>7, <2>1
  <2> QED  BY <1>c, <1>4, <1>5, <1>7, <2>1, <2>2
<1>8. ASSUME NEW v \in worker' \ worker
      PROVE  /\ v.op = gen'[v.ctrl] /\ gen'[v.ctrl] \in Nat
             /\ pending'[v.ctrl] # 0 /\ ~Asks(v.ctrl, loop')
             /\ \A w \in worker' : w.ctrl = v.ctrl /\ w.op = gen'[w.ctrl] => w = v
             /\ \A i \in DOMAIN results' :
                  results'[i].ctrl = v.ctrl /\ results'[i].op = gen'[results'[i].ctrl]
                  => results'[i].out = "progress"
  <2>1. PICK u : /\ u.ctrl = r.ctrl /\ u.op = gen[u.ctrl] /\ worker' = worker \cup {u}
                 /\ Live(r) /\ r.out # "progress" /\ pending'[r.ctrl] # 0 /\ ~Asks(r.ctrl, loop')
    BY <1>c
  <2>2. v = u  BY <2>1
  <2> QED  BY <1>1, <1>n, <1>4, <2>1, <2>2
<1>9. /\ 1 \in Nat /\ gen' \in [Control -> Nat] /\ \A d \in Control : gen[d] <= gen'[d]
  BY <1>n
<1>10. \A i \in DOMAIN results' :
         /\ i + 1 \in DOMAIN results /\ results'[i] = results[i + 1]
         /\ results'[i].op = gen'[results'[i].ctrl] =>
              /\ results'[i].op = gen[results'[i].ctrl]
              /\ pending'[results'[i].ctrl] # 0 /\ ~Asks(results'[i].ctrl, loop')
  BY <1>1, <1>7
<1>11. \A w \in worker :
         w.op = gen'[w.ctrl] => w.op = gen[w.ctrl] /\ pending'[w.ctrl] # 0 /\ ~Asks(w.ctrl, loop')
  BY <1>6
<1>12. \A v \in worker' \ worker :
         /\ v.op <= gen'[v.ctrl]
         /\ v.op = gen'[v.ctrl] =>
              /\ pending'[v.ctrl] # 0 /\ ~Asks(v.ctrl, loop')
              /\ \A w \in worker' : w.ctrl = v.ctrl /\ w.op = gen'[w.ctrl] => w = v
              /\ \A i \in DOMAIN results' :
                   results'[i].ctrl = v.ctrl /\ results'[i].op = gen'[results'[i].ctrl]
                   => results'[i].out = "progress"
  <2>1. \A x \in Nat : x <= x  OBVIOUS
  <2> QED  BY <1>8, <2>1
<1> QED  BY <1>i, <1>1, <1>9, <1>10, <1>11, <1>12, TokensKept

LEMMA GoesOnParts ==
  ASSUME IInv, NEW c \in Control, pending[c] = gen[c], NEW l, GoesOn(c, l)
  PROVE  /\ pending' = pending /\ values' = values
         /\ \A d \in Control : d # c => loop'[d] = loop[d]
         /\ loop'[c] # None /\ loop'[c].op = gen[c]
         /\ \/ worker' = worker
            \/ /\ ~Asks(c, loop')
               /\ \E v : v.ctrl = c /\ v.op = gen[c] /\ worker' = worker \cup {v}
<1>1. pending \in [Control -> Gen] /\ loop \in [Control -> Loop \cup {None}]
  BY DEF IInv, TypeOK, LoopType
<1>2. l.op = gen[c] /\ pending' = pending /\ values' = values
  BY <1>1 DEF GoesOn, Continued
<1>3. PICK m \in Loop :
       /\ loop' = [loop EXCEPT ![c] = m] /\ m.op = l.op
       /\ \/ /\ m.waiting \in {"nothing", "search"}
             /\ \E w \in Thread : w.ctrl = c /\ w.op = l.op /\ worker' = worker \cup {w}
          \/ worker' = worker
  BY DEF GoesOn, Continued
<1>4. m # None  BY NoneAssumption
<1>5. loop'[c] = m /\ \A d \in Control : d # c => loop'[d] = loop[d]  BY <1>1, <1>3
<1> QED  BY <1>2, <1>3, <1>4, <1>5 DEF Asks

LEMMA TakenKinds ==
  ASSUME IInv, results # <<>>, results' = Tail(results), kind' = kind,
         \A d \in Control : loop'[d] # None => loop[d] # None \/ kind[d] = "agent"
  PROVE  Kinds'
<1>1. TypeOK /\ Kinds  BY DEF IInv
<1>2. \A i \in DOMAIN results' : i + 1 \in DOMAIN results /\ results'[i] = results[i + 1]
  BY <1>1, FirstReport
<1> QED  BY <1>1, <1>2 DEF Kinds

(* agent_delivered and tool_loops_resume, as the steps of the interpreter. *)
LEMMA DeliveredEffect ==
  ASSUME IInv, DeliverAgent
  PROVE  LET r == Head(results)
             c == r.ctrl
         IN /\ c \in Control /\ kind[c] = "agent" /\ results # <<>> /\ results' = Tail(results)
            /\ UNCHANGED <<kind, gen, payload, db, at, event, cut, told>>
            /\ \/ NothingComesOfIt
               \/ /\ pending[c] = gen[c] /\ pending[c] # 0 /\ r.op = gen[c]
                  /\ \/ \E name \in {"onError", "onResponse"} : Conclude(c, r.op, name)
                     \/ \E l : /\ GoesOn(c, l)
                               /\ loop[c] = None \/ OwnResults(loop[c]) => OwnResults(l)
<1> DEFINE r == Head(results)
           c == r.ctrl
<1>i. TypeOK /\ Generations /\ Loops  BY DEF IInv
<1>1. /\ results # <<>> /\ results' = Tail(results) /\ kind[c] = "agent"
      /\ UNCHANGED <<kind, gen, payload, db, at, event, cut, told>>
  BY DEF DeliverAgent
<1>2. r \in Report /\ DOMAIN r.calls \subseteq Ids /\ c \in Control  BY <1>1, <1>i, FirstReport DEF Report
<1>3. CASE Stale(r)
  <2>1. NothingComesOfIt  BY <1>3 DEF DeliverAgent, NothingComesOfIt
  <2> QED  BY <1>1, <1>2, <2>1
<1>4. CASE ~Stale(r)
  <2>1. r.op = gen[c] /\ pending[c] # 0 /\ pending[c] = gen[c]  BY <1>1, <1>4, LiveReport
  <2>2. IF r.out = "found" THEN Found(r) ELSE Reply(r)  BY <1>4 DEF DeliverAgent
  <2> HIDE DEF r
  <2>3. \/ NothingComesOfIt
        \/ \E name \in {"onError", "onResponse"} : Conclude(c, r.op, name)
        \/ \E l : /\ GoesOn(c, l)
                  /\ loop[c] = None \/ OwnResults(loop[c]) => OwnResults(l)
    BY <1>i, <1>2, <2>1, <2>2, DeliveredStep
  <2> QED  BY <1>1, <1>2, <2>1, <2>3 DEF r
<1> QED  BY <1>3, <1>4

LEMMA WaitEffect ==
  ASSUME IInv, Wait
  PROVE  /\ UNCHANGED <<kind, gen, busy, values, results, payload, db, cut, told>>
         /\ at = "handler" /\ event' = NoEvent
         /\ \/ UNCHANGED <<pending, worker, queue, agentVars>>
            \/ \E c \in Control : /\ Returned(c) /\ loop' = [loop EXCEPT ![c] = None]
                                  /\ UNCHANGED <<pending, worker, queue, shown, toolResults>>
            \/ \E c \in Control :
                 /\ Returned(c) /\ pending[c] = gen[c] /\ pending[c] # 0
                 /\ \E l : GoesOn(c, l) /\ (OwnResults(loop[c]) /\ Tools => OwnResults(l))
<1>i. TypeOK /\ Generations /\ Loops  BY DEF IInv
<1>1. /\ UNCHANGED <<kind, gen, busy, values, results, payload, db, cut, told>>
      /\ at = "handler" /\ event' = NoEvent
  BY DEF Wait
<1>2. CASE UNCHANGED <<pending, worker, queue, agentVars>>  BY <1>1, <1>2
<1>3. CASE \E c \in Control : Returned(c) /\ Resume(c)
  <2>1. PICK c \in Control : Returned(c) /\ Resume(c)  BY <1>3
  <2>2. \/ /\ ~LoopLive(c) /\ loop' = [loop EXCEPT ![c] = None]
           /\ UNCHANGED <<pending, worker, queue, shown, toolResults>>
        \/ /\ pending[c] # 0
           /\ \E l : GoesOn(c, l) /\ (OwnResults(loop[c]) /\ Tools => OwnResults(l))
    BY <1>i, <1>1, <2>1, ResumeStep
  <2>3. pending[c] # 0 => pending[c] = gen[c]  BY <1>i DEF Generations
  <2> QED  BY <1>1, <2>1, <2>2, <2>3
<1> QED  BY <1>2, <1>3 DEF Wait

LEMMA DeliverAgentCore ==
  ASSUME IInv, DeliverAgent
  PROVE  Core'
<1> DEFINE r == Head(results)
           c == r.ctrl
<1>i. TypeOK /\ Generations /\ ValuesAnswered /\ Tokens /\ Loops /\ Kinds  BY DEF IInv
<1>n. /\ gen \in [Control -> Nat] /\ pending \in [Control -> Nat] /\ values \in [Control -> Nat]
      /\ Forms[kind] \in [Control -> Nat] /\ cut \in [Control -> SUBSET Nat]
      /\ loop \in [Control -> Loop \cup {None}]
  BY <1>i, Nats DEF TypeOK, LoopType
<1>1. /\ results # <<>> /\ results' = Tail(results) /\ UNCHANGED <<kind, gen, payload, cut>>
      /\ kind[r.ctrl] = "agent"
  BY DEF DeliverAgent
<1>2. r \in Report /\ DOMAIN r.calls \subseteq Ids /\ c \in Control /\ r = results[1] /\ 1 \in DOMAIN results
  BY <1>1, <1>i, FirstReport DEF Report
<1>3. r.out # "progress"
  <2>1. r.out = "progress" => kind[r.ctrl] = "kb"  BY <1>2, <1>i DEF Kinds
  <2> QED  BY <2>1, <1>1
<1>4. \/ NothingComesOfIt
      \/ /\ pending[c] = gen[c] /\ pending[c] # 0 /\ r.op = gen[c]
         /\ \/ \E name \in {"onError", "onResponse"} : Conclude(c, r.op, name)
            \/ \E l : GoesOn(c, l)
  BY DeliveredEffect
<1> HIDE DEF r
<1>5. CASE NothingComesOfIt
  <2> USE DEF agentVars
  <2>1. UNCHANGED <<pending, values, worker, loop>>  BY <1>5 DEF NothingComesOfIt
  <2>2. Generations'  BY <1>i, <1>1, <2>1 DEF Generations
  <2>3. ValuesAnswered'  BY <1>1, <2>1, SameValues DEF Answered
  <2>4. Tokens'  BY <1>1, <2>1, TakenTokens
  <2>5. Loops'  BY <1>i, <1>1, <2>1 DEF Loops
  <2>6. Kinds'  BY <1>1, <2>1, TakenKinds
  <2> QED  BY <2>2, <2>3, <2>4, <2>5, <2>6 DEF Core
<1>6. CASE /\ pending[c] = gen[c] /\ pending[c] # 0 /\ r.op = gen[c]
           /\ \E name \in {"onError", "onResponse"} : Conclude(c, r.op, name)
  <2>1. /\ loop' = [loop EXCEPT ![c] = None] /\ pending' = [pending EXCEPT ![c] = 0]
        /\ values' = [values EXCEPT ![c] = r.op] /\ worker' = worker
    BY <1>6 DEF Conclude
  <2>2. Generations'  BY <1>i, <1>n, <1>1, <2>1 DEF Generations
  <2>3. ValuesAnswered'
    <3>1. \A d \in Control : \A op \in Nat : Answered(d, op) => Answered(d, op)'
      BY <1>n, <1>1, <2>1 DEF Answered
    <3>2. \A d \in Control : \A op \in Nat : d = c /\ op = gen[c] => Answered(d, op)'
      BY <1>i, <1>n, <1>1, <1>2, <2>1 DEF Answered, Generations
    <3>3. \A d \in Control : \A i \in DOMAIN payload[d] : payload[d][i].op \in Nat  BY <1>i, Nats
    <3> QED  BY <1>i, <1>n, <1>1, <1>2, <1>6, <2>1, <3>1, <3>2, <3>3 DEF ValuesAnswered
  <2>4. Tokens'
    <3>1. Live(r)  BY <1>6 DEF Live
    <3>2. \A d \in Control : d # c => pending'[d] = pending[d] /\ loop'[d] = loop[d]
      BY <1>n, <2>1
    <3> QED  BY <1>1, <1>3, <2>1, <3>1, <3>2, TakenTokens DEF r
  <2>5. Loops'
    <3>1. \A d \in Control : loop[d] # None => loop[d].op \in Nat  BY <1>i, Nats
    <3> QED  BY <1>i, <1>n, <1>1, <2>1, <3>1 DEF Loops
  <2>6. Kinds'  BY <1>1, <1>n, <2>1, TakenKinds
  <2> QED  BY <2>2, <2>3, <2>4, <2>5, <2>6 DEF Core
<1>7. CASE pending[c] = gen[c] /\ pending[c] # 0 /\ r.op = gen[c] /\ \E l : GoesOn(c, l)
  <2>1. /\ pending' = pending /\ values' = values
        /\ \A d \in Control : d # c => loop'[d] = loop[d]
        /\ loop'[c] # None /\ loop'[c].op = gen[c]
        /\ \/ worker' = worker
           \/ /\ ~Asks(c, loop')
              /\ \E v : v.ctrl = c /\ v.op = gen[c] /\ worker' = worker \cup {v}
    BY <1>7, <1>2, GoesOnParts
  <2>2. Generations'  BY <1>i, <1>1, <2>1 DEF Generations
  <2>3. ValuesAnswered'  BY <1>1, <2>1, SameValues DEF Answered
  <2>4. Tokens'
    <3>1. Live(r)  BY <1>7 DEF Live
    <3>2. \/ worker' = worker
          \/ /\ pending'[c] # 0 /\ ~Asks(c, loop')
             /\ \E v : v.ctrl = c /\ v.op = gen[v.ctrl] /\ worker' = worker \cup {v}
      BY <1>7, <2>1
    <3> QED  BY <1>1, <1>3, <2>1, <3>1, <3>2, TakenTokens DEF r
  <2>5. Loops'
    <3>1. \A d \in Control : d = c => loop'[d].op = gen[d] /\ gen[d] <= gen[d] /\ ~(gen[d] < gen[d])
      BY <1>n, <2>1
    <3> QED  BY <1>i, <1>1, <2>1, <3>1 DEF Loops
  <2>6. Kinds'  BY <1>1, <2>1, TakenKinds DEF r
  <2> QED  BY <2>2, <2>3, <2>4, <2>5, <2>6 DEF Core
<1> QED  BY <1>4, <1>5, <1>6, <1>7

LEMMA DeliverCore ==
  ASSUME IInv, Deliver, UNCHANGED agentVars
  PROVE  Core'
<1> DEFINE r == Head(results)
           c == r.ctrl
<1>i. TypeOK /\ Generations /\ ValuesAnswered /\ Tokens /\ Loops /\ Kinds  BY DEF IInv
<1>n. /\ gen \in [Control -> Nat] /\ pending \in [Control -> Nat] /\ values \in [Control -> Nat]
      /\ Forms[kind] \in [Control -> Nat] /\ cut \in [Control -> SUBSET Nat]
      /\ payload \in [Control -> Seq(Payload)]
      /\ \A d \in Control : loop[d] # None => loop[d].op \in Nat
      /\ \A d \in Control : \A i \in DOMAIN payload[d] : payload[d][i].op \in Nat
  BY <1>i, Nats DEF TypeOK, EventType
<1>1. /\ results # <<>> /\ results' = Tail(results)
      /\ UNCHANGED <<kind, gen, cut, worker, loop>>
  BY DEF Deliver, agentVars
<1>2. r \in Report /\ c \in Control /\ r.op \in Gen  BY DeliverStep
<1>3. \/ UNCHANGED <<pending, busy, values, events>>
      \/ /\ r.op = gen[c] /\ pending[c] # 0
         /\ \/ r.out = "progress" /\ Word(r)
            \/ r.out # "progress" /\ (Wrote(r) \/ \E name : Carried(r, name))
  <2>1. CASE UNCHANGED <<pending, busy, values, events>>  BY <2>1
  <2>2. CASE /\ r.op = gen[c] /\ pending[c] # 0 /\ Apply(r) /\ kind[r.ctrl] # "agent"
             /\ r.out = "progress" => kind[r.ctrl] = "kb"
             /\ kind[r.ctrl] = "aws" => r.out \in {"done", "error", "timeout"}
    <3> HIDE DEF r
    <3> QED  BY <1>i, <1>2, <2>2, ApplyStep DEF Written, Searched
  <2> QED  BY <2>1, <2>2, DeliverStep
<1>k. Kinds'  BY <1>1, TakenKinds
<1> HIDE DEF r
<1>4. CASE UNCHANGED <<pending, busy, values, events>> \/ (r.out = "progress" /\ Word(r))
  <2>1. UNCHANGED <<pending, values>>  BY <1>4 DEF Word
  <2>2. Generations'  BY <1>i, <1>1, <2>1 DEF Generations
  <2>3. ValuesAnswered'
    <3>1. \A d \in Control : \A op : Answered(d, op) => Answered(d, op)'  BY <1>1, <2>1 DEF Answered
    <3>2. CASE payload' = payload  BY <1>i, <1>1, <2>1, <3>1, <3>2 DEF ValuesAnswered
    <3>3. CASE Word(r)
      <4> DEFINE p == [name |-> "onProgress", op |-> r.op, final |-> FALSE]
      <4>1. payload' = [payload EXCEPT ![c] = Append(@, p)] /\ ~p.final  BY <3>3 DEF Word, Carry
      <4> HIDE DEF p
      <4>2. payload[c] \in Seq(Payload)  BY <1>n, <1>2
      <4>3. \A i \in DOMAIN payload'[c] : \/ i \in DOMAIN payload[c] /\ payload'[c][i] = payload[c][i]
                                         \/ payload'[c][i] = p
        BY <4>1, <4>2, <1>n, <1>2
      <4>4. \A d \in Control : d # c => payload'[d] = payload[d]  BY <4>1, <1>n
      <4> QED  BY <1>i, <2>1, <3>1, <4>1, <4>3, <4>4 DEF ValuesAnswered
    <3> QED  BY <1>4, <3>2, <3>3 DEF events
  <2>4. Tokens'  BY <1>1, <2>1, TakenTokens
  <2>5. Loops'  BY <1>i, <1>1, <2>1 DEF Loops
  <2> QED  BY <1>k, <2>2, <2>3, <2>4, <2>5 DEF Core
<1>5. ASSUME r.op = gen[c], pending[c] # 0, r.out # "progress",
             NEW name, Wrote(r) \/ Carried(r, name)
      PROVE  Core'
  <2>1. pending' = [pending EXCEPT ![c] = 0]  BY <1>5 DEF Wrote, Carried
  <2>2. Generations'  BY <1>i, <1>n, <1>1, <2>1 DEF Generations
  <2>3. ValuesAnswered'
    <3>1. \A d \in Control : \A op \in Nat : Answered(d, op) => Answered(d, op)'
      BY <1>n, <1>1, <2>1 DEF Answered
    <3>2. \A d \in Control : \A op \in Nat : d = c /\ op = r.op => Answered(d, op)'
      BY <1>i, <1>n, <1>1, <1>2, <1>5, <2>1 DEF Answered, Generations
    <3>5. r.op \in Nat  BY <1>5, <1>n, <1>2
    <3>3. CASE Wrote(r)
      <4>1. values' = [values EXCEPT ![c] = r.op] /\ payload' = payload  BY <3>3 DEF Wrote
      <4> QED  BY <1>i, <1>n, <1>2, <3>1, <3>2, <3>5, <4>1 DEF ValuesAnswered
    <3>4. CASE Carried(r, name)
      <4> DEFINE p == [name |-> name, op |-> r.op, final |-> TRUE]
      <4>1. payload' = [payload EXCEPT ![c] = Append(@, p)] /\ p.op = r.op /\ values' = values
        BY <3>4 DEF Carried, Carry
      <4> HIDE DEF p
      <4>2. payload[c] \in Seq(Payload)  BY <1>n, <1>2
      <4>3. \A i \in DOMAIN payload'[c] : \/ i \in DOMAIN payload[c] /\ payload'[c][i] = payload[c][i]
                                         \/ payload'[c][i] = p
        BY <4>1, <4>2, <1>n, <1>2
      <4>4. \A d \in Control : d # c => payload'[d] = payload[d]  BY <4>1, <1>n
      <4> QED  BY <1>i, <1>n, <1>2, <3>1, <3>2, <3>5, <4>1, <4>3, <4>4 DEF ValuesAnswered
    <3> QED  BY <1>5, <3>3, <3>4
  <2>4. Tokens'
    <3>1. Live(r)  BY <1>5 DEF Live
    <3>2. \A d \in Control : d # c => pending'[d] = pending[d] /\ loop'[d] = loop[d]
      BY <1>1, <1>n, <2>1
    <3> QED  BY <1>1, <1>5, <2>1, <3>1, <3>2, TakenTokens DEF r
  <2>5. Loops'  BY <1>i, <1>n, <1>1, <2>1 DEF Loops
  <2> QED  BY <1>k, <2>2, <2>3, <2>4, <2>5 DEF Core
<1> QED  BY <1>3, <1>4, <1>5

LEMMA WaitCore ==
  ASSUME IInv, Wait
  PROVE  Core'
<1>i. TypeOK /\ Generations /\ ValuesAnswered /\ Tokens /\ Loops /\ Kinds  BY DEF IInv
<1>n. /\ gen \in [Control -> Nat] /\ pending \in [Control -> Nat]
      /\ loop \in [Control -> Loop \cup {None}] /\ results \in Seq(Report)
      /\ \A w \in worker : w.ctrl \in Control /\ w.op \in Nat
      /\ \A i \in DOMAIN results : results[i].ctrl \in Control /\ i \in Nat
  BY <1>i, Nats DEF TypeOK, LoopType, ReportType
<1>1. UNCHANGED <<kind, gen, values, results, payload, cut, busy>>  BY DEF Wait
<1>2. CASE UNCHANGED <<pending, worker, loop>>
  <2>1. ValuesAnswered'  BY <1>1, <1>2, SameValues DEF Answered
  <2> QED  BY <1>1, <1>2, <2>1, QuietCore
<1>3. ASSUME NEW c \in Control, loop' = [loop EXCEPT ![c] = None], UNCHANGED <<pending, worker>>
      PROVE  Core'
  <2>1. ValuesAnswered'  BY <1>1, <1>3, SameValues DEF Answered
  <2>2. \A d \in Control : loop'[d] # None => loop'[d] = loop[d]  BY <1>n, <1>3
  <2> QED  BY <1>1, <1>3, <2>1, <2>2, QuietCore DEF Asks
<1>4. ASSUME NEW c \in Control, Returned(c), pending[c] # 0, NEW l, GoesOn(c, l)
      PROVE  Core'
  <2>1. pending[c] = gen[c] /\ loop[c] # None /\ Asks(c, loop)
    BY <1>i, <1>4 DEF Generations, Returned, Asks
  <2>2. /\ pending' = pending /\ values' = values
        /\ \A d \in Control : d # c => loop'[d] = loop[d]
        /\ loop'[c] # None /\ loop'[c].op = gen[c]
        /\ \/ worker' = worker
           \/ /\ ~Asks(c, loop')
              /\ \E v : v.ctrl = c /\ v.op = gen[c] /\ worker' = worker \cup {v}
    BY <1>4, <2>1, GoesOnParts
  <2>3. Generations'  BY <1>i, <1>1, <2>2 DEF Generations
  <2>4. ValuesAnswered'  BY <1>1, <2>2, SameValues DEF Answered
  <2>5. Loops'
    <3>1. \A d \in Control : d = c => loop'[d].op = gen[d] /\ gen[d] <= gen[d] /\ ~(gen[d] < gen[d])
      BY <1>n, <2>2
    <3> QED  BY <1>i, <1>1, <2>2, <3>1 DEF Loops
  <2>6. Kinds'  BY <1>i, <1>1, <2>1, <2>2 DEF Kinds
  <2>7. Tokens'
    <3>1. \A w \in worker : w.op = gen[w.ctrl] => /\ pending[w.ctrl] # 0 /\ w.ctrl # c
                                                 /\ ~Asks(w.ctrl, loop)
      BY <1>i, <2>1 DEF Tokens, ThreadsLive, Live, ByProgram, Asks
    <3>2. \A i \in DOMAIN results :
            results[i].op = gen[results[i].ctrl] =>
              /\ pending[results[i].ctrl] # 0 /\ results[i].ctrl # c
              /\ ~Asks(results[i].ctrl, loop)
      BY <1>i, <2>1 DEF Tokens, ReportsLive, Live, ByProgram, Asks
    <3>3. \A d \in Control : d # c => (Asks(d, loop') <=> Asks(d, loop))  BY <2>2 DEF Asks
    <3>4. /\ 0 \in Nat /\ gen' \in [Control -> Nat] /\ \A d \in Control : gen[d] <= gen'[d]
          /\ results' \in Seq(Report)
      BY <1>n, <1>1
    <3>5. \A i \in DOMAIN results' :
            /\ i + 0 \in DOMAIN results /\ results'[i] = results[i + 0]
            /\ results'[i].op = gen'[results'[i].ctrl] =>
                 /\ results'[i].op = gen[results'[i].ctrl]
                 /\ pending'[results'[i].ctrl] # 0 /\ ~Asks(results'[i].ctrl, loop')
      <4>1. \A i \in DOMAIN results : i + 0 = i  BY <1>n
      <4> QED  BY <1>n, <1>1, <2>2, <3>2, <3>3, <4>1
    <3>6. \A w \in worker :
            w.op = gen'[w.ctrl] => w.op = gen[w.ctrl] /\ pending'[w.ctrl] # 0 /\ ~Asks(w.ctrl, loop')
      BY <1>n, <1>1, <2>2, <3>1, <3>3
    <3>7. ASSUME NEW v \in worker' \ worker
          PROVE  /\ v.op <= gen'[v.ctrl]
                 /\ pending'[v.ctrl] # 0 /\ ~Asks(v.ctrl, loop')
                 /\ \A w \in worker' : w.ctrl = v.ctrl /\ w.op = gen'[w.ctrl] => w = v
                 /\ \A i \in DOMAIN results' :
                      results'[i].ctrl = v.ctrl /\ results'[i].op = gen'[results'[i].ctrl]
                      => results'[i].out = "progress"
      <4>1. /\ v.ctrl = c /\ v.op = gen[c] /\ worker' = worker \cup {v} /\ ~Asks(c, loop')
        BY <2>2
      <4>2. v.op <= gen'[v.ctrl]  BY <1>n, <1>1, <4>1
      <4> QED  BY <1>1, <1>4, <2>2, <3>1, <3>2, <4>1, <4>2
    <3>8. \A v \in worker' \ worker :
           /\ v.op <= gen'[v.ctrl]
           /\ v.op = gen'[v.ctrl] =>
                /\ pending'[v.ctrl] # 0 /\ ~Asks(v.ctrl, loop')
                /\ \A w \in worker' : w.ctrl = v.ctrl /\ w.op = gen'[w.ctrl] => w = v
                /\ \A i \in DOMAIN results' :
                     results'[i].ctrl = v.ctrl /\ results'[i].op = gen'[results'[i].ctrl]
                     => results'[i].out = "progress"
      BY <3>7
    <3> QED  BY <1>i, <3>4, <3>5, <3>6, <3>8, TokensKept
  <2> QED  BY <2>3, <2>4, <2>5, <2>6, <2>7 DEF Core
<1> QED  BY <1>2, <1>3, <1>4, WaitEffect DEF agentVars

LEMMA HandOutCore ==
  ASSUME IInv, HandOut
  PROVE  Core'
<1>i. TypeOK /\ ValuesAnswered  BY DEF IInv
<1>n. /\ values \in [Control -> Nat] /\ payload \in [Control -> Seq(Payload)]
      /\ loop \in [Control -> Loop \cup {None}]
      /\ \A d \in Control : \A i \in DOMAIN payload[d] : payload[d][i].op \in Nat
  BY <1>i, Nats DEF TypeOK, EventType, LoopType
<1>1. UNCHANGED <<kind, gen, pending, cut, worker, results>> /\ Dispatch  BY DEF HandOut, Dispatch
<1>2. \A d \in Control : loop'[d] # None =>
        /\ loop[d] # None /\ loop'[d].op = loop[d].op
        /\ Asks(d, loop') => Asks(d, loop)
  <2> SUFFICES ASSUME NEW d \in Control, loop'[d] # None
               PROVE  /\ loop[d] # None /\ loop'[d].op = loop[d].op
                      /\ Asks(d, loop') => Asks(d, loop)
    OBVIOUS
  <2>1. CASE loop'[d] = loop[d]  BY <2>1 DEF Asks
  <2>2. CASE /\ loop[d] # None /\ loop[d].waiting = "queued"
             /\ loop'[d] = [loop[d] EXCEPT !.waiting = "dispatched"]
    <3>1. loop[d] \in Loop  BY <1>n, <2>2
    <3>2. loop'[d].op = loop[d].op  BY <2>2, <3>1 DEF Loop
    <3> QED  BY <2>2, <3>2 DEF Asks
  <2> QED  BY <2>1, <2>2 DEF HandOut
<1>3. ValuesAnswered'
  <2>1. \A d \in Control : \A op : Answered(d, op) => Answered(d, op)'  BY <1>1 DEF Answered
  <2>2. PICK e : e = Head(queue)  OBVIOUS
  <2>3. e.ctrl \in Control /\ ApplyPayload(e)  BY <1>i, <1>1, <2>2, FirstEvent DEF Dispatch
  <2>4. CASE ~Carries(e)
    BY <1>i, <2>1, <2>3, <2>4 DEF ApplyPayload, ValuesAnswered
  <2>5. CASE Carries(e)
    <3>1. PICK p : p = Head(payload[e.ctrl])  OBVIOUS
    <3>2. /\ p = payload[e.ctrl][1] /\ 1 \in DOMAIN payload[e.ctrl]
          /\ \A i \in DOMAIN Tail(payload[e.ctrl]) :
               i + 1 \in DOMAIN payload[e.ctrl] /\ Tail(payload[e.ctrl])[i] = payload[e.ctrl][i + 1]
      BY <1>i, <2>3, <2>5, <3>1, FirstPayload DEF Carries
    <3>3. /\ payload' = [payload EXCEPT ![e.ctrl] = Tail(@)]
          /\ values' = IF p.final THEN [values EXCEPT ![e.ctrl] = p.op] ELSE values
      BY <2>3, <2>5, <3>1 DEF ApplyPayload
    <3>4. p.final => Answered(e.ctrl, p.op)  BY <1>i, <2>3, <3>2 DEF ValuesAnswered
    <3>5. ASSUME NEW d \in Control, NEW op, op = values'[d] PROVE Answered(d, op)'
      <4>1. CASE values'[d] = values[d]  BY <1>i, <2>1, <3>5, <4>1 DEF ValuesAnswered
      <4>2. CASE p.final /\ d = e.ctrl /\ values'[d] = p.op  BY <2>1, <3>4, <3>5, <4>2
      <4> QED  BY <1>n, <3>3, <4>1, <4>2
    <3>6. ASSUME NEW d \in Control, NEW i \in DOMAIN payload'[d], payload'[d][i].final,
                 NEW op, op = payload'[d][i].op
          PROVE  Answered(d, op)'
      <4>1. CASE d = e.ctrl
        <5>1. payload'[d] = Tail(payload[d])  BY <1>n, <3>3, <4>1
        <5>2. i + 1 \in DOMAIN payload[d] /\ payload'[d][i] = payload[d][i + 1]  BY <3>2, <4>1, <5>1
        <5> QED  BY <1>i, <2>1, <3>6, <5>2 DEF ValuesAnswered
      <4>2. CASE d # e.ctrl
        <5>1. payload'[d] = payload[d]  BY <1>n, <3>3, <4>2
        <5> QED  BY <1>i, <2>1, <3>6, <5>1 DEF ValuesAnswered
      <4> QED  BY <4>1, <4>2
    <3> QED  BY <3>5, <3>6 DEF ValuesAnswered
  <2> QED  BY <2>4, <2>5
<1> QED  BY <1>1, <1>2, <1>3, QuietCore

LEMMA ThreadsCore ==
  ASSUME IInv, NEW w \in worker,
         \/ EndOfRound(w)
         \/ (EndOfOp(w) \/ Progress(w)) /\ UNCHANGED agentVars
  PROVE  Core'
<1> USE DEF agentVars, db, events
<1>t. TypeOK /\ w \in Thread /\ results \in Seq(Report)  BY DEF IInv, TypeOK, ReportType
<1>1. UNCHANGED <<kind, gen, pending, values, cut, payload, loop>>
  BY DEF EndOfRound, EndOfOp, Progress
<1>2. ASSUME NEW out \in {"done", "error", "timeout", "progress", "cut", "calls", "found"},
             NEW calls \in Replies \cup {<<>>}
      PROVE  /\ Answer(w, out, calls) \in Report /\ Answer(w, out, calls).ctrl = w.ctrl
             /\ Answer(w, out, calls).op = w.op /\ Answer(w, out, calls).out = out
  <2>1. calls \in Seq(Tool)
    <3>1. <<>> \in Seq(Tool)  OBVIOUS
    <3> QED  BY <3>1, RepliesAssumption, Zenon
  <2> QED  BY <1>t, <2>1 DEF Answer, Report, Thread
<1>3. CASE EndOfRound(w)
  <2>1. PICK out \in {"done", "error", "timeout", "progress", "cut", "calls", "found"},
             calls \in Replies \cup {<<>>} :
               results' = Append(results, Answer(w, out, calls)) /\ out # "progress"
    BY <1>3 DEF EndOfRound
  <2>2. worker' = worker \ {w} /\ kind[w.ctrl] = "agent"  BY <1>3 DEF EndOfRound
  <2>3. PICK r : r = Answer(w, out, calls)  OBVIOUS
  <2>4. r \in Report /\ r.ctrl = w.ctrl /\ r.op = w.op /\ r.out = out  BY <1>2, <2>3
  <2>5. results' = Append(results, r)  BY <2>1, <2>3
  <2> QED  BY <1>1, <2>1, <2>2, <2>4, <2>5, ReportedCore
<1>4. CASE EndOfOp(w)
  <2>1. PICK out \in {"done", "error", "timeout"} :
          /\ results' = Append(results, Answer(w, out, <<>>))
    BY <1>4 DEF EndOfOp
  <2>2. worker' = worker \ {w}  BY <1>4 DEF EndOfOp
  <2>3. PICK r : r = Answer(w, out, <<>>)  OBVIOUS
  <2>4. r \in Report /\ r.ctrl = w.ctrl /\ r.op = w.op /\ r.out = out  BY <1>2, <2>3
  <2>5. results' = Append(results, r)  BY <2>1, <2>3
  <2> QED  BY <1>1, <2>1, <2>2, <2>4, <2>5, ReportedCore
<1>5. CASE Progress(w)
  <2>1. results' = Append(results, Answer(w, "progress", <<>>)) /\ kind[w.ctrl] = "kb"
    BY <1>5 DEF Progress
  <2>2. PICK v : v = [w EXCEPT !.said = TRUE]  OBVIOUS
  <2>3. v.ctrl = w.ctrl /\ v.op = w.op /\ worker' = (worker \ {w}) \cup {v}
    BY <1>t, <1>5, <2>2 DEF Progress, Thread
  <2>4. PICK r : r = Answer(w, "progress", <<>>)  OBVIOUS
  <2>5. r \in Report /\ r.ctrl = w.ctrl /\ r.op = w.op /\ r.out = "progress"  BY <1>2, <2>4
  <2>6. results' = Append(results, r)  BY <2>1, <2>4
  <2> QED  BY <1>1, <2>1, <2>3, <2>5, <2>6, ReportedCore
<1> QED  BY <1>3, <1>4, <1>5

LEMMA HandlerCore ==
  ASSUME IInv, NEW c \in Control,
         Start(c) \/ Query(c) \/ Refuse(c) \/ OpenDb(c) \/ CloseDb(c), UNCHANGED agentVars
  PROVE  Core'
<1> USE DEF agentVars, db, events, ops
<1>i. TypeOK /\ ValuesAnswered  BY DEF IInv
<1>q. ASSUME UNCHANGED <<kind, gen, pending, cut, worker, results, values, payload>>
      PROVE  Core'
  <2>1. ValuesAnswered'  BY <1>q, SameValues DEF Answered
  <2> QED  BY <1>q, <2>1, QuietCore
<1>1. CASE Start(c)  BY <1>1, BeginCore DEF Start
<1>2. CASE Query(c)
  <2>1. CASE handle[c] \in home
    <3>1. /\ MayStart(c) /\ kind[c] # "agent" /\ Begin(c, "op", handle[c])
          /\ UNCHANGED <<kind, results, payload, cut>>
      BY <1>2, <2>1 DEF Query
    <3> QED  BY <3>1, BeginCore
  <2>2. CASE handle[c] \notin home  BY <1>2, <1>q, <2>2 DEF Query
  <2> QED  BY <2>1, <2>2
<1>3. CASE Refuse(c)
  <2>1. UNCHANGED <<kind, gen, pending, cut, worker, results, values>>  BY <1>3 DEF Refuse
  <2>2. CASE payload' = payload  BY <1>q, <2>1, <2>2
  <2>3. ASSUME NEW p, p = [name |-> "onError", op |-> 0, final |-> FALSE],
               payload' = [payload EXCEPT ![c] = Append(@, p)]
        PROVE  Core'
    <3>1. payload \in [Control -> Seq(Payload)] /\ payload[c] \in Seq(Payload) /\ ~p.final
      BY <1>i, <2>3 DEF TypeOK, EventType
    <3>2. \A i \in DOMAIN payload'[c] : \/ i \in DOMAIN payload[c] /\ payload'[c][i] = payload[c][i]
                                       \/ payload'[c][i] = p
      BY <2>3, <3>1
    <3>3. \A d \in Control : d # c => payload'[d] = payload[d]  BY <2>3, <3>1
    <3>4. \A d \in Control : \A op : Answered(d, op) => Answered(d, op)'  BY <2>1 DEF Answered
    <3>5. ValuesAnswered'  BY <1>i, <2>1, <3>1, <3>2, <3>3, <3>4 DEF ValuesAnswered
    <3> QED  BY <2>1, <3>5, QuietCore
  <2> QED  BY <1>3, <2>2, <2>3 DEF Refuse
<1>4. CASE OpenDb(c) \/ CloseDb(c)  BY <1>4, <1>q DEF OpenDb, CloseDb
<1> QED  BY <1>1, <1>2, <1>3, <1>4

LEMMA AskCore ==
  ASSUME IInv, NEW c \in Control, NEW offers \in BOOLEAN, Ask(c, offers)
  PROVE  Core'
<1>1. PICK l : l = IF offers THEN NewLoop(gen[c] + 1, TRUE) ELSE None  OBVIOUS
<1>2. l # None => l.op = gen[c] + 1 /\ l.waiting = "nothing"  BY <1>1 DEF NewLoop
<1>3. /\ MayStart(c) /\ kind[c] = "agent" /\ loop' = [loop EXCEPT ![c] = l]
      /\ UNCHANGED <<kind, results, payload, cut>>
      /\ \E does : Begin(c, does, 0)
  BY <1>1 DEF Ask, events
<1> QED  BY <1>2, <1>3, BeginCore

LEMMA CoreStep ==
  ASSUME IInv, [Next]_vars
  PROVE  Core'
<1> USE DEF agentVars
<1>q. ASSUME UNCHANGED <<kind, gen, pending, cut, worker, results, values, payload, loop>>
      PROVE  Core'
  <2>1. ValuesAnswered'  BY <1>q, SameValues DEF Answered
  <2> QED  BY <1>q, <2>1, QuietCore
<1>1. ASSUME NEW c \in Control,
             (Start(c) \/ Query(c) \/ Refuse(c) \/ Cancel(c) \/ OpenDb(c) \/ CloseDb(c))
               /\ UNCHANGED agentVars
      PROVE  Core'
  <2>1. CASE Cancel(c)  BY <1>1, <2>1, CutOffCore DEF Cancel
  <2> QED  BY <1>1, <2>1, HandlerCore
<1>2. ASSUME NEW c \in Control, Timeout(c), UNCHANGED agentVars PROVE Core'
  BY <1>2, CutOffCore DEF Timeout
<1>3. ASSUME NEW c \in Control, SetToolResult(c) PROVE Core'
  BY <1>3, <1>q DEF SetToolResult, asyncVars, ops, events
<1>4. CASE (Drained \/ Swept \/ Poll \/ TakeUiEvent) /\ UNCHANGED agentVars
  BY <1>4, <1>q DEF Drained, Swept, Poll, TakeUiEvent, ops, events
<1>5. CASE UNCHANGED vars  BY <1>5, <1>q DEF vars, asyncVars, ops, events
<1> QED
  BY <1>1, <1>2, <1>3, <1>4, <1>5, AskCore, WaitCore, ThreadsCore, DeliverAgentCore, HandOutCore,
     DeliverCore
  DEF Next, Program, Threads, Waiting

(* Whatever the controls and the answers, the invariant above holds: each  *)
(* operation in flight has at most one thread or report that can still     *)
(* answer it, and what a control holds is never an answer cut off.         *)
THEOREM Invariance == Spec => []IInv
<1>1. Init => IInv  BY InitType, InitCore DEF IInv, Core
<1>2. IInv /\ [Next]_vars => IInv'  BY TypeStep, CoreStep DEF IInv, Core
<1> QED  BY <1>1, <1>2, PTL DEF Spec

(* What a thread answers after its operation was cancelled or timed out    *)
(* never reaches the control (the generation check of drain_async_ops).    *)
THEOREM LateAnswersNeverLand == Spec => []NoLateAnswer
<1>1. IInv => NoLateAnswer  BY DEF IInv, ValuesAnswered, Answered, NoLateAnswer
<1> QED  BY <1>1, Invariance, PTL

(* A thread is started for an operation in flight only: after Cancel, or a *)
(* timeout, neither a handler that returns nor a reply on its way sends    *)
(* anything more to the model.                                             *)
THEOREM NothingSentAfterTheEnd == Spec => NothingSentAfterEnd
<1> DEFINE A == \A w \in worker' : w \in worker \/ w.said \/ w.op \notin cut[w.ctrl]
<1>1. ASSUME IInv, [Next]_vars PROVE A
  <2>i. TypeOK /\ Generations  BY <1>1 DEF IInv
  <2>n. /\ gen \in [Control -> Nat] /\ cut \in [Control -> SUBSET Nat]
    BY <2>i, Nats
  <2>1. \A c \in Control : gen[c] \notin cut[c] /\ gen[c] + 1 \notin cut[c]
    BY <2>i, <2>n DEF Generations
  <2>2. ASSUME NEW c \in Control, NEW does, NEW h, Begin(c, does, h) PROVE A
    BY <2>1, <2>2 DEF Begin
  <2>3. CASE worker' \subseteq worker  BY <2>3
  <2>4. ASSUME NEW c \in Control, pending[c] = gen[c], NEW l, GoesOn(c, l) PROVE A
    BY <1>1, <2>1, <2>4, GoesOnParts
  <2>5. ASSUME NEW w \in worker, Progress(w) PROVE A
    <3>1. w \in Thread  BY <2>i DEF TypeOK, ReportType
    <3>2. [w EXCEPT !.said = TRUE].said  BY <3>1 DEF Thread
    <3> QED  BY <2>5, <3>2 DEF Progress
  <2>6. CASE Wait  BY <2>3, <2>4, <2>6, <1>1, WaitEffect
  <2>7. CASE DeliverAgent
    <3>1. CASE NothingComesOfIt  BY <2>3, <3>1 DEF NothingComesOfIt
    <3>2. ASSUME NEW c, NEW op, NEW name, Conclude(c, op, name) PROVE A  BY <2>3, <3>2 DEF Conclude
    <3> QED  BY <1>1, <2>4, <2>7, <3>1, <3>2, DeliveredEffect
  <2>8. ASSUME NEW c \in Control,
               \/ Start(c) \/ Query(c) \/ Refuse(c) \/ Cancel(c) \/ OpenDb(c) \/ CloseDb(c)
               \/ Timeout(c) \/ SetToolResult(c) \/ \E offers \in BOOLEAN : Ask(c, offers)
        PROVE  A
    <3>1. CASE \E does, h : Begin(c, does, h)  BY <2>2, <3>1
    <3>2. CASE worker' = worker  BY <2>3, <3>2
    <3> QED
      BY <2>8, <3>1, <3>2 DEF Start, Query, Refuse, Cancel, OpenDb, CloseDb, Timeout, SetToolResult,
           Ask, CutOff, ops, asyncVars
  <2>9. CASE HandOut \/ Deliver \/ Drained \/ Swept \/ Poll \/ TakeUiEvent \/ UNCHANGED vars
    BY <2>3, <2>9 DEF HandOut, Dispatch, Deliver, Drained, Swept, Poll, TakeUiEvent, ops, asyncVars, vars
  <2>10. ASSUME NEW w \in worker, EndOfRound(w) \/ EndOfOp(w) PROVE A
    BY <2>3, <2>10 DEF EndOfRound, EndOfOp
  <2> HIDE DEF A
  <2> QED  BY <1>1, <2>5, <2>6, <2>7, <2>8, <2>9, <2>10 DEF Next, Program, Threads, Waiting
<1>2. ASSUME IInv, [Next]_vars
      PROVE  [\A w \in worker' : w \in worker \/ w.said \/ w.op \notin cut[w.ctrl]]_vars
  BY <1>1, <1>2
<1> QED  BY <1>2, Invariance, PTL DEF Spec, NothingSentAfterEnd

-----------------------------------------------------------------------------
(* The steps as OneAnswer sees them.                                       *)

(* Events that end nothing, of operations that were started.               *)
OnlyWords(added) == \A i \in DOMAIN added : ~Ends(added[i]) /\ added[i].op <= gen[added[i].ctrl]

Quiet == /\ UNCHANGED <<gen, pending, told>>
         /\ \E added \in Seq(Raised) : OnlyWords(added) /\ queue' = queue \o added

Starts(c) == /\ pending[c] = 0 /\ gen[c] + 1 \in Gen
             /\ gen' = [gen EXCEPT ![c] = gen[c] + 1]
             /\ pending' = [pending EXCEPT ![c] = gen[c] + 1]
             /\ UNCHANGED <<queue, told>>

Finishes(c) ==
  /\ pending[c] # 0 /\ pending[c] = gen[c]
  /\ pending' = [pending EXCEPT ![c] = 0]
  /\ gen' = gen \/ gen' = [gen EXCEPT ![c] = gen[c] + 1]
  /\ told' = told
  /\ \E words \in Seq(Raised), e \in Raised :
       /\ OnlyWords(words) /\ Ends(e) /\ e.ctrl = c /\ e.op = gen[c]
       /\ queue' = queue \o words \o <<e>>

LEMMA NoWords ==
  ASSUME IInv
  PROVE  /\ <<>> \in Seq(Raised) /\ OnlyWords(<<>>) /\ queue \in Seq(Raised)
         /\ queue \o <<>> = queue
         /\ \A e \in Raised : Append(queue, e) = queue \o <<>> \o <<e>>
         /\ \A e \in Raised : Append(queue, e) = queue \o <<e>>
<1>1. queue \in Seq(Raised)  BY DEF IInv, TypeOK, EventType
<1> QED  BY <1>1 DEF OnlyWords

LEMMA QuietEvent ==
  ASSUME IInv, UNCHANGED <<gen, pending, told>>,
         \/ queue' = queue
         \/ \E c \in Control, n \in Event, op \in Gen :
              /\ op = 0 \/ (n = "onProgress" /\ op = gen[c])
              /\ queue' = Append(queue, Says(c, n, op))
  PROVE  Quiet
<1>1. CASE queue' = queue  BY <1>1, NoWords DEF Quiet
<1>2. ASSUME NEW c \in Control, NEW n \in Event, NEW op \in Gen,
             op = 0 \/ (n = "onProgress" /\ op = gen[c]), queue' = Append(queue, Says(c, n, op))
      PROVE  Quiet
  <2>1. PICK e : e = Says(c, n, op)  OBVIOUS
  <2>2. e \in Raised /\ e.ctrl = c /\ e.op = op /\ e.name = n  BY <2>1, Says1 DEF Says
  <2>3. op <= gen[c]  BY <1>2, Nats DEF IInv
  <2>4. ~Ends(e)  BY <1>2, <2>2 DEF Ends, Interim
  <2>5. <<e>> \in Seq(Raised) /\ OnlyWords(<<e>>)  BY <2>2, <2>3, <2>4 DEF OnlyWords
  <2>6. queue' = queue \o <<e>>  BY <1>2, <2>1, <2>2, NoWords
  <2> QED  BY <2>5, <2>6 DEF Quiet
<1> QED  BY <1>1, <1>2

LEMMA OneEnding ==
  ASSUME IInv, NEW c \in Control, NEW n \in Event,
         n \notin Interim, NEW m \in {"onInvoked", "onResultsReceived"},
         pending[c] = gen[c], pending[c] # 0, pending' = [pending EXCEPT ![c] = 0], told' = told,
         gen' = gen \/ gen' = [gen EXCEPT ![c] = gen[c] + 1],
         \/ queue' = Append(queue, Says(c, n, gen[c]))
         \/ queue' = queue \o <<Says(c, m, gen[c]), Says(c, n, gen[c])>>
  PROVE  Finishes(c)
<1>1. PICK e, w : e = Says(c, n, gen[c]) /\ w = Says(c, m, gen[c])  OBVIOUS
<1>2. gen[c] \in Gen /\ gen[c] \in Nat  BY Nats DEF IInv, TypeOK
<1>3. /\ e \in Raised /\ e.ctrl = c /\ e.op = gen[c] /\ e.name = n
      /\ w \in Raised /\ w.ctrl = c /\ w.op = gen[c] /\ w.name = m
  BY <1>1, <1>2, Says1 DEF Says, Event
<1>4. Ends(e) /\ ~Ends(w) /\ w.op <= gen[w.ctrl]  BY <1>2, <1>3 DEF Ends, Interim
<1>5. <<w>> \in Seq(Raised) /\ OnlyWords(<<w>>)  BY <1>3, <1>4 DEF OnlyWords
<1>6. CASE queue' = Append(queue, e)
  <2>1. queue' = queue \o <<>> \o <<e>>  BY <1>3, <1>6, NoWords
  <2> QED  BY <1>3, <1>4, <2>1, NoWords DEF Finishes
<1>7. CASE queue' = queue \o <<w, e>>
  <2>1. queue' = queue \o <<w>> \o <<e>>  BY <1>3, <1>7, NoWords
  <2> QED  BY <1>3, <1>4, <1>5, <2>1 DEF Finishes
<1> QED  BY <1>1, <1>6, <1>7

LEMMA ToolWords ==
  ASSUME IInv, NEW c \in Control, pending[c] = gen[c], NEW l, GoesOn(c, l), UNCHANGED <<gen, told>>
  PROVE  Quiet
<1>1. PICK uses \in Seq(Raised) : OnTheWay(uses, c, l.op) /\ queue' = queue \o uses
  BY DEF GoesOn, Continued
<1>2. l.op = gen[c] /\ gen[c] \in Nat  BY Nats DEF GoesOn, IInv
<1>3. OnlyWords(uses)  BY <1>1, <1>2 DEF OnTheWay, OnlyWords, Ends, Interim
<1> QED  BY <1>1, <1>3, GoesOnParts DEF Quiet

LEMMA StepForms ==
  ASSUME IInv, [Next]_vars
  PROVE  Quiet \/ (\E c \in Control : Starts(c) \/ Finishes(c)) \/ HandOut
<1>i. TypeOK /\ Generations /\ \A c \in Control : 0 \in Gen  BY Generation DEF IInv
<1>1. ASSUME NEW c \in Control, MayStart(c), NEW does, NEW h, Begin(c, does, h), UNCHANGED <<queue, told>>
      PROVE  Starts(c)
  <2>1. gen[c] + 1 \in Gen  BY <1>i, <1>1, NextGeneration DEF MayStart
  <2> QED  BY <1>1, <2>1 DEF Begin, Starts, MayStart
<1>2. ASSUME NEW c \in Control, NEW n \in {"onCancelled", "onTimeout"}, CutOff(c, n) PROVE Finishes(c)
  <2>1. /\ pending[c] # 0 /\ pending[c] = gen[c] /\ pending' = [pending EXCEPT ![c] = 0]
        /\ gen' = [gen EXCEPT ![c] = gen[c] + 1] /\ told' = told
        /\ queue' = Append(queue, Says(c, n, gen[c]))
    BY <1>i, <1>2 DEF CutOff, Generations
  <2> QED  BY <2>1, OneEnding DEF Event, Interim
<1>3. ASSUME NEW c \in Control,
             (Start(c) \/ Query(c) \/ Refuse(c) \/ Cancel(c) \/ OpenDb(c) \/ CloseDb(c))
               /\ UNCHANGED agentVars
      PROVE  Quiet \/ Starts(c) \/ Finishes(c)
  <2> USE DEF ops, events
  <2>1. CASE Start(c)  BY <1>1, <2>1 DEF Start
  <2>2. CASE Query(c) /\ handle[c] \in home  BY <1>1, <2>2 DEF Query
  <2>3. CASE Query(c) /\ handle[c] \notin home
    <3>1. UNCHANGED <<gen, pending, told>> /\ queue' = Append(queue, Says(c, "onQueryError", 0))
      BY <2>3 DEF Query
    <3> QED  BY <1>i, <3>1, QuietEvent DEF Event
  <2>4. CASE Refuse(c)
    <3>1. UNCHANGED <<gen, pending, told>> /\ queue' = Append(queue, Says(c, "onError", 0))
      BY <2>4 DEF Refuse
    <3> QED  BY <1>i, <3>1, QuietEvent DEF Event
  <2>5. CASE Cancel(c)  BY <1>2, <2>5 DEF Cancel
  <2>6. CASE OpenDb(c)
    <3>1. UNCHANGED <<gen, pending, told>> /\ queue' = Append(queue, Says(c, "onConnectOk", 0))
      BY <2>6 DEF OpenDb
    <3> QED  BY <1>i, <3>1, QuietEvent DEF Event
  <2>7. CASE CloseDb(c)  BY <2>7, QuietEvent DEF CloseDb
  <2> QED  BY <1>3, <2>1, <2>2, <2>3, <2>4, <2>5, <2>6, <2>7
<1>4. ASSUME NEW c \in Control, NEW offers \in BOOLEAN, Ask(c, offers) PROVE Starts(c)
  BY <1>1, <1>4 DEF Ask, events
<1>5. ASSUME NEW c \in Control, Timeout(c) PROVE Finishes(c)
  BY <1>2, <1>5 DEF Timeout
<1>6. ASSUME UNCHANGED <<gen, pending, told, queue>> PROVE Quiet  BY <1>6, QuietEvent
<1>7. ASSUME Wait PROVE Quiet
  <2>1. UNCHANGED <<gen, told>>  BY <1>7, WaitEffect
  <2>2. CASE UNCHANGED <<pending, queue>>  BY <1>6, <2>1, <2>2
  <2>3. ASSUME NEW c \in Control, pending[c] = gen[c], NEW l, GoesOn(c, l) PROVE Quiet
    BY <2>1, <2>3, ToolWords
  <2> QED  BY <1>7, <2>2, <2>3, WaitEffect
<1>8. ASSUME DeliverAgent PROVE Quiet \/ \E c \in Control : Finishes(c)
  <2>1. UNCHANGED <<gen, told>> /\ Head(results).ctrl \in Control  BY <1>8, DeliveredEffect
  <2>2. CASE NothingComesOfIt  BY <1>6, <2>1, <2>2 DEF NothingComesOfIt
  <2>3. ASSUME NEW c \in Control, pending[c] = gen[c], NEW l, GoesOn(c, l) PROVE Quiet
    BY <2>1, <2>3, ToolWords
  <2>4. ASSUME NEW c \in Control, pending[c] = gen[c], pending[c] # 0,
               NEW n \in {"onError", "onResponse"}, Conclude(c, gen[c], n)
        PROVE  Finishes(c)
    <3>1. pending' = [pending EXCEPT ![c] = 0] /\ queue' = Append(queue, Says(c, n, gen[c]))
      BY <2>4 DEF Conclude
    <3> QED  BY <2>1, <2>4, <3>1, OneEnding DEF Event, Interim
  <2> QED  BY <1>8, <2>1, <2>2, <2>3, <2>4, DeliveredEffect
<1>9. ASSUME Deliver PROVE Quiet \/ \E c \in Control : Finishes(c)
  <2>1. PICK r : r = Head(results)  OBVIOUS
  <2>2. r \in Report /\ r.ctrl \in Control /\ r.op \in Gen /\ UNCHANGED <<gen, told>>
    BY <1>9, <2>1, DeliverStep DEF Deliver
  <2>3. CASE UNCHANGED <<pending, busy, values, events>>  BY <1>6, <2>2, <2>3 DEF events
  <2>4. CASE /\ r.op = gen[r.ctrl] /\ pending[r.ctrl] = gen[r.ctrl] /\ pending[r.ctrl] # 0
             /\ Apply(r) /\ kind[r.ctrl] # "agent"
             /\ r.out = "progress" => kind[r.ctrl] = "kb"
             /\ kind[r.ctrl] = "aws" => r.out \in {"done", "error", "timeout"}
    <3>1. CASE Word(r)  BY <2>2, <2>4, <3>1, QuietEvent DEF Word, Event
    <3>2. ASSUME NEW n \in Event, n \notin Interim, NEW m \in {"onInvoked", "onResultsReceived"},
                 pending' = [pending EXCEPT ![r.ctrl] = 0],
                 \/ queue' = Append(queue, Says(r.ctrl, n, r.op))
                 \/ queue' = queue \o <<Says(r.ctrl, m, r.op), Says(r.ctrl, n, r.op)>>
          PROVE  Finishes(r.ctrl)
      BY <2>2, <2>4, <3>2, OneEnding
    <3>3. ASSUME NEW n \in {"onComplete", "onError", "onQueryComplete", "onQueryError"}, Written(r, n)
          PROVE  Finishes(r.ctrl)
      BY <3>2, <3>3 DEF Written, Wrote, Event, Interim
    <3>4. ASSUME NEW n \in {"onIndexed", "onError", "onTimeout"}, Carried(r, n),
                 queue' = Append(queue, Says(r.ctrl, n, r.op))
          PROVE  Finishes(r.ctrl)
      BY <3>2, <3>4 DEF Carried, Event, Interim
    <3>5. CASE /\ Carried(r, "onInvoked")
               /\ queue' = queue \o <<Says(r.ctrl, "onInvoked", r.op), Says(r.ctrl, "onComplete", r.op)>>
      BY <2>2, <3>2, <3>5 DEF Carried, Event, Interim
    <3>6. CASE Searched(r)  BY <2>2, <3>2, <3>6 DEF Searched, Wrote, Event, Interim
    <3> QED  BY <1>i, <2>2, <2>4, <3>1, <3>3, <3>4, <3>5, <3>6, ApplyStep
  <2> QED  BY <1>9, <2>1, <2>3, <2>4, DeliverStep
<1>10. ASSUME NEW w \in worker, EndOfRound(w) \/ EndOfOp(w) \/ Progress(w) PROVE Quiet
  BY <1>6, <1>10 DEF EndOfRound, EndOfOp, Progress, events
<1>11. ASSUME NEW c \in Control, SetToolResult(c) PROVE Quiet
  BY <1>6, <1>11 DEF SetToolResult, asyncVars, ops, events
<1>12. CASE Drained \/ Swept \/ Poll \/ TakeUiEvent \/ UNCHANGED vars
  BY <1>6, <1>12 DEF Drained, Swept, Poll, TakeUiEvent, ops, events, vars, asyncVars
<1> QED
  BY <1>3, <1>4, <1>5, <1>7, <1>8, <1>9, <1>10, <1>11, <1>12 DEF Next, Program, Threads, Waiting

(* The endings in the queue after words, and after an ending.              *)
LEMMA AfterWords ==
  ASSUME IInv, NEW words \in Seq(Raised), OnlyWords(words), queue' = queue \o words
  PROVE  /\ DOMAIN queue \subseteq DOMAIN queue' /\ \A i \in DOMAIN queue : queue'[i] = queue[i]
         /\ \A i \in DOMAIN queue' : i \in DOMAIN queue \/ (~Ends(queue'[i]) /\ queue'[i].op <= gen[queue'[i].ctrl])
         /\ \A c \in Control : EndsOf(c)' = EndsOf(c)
<1>1. queue \in Seq(Raised)  BY DEF IInv, TypeOK, EventType
<1>2. /\ DOMAIN queue = 1 .. Len(queue) /\ DOMAIN queue' = 1 .. Len(queue) + Len(words)
      /\ Len(queue) \in Nat /\ Len(words) \in Nat
      /\ \A i \in 1 .. Len(queue) : queue'[i] = queue[i]
      /\ \A i \in DOMAIN queue' : i > Len(queue) =>
           i - Len(queue) \in DOMAIN words /\ queue'[i] = words[i - Len(queue)]
  BY <1>1
<1>3. DOMAIN queue \subseteq DOMAIN queue' /\ \A i \in DOMAIN queue : queue'[i] = queue[i]  BY <1>2
<1>4. \A i \in DOMAIN queue' : i \in DOMAIN queue \/ (~Ends(queue'[i]) /\ queue'[i].op <= gen[queue'[i].ctrl])
  <2> SUFFICES ASSUME NEW i \in DOMAIN queue', i \notin DOMAIN queue
               PROVE  ~Ends(queue'[i]) /\ queue'[i].op <= gen[queue'[i].ctrl]
    OBVIOUS
  <2>1. i > Len(queue)  BY <1>2
  <2>2. i - Len(queue) \in DOMAIN words /\ queue'[i] = words[i - Len(queue)]  BY <1>2, <2>1
  <2> QED  BY <2>2 DEF OnlyWords
<1>5. ASSUME NEW c \in Control PROVE EndsOf(c)' = EndsOf(c)
  <2>1. EndsOf(c)' = {i \in DOMAIN queue' : queue'[i].ctrl = c /\ Ends(queue'[i])}  BY DEF EndsOf, Ends
  <2>2. EndsOf(c) = {i \in DOMAIN queue : queue[i].ctrl = c /\ Ends(queue[i])}  BY DEF EndsOf
  <2> QED  BY <1>3, <1>4, <2>1, <2>2
<1> QED  BY <1>3, <1>4, <1>5

LEMMA AfterEnding ==
  ASSUME IInv, NEW words \in Seq(Raised), OnlyWords(words), NEW e \in Raised, Ends(e),
         queue' = queue \o words \o <<e>>
  PROVE  \E n \in Nat :
           /\ DOMAIN queue \subseteq 1 .. n - 1
           /\ n \in DOMAIN queue' /\ queue'[n] = e
           /\ DOMAIN queue \subseteq DOMAIN queue' /\ \A i \in DOMAIN queue : queue'[i] = queue[i]
           /\ \A i \in DOMAIN queue' : \/ i \in DOMAIN queue
                                      \/ i = n
                                      \/ (~Ends(queue'[i]) /\ queue'[i].op <= gen[queue'[i].ctrl])
           /\ \A c \in Control : EndsOf(c)' = IF c = e.ctrl THEN EndsOf(c) \cup {n} ELSE EndsOf(c)
<1> DEFINE n == Len(queue) + Len(words) + 1
<1>1. queue \in Seq(Raised)  BY DEF IInv, TypeOK, EventType
<1>2. /\ DOMAIN queue = 1 .. Len(queue) /\ DOMAIN queue' = 1 .. n
      /\ Len(queue) \in Nat /\ Len(words) \in Nat /\ n \in Nat /\ n > Len(queue)
      /\ \A i \in 1 .. Len(queue) : queue'[i] = queue[i]
      /\ \A i \in DOMAIN queue' : i > Len(queue) /\ i # n =>
           i - Len(queue) \in DOMAIN words /\ queue'[i] = words[i - Len(queue)]
      /\ queue'[n] = e
  <2>1. PICK mid : mid = queue \o words  OBVIOUS
  <2>2. /\ mid \in Seq(Raised) /\ Len(mid) = n - 1 /\ DOMAIN mid = 1 .. n - 1
        /\ Len(queue) \in Nat /\ Len(words) \in Nat /\ n \in Nat /\ n > Len(queue)
        /\ DOMAIN queue = 1 .. Len(queue)
        /\ \A i \in 1 .. Len(queue) : mid[i] = queue[i]
        /\ \A i \in 1 .. n - 1 : i > Len(queue) =>
             i - Len(queue) \in DOMAIN words /\ mid[i] = words[i - Len(queue)]
    BY <1>1, <2>1
  <2> HIDE DEF n
  <2>3. /\ queue' = Append(mid, e) /\ DOMAIN queue' = 1 .. n /\ queue'[n] = e
        /\ \A i \in 1 .. n - 1 : queue'[i] = mid[i]
    BY <2>1, <2>2
  <2>4. \A i \in 1 .. n : i # n => i \in 1 .. n - 1  BY <2>2
  <2>5. \A i \in 1 .. Len(queue) : i \in 1 .. n - 1  BY <2>2
  <2> QED  BY <2>2, <2>3, <2>4, <2>5
<1> HIDE DEF n
<1>3. /\ DOMAIN queue \subseteq DOMAIN queue' /\ \A i \in DOMAIN queue : queue'[i] = queue[i]
      /\ DOMAIN queue \subseteq 1 .. n - 1 /\ n \in DOMAIN queue' /\ queue'[n] = e
      /\ n \notin DOMAIN queue /\ n \in Nat
  BY <1>2
<1>4. \A i \in DOMAIN queue' : \/ i \in DOMAIN queue
                             \/ i = n
                             \/ (~Ends(queue'[i]) /\ queue'[i].op <= gen[queue'[i].ctrl])
  <2> SUFFICES ASSUME NEW i \in DOMAIN queue', i \notin DOMAIN queue, i # n
               PROVE  ~Ends(queue'[i]) /\ queue'[i].op <= gen[queue'[i].ctrl]
    OBVIOUS
  <2>1. i > Len(queue)  BY <1>2
  <2>2. i - Len(queue) \in DOMAIN words /\ queue'[i] = words[i - Len(queue)]  BY <1>2, <2>1
  <2> QED  BY <2>2 DEF OnlyWords
<1>5. ASSUME NEW c \in Control
      PROVE  EndsOf(c)' = IF c = e.ctrl THEN EndsOf(c) \cup {n} ELSE EndsOf(c)
  <2>1. EndsOf(c)' = {i \in DOMAIN queue' : queue'[i].ctrl = c /\ Ends(queue'[i])}  BY DEF EndsOf, Ends
  <2>2. EndsOf(c) = {i \in DOMAIN queue : queue[i].ctrl = c /\ Ends(queue[i])}  BY DEF EndsOf
  <2>3. CASE c = e.ctrl  BY <1>3, <1>4, <2>1, <2>2, <2>3
  <2>4. CASE c # e.ctrl
    <3>1. \A i \in DOMAIN queue' : queue'[i].ctrl = c /\ Ends(queue'[i]) => i \in DOMAIN queue
      BY <1>3, <1>4, <2>4
    <3>2. EndsOf(c)' = EndsOf(c)  BY <1>3, <2>1, <2>2, <3>1
    <3> QED  BY <2>4, <3>2
  <2> QED  BY <2>3, <2>4
<1> QED  BY <1>3, <1>4, <1>5

(* The numbers of events and of what the program was told.                 *)
LEMMA EventNats ==
  ASSUME TypeOK
  PROVE  /\ \A i \in DOMAIN queue : /\ queue[i].op \in Nat /\ queue[i].ctrl \in Control
                                    /\ queue[i].op \in Gen /\ i \in Nat
         /\ told \in [Control -> Seq(Gen)]
         /\ \A c \in Control : \A k \in DOMAIN told[c] : told[c][k] \in Nat
<1>0. Gen \subseteq Nat  BY Generation
<1>1. queue \in Seq(Raised) /\ told \in [Control -> Seq(Gen)]  BY DEF TypeOK, EventType
<1>2. \A i \in DOMAIN queue : queue[i] \in Raised /\ i \in Nat  BY <1>1
<1>3. ASSUME NEW c \in Control PROVE \A k \in DOMAIN told[c] : told[c][k] \in Nat
  <2>1. told[c] \in Seq(Gen)  BY <1>1
  <2>2. \A k \in DOMAIN told[c] : told[c][k] \in Gen  BY <2>1
  <2> QED  BY <1>0, <2>2
<1> QED  BY <1>0, <1>1, <1>2, <1>3 DEF Raised

LEMMA OrderedQuiet ==
  ASSUME IInv, Ordered, Quiet
  PROVE  Ordered'
<1>1. PICK words \in Seq(Raised) : OnlyWords(words) /\ queue' = queue \o words  BY DEF Quiet
<1>2. /\ DOMAIN queue \subseteq DOMAIN queue' /\ \A i \in DOMAIN queue : queue'[i] = queue[i]
      /\ \A i \in DOMAIN queue' : i \in DOMAIN queue \/ (~Ends(queue'[i]) /\ queue'[i].op <= gen[queue'[i].ctrl])
      /\ \A c \in Control : EndsOf(c)' = EndsOf(c)
  BY <1>1, AfterWords
<1>3. UNCHANGED <<gen, pending, told>>  BY DEF Quiet
<1>4. QueueBounds'
  <2> SUFFICES ASSUME NEW i \in DOMAIN queue'
               PROVE  /\ queue'[i].op <= gen[queue'[i].ctrl]
                      /\ (Ends(queue'[i]) /\ pending[queue'[i].ctrl] # 0 => queue'[i].op < gen[queue'[i].ctrl])
    BY <1>3 DEF QueueBounds, Ends
  <2> QED  BY <1>2 DEF Ordered, QueueBounds
<1>5. QueueOrder'
  <2> SUFFICES ASSUME NEW i \in DOMAIN queue', NEW j \in DOMAIN queue', i < j,
                      queue'[i].ctrl = queue'[j].ctrl, Ends(queue'[i]), Ends(queue'[j])
               PROVE  queue'[i].op < queue'[j].op
    BY DEF QueueOrder, Ends
  <2> QED  BY <1>2 DEF Ordered, QueueOrder
<1>6. ToldOrder'
  <2> SUFFICES ASSUME NEW c \in Control, NEW k \in DOMAIN told[c]
               PROVE  /\ told[c][k] <= gen[c] /\ (pending[c] # 0 => told[c][k] < gen[c])
                      /\ \A i \in EndsOf(c)' : told[c][k] < queue'[i].op
    BY <1>3 DEF ToldOrder
  <2>1. \A i \in EndsOf(c) : i \in DOMAIN queue  BY DEF EndsOf
  <2> QED  BY <1>2, <2>1 DEF Ordered, ToldOrder
<1> QED  BY <1>4, <1>5, <1>6 DEF Ordered

LEMMA OrderedStarts ==
  ASSUME IInv, Ordered, NEW c \in Control, Starts(c)
  PROVE  Ordered'
<1>n. /\ gen \in [Control -> Nat] /\ pending \in [Control -> Nat]
      /\ \A i \in DOMAIN queue : queue[i].op \in Nat /\ queue[i].ctrl \in Control
      /\ \A d \in Control : \A k \in DOMAIN told[d] : told[d][k] \in Nat
  BY Nats, EventNats DEF IInv
<1>1. /\ gen' \in [Control -> Nat] /\ UNCHANGED <<queue, told>>
      /\ gen'[c] = gen[c] + 1 /\ \A d \in Control : d # c => gen'[d] = gen[d] /\ pending'[d] = pending[d]
  BY <1>n DEF Starts
<1>2. QueueBounds'
  <2> SUFFICES ASSUME NEW i \in DOMAIN queue
               PROVE  /\ queue[i].op <= gen'[queue[i].ctrl]
                      /\ (Ends(queue[i]) /\ pending'[queue[i].ctrl] # 0 => queue[i].op < gen'[queue[i].ctrl])
    BY <1>1 DEF QueueBounds, Ends
  <2>1. /\ queue[i].op <= gen[queue[i].ctrl]
        /\ (Ends(queue[i]) /\ pending[queue[i].ctrl] # 0 => queue[i].op < gen[queue[i].ctrl])
    BY DEF Ordered, QueueBounds
  <2>2. queue[i].op \in Nat /\ queue[i].ctrl \in Control  BY <1>n
  <2>3. CASE queue[i].ctrl = c  BY <1>n, <1>1, <2>1, <2>2, <2>3
  <2>4. CASE queue[i].ctrl # c  BY <1>n, <1>1, <2>1, <2>2, <2>4
  <2> QED  BY <2>3, <2>4
<1>3. QueueOrder'  BY <1>1 DEF Ordered, QueueOrder, Ends
<1>4. ToldOrder'
  <2> SUFFICES ASSUME NEW d \in Control, NEW k \in DOMAIN told[d]
               PROVE  /\ told[d][k] <= gen'[d] /\ (pending'[d] # 0 => told[d][k] < gen'[d])
                      /\ \A i \in EndsOf(d)' : told[d][k] < queue[i].op
    BY <1>1 DEF ToldOrder
  <2>1. EndsOf(d)' = EndsOf(d)  BY <1>1 DEF EndsOf, Ends
  <2>2. /\ told[d][k] <= gen[d] /\ (pending[d] # 0 => told[d][k] < gen[d])
        /\ \A i \in EndsOf(d) : told[d][k] < queue[i].op
    BY DEF Ordered, ToldOrder
  <2> QED  BY <1>n, <1>1, <2>1, <2>2
<1> QED  BY <1>2, <1>3, <1>4 DEF Ordered

LEMMA OrderedFinishes ==
  ASSUME IInv, Ordered, NEW c \in Control, Finishes(c)
  PROVE  Ordered'
<1>n. /\ gen \in [Control -> Nat] /\ pending \in [Control -> Nat]
      /\ \A i \in DOMAIN queue : queue[i].op \in Nat /\ queue[i].ctrl \in Control
      /\ \A d \in Control : \A k \in DOMAIN told[d] : told[d][k] \in Nat
  BY Nats, EventNats DEF IInv
<1>1. /\ gen' \in [Control -> Nat] /\ told' = told /\ pending[c] # 0
      /\ \A d \in Control : gen[d] <= gen'[d]
      /\ \A d \in Control : d # c => gen'[d] = gen[d] /\ pending'[d] = pending[d]
      /\ pending'[c] = 0
  <2>1. CASE gen' = gen  BY <1>n, <2>1 DEF Finishes
  <2>2. CASE gen' = [gen EXCEPT ![c] = gen[c] + 1]  BY <1>n, <2>2 DEF Finishes
  <2> QED  BY <2>1, <2>2 DEF Finishes
<1>2. PICK words \in Seq(Raised), e \in Raised :
       /\ OnlyWords(words) /\ Ends(e) /\ e.ctrl = c /\ e.op = gen[c]
       /\ queue' = queue \o words \o <<e>>
  BY DEF Finishes
<1>3. PICK n \in Nat :
           /\ DOMAIN queue \subseteq 1 .. n - 1
           /\ n \in DOMAIN queue' /\ queue'[n] = e
           /\ DOMAIN queue \subseteq DOMAIN queue' /\ \A i \in DOMAIN queue : queue'[i] = queue[i]
           /\ \A i \in DOMAIN queue' : \/ i \in DOMAIN queue
                                      \/ i = n
                                      \/ (~Ends(queue'[i]) /\ queue'[i].op <= gen[queue'[i].ctrl])
           /\ \A d \in Control : EndsOf(d)' = IF d = e.ctrl THEN EndsOf(d) \cup {n} ELSE EndsOf(d)
  BY <1>2, AfterEnding
<1>w. \A i \in DOMAIN queue' : queue'[i] \in Raised
  BY <1>2 DEF IInv, TypeOK, EventType
<1>o. \A i \in DOMAIN queue' : queue'[i].op \in Nat /\ queue'[i].ctrl \in Control
  BY <1>w, Generation DEF Raised
<1>4. QueueBounds'
  <2> SUFFICES ASSUME NEW i \in DOMAIN queue'
               PROVE  /\ queue'[i].op <= gen'[queue'[i].ctrl]
                      /\ (Ends(queue'[i]) /\ pending'[queue'[i].ctrl] # 0 => queue'[i].op < gen'[queue'[i].ctrl])
    BY DEF QueueBounds, Ends
  <2>1. CASE i \in DOMAIN queue
    <3>1. /\ queue[i].op <= gen[queue[i].ctrl] /\ queue'[i] = queue[i]
          /\ (Ends(queue[i]) /\ pending[queue[i].ctrl] # 0 => queue[i].op < gen[queue[i].ctrl])
      BY <1>3, <2>1 DEF Ordered, QueueBounds
    <3> QED  BY <1>n, <1>1, <2>1, <3>1
  <2>2. CASE i = n  BY <1>n, <1>1, <1>2, <1>3, <2>2
  <2>3. CASE ~Ends(queue'[i]) /\ queue'[i].op <= gen[queue'[i].ctrl]
    BY <1>n, <1>o, <1>1, <2>3
  <2> QED  BY <1>3, <2>1, <2>2, <2>3
<1>5. QueueOrder'
  <2> SUFFICES ASSUME NEW i \in DOMAIN queue', NEW j \in DOMAIN queue', i < j,
                      queue'[i].ctrl = queue'[j].ctrl, Ends(queue'[i]), Ends(queue'[j])
               PROVE  queue'[i].op < queue'[j].op
    BY DEF QueueOrder, Ends
  <2>1. CASE i \in DOMAIN queue /\ j \in DOMAIN queue  BY <1>3, <2>1 DEF Ordered, QueueOrder
  <2>2. CASE i \in DOMAIN queue /\ j = n
    <3>1. queue[i].op < gen[queue[i].ctrl]  BY <1>1, <1>2, <1>3, <2>2 DEF Ordered, QueueBounds
    <3> QED  BY <1>2, <1>3, <2>2, <3>1
  <2>3. CASE i = n /\ j \in DOMAIN queue
    <3>1. j \in 1 .. n - 1  BY <1>3, <2>3
    <3> QED  BY <2>3, <3>1
  <2>4. ~(i = n /\ j = n)  BY <1>3
  <2> QED  BY <1>3, <2>1, <2>2, <2>3, <2>4
<1>6. ToldOrder'
  <2> SUFFICES ASSUME NEW d \in Control, NEW k \in DOMAIN told[d]
               PROVE  /\ told[d][k] <= gen'[d] /\ (pending'[d] # 0 => told[d][k] < gen'[d])
                      /\ \A i \in EndsOf(d)' : told[d][k] < queue'[i].op
    BY <1>1 DEF ToldOrder
  <2>1. /\ told[d][k] <= gen[d] /\ (pending[d] # 0 => told[d][k] < gen[d])
        /\ \A i \in EndsOf(d) : told[d][k] < queue[i].op /\ i \in DOMAIN queue
    BY DEF Ordered, ToldOrder, EndsOf
  <2>2. CASE d = c
    <3>1. told[d][k] < gen[c]  BY <1>1, <2>1, <2>2
    <3>2. told[d][k] \in Nat /\ gen[c] \in Nat /\ gen'[c] \in Nat /\ gen[c] <= gen'[c]  BY <1>n, <1>1
    <3>3. told[d][k] <= gen'[d] /\ pending'[d] = 0  BY <1>1, <2>2, <3>1, <3>2
    <3>4. EndsOf(d)' = EndsOf(d) \cup {n}  BY <1>2, <1>3, <2>2
    <3>5. \A i \in EndsOf(d)' : told[d][k] < queue'[i].op  BY <1>2, <1>3, <2>1, <3>1, <3>4
    <3> QED  BY <3>3, <3>5
  <2>3. CASE d # c  BY <1>n, <1>1, <1>2, <1>3, <2>1, <2>3
  <2> QED  BY <2>2, <2>3
<1> QED  BY <1>4, <1>5, <1>6 DEF Ordered

(* What handing out the first event does to the rest of the queue.         *)
LEMMA AfterHandOut ==
  ASSUME IInv, HandOut
  PROVE  /\ UNCHANGED <<gen, pending>>
         /\ queue # <<>> /\ 1 \in DOMAIN queue /\ Head(queue) = queue[1]
         /\ \A i \in DOMAIN queue' : i \in Nat /\ i > 0 /\ i + 1 \in DOMAIN queue /\ queue'[i] = queue[i + 1]
         /\ \A i \in DOMAIN queue : i = 1 \/ (i - 1 \in DOMAIN queue' /\ queue'[i - 1] = queue[i])
         /\ \A c \in Control : \A i \in EndsOf(c)' : i + 1 \in EndsOf(c) /\ i \in DOMAIN queue'
         /\ told' = IF Ends(queue[1])
                    THEN [told EXCEPT ![queue[1].ctrl] = Append(@, queue[1].op)] ELSE told
<1>1. queue \in Seq(Raised)  BY DEF IInv, TypeOK, EventType
<1>2. /\ UNCHANGED <<gen, pending>> /\ queue # <<>> /\ queue' = Tail(queue)
      /\ told' = IF Ends(Head(queue))
                 THEN [told EXCEPT ![Head(queue).ctrl] = Append(@, Head(queue).op)] ELSE told
  BY DEF HandOut, Dispatch
<1>3. 1 \in DOMAIN queue /\ Head(queue) = queue[1]  BY <1>1, <1>2
<1>4. \A i \in DOMAIN queue' : i \in Nat /\ i > 0 /\ i + 1 \in DOMAIN queue /\ queue'[i] = queue[i + 1]
  BY <1>1, <1>2
<1>5. \A i \in DOMAIN queue : i = 1 \/ (i - 1 \in DOMAIN queue' /\ queue'[i - 1] = queue[i])
  BY <1>1, <1>2
<1>6. ASSUME NEW c \in Control, NEW i \in EndsOf(c)' PROVE i + 1 \in EndsOf(c) /\ i \in DOMAIN queue'
  <2>1. i \in DOMAIN queue' /\ queue'[i].ctrl = c /\ Ends(queue'[i])  BY <1>6 DEF EndsOf, Ends
  <2>2. i + 1 \in DOMAIN queue /\ queue'[i] = queue[i + 1]  BY <1>4, <2>1
  <2> QED  BY <2>1, <2>2 DEF EndsOf
<1> QED  BY <1>2, <1>3, <1>4, <1>5, <1>6

LEMMA OrderedHandOut ==
  ASSUME IInv, Ordered, HandOut
  PROVE  Ordered'
<1>n. /\ gen \in [Control -> Nat] /\ pending \in [Control -> Nat] /\ told \in [Control -> Seq(Gen)]
      /\ \A i \in DOMAIN queue : queue[i].op \in Nat /\ queue[i].ctrl \in Control /\ queue[i].op \in Gen
      /\ \A d \in Control : \A k \in DOMAIN told[d] : told[d][k] \in Nat
  BY Nats, EventNats DEF IInv
<1>1. /\ UNCHANGED <<gen, pending>>
      /\ 1 \in DOMAIN queue
      /\ \A i \in DOMAIN queue' : i \in Nat /\ i > 0 /\ i + 1 \in DOMAIN queue /\ queue'[i] = queue[i + 1]
      /\ \A c \in Control : \A i \in EndsOf(c)' : i + 1 \in EndsOf(c) /\ i \in DOMAIN queue'
      /\ told' = IF Ends(queue[1])
                 THEN [told EXCEPT ![queue[1].ctrl] = Append(@, queue[1].op)] ELSE told
  BY AfterHandOut
<1>2. QueueBounds'
  <2> SUFFICES ASSUME NEW i \in DOMAIN queue'
               PROVE  /\ queue'[i].op <= gen[queue'[i].ctrl]
                      /\ (Ends(queue'[i]) /\ pending[queue'[i].ctrl] # 0 => queue'[i].op < gen[queue'[i].ctrl])
    BY <1>1 DEF QueueBounds, Ends
  <2> QED  BY <1>1 DEF Ordered, QueueBounds
<1>3. QueueOrder'
  <2> SUFFICES ASSUME NEW i \in DOMAIN queue', NEW j \in DOMAIN queue', i < j,
                      queue'[i].ctrl = queue'[j].ctrl, Ends(queue'[i]), Ends(queue'[j])
               PROVE  queue'[i].op < queue'[j].op
    BY DEF QueueOrder, Ends
  <2>1. i + 1 \in DOMAIN queue /\ j + 1 \in DOMAIN queue /\ i + 1 < j + 1  BY <1>1
  <2> QED  BY <1>1, <2>1 DEF Ordered, QueueOrder
<1>4. ToldOrder'
  <2> SUFFICES ASSUME NEW c \in Control, NEW k \in DOMAIN told'[c]
               PROVE  /\ told'[c][k] <= gen[c] /\ (pending[c] # 0 => told'[c][k] < gen[c])
                      /\ \A i \in EndsOf(c)' : told'[c][k] < queue'[i].op
    BY <1>1 DEF ToldOrder
  <2>1. CASE k \in DOMAIN told[c] /\ told'[c][k] = told[c][k]
    <3>1. /\ told[c][k] <= gen[c] /\ (pending[c] # 0 => told[c][k] < gen[c])
          /\ \A i \in EndsOf(c) : told[c][k] < queue[i].op
      BY <2>1 DEF Ordered, ToldOrder
    <3> QED  BY <1>1, <2>1, <3>1
  <2>2. CASE Ends(queue[1]) /\ c = queue[1].ctrl /\ told'[c][k] = queue[1].op
    <3>1. queue[1].op <= gen[c] /\ (pending[c] # 0 => queue[1].op < gen[c])
      BY <1>1, <2>2 DEF Ordered, QueueBounds
    <3>2. ASSUME NEW i \in EndsOf(c)' PROVE queue[1].op < queue'[i].op
      <4>1. i \in Nat /\ i + 1 \in EndsOf(c) /\ i \in DOMAIN queue' /\ queue'[i] = queue[i + 1]
        BY <1>1
      <4>2. i + 1 \in DOMAIN queue /\ queue[i + 1].ctrl = c /\ Ends(queue[i + 1])  BY <4>1 DEF EndsOf
      <4>4. 1 < i + 1  BY <1>1, <4>1
      <4> QED  BY <1>1, <2>2, <4>1, <4>2, <4>4 DEF Ordered, QueueOrder
    <3> QED  BY <2>2, <3>1, <3>2
  <2>3. CASE ~Ends(queue[1])  BY <1>1, <2>1, <2>3
  <2>4. CASE Ends(queue[1])
    <3>1. told[c] \in Seq(Gen) /\ queue[1].op \in Gen /\ queue[1].ctrl \in Control  BY <1>n, <1>1
    <3>2. CASE c # queue[1].ctrl  BY <1>n, <1>1, <2>1, <2>4, <3>1, <3>2
    <3>3. CASE c = queue[1].ctrl
      <4>1. told'[c] = Append(told[c], queue[1].op)  BY <1>n, <1>1, <2>4, <3>3
      <4>2. (k \in DOMAIN told[c] /\ told'[c][k] = told[c][k]) \/ told'[c][k] = queue[1].op
        BY <3>1, <4>1
      <4> QED  BY <2>1, <2>2, <2>4, <3>3, <4>2
    <3> QED  BY <3>2, <3>3
  <2> QED  BY <2>3, <2>4
<1> QED  BY <1>2, <1>3, <1>4 DEF Ordered

(* The endings in the queue and those the program was told of are in the   *)
(* order of their operations, and an operation in flight comes after all.  *)
THEOREM EndingsInOrder == Spec => []Ordered
<1>1. Init => Ordered
  BY DEF Init, AsyncInit, Ordered, QueueBounds, QueueOrder, ToldOrder
<1>2. IInv /\ Ordered /\ [Next]_vars => Ordered'
  BY StepForms, OrderedQuiet, OrderedStarts, OrderedFinishes, OrderedHandOut
<1> QED  BY <1>1, <1>2, Invariance, PTL DEF Spec

-----------------------------------------------------------------------------
(* A step of the facility is a step of OneAnswer, or none it can see.      *)

LEMMA EndedUnchanged ==
  ASSUME UNCHANGED <<pending, told>>, \A c \in Control : EndsOf(c)' = EndsOf(c),
         \A c \in Control : \A i \in EndsOf(c) : queue'[i] = queue[i]
  PROVE  UNCHANGED Answers!vars
<1>1. ASSUME NEW c \in Control
      PROVE  {queue'[i].op : i \in EndsOf(c)'} = {queue[i].op : i \in EndsOf(c)}
  BY <1>1
<1>2. [c \in Control |-> {queue'[i].op : i \in EndsOf(c)'}] = [c \in Control |-> {queue[i].op : i \in EndsOf(c)}]
  BY <1>1
<1> QED  BY <1>2 DEF Answers!vars

LEMMA QuietRefines ==
  ASSUME IInv, Quiet
  PROVE  UNCHANGED Answers!vars
<1>1. PICK words \in Seq(Raised) : OnlyWords(words) /\ queue' = queue \o words  BY DEF Quiet
<1>2. /\ \A i \in DOMAIN queue : queue'[i] = queue[i]
      /\ \A c \in Control : EndsOf(c)' = EndsOf(c)
  BY <1>1, AfterWords
<1>3. \A c \in Control : EndsOf(c) \subseteq DOMAIN queue  BY DEF EndsOf
<1> QED  BY <1>2, <1>3, EndedUnchanged DEF Quiet

LEMMA StartsRefines ==
  ASSUME IInv, Ordered, NEW c \in Control, Starts(c)
  PROVE  Answers!Begin(c)
<1>n. /\ gen \in [Control -> Nat] /\ pending \in [Control -> Nat]
      /\ \A i \in DOMAIN queue : queue[i].op \in Nat
      /\ \A k \in DOMAIN told[c] : told[c][k] \in Nat
  BY Nats, EventNats DEF IInv
<1>1. gen[c] + 1 \in Gen \ {0}  BY <1>n DEF Starts
<1>2. \A i \in EndsOf(c) : queue[i].op < gen[c] + 1
  BY <1>n DEF EndsOf, Ordered, QueueBounds
<1>3. \A k \in DOMAIN told[c] : told[c][k] < gen[c] + 1
  BY <1>n DEF Ordered, ToldOrder
<1>4. \A o \in {queue[i].op : i \in EndsOf(c)} \cup Answers!InSeq(told[c]) : o < gen[c] + 1
  BY <1>2, <1>3 DEF Answers!InSeq
<1>5. [d \in Control |-> {queue[i].op : i \in EndsOf(d)}]' = [d \in Control |-> {queue[i].op : i \in EndsOf(d)}]
  <2>1. queue' = queue /\ \A d \in Control : EndsOf(d)' = EndsOf(d)  BY DEF Starts, EndsOf, Ends
  <2>2. \A d \in Control : {queue'[i].op : i \in EndsOf(d)'} = {queue[i].op : i \in EndsOf(d)}  BY <2>1
  <2> QED  BY <2>2
<1> QED  BY <1>1, <1>4, <1>5 DEF Starts, Answers!Begin

LEMMA FinishesRefines ==
  ASSUME IInv, NEW c \in Control, Finishes(c)
  PROVE  Answers!Finish(c)
<1> DEFINE Ended == [d \in Control |-> {queue[i].op : i \in EndsOf(d)}]
<1>1. PICK words \in Seq(Raised), e \in Raised :
       /\ OnlyWords(words) /\ Ends(e) /\ e.ctrl = c /\ e.op = gen[c]
       /\ queue' = queue \o words \o <<e>>
  BY DEF Finishes
<1>2. PICK n \in Nat :
           /\ DOMAIN queue \subseteq 1 .. n - 1
           /\ n \in DOMAIN queue' /\ queue'[n] = e
           /\ DOMAIN queue \subseteq DOMAIN queue' /\ \A i \in DOMAIN queue : queue'[i] = queue[i]
           /\ \A i \in DOMAIN queue' : \/ i \in DOMAIN queue
                                      \/ i = n
                                      \/ (~Ends(queue'[i]) /\ queue'[i].op <= gen[queue'[i].ctrl])
           /\ \A d \in Control : EndsOf(d)' = IF d = e.ctrl THEN EndsOf(d) \cup {n} ELSE EndsOf(d)
  BY <1>1, AfterEnding
<1>3. \A d \in Control : \A i \in EndsOf(d) : queue'[i] = queue[i]  BY <1>2 DEF EndsOf
<1>4. {queue'[i].op : i \in EndsOf(c)'} = {queue[i].op : i \in EndsOf(c)} \cup {pending[c]}
  <2>1. EndsOf(c)' = EndsOf(c) \cup {n} /\ queue'[n].op = pending[c]  BY <1>1, <1>2 DEF Finishes
  <2> QED  BY <1>3, <2>1
<1>5. ASSUME NEW d \in Control, d # c
      PROVE  {queue'[i].op : i \in EndsOf(d)'} = {queue[i].op : i \in EndsOf(d)}
  <2>1. EndsOf(d)' = EndsOf(d)  BY <1>1, <1>2, <1>5
  <2> QED  BY <1>3, <2>1
<1>6. Ended' = [Ended EXCEPT ![c] = @ \cup {pending[c]}]  BY <1>4, <1>5
<1> QED  BY <1>6 DEF Finishes, Answers!Finish

LEMMA HandOutRefines ==
  ASSUME IInv, Ordered, HandOut
  PROVE  (\E c \in Control : Answers!Tell(c)) \/ UNCHANGED Answers!vars
<1> DEFINE e == queue[1]
<1> DEFINE Ended == [d \in Control |-> {queue[i].op : i \in EndsOf(d)}]
<1>n. \A i \in DOMAIN queue : queue[i].op \in Nat /\ queue[i].ctrl \in Control /\ i \in Nat
  BY EventNats DEF IInv
<1>1. /\ UNCHANGED <<gen, pending>>
      /\ 1 \in DOMAIN queue
      /\ \A i \in DOMAIN queue' : i \in Nat /\ i > 0 /\ i + 1 \in DOMAIN queue /\ queue'[i] = queue[i + 1]
      /\ \A i \in DOMAIN queue : i = 1 \/ (i - 1 \in DOMAIN queue' /\ queue'[i - 1] = queue[i])
      /\ \A c \in Control : \A i \in EndsOf(c)' : i + 1 \in EndsOf(c) /\ i \in DOMAIN queue'
      /\ told' = IF Ends(e) THEN [told EXCEPT ![e.ctrl] = Append(@, e.op)] ELSE told
  BY AfterHandOut
<1>2. ASSUME NEW c \in Control
      PROVE  Ended'[c] = {queue[i].op : i \in EndsOf(c) \ {1}}
  <2>1. ASSUME NEW i \in EndsOf(c)' PROVE i + 1 \in EndsOf(c) \ {1} /\ queue'[i].op = queue[i + 1].op
    BY <1>1
  <2>2. ASSUME NEW i \in EndsOf(c) \ {1} PROVE i - 1 \in EndsOf(c)' /\ queue'[i - 1].op = queue[i].op
    <3>1. i \in DOMAIN queue /\ i # 1 /\ queue[i].ctrl = c /\ Ends(queue[i])  BY DEF EndsOf
    <3>2. i - 1 \in DOMAIN queue' /\ queue'[i - 1] = queue[i]  BY <1>1, <3>1
    <3>3. i - 1 \in {j \in DOMAIN queue' : queue'[j].ctrl = c /\ Ends(queue'[j])}  BY <3>1, <3>2
    <3> QED  BY <3>2, <3>3 DEF EndsOf, Ends
  <2>3. Ended'[c] = {queue'[i].op : i \in EndsOf(c)'}  OBVIOUS
  <2> QED  BY <2>1, <2>2, <2>3
<1>3. \A c \in Control : c # e.ctrl \/ ~Ends(e) => 1 \notin EndsOf(c)  BY DEF EndsOf
<1>4. ASSUME NEW c \in Control, c # e.ctrl \/ ~Ends(e) PROVE Ended'[c] = Ended[c]
  <2>1. EndsOf(c) \ {1} = EndsOf(c)  BY <1>3, <1>4
  <2>2. Ended[c] = {queue[i].op : i \in EndsOf(c)}  OBVIOUS
  <2>3. Ended'[c] = {queue[i].op : i \in EndsOf(c) \ {1}}  BY <1>2
  <2> QED  BY <2>1, <2>2, <2>3
<1>5. CASE ~Ends(e)
  <2>1. Ended' = Ended  BY <1>4, <1>5
  <2> QED  BY <1>1, <1>5, <2>1 DEF Answers!vars
<1>6. CASE Ends(e)
  <2>1. e.ctrl \in Control /\ 1 \in EndsOf(e.ctrl)  BY <1>n, <1>1, <1>6 DEF EndsOf
  <2>2. \A i \in EndsOf(e.ctrl) \ {1} : e.op < queue[i].op
    <3> SUFFICES ASSUME NEW i \in EndsOf(e.ctrl) \ {1} PROVE e.op < queue[i].op
      OBVIOUS
    <3>1. i \in DOMAIN queue /\ queue[i].ctrl = e.ctrl /\ Ends(queue[i])  BY DEF EndsOf
    <3>2. i - 1 \in DOMAIN queue' /\ i \in Nat  BY <1>n, <1>1, <3>1
    <3>3. 1 < i  BY <1>1, <3>2
    <3> QED  BY <1>1, <1>6, <3>1, <3>3 DEF Ordered, QueueOrder
  <2>3. Ended[e.ctrl] = {queue[i].op : i \in EndsOf(e.ctrl)}  BY <2>1
  <2>4. e.op \in Ended[e.ctrl] /\ \A o \in Ended[e.ctrl] : e.op <= o
    <3>1. e.op \in Ended[e.ctrl]  BY <2>1, <2>3
    <3>2. \A i \in EndsOf(e.ctrl) : e.op <= queue[i].op
      <4>1. \A i \in EndsOf(e.ctrl) : queue[i].op \in Nat  BY <1>n DEF EndsOf
      <4> QED  BY <1>n, <1>1, <2>2, <4>1
    <3> QED  BY <2>3, <3>1, <3>2
  <2>5. Ended'[e.ctrl] = Ended[e.ctrl] \ {e.op}
    <3>1. \A i \in EndsOf(e.ctrl) \ {1} : queue[i].op # e.op
      <4>1. \A i \in EndsOf(e.ctrl) : queue[i].op \in Nat  BY <1>n DEF EndsOf
      <4> QED  BY <1>n, <1>1, <2>2, <4>1
    <3>2. Ended'[e.ctrl] = {queue[i].op : i \in EndsOf(e.ctrl) \ {1}}  BY <1>2, <2>1
    <3> QED  BY <2>1, <2>3, <3>1, <3>2
  <2>6. Ended' = [Ended EXCEPT ![e.ctrl] = @ \ {e.op}]  BY <1>4, <2>1, <2>5
  <2>7. told' = [told EXCEPT ![e.ctrl] = Append(@, e.op)]  BY <1>1, <1>6
  <2> HIDE DEF e
  <2>8. PICK c \in Control : c = e.ctrl  BY <2>1
  <2>9. Answers!Tell(c)  BY <1>1, <2>4, <2>6, <2>7, <2>8 DEF Answers!Tell
  <2> QED  BY <2>9
<1> QED  BY <1>5, <1>6

(* The facility implements OneAnswer: whatever the workers, the channel,   *)
(* cancellations, time-outs and rounds of a conversation do, an operation  *)
(* ends once and the program is told of every ending once, in the order in *)
(* which they happened (async_op.rs, drain_async_ops, next_wait_outcome).  *)
THEOREM OneAnswerEach == Spec => Answers!Spec
<1>1. Init => Answers!Init
  BY DEF Init, AsyncInit, Answers!Init, EndsOf
<1>2. IInv /\ Ordered /\ [Next]_vars => [Answers!Next]_(Answers!vars)
  BY StepForms, QuietRefines, StartsRefines, FinishesRefines, HandOutRefines DEF Answers!Next
<1> QED  BY <1>1, <1>2, Invariance, EndingsInOrder, PTL DEF Spec, Answers!Spec

-----------------------------------------------------------------------------
(* Payloads beside the events that carry them.                             *)

(* Events are added that carry nothing for c.                              *)
LEMMA AlignedBeyond ==
  ASSUME NEW q \in Seq(Raised), NEW added \in Seq(Raised), NEW ps \in Seq(Payload), NEW c,
         \A i \in DOMAIN added : ~(added[i].ctrl = c /\ added[i].name \in Carrying),
         Aligned(q, ps, c)
  PROVE  Aligned(q \o added, ps, c)
<1>1. PICK r : r = q \o added  OBVIOUS
<1>2. /\ \A i \in DOMAIN q : i \in DOMAIN r /\ r[i] = q[i]
      /\ \A i \in DOMAIN r : i \notin DOMAIN q =>
           i - Len(q) \in DOMAIN added /\ r[i] = added[i - Len(q)]
  BY <1>1
<1>3. Carriers(r, c) = Carriers(q, c)  BY <1>2 DEF Carriers
<1>4. PICK f \in [DOMAIN ps -> DOMAIN q] : Beside(f, q, ps, c)  BY DEF Aligned
<1>5. f \in [DOMAIN ps -> DOMAIN r]  BY <1>2
<1>6. Beside(f, r, ps, c)  BY <1>2, <1>3, <1>4 DEF Beside
<1> QED  BY <1>1, <1>5, <1>6 DEF Aligned

(* An event of c is added together with the values it carries.             *)
LEMMA AlignedMore ==
  ASSUME NEW q \in Seq(Raised), NEW ps \in Seq(Payload), NEW c, NEW e \in Raised, NEW p \in Payload,
         e.ctrl = c, e.name \in Carrying, Matches(p, e), Aligned(q, ps, c)
  PROVE  Aligned(Append(q, e), Append(ps, p), c)
<1>1. PICK r, rs : r = Append(q, e) /\ rs = Append(ps, p)  OBVIOUS
<1>2. PICK n, m : n = Len(q) + 1 /\ m = Len(ps) + 1  OBVIOUS
<1>3. /\ n \in Nat /\ m \in Nat /\ DOMAIN q = 1 .. n - 1 /\ DOMAIN ps = 1 .. m - 1
      /\ DOMAIN r = 1 .. n /\ DOMAIN rs = 1 .. m /\ n \in DOMAIN r /\ m \in DOMAIN rs
      /\ r[n] = e /\ rs[m] = p /\ n > 0 /\ m > 0
      /\ \A i \in 1 .. n - 1 : r[i] = q[i]
      /\ \A i \in 1 .. m - 1 : rs[i] = ps[i]
  BY <1>1, <1>2
<1>4. PICK f \in [1 .. m - 1 -> 1 .. n - 1] : Beside(f, q, ps, c)  BY <1>3 DEF Aligned
<1>5. PICK g : g = [i \in 1 .. m |-> IF i = m THEN n ELSE f[i]]  OBVIOUS
<1>6. g[m] = n /\ \A i \in 1 .. m - 1 : g[i] = f[i] /\ f[i] \in 1 .. n - 1  BY <1>3, <1>5
<1>7. /\ \A i \in 1 .. m : i = m \/ i \in 1 .. m - 1
      /\ \A i \in 1 .. m - 1 : i \in 1 .. m
  BY <1>3
<1>8. g \in [DOMAIN rs -> DOMAIN r]  BY <1>3, <1>5, <1>6, <1>7
<1>9. Carriers(r, c) = Carriers(q, c) \cup {n}
  <2>1. \A i \in 1 .. n : i = n \/ i \in 1 .. n - 1  BY <1>3
  <2>2. \A i \in 1 .. n - 1 : i \in 1 .. n  BY <1>3
  <2> QED  BY <1>3, <2>1, <2>2 DEF Carriers
<1>10. Beside(g, r, rs, c)
  <2>1. ASSUME NEW i \in DOMAIN rs, NEW j \in DOMAIN rs, i < j PROVE g[i] < g[j]
    <3>1. i \in 1 .. m - 1  BY <1>3, <2>1
    <3>2. CASE j = m  BY <1>3, <1>6, <3>1, <3>2
    <3>3. CASE j \in 1 .. m - 1  BY <1>3, <1>4, <1>6, <2>1, <3>1, <3>3 DEF Beside
    <3> QED  BY <1>3, <1>7, <3>2, <3>3
  <2>2. ASSUME NEW i \in DOMAIN rs PROVE g[i] \in Carriers(r, c) /\ Matches(rs[i], r[g[i]])
    <3>1. CASE i = m  BY <1>3, <1>6, <1>9, <3>1
    <3>2. CASE i \in 1 .. m - 1  BY <1>3, <1>4, <1>6, <1>9, <3>2 DEF Beside
    <3> QED  BY <1>3, <1>7, <3>1, <3>2
  <2>3. ASSUME NEW k \in Carriers(r, c) PROVE \E i \in DOMAIN rs : g[i] = k
    <3>1. CASE k = n  BY <1>3, <1>6, <3>1
    <3>2. CASE k \in Carriers(q, c)
      <4>1. PICK i \in 1 .. m - 1 : f[i] = k  BY <1>3, <1>4, <3>2 DEF Beside
      <4> QED  BY <1>3, <1>6, <1>7, <4>1
    <3> QED  BY <1>9, <3>1, <3>2
  <2> QED  BY <2>1, <2>2, <2>3 DEF Beside
<1> QED  BY <1>1, <1>8, <1>10 DEF Aligned

(* The places of a sequence and of its tail.                               *)
LEMMA TailPlaces ==
  ASSUME NEW S, NEW s \in Seq(S), s # <<>>
  PROVE  /\ \A i \in DOMAIN s : i \in Nat /\ i >= 1
         /\ \A i \in DOMAIN s : i # 1 => i - 1 \in DOMAIN Tail(s) /\ Tail(s)[i - 1] = s[i]
         /\ \A i \in DOMAIN Tail(s) : /\ i \in Nat /\ i >= 1
                                      /\ i + 1 \in DOMAIN s /\ Tail(s)[i] = s[i + 1]
<1>1. DOMAIN s = 1 .. Len(s) /\ Len(s) \in Nat /\ Len(s) >= 1  OBVIOUS
<1>2. /\ DOMAIN Tail(s) = 1 .. Len(s) - 1
      /\ \A i \in 1 .. Len(s) - 1 : Tail(s)[i] = s[i + 1]
  OBVIOUS
<1> QED  BY <1>1, <1>2

(* The first event leaves that carries nothing for c.                      *)
LEMMA AlignedPast ==
  ASSUME NEW q \in Seq(Raised), NEW ps \in Seq(Payload), NEW c, q # <<>>,
         1 \notin Carriers(q, c), Aligned(q, ps, c)
  PROVE  Aligned(Tail(q), ps, c)
<1>1. PICK r : r = Tail(q)  OBVIOUS
<1>2. /\ \A i \in DOMAIN q : i \in Nat
      /\ \A i \in DOMAIN q : i # 1 => i - 1 \in DOMAIN r /\ r[i - 1] = q[i]
      /\ \A i \in DOMAIN r : i \in Nat /\ i + 1 \in DOMAIN q /\ r[i] = q[i + 1]
  BY <1>1
<1>3. PICK f \in [DOMAIN ps -> DOMAIN q] : Beside(f, q, ps, c)  BY DEF Aligned
<1>4. \A i \in DOMAIN ps : f[i] \in DOMAIN q /\ f[i] # 1 /\ f[i] \in Nat  BY <1>2, <1>3 DEF Beside
<1>5. PICK g : g = [i \in DOMAIN ps |-> f[i] - 1]  OBVIOUS
<1>6. g \in [DOMAIN ps -> DOMAIN r]  BY <1>2, <1>4, <1>5
<1>7. \A i \in DOMAIN q : i # 1 /\ i \in Carriers(q, c) => i - 1 \in Carriers(r, c)
  BY <1>2 DEF Carriers
<1>8. \A i \in Carriers(r, c) : i + 1 \in Carriers(q, c) /\ i \in Nat  BY <1>2 DEF Carriers
<1>9. Beside(g, r, ps, c)
  <2>1. \A i, j \in DOMAIN ps : i < j => g[i] < g[j]  BY <1>3, <1>4, <1>5 DEF Beside
  <2>2. \A i \in DOMAIN ps : g[i] \in Carriers(r, c) /\ Matches(ps[i], r[g[i]])
    BY <1>2, <1>3, <1>4, <1>5, <1>7 DEF Beside
  <2>3. ASSUME NEW k \in Carriers(r, c) PROVE \E i \in DOMAIN ps : g[i] = k
    <3>1. PICK i \in DOMAIN ps : f[i] = k + 1  BY <1>3, <1>8 DEF Beside
    <3> QED  BY <1>5, <1>8, <3>1
  <2> QED  BY <2>1, <2>2, <2>3 DEF Beside
<1> QED  BY <1>1, <1>6, <1>9 DEF Aligned

(* The first event leaves that carries the first values of c.              *)
LEMMA AlignedFirst ==
  ASSUME NEW q \in Seq(Raised), NEW ps \in Seq(Payload), NEW c, Aligned(q, ps, c)
  PROVE  /\ ps # <<>> => Head(ps).name \in Carrying
         /\ 1 \in Carriers(q, c) => ps # <<>> /\ Matches(Head(ps), q[1]) /\ Aligned(Tail(q), Tail(ps), c)
<1>3. PICK f \in [DOMAIN ps -> DOMAIN q] : Beside(f, q, ps, c)  BY DEF Aligned
<1>4. ASSUME ps # <<>> PROVE Head(ps).name \in Carrying
  <2>1. 1 \in DOMAIN ps /\ Head(ps) = ps[1]  BY <1>4
  <2> QED  BY <1>3, <2>1 DEF Beside, Carriers, Matches
<1>5. ASSUME 1 \in Carriers(q, c)
      PROVE  ps # <<>> /\ Matches(Head(ps), q[1]) /\ Aligned(Tail(q), Tail(ps), c)
  <2>1. PICK k \in DOMAIN ps : f[k] = 1  BY <1>3, <1>5 DEF Beside
  <2>2. ps # <<>> /\ 1 \in DOMAIN ps /\ Head(ps) = ps[1] /\ \A i \in DOMAIN ps : i \in Nat /\ i >= 1
    BY <2>1
  <2>3. q # <<>> /\ \A i \in DOMAIN q : i \in Nat /\ i >= 1  BY <1>5 DEF Carriers
  <2>4. k = 1
    <3>1. SUFFICES ASSUME 1 < k PROVE FALSE  BY <2>2
    <3>2. f[1] < f[k] /\ f[1] \in DOMAIN q  BY <1>3, <2>2, <3>1 DEF Beside
    <3> QED  BY <2>1, <2>3, <3>2
  <2>5. Matches(Head(ps), q[1])  BY <1>3, <2>1, <2>2, <2>4 DEF Beside
  <2>6. PICK r, rs : r = Tail(q) /\ rs = Tail(ps)  OBVIOUS
  <2>7. /\ \A i \in DOMAIN q : i # 1 => i - 1 \in DOMAIN r /\ r[i - 1] = q[i]
        /\ \A i \in DOMAIN r : i \in Nat /\ i >= 1 /\ i + 1 \in DOMAIN q /\ r[i] = q[i + 1]
    BY <2>3, <2>6, TailPlaces
  <2>8. /\ \A i \in DOMAIN ps : i # 1 => i - 1 \in DOMAIN rs /\ rs[i - 1] = ps[i]
        /\ \A i \in DOMAIN rs : i \in Nat /\ i >= 1 /\ i + 1 \in DOMAIN ps /\ rs[i] = ps[i + 1]
    BY <2>2, <2>6, TailPlaces
  <2>9. \A i \in DOMAIN rs : f[i + 1] \in DOMAIN q /\ f[i + 1] > 1
    BY <1>3, <2>1, <2>2, <2>3, <2>4, <2>8 DEF Beside
  <2>10. PICK g : g = [i \in DOMAIN rs |-> f[i + 1] - 1]  OBVIOUS
  <2>11. g \in [DOMAIN rs -> DOMAIN r]  BY <2>3, <2>7, <2>9, <2>10
  <2>12. \A i \in Carriers(q, c) : i # 1 => i - 1 \in Carriers(r, c)  BY <2>7 DEF Carriers
  <2>13. \A i \in Carriers(r, c) : i + 1 \in Carriers(q, c) /\ i \in Nat /\ i >= 1  BY <2>7 DEF Carriers
  <2>14. Beside(g, r, rs, c)
    <3>1. ASSUME NEW i \in DOMAIN rs, NEW j \in DOMAIN rs, i < j PROVE g[i] < g[j]
      <4>1. i + 1 \in DOMAIN ps /\ j + 1 \in DOMAIN ps /\ i + 1 < j + 1  BY <2>8, <3>1
      <4>2. f[i + 1] < f[j + 1]  BY <1>3, <4>1 DEF Beside
      <4> QED  BY <2>3, <2>9, <2>10, <4>2
    <3>2. ASSUME NEW i \in DOMAIN rs PROVE g[i] \in Carriers(r, c) /\ Matches(rs[i], r[g[i]])
      <4>1. f[i + 1] \in Carriers(q, c) /\ Matches(ps[i + 1], q[f[i + 1]])
        BY <1>3, <2>8 DEF Beside
      <4>2. f[i + 1] # 1 /\ f[i + 1] \in DOMAIN q  BY <2>3, <2>9
      <4> QED  BY <2>7, <2>8, <2>10, <2>12, <4>1, <4>2
    <3>3. ASSUME NEW j \in Carriers(r, c) PROVE \E i \in DOMAIN rs : g[i] = j
      <4>1. PICK i \in DOMAIN ps : f[i] = j + 1  BY <1>3, <2>13 DEF Beside
      <4>2. i # 1 /\ i \in Nat /\ j \in Nat /\ j >= 1  BY <2>1, <2>2, <2>4, <2>13, <4>1
      <4>3. i - 1 \in DOMAIN rs /\ (i - 1) + 1 = i  BY <2>8, <4>2
      <4>4. g[i - 1] = j  BY <2>10, <4>1, <4>2, <4>3
      <4> QED  BY <4>3, <4>4
    <3> QED  BY <3>1, <3>2, <3>3 DEF Beside
  <2> QED  BY <2>2, <2>5, <2>6, <2>11, <2>14 DEF Aligned
<1> QED  BY <1>4, <1>5

(* A step that brings no control of these kinds anything, and one that     *)
(* raises an event with the values it carries.                             *)
Apart ==
  /\ UNCHANGED <<kind, payload>>
  /\ \A c \in Control : kind[c] \in {"kb", "aws"} => values'[c] = values[c]
  /\ \E added \in Seq(Raised) :
       /\ queue' = queue \o added
       /\ \A i \in DOMAIN added :
            kind[added[i].ctrl] \in {"kb", "aws"} => added[i].name = "onCancelled"

Loads(c, n, op) ==
  /\ UNCHANGED <<kind, values>>
  /\ \/ kind[c] = "kb" /\ n \in {"onProgress", "onIndexed", "onError"}
     \/ kind[c] = "aws" /\ n \in {"onInvoked", "onError", "onTimeout"}
  /\ n = "onInvoked" => op # 0
  /\ Carry(c, n, op, op # 0 /\ n # "onProgress")
  /\ \/ queue' = Append(queue, Says(c, n, op))
     \/ /\ n = "onInvoked"
        /\ queue' = queue \o <<Says(c, n, op), Says(c, "onComplete", op)>>

(* A handler goes on, or another one starts for an event of the form.      *)
SameHandler == at' = "handler" => (at = "handler" /\ event' = event) \/ event' = UiEvent

LEMMA ApartForms ==
  ASSUME IInv, UNCHANGED <<kind, payload>>,
         \A d \in Control : kind[d] \in {"kb", "aws"} => values'[d] = values[d],
         \/ queue' = queue
         \/ \E c \in Control, n \in Event, op \in Gen :
              /\ kind[c] \notin {"kb", "aws"} \/ n = "onCancelled"
              /\ queue' = Append(queue, Says(c, n, op))
  PROVE  Apart
<1>1. CASE queue' = queue
  <2>1. \A i \in DOMAIN <<>> : FALSE  OBVIOUS
  <2> QED  BY <1>1, <2>1, NoWords DEF Apart
<1>2. ASSUME NEW c \in Control, NEW n \in Event, NEW op \in Gen,
             kind[c] \notin {"kb", "aws"} \/ n = "onCancelled", queue' = Append(queue, Says(c, n, op))
      PROVE  Apart
  <2>1. PICK e : e = Says(c, n, op)  OBVIOUS
  <2>2. e \in Raised /\ e.ctrl = c /\ e.name = n  BY <2>1, Says1 DEF Says
  <2>3. /\ <<e>> \in Seq(Raised) /\ queue' = queue \o <<e>>
        /\ \A i \in DOMAIN <<e>> : <<e>>[i] = e
    BY <1>2, <2>1, <2>2, NoWords
  <2> QED  BY <1>2, <2>2, <2>3 DEF Apart
<1> QED  BY <1>1, <1>2

LEMMA ApartTools ==
  ASSUME IInv, UNCHANGED <<kind, payload>>, NEW c \in Control, kind[c] = "agent", NEW l, GoesOn(c, l)
  PROVE  Apart
<1>1. PICK uses \in Seq(Raised) : OnTheWay(uses, c, l.op) /\ queue' = queue \o uses
  BY DEF GoesOn, Continued
<1> QED  BY <1>1 DEF OnTheWay, GoesOn, Apart

LEMMA TravelForms ==
  ASSUME IInv, [Next]_vars
  PROVE  \/ HandOut
         \/ SameHandler /\ Apart
         \/ SameHandler /\ \E c \in Control, n \in Event, op \in Gen : Loads(c, n, op)
<1> DEFINE Other == SameHandler /\ (Apart \/ \E c \in Control, n \in Event, op \in Gen : Loads(c, n, op))
<1>i. TypeOK /\ Generations /\ \A c \in Control : 0 \in Gen  BY Generation DEF IInv
<1>v. values \in [Control -> Gen] /\ gen \in [Control -> Gen] /\ pending \in [Control -> Gen]
  BY <1>i DEF TypeOK
<1>0. ASSUME UNCHANGED <<kind, payload, values, queue>> PROVE Apart  BY <1>0, ApartForms
<1>1. ASSUME NEW c \in Control, NEW n \in Event, NEW op \in Gen,
             kind[c] \notin {"kb", "aws"} \/ n = "onCancelled",
             UNCHANGED <<kind, payload, values>>, queue' = Append(queue, Says(c, n, op))
      PROVE  Apart
  BY <1>1, ApartForms
<1>2. ASSUME NEW c \in Control,
             (Start(c) \/ Query(c) \/ Refuse(c) \/ Cancel(c) \/ OpenDb(c) \/ CloseDb(c))
               /\ UNCHANGED agentVars
      PROVE  Other
  <2>1. SameHandler
    BY <1>2 DEF SameHandler, Start, Query, Refuse, Cancel, CutOff, OpenDb, CloseDb
  <2>2. CASE Start(c)  BY <1>0, <2>1, <2>2 DEF Start, Begin, events
  <2>3. CASE Query(c)
    <3>1. CASE handle[c] \in home  BY <1>0, <2>1, <2>3, <3>1 DEF Query, Begin
    <3>2. CASE handle[c] \notin home
      <4>1. UNCHANGED <<kind, payload, values>> /\ kind[c] = "sql"
            /\ queue' = Append(queue, Says(c, "onQueryError", 0))
        BY <2>3, <3>2 DEF Query, ops
      <4> QED  BY <1>1, <1>i, <2>1, <4>1 DEF Event
    <3> QED  BY <3>1, <3>2
  <2>4. CASE Refuse(c)
    <3>1. UNCHANGED <<kind, values>> /\ queue' = Append(queue, Says(c, "onError", 0))
      BY <2>4 DEF Refuse, ops
    <3>2. CASE kind[c] \in {"rest", "web", "agent"} /\ UNCHANGED payload
      BY <1>1, <1>i, <2>1, <3>1, <3>2 DEF Event
    <3>3. CASE kind[c] = "aws" /\ Carry(c, "onError", 0, FALSE)
      BY <1>i, <2>1, <3>1, <3>3 DEF Event, Loads, Carry
    <3> QED  BY <2>4, <3>2, <3>3 DEF Refuse, Carry
  <2>5. CASE Cancel(c)
    <3>1. UNCHANGED <<kind, payload, values>> /\ queue' = Append(queue, Says(c, "onCancelled", pending[c]))
      BY <2>5 DEF Cancel, CutOff
    <3> QED  BY <1>1, <1>v, <2>1, <3>1 DEF Event
  <2>6. CASE OpenDb(c)
    <3>1. UNCHANGED <<kind, payload, values>> /\ kind[c] = "sql"
          /\ queue' = Append(queue, Says(c, "onConnectOk", 0))
      BY <2>6 DEF OpenDb, ops
    <3> QED  BY <1>1, <1>i, <2>1, <3>1 DEF Event
  <2>7. CASE CloseDb(c)  BY <1>0, <2>1, <2>7 DEF CloseDb, ops, events
  <2> QED  BY <1>2, <2>2, <2>3, <2>4, <2>5, <2>6, <2>7
<1>3. ASSUME NEW c \in Control, NEW offers \in BOOLEAN, Ask(c, offers) PROVE Other
  BY <1>0, <1>3 DEF Ask, Begin, events, MayStart, SameHandler
<1>4. ASSUME NEW c \in Control, Timeout(c) PROVE Other
  <2>1. /\ UNCHANGED <<kind, payload, values>> /\ kind[c] \notin {"kb", "aws"} /\ at' = "sweep"
        /\ queue' = Append(queue, Says(c, "onTimeout", pending[c]))
    BY <1>4 DEF Timeout, CutOff
  <2> QED  BY <1>1, <1>v, <2>1 DEF Event, SameHandler
<1>5. ASSUME Wait PROVE Other
  <2>1. UNCHANGED <<kind, values, payload>>  BY <1>5, WaitEffect
  <2>2. SameHandler  BY <1>5 DEF Wait, SameHandler
  <2>3. CASE UNCHANGED queue  BY <1>0, <2>1, <2>2, <2>3
  <2>4. ASSUME NEW c \in Control, Returned(c), NEW l, GoesOn(c, l) PROVE Other
    <3>1. kind[c] = "agent"  BY <2>4 DEF Returned, IInv, Kinds
    <3> QED  BY <2>1, <2>2, <2>4, <3>1, ApartTools
  <2> QED  BY <1>5, <2>3, <2>4, WaitEffect
<1>6. ASSUME DeliverAgent PROVE Other
  <2>1. PICK c \in Control : c = Head(results).ctrl  BY <1>6, DeliveredEffect
  <2>2. kind[c] = "agent" /\ UNCHANGED <<kind, payload, at, event>>  BY <1>6, <2>1, DeliveredEffect
  <2>3. SameHandler  BY <2>2 DEF SameHandler
  <2>4. CASE NothingComesOfIt  BY <1>0, <2>2, <2>3, <2>4 DEF NothingComesOfIt
  <2>5. ASSUME NEW l, GoesOn(c, l) PROVE Other  BY <2>2, <2>3, <2>5, ApartTools
  <2>6. ASSUME NEW n \in {"onError", "onResponse"}, Conclude(c, gen[c], n) PROVE Other
    <3>1. values' = [values EXCEPT ![c] = gen[c]] /\ queue' = Append(queue, Says(c, n, gen[c]))
      BY <2>6 DEF Conclude
    <3>2. \A d \in Control : kind[d] \in {"kb", "aws"} => values'[d] = values[d]
      BY <1>v, <2>2, <3>1
    <3>3. Apart  BY <1>v, <2>2, <3>1, <3>2, ApartForms DEF Event
    <3> QED  BY <2>3, <3>3
  <2> QED  BY <1>6, <2>1, <2>4, <2>5, <2>6, DeliveredEffect
<1>7. ASSUME Deliver PROVE Other
  <2>1. PICK r : r = Head(results)  OBVIOUS
  <2>2. r \in Report /\ r.ctrl \in Control /\ r.op \in Gen /\ UNCHANGED <<kind, at, event>>
    BY <1>7, <2>1, DeliverStep DEF Deliver
  <2>3. SameHandler  BY <2>2 DEF SameHandler
  <2>4. CASE UNCHANGED <<pending, busy, values, events>>  BY <1>0, <2>2, <2>3, <2>4 DEF events
  <2>5. CASE /\ r.op = gen[r.ctrl] /\ pending[r.ctrl] = gen[r.ctrl] /\ pending[r.ctrl] # 0
             /\ Apply(r) /\ kind[r.ctrl] # "agent"
             /\ (r.out = "progress" => kind[r.ctrl] = "kb")
             /\ (kind[r.ctrl] = "aws" => r.out \in {"done", "error", "timeout"})
    <3>1. CASE kind[r.ctrl] = "kb" /\ Word(r)
      BY <2>2, <2>3, <3>1 DEF Word, Carry, Event, Loads
    <3>2. ASSUME NEW n \in {"onComplete", "onError", "onQueryComplete", "onQueryError"},
                 kind[r.ctrl] \in {"rest", "web", "sql"}, Written(r, n)
          PROVE  Other
      <4>1. \A d \in Control : kind[d] \in {"kb", "aws"} => values'[d] = values[d]
        BY <1>v, <2>2, <3>2 DEF Written, Wrote
      <4>2. Apart  BY <2>2, <3>2, <4>1, ApartForms DEF Written, Wrote, Event
      <4> QED  BY <2>3, <4>2
    <3>3. ASSUME NEW n \in {"onIndexed", "onError", "onTimeout"}, Carried(r, n),
                 \/ kind[r.ctrl] = "kb" /\ n \in {"onIndexed", "onError"}
                 \/ kind[r.ctrl] = "aws" /\ n \in {"onError", "onTimeout"},
                 queue' = Append(queue, Says(r.ctrl, n, r.op))
          PROVE  Other
      BY <2>2, <2>3, <2>5, <3>3 DEF Carried, Carry, Event, Loads
    <3>4. CASE /\ kind[r.ctrl] = "aws" /\ Carried(r, "onInvoked")
               /\ queue' = queue \o <<Says(r.ctrl, "onInvoked", r.op), Says(r.ctrl, "onComplete", r.op)>>
      BY <2>2, <2>3, <2>5, <3>4 DEF Carried, Carry, Event, Loads
    <3>5. CASE kind[r.ctrl] = "web" /\ Searched(r)
      <4>1. \A d \in Control : kind[d] \in {"kb", "aws"} => values'[d] = values[d]
        BY <1>v, <2>2, <3>5 DEF Searched, Wrote
      <4> DEFINE added == <<Says(r.ctrl, "onResultsReceived", r.op), Says(r.ctrl, "onComplete", r.op)>>
      <4>2. added \in Seq(Raised) /\ \A i \in DOMAIN added : added[i].ctrl = r.ctrl
        BY <2>2, Says1 DEF Says, Event
      <4>3. UNCHANGED <<kind, payload>> /\ queue' = queue \o added  BY <2>2, <3>5 DEF Searched, Wrote
      <4> HIDE DEF added
      <4>4. Apart  BY <3>5, <4>1, <4>2, <4>3 DEF Apart
      <4> QED  BY <2>3, <4>4
    <3> QED  BY <1>i, <2>2, <2>5, <3>1, <3>2, <3>3, <3>4, <3>5, ApplyStep
  <2> QED  BY <1>7, <2>1, <2>4, <2>5, DeliverStep
<1>8. ASSUME NEW w \in worker, EndOfRound(w) \/ EndOfOp(w) \/ Progress(w) PROVE Other
  BY <1>0, <1>8 DEF EndOfRound, EndOfOp, Progress, events, SameHandler
<1>9. ASSUME NEW c \in Control, SetToolResult(c) PROVE Other
  BY <1>0, <1>9 DEF SetToolResult, asyncVars, ops, events, SameHandler
<1>10. ASSUME Drained \/ Swept \/ Poll \/ TakeUiEvent \/ UNCHANGED vars PROVE Other
  BY <1>0, <1>10 DEF Drained, Swept, Poll, TakeUiEvent, ops, events, vars, asyncVars, SameHandler
<1> HIDE DEF Other
<1>11. HandOut \/ Other
  BY <1>2, <1>3, <1>4, <1>5, <1>6, <1>7, <1>8, <1>9, <1>10 DEF Next, Program, Threads, Waiting
<1> QED  BY <1>11 DEF Other

LEMMA TravelTypes ==
  ASSUME IInv
  PROVE  /\ queue \in Seq(Raised) /\ values \in [Control -> Gen]
         /\ payload \in [Control -> Seq(Payload)]
         /\ \A i \in DOMAIN queue : /\ queue[i] \in Raised /\ queue[i].ctrl \in Control
                                    /\ i \in Nat /\ i >= 1 /\ (i # 1 => i - 1 \in DOMAIN queue)
<1>1. /\ queue \in Seq(Raised) /\ values \in [Control -> Gen]
      /\ payload \in [Control -> Seq(Payload)]
  BY DEF IInv, TypeOK, EventType
<1>2. \A i \in DOMAIN queue : queue[i] \in Raised /\ i \in 1 .. Len(queue)  BY <1>1
<1>3. \A i \in DOMAIN queue : i \in Nat /\ i >= 1 /\ (i # 1 => i - 1 \in DOMAIN queue)
  BY <1>1
<1> QED  BY <1>1, <1>2, <1>3 DEF Raised

LEMMA TravelApart ==
  ASSUME IInv, Travel, EventSeesItsOwnValues, SameHandler, Apart
  PROVE  Travel' /\ EventSeesItsOwnValues'
<1>1. PICK added \in Seq(Raised) :
       /\ queue' = queue \o added
       /\ \A i \in DOMAIN added : kind[added[i].ctrl] \in {"kb", "aws"} => added[i].name = "onCancelled"
  BY DEF Apart
<1>2. /\ queue \in Seq(Raised) /\ payload \in [Control -> Seq(Payload)]
      /\ \A i \in DOMAIN queue : /\ queue[i] \in Raised /\ queue[i].ctrl \in Control
                                 /\ i \in Nat /\ i >= 1 /\ (i # 1 => i - 1 \in DOMAIN queue)
  BY TravelTypes
<1>3. /\ UNCHANGED <<kind, payload>>
      /\ \A c \in Control : kind[c] \in {"kb", "aws"} => values'[c] = values[c]
  BY DEF Apart
<1>4. /\ \A i \in DOMAIN queue : i \in DOMAIN queue' /\ queue'[i] = queue[i]
      /\ \A i \in DOMAIN queue' : i \notin DOMAIN queue =>
           i - Len(queue) \in DOMAIN added /\ queue'[i] = added[i - Len(queue)]
  BY <1>1, <1>2
<1>5. \A i \in DOMAIN queue' : i \notin DOMAIN queue =>
        (kind[queue'[i].ctrl] \in {"kb", "aws"} => queue'[i].name = "onCancelled")
  BY <1>1, <1>4
<1>6. Payloads'
  <2> SUFFICES ASSUME NEW c \in Control, kind[c] \in {"kb", "aws"}
               PROVE  Aligned(queue', payload[c], c)
    BY <1>3 DEF Payloads
  <2>1. Aligned(queue, payload[c], c) /\ payload[c] \in Seq(Payload)  BY <1>2 DEF Travel, Payloads
  <2>2. \A i \in DOMAIN added : ~(added[i].ctrl = c /\ added[i].name \in Carrying)
    BY <1>1 DEF Carrying
  <2> QED  BY <1>1, <1>2, <2>1, <2>2, AlignedBeyond
<1>7. Names'
  <2> SUFFICES ASSUME NEW i \in DOMAIN queue'
               PROVE  /\ (kind[queue'[i].ctrl] = "kb" =>
                            queue'[i].name \in {"onProgress", "onIndexed", "onError", "onCancelled"})
                      /\ (kind[queue'[i].ctrl] = "aws" => queue'[i].name \in
                            {"onInvoked", "onComplete", "onError", "onTimeout", "onCancelled"})
                      /\ (kind[queue'[i].ctrl] = "aws" /\ queue'[i].name \in {"onInvoked", "onComplete"}
                          => queue'[i].op # 0)
    BY <1>3 DEF Names
  <2>1. CASE i \in DOMAIN queue  BY <1>4, <2>1 DEF Travel, Names
  <2>2. CASE i \notin DOMAIN queue  BY <1>5, <2>2
  <2> QED  BY <2>1, <2>2
<1>8. ASSUME NEW i \in DOMAIN queue' PROVE Completes(i)'
  <2>1. CASE i \in DOMAIN queue
    <3>1. Completes(i) /\ queue'[i] = queue[i] /\ queue[i].ctrl \in Control  BY <1>2, <1>4, <2>1 DEF Travel
    <3>2. i # 1 => queue'[i - 1] = queue[i - 1]  BY <1>2, <1>4, <2>1
    <3> QED  BY <1>3, <3>1, <3>2 DEF Completes
  <2>2. CASE i \notin DOMAIN queue  BY <1>3, <1>5, <2>2 DEF Completes
  <2> QED  BY <2>1, <2>2
<1>9. EventSeesItsOwnValues'
  <2>1. CASE at = "handler" /\ event' = event
    <3>1. event \in Raised \cup {NoEvent, UiEvent}  BY DEF IInv, TypeOK, EventType
    <3>2. event.name \in {"onIndexed", "onInvoked", "onComplete", "onError"} => event.ctrl \in Control
      BY <3>1 DEF Raised, NoEvent, UiEvent
    <3> QED  BY <1>3, <2>1, <3>2 DEF EventSeesItsOwnValues
  <2>2. CASE event' = UiEvent  BY <2>2 DEF EventSeesItsOwnValues, UiEvent
  <2>3. CASE at' # "handler"  BY <2>3 DEF EventSeesItsOwnValues
  <2> QED  BY <2>1, <2>2, <2>3 DEF SameHandler
<1> QED  BY <1>6, <1>7, <1>8, <1>9 DEF Travel

LEMMA TravelLoads ==
  ASSUME IInv, Travel, EventSeesItsOwnValues, SameHandler,
         NEW c \in Control, NEW n \in Event, NEW op \in Gen, Loads(c, n, op)
  PROVE  Travel' /\ EventSeesItsOwnValues'
<1>1. PICK e, z, p : /\ e = Says(c, n, op) /\ z = Says(c, "onComplete", op)
                     /\ p = [name |-> n, op |-> op, final |-> (op # 0 /\ n # "onProgress")]
  OBVIOUS
<1>2. /\ queue \in Seq(Raised) /\ payload \in [Control -> Seq(Payload)]
      /\ \A i \in DOMAIN queue : /\ queue[i] \in Raised /\ queue[i].ctrl \in Control
                                 /\ i \in Nat /\ i >= 1 /\ (i # 1 => i - 1 \in DOMAIN queue)
  BY TravelTypes
<1>3. /\ e \in Raised /\ e.ctrl = c /\ e.name = n /\ e.op = op
      /\ z \in Raised /\ z.ctrl = c /\ z.name = "onComplete" /\ z.op = op
      /\ p \in Payload /\ Matches(p, e) /\ n \in Carrying
  BY <1>1, Says1 DEF Says, Event, Payload, Matches, Carrying, Loads
<1>4. /\ UNCHANGED <<kind, values>> /\ kind[c] \in {"kb", "aws"}
      /\ payload' = [payload EXCEPT ![c] = Append(@, p)]
  BY <1>1 DEF Loads, Carry
<1>5. PICK mid : mid = Append(queue, e)  OBVIOUS
<1>6. mid \in Seq(Raised) /\ mid = queue \o <<e>>  BY <1>2, <1>3, <1>5, NoWords
<1>7. queue' = mid \/ (kind[c] = "aws" /\ n = "onInvoked" /\ op # 0 /\ queue' = mid \o <<z>>)
  <2>1. queue \o <<e, z>> = mid \o <<z>>  BY <1>2, <1>3, <1>5
  <2>2. \/ queue' = Append(queue, e)
        \/ kind[c] = "aws" /\ n = "onInvoked" /\ op # 0 /\ queue' = queue \o <<e, z>>
    BY <1>1 DEF Loads
  <2> QED  BY <1>5, <2>1, <2>2
<1>8. /\ \A i \in DOMAIN queue : i \in DOMAIN queue' /\ queue'[i] = queue[i]
      /\ \A i \in DOMAIN queue' : \/ i \in DOMAIN queue
                                 \/ queue'[i] = e
                                 \/ /\ kind[c] = "aws" /\ n = "onInvoked" /\ op # 0
                                    /\ i # 1 /\ queue'[i] = z /\ queue'[i - 1] = e
  <2>1. /\ DOMAIN queue = 1 .. Len(queue) /\ Len(queue) \in Nat
        /\ DOMAIN mid = 1 .. Len(queue) + 1 /\ Len(mid) = Len(queue) + 1
        /\ mid[Len(queue) + 1] = e
        /\ \A i \in 1 .. Len(queue) : mid[i] = queue[i]
    BY <1>2, <1>3, <1>5
  <2>2. CASE queue' = mid  BY <2>1, <2>2
  <2>3. CASE kind[c] = "aws" /\ n = "onInvoked" /\ op # 0 /\ queue' = mid \o <<z>>
    <3>1. /\ DOMAIN queue' = 1 .. Len(mid) + 1 /\ queue'[Len(mid) + 1] = z
          /\ \A i \in 1 .. Len(mid) : queue'[i] = mid[i]
      BY <1>3, <1>6, <2>3
    <3>2. /\ \A i \in 1 .. Len(queue) : i \in 1 .. Len(mid)
          /\ Len(queue) + 1 \in 1 .. Len(mid)
          /\ \A i \in 1 .. Len(mid) + 1 :
               i \in 1 .. Len(queue) \/ i = Len(queue) + 1 \/ (i = Len(mid) + 1 /\ i # 1 /\ i - 1 = Len(queue) + 1)
      BY <2>1
    <3> QED  BY <2>1, <2>3, <3>1, <3>2
  <2> QED  BY <1>7, <2>2, <2>3
<1>9. Payloads'
  <2> SUFFICES ASSUME NEW d \in Control, kind[d] \in {"kb", "aws"}
               PROVE  Aligned(queue', payload'[d], d)
    BY <1>4 DEF Payloads
  <2>1. Aligned(queue, payload[d], d) /\ payload[d] \in Seq(Payload)  BY <1>2 DEF Travel, Payloads
  <2>2. payload'[d] \in Seq(Payload) /\ Aligned(mid, payload'[d], d)
    <3>1. CASE d = c
      <4>1. payload'[d] = Append(payload[d], p)  BY <1>2, <1>4, <3>1
      <4> QED  BY <1>2, <1>3, <1>5, <2>1, <3>1, <4>1, AlignedMore
    <3>2. CASE d # c
      <4>1. payload'[d] = payload[d]  BY <1>2, <1>4, <3>2
      <4>2. PICK added : added = <<e>>  OBVIOUS
      <4>3. /\ added \in Seq(Raised) /\ mid = queue \o added
            /\ \A i \in DOMAIN added : ~(added[i].ctrl = d /\ added[i].name \in Carrying)
        BY <1>3, <1>6, <3>2, <4>2
      <4> QED  BY <1>2, <2>1, <4>1, <4>3, AlignedBeyond
    <3> QED  BY <3>1, <3>2
  <2>3. CASE queue' = mid  BY <2>2, <2>3
  <2>4. CASE queue' = mid \o <<z>>
    <3>1. PICK added : added = <<z>>  OBVIOUS
    <3>2. /\ added \in Seq(Raised) /\ queue' = mid \o added
          /\ \A i \in DOMAIN added : ~(added[i].ctrl = d /\ added[i].name \in Carrying)
      BY <1>3, <2>4, <3>1 DEF Carrying
    <3> QED  BY <1>6, <2>2, <3>2, AlignedBeyond
  <2> QED  BY <1>7, <2>3, <2>4
<1>10. Names'
  <2> SUFFICES ASSUME NEW i \in DOMAIN queue'
               PROVE  /\ (kind[queue'[i].ctrl] = "kb" =>
                            queue'[i].name \in {"onProgress", "onIndexed", "onError", "onCancelled"})
                      /\ (kind[queue'[i].ctrl] = "aws" => queue'[i].name \in
                            {"onInvoked", "onComplete", "onError", "onTimeout", "onCancelled"})
                      /\ (kind[queue'[i].ctrl] = "aws" /\ queue'[i].name \in {"onInvoked", "onComplete"}
                          => queue'[i].op # 0)
    BY <1>4 DEF Names
  <2>1. CASE i \in DOMAIN queue  BY <1>8, <2>1 DEF Travel, Names
  <2>2. CASE queue'[i] = e  BY <1>3, <2>2 DEF Loads
  <2>3. CASE kind[c] = "aws" /\ op # 0 /\ queue'[i] = z  BY <1>3, <2>3
  <2> QED  BY <1>8, <2>1, <2>2, <2>3
<1>11. ASSUME NEW i \in DOMAIN queue' PROVE Completes(i)'
  <2>1. CASE i \in DOMAIN queue
    <3>1. Completes(i) /\ queue'[i] = queue[i]  BY <1>8, <2>1 DEF Travel
    <3>2. i # 1 => queue'[i - 1] = queue[i - 1]  BY <1>2, <1>8, <2>1
    <3> QED  BY <1>4, <3>1, <3>2 DEF Completes
  <2>2. CASE queue'[i] = e  BY <1>3, <2>2 DEF Completes, Carrying
  <2>3. CASE n = "onInvoked" /\ i # 1 /\ queue'[i] = z /\ queue'[i - 1] = e
    BY <1>1, <1>3, <2>3 DEF Completes
  <2> QED  BY <1>8, <2>1, <2>2, <2>3
<1>12. EventSeesItsOwnValues'
  <2>1. CASE at = "handler" /\ event' = event  BY <1>4, <2>1 DEF EventSeesItsOwnValues
  <2>2. CASE event' = UiEvent  BY <2>2 DEF EventSeesItsOwnValues, UiEvent
  <2>3. CASE at' # "handler"  BY <2>3 DEF EventSeesItsOwnValues
  <2> QED  BY <2>1, <2>2, <2>3 DEF SameHandler
<1> QED  BY <1>9, <1>10, <1>11, <1>12 DEF Travel

LEMMA TravelHandOut ==
  ASSUME IInv, Travel, HandOut
  PROVE  Travel' /\ EventSeesItsOwnValues'
<1>1. PICK e, c : e = Head(queue) /\ c = e.ctrl  OBVIOUS
<1>2. /\ queue \in Seq(Raised) /\ values \in [Control -> Gen] /\ payload \in [Control -> Seq(Payload)]
      /\ \A i \in DOMAIN queue : /\ queue[i] \in Raised /\ queue[i].ctrl \in Control
                                 /\ i \in Nat /\ i >= 1 /\ (i # 1 => i - 1 \in DOMAIN queue)
  BY TravelTypes
<1>3. /\ queue # <<>> /\ queue' = Tail(queue) /\ event' = e /\ kind' = kind
      /\ ApplyPayload(e)
  BY <1>1 DEF HandOut, Dispatch
<1>4. /\ 1 \in DOMAIN queue /\ e = queue[1] /\ c \in Control
      /\ \A i \in DOMAIN queue' : /\ i \in Nat /\ i >= 1
                                  /\ i + 1 \in DOMAIN queue /\ queue'[i] = queue[i + 1]
      /\ \A i \in DOMAIN queue : i # 1 => i - 1 \in DOMAIN queue' /\ queue'[i - 1] = queue[i]
  BY <1>1, <1>2, <1>3, TailPlaces
<1>5. \A d \in Control : d # c => payload'[d] = payload[d] /\ values'[d] = values[d]
  BY <1>1, <1>2, <1>3 DEF ApplyPayload
<1>6. ASSUME kind[c] \in {"kb", "aws"}, e.name \in Carrying
      PROVE  /\ Aligned(queue', payload'[c], c)
             /\ e.op # 0 /\ e.name # "onProgress" => values'[c] = e.op
  <2>1. Aligned(queue, payload[c], c) /\ payload[c] \in Seq(Payload)
    BY <1>2, <1>4, <1>6 DEF Travel, Payloads
  <2>2. 1 \in Carriers(queue, c)  BY <1>1, <1>4, <1>6 DEF Carriers
  <2>3. /\ payload[c] # <<>> /\ Matches(Head(payload[c]), e)
        /\ Aligned(Tail(queue), Tail(payload[c]), c)
    BY <1>2, <1>4, <2>1, <2>2, AlignedFirst
  <2>4. Carries(e)
    <3>1. kind[c] = "kb" => e.name \in {"onProgress", "onIndexed", "onError"}
      BY <1>1, <1>4, <1>6 DEF Travel, Names, Carrying
    <3> QED  BY <1>1, <1>6, <2>3, <3>1 DEF Carries, Matches
  <2>5. /\ payload' = [payload EXCEPT ![c] = Tail(@)]
        /\ values' = IF Head(payload[c]).final THEN [values EXCEPT ![c] = Head(payload[c]).op] ELSE values
    BY <1>1, <1>3, <2>4 DEF ApplyPayload
  <2>6. payload'[c] = Tail(payload[c])  BY <1>2, <1>4, <2>5
  <2>7. e.op # 0 /\ e.name # "onProgress" => values'[c] = e.op  BY <1>2, <1>4, <2>3, <2>5 DEF Matches
  <2> QED  BY <1>3, <2>3, <2>6, <2>7
<1>7. ASSUME kind[c] \in {"kb", "aws"}, e.name \notin Carrying
      PROVE  Aligned(queue', payload'[c], c) /\ values'[c] = values[c]
  <2>1. Aligned(queue, payload[c], c) /\ payload[c] \in Seq(Payload)
    BY <1>2, <1>4, <1>7 DEF Travel, Payloads
  <2>2. 1 \notin Carriers(queue, c)  BY <1>4, <1>7 DEF Carriers
  <2>3. ~Carries(e)
    <3>1. payload[c] # <<>> => Head(payload[c]).name \in Carrying  BY <1>2, <2>1, AlignedFirst
    <3> QED  BY <1>1, <1>7, <3>1 DEF Carries, Carrying
  <2>4. payload' = payload /\ values' = values  BY <1>3, <2>3 DEF ApplyPayload
  <2> QED  BY <1>2, <1>3, <2>1, <2>2, <2>4, AlignedPast
<1>8. Payloads'
  <2> SUFFICES ASSUME NEW d \in Control, kind[d] \in {"kb", "aws"}
               PROVE  Aligned(queue', payload'[d], d)
    BY <1>3 DEF Payloads
  <2>1. CASE d = c  BY <1>6, <1>7, <2>1
  <2>2. CASE d # c
    <3>1. Aligned(queue, payload[d], d) /\ payload[d] \in Seq(Payload)  BY <1>2 DEF Travel, Payloads
    <3>2. 1 \notin Carriers(queue, d)  BY <1>1, <1>4, <2>2 DEF Carriers
    <3>3. payload'[d] = payload[d]  BY <1>5, <2>2
    <3> QED  BY <1>2, <1>3, <3>1, <3>2, <3>3, AlignedPast
  <2> QED  BY <2>1, <2>2
<1>9. Names'
  <2>1. \A i \in DOMAIN queue' : i + 1 \in DOMAIN queue /\ queue'[i] = queue[i + 1]  BY <1>4
  <2> QED  BY <1>3, <2>1 DEF Travel, Names
<1>10. ASSUME NEW i \in DOMAIN queue', kind[queue'[i].ctrl] = "aws", queue'[i].name = "onComplete"
       PROVE  /\ i = 1 => values'[queue'[i].ctrl] = queue'[i].op
              /\ i # 1 => queue'[i - 1] = Says(queue'[i].ctrl, "onInvoked", queue'[i].op)
  <2>1. /\ i \in Nat /\ i >= 1 /\ i + 1 \in DOMAIN queue /\ queue'[i] = queue[i + 1]
    BY <1>4
  <2>2. queue[i] = Says(queue'[i].ctrl, "onInvoked", queue'[i].op)
    <3>1. Completes(i + 1) /\ i + 1 # 1 /\ (i + 1) - 1 = i  BY <2>1 DEF Travel
    <3> QED  BY <1>10, <2>1, <3>1 DEF Completes
  <2>3. ASSUME i = 1 PROVE values'[queue'[i].ctrl] = queue'[i].op
    <3>1. e = Says(queue'[i].ctrl, "onInvoked", queue'[i].op)  BY <1>4, <2>2, <2>3
    <3>2. c = queue'[i].ctrl /\ e.name = "onInvoked" /\ e.op = queue'[i].op  BY <1>1, <3>1 DEF Says
    <3>3. e.op # 0  BY <1>1, <1>4, <1>10, <3>2 DEF Travel, Names
    <3> QED  BY <1>6, <1>10, <3>2, <3>3 DEF Carrying
  <2>4. ASSUME i # 1 PROVE queue'[i - 1] = queue[i]
    <3>1. i \in DOMAIN queue /\ i # 1  BY <1>2, <2>1, <2>4
    <3> QED  BY <1>4, <3>1
  <2> QED  BY <2>2, <2>3, <2>4
<1>11. \A i \in DOMAIN queue' : Completes(i)'  BY <1>3, <1>10 DEF Completes
<1>12. EventSeesItsOwnValues'
  <2> SUFFICES ASSUME e.name \in {"onIndexed", "onInvoked", "onComplete", "onError"}, e.op # 0,
                      kind[c] \in {"kb", "aws"}
               PROVE  values'[c] = e.op
    BY <1>1, <1>3 DEF EventSeesItsOwnValues
  <2>1. CASE e.name \in Carrying  BY <1>6, <2>1
  <2>2. CASE e.name = "onComplete"
    <3>1. kind[c] = "aws"  BY <1>1, <1>4, <2>2 DEF Travel, Names
    <3>2. Completes(1)  BY <1>4 DEF Travel
    <3>3. values[c] = e.op  BY <1>1, <1>4, <2>2, <3>1, <3>2 DEF Completes
    <3>4. values'[c] = values[c]  BY <1>7, <2>2 DEF Carrying
    <3> QED  BY <3>3, <3>4
  <2> QED  BY <2>1, <2>2 DEF Carrying
<1> QED  BY <1>8, <1>9, <1>11, <1>12 DEF Travel

(* The handler of a KnowledgeBase or AWS event reads the values of the     *)
(* operation the event is about: payloads stay beside their events through *)
(* refused starts, cancellations and operations that overlap in the queue  *)
(* (kb_apply_payload, aws_apply_payload, next_wait_outcome).               *)
THEOREM EventsSeeTheirValues == Spec => []EventSeesItsOwnValues
<1>1. Init => Travel /\ EventSeesItsOwnValues
  <2> SUFFICES ASSUME Init PROVE Travel /\ EventSeesItsOwnValues
    OBVIOUS
  <2>1. queue = <<>> /\ event = UiEvent /\ \A c \in Control : payload[c] = <<>>
    BY DEF Init, AsyncInit
  <2>2. Names /\ \A i \in DOMAIN queue : Completes(i)  BY <2>1 DEF Names
  <2>3. EventSeesItsOwnValues  BY <2>1 DEF EventSeesItsOwnValues, UiEvent
  <2>4. ASSUME NEW c \in Control PROVE Aligned(queue, payload[c], c)
    <3>1. [i \in {} |-> i] \in [DOMAIN payload[c] -> DOMAIN queue]  BY <2>1
    <3>2. Beside([i \in {} |-> i], queue, payload[c], c)  BY <2>1 DEF Beside, Carriers
    <3> QED  BY <3>1, <3>2 DEF Aligned
  <2> QED  BY <2>2, <2>3, <2>4 DEF Travel, Payloads
<1>2. IInv /\ Travel /\ EventSeesItsOwnValues /\ [Next]_vars => Travel' /\ EventSeesItsOwnValues'
  BY TravelForms, TravelApart, TravelLoads, TravelHandOut
<1> QED  BY <1>1, <1>2, Invariance, PTL DEF Spec

-----------------------------------------------------------------------------
(* The results of the calls of an agent, where one control is an agent.    *)

ToolInv == Tools /\ ResultIsTheCallsOwn /\ \A c \in Control : shown[c] # None => kind[c] = "agent"

(* Nothing that belongs to an agent changes.                               *)
LEMMA ToolsKept ==
  ASSUME ToolInv, kind' = kind, UNCHANGED agentVars
  PROVE  ToolInv'
  BY DEF ToolInv, Tools, ByProgram, ResultIsTheCallsOwn, CallOf, agentVars

(* The loop of c is another one, or the same one further on.               *)
LEMMA ToolsMove ==
  ASSUME OneAgent, IInv, ToolInv, NEW c \in Control, kind[c] = "agent", kind' = kind,
         loop' \in [Control -> Loop \cup {None}], \A d \in Control : d # c => loop'[d] = loop[d],
         \A d \in Control : d # c => shown'[d] = shown[d],
         loop'[c] # None => OwnResults(loop'[c]),
         Asks(c, loop') => /\ shown'[c] = CallOf(loop'[c], Len(loop'[c].got) + 1)
                           /\ toolResults'[Len(loop'[c].got) + 1] \in {None, shown'[c]}
  PROVE  ToolInv'
<1>1. kind \in DOMAIN Forms  BY DEF IInv, TypeOK
<1>2. ASSUME NEW d \in Control, d # c PROVE loop'[d] = None
  <2>1. kind[d] # "agent"  BY <1>1, <1>2 DEF OneAgent
  <2> QED  BY <1>2, <2>1 DEF IInv, Kinds
<1>3. \A d \in Control : ByProgram(d)' => d = c /\ Asks(c, loop')  BY <1>2 DEF ByProgram, Asks
<1>4. Tools'  BY <1>3 DEF Tools, CallOf
<1>5. ResultIsTheCallsOwn'  BY <1>2 DEF ResultIsTheCallsOwn, OwnResults, CallOf
<1>6. \A d \in Control : shown'[d] # None => kind[d] = "agent"  BY DEF ToolInv
<1> QED  BY <1>4, <1>5, <1>6 DEF ToolInv

LEMMA ToolsGoOn ==
  ASSUME OneAgent, IInv, ToolInv, NEW c \in Control, kind[c] = "agent", kind' = kind,
         NEW l, GoesOn(c, l), OwnResults(l)
  PROVE  ToolInv'
<1>0. loop \in [Control -> Loop \cup {None}] /\ shown \in [Control -> Call \cup {None}]
  BY DEF IInv, TypeOK, LoopType
<1>1. PICK m \in Loop :
       /\ loop' = [loop EXCEPT ![c] = m] /\ OwnResults(m)
       /\ \/ m.waiting \in {"nothing", "search"} /\ shown' = shown
          \/ /\ m.waiting = "queued"
             /\ shown' = [shown EXCEPT ![c] = CallOf(m, Len(m.got) + 1)]
             /\ toolResults'[Len(m.got) + 1] = None
  BY DEF GoesOn, Continued
<1>2. /\ loop' \in [Control -> Loop \cup {None}] /\ loop'[c] = m
      /\ \A d \in Control : d # c => loop'[d] = loop[d]
  BY <1>0, <1>1
<1>3. \A d \in Control : d # c => shown'[d] = shown[d]  BY <1>0, <1>1
<1>4. Asks(c, loop') => /\ shown'[c] = CallOf(loop'[c], Len(loop'[c].got) + 1)
                        /\ toolResults'[Len(loop'[c].got) + 1] \in {None, shown'[c]}
  BY <1>0, <1>1, <1>2 DEF Asks
<1> QED  BY <1>1, <1>2, <1>3, <1>4, ToolsMove

(* The loop of c is forgotten.                                             *)
LEMMA ToolsForgotten ==
  ASSUME OneAgent, IInv, ToolInv, NEW c \in Control, kind[c] = "agent", kind' = kind,
         loop' = [loop EXCEPT ![c] = None], UNCHANGED <<shown, toolResults>>
  PROVE  ToolInv'
<1>1. loop \in [Control -> Loop \cup {None}]  BY DEF IInv, TypeOK, LoopType
<1>2. /\ loop' \in [Control -> Loop \cup {None}] /\ loop'[c] = None
      /\ \A d \in Control : d # c => loop'[d] = loop[d]
  BY <1>1
<1>3. ~Asks(c, loop')  BY <1>2 DEF Asks
<1> QED  BY <1>2, <1>3, ToolsMove

LEMMA ToolStep ==
  ASSUME OneAgent, IInv, ToolInv, [Next]_vars
  PROVE  ToolInv'
<1>0. loop \in [Control -> Loop \cup {None}] /\ shown \in [Control -> Call \cup {None}]
      /\ toolResults \in [Ids -> Call \cup {None}] /\ kind \in DOMAIN Forms
      /\ \A c \in Control : loop[c] # None => kind[c] = "agent"
  BY DEF IInv, TypeOK, LoopType, Kinds
<1>r. ASSUME NEW c \in Control, loop[c] # None PROVE OwnResults(loop[c])
  BY <1>r DEF ToolInv, ResultIsTheCallsOwn, OwnResults
<1>1. ASSUME NEW c \in Control, NEW offers \in BOOLEAN, Ask(c, offers) PROVE ToolInv'
  <2>1. /\ kind[c] = "agent" /\ UNCHANGED <<kind, shown, toolResults>>
        /\ loop' = [loop EXCEPT ![c] = IF offers THEN NewLoop(gen[c] + 1, TRUE) ELSE None]
    BY <1>1 DEF Ask
  <2>2. CASE ~offers  BY <2>1, <2>2, ToolsForgotten
  <2>3. CASE offers
    <3>1. PICK l : l = NewLoop(gen[c] + 1, TRUE)  OBVIOUS
    <3>2. l.got = <<>> /\ l.waiting = "nothing"  BY <3>1 DEF NewLoop
    <3>3. loop'[c] = l /\ \A d \in Control : d # c => loop'[d] = loop[d]  BY <1>0, <2>1, <2>3, <3>1
    <3>4. loop' \in [Control -> Loop \cup {None}]
      <4>1. TypeOK'  BY TypeStep
      <4> QED  BY <4>1 DEF TypeOK, LoopType
    <3>5. OwnResults(l)  BY <3>2 DEF OwnResults
    <3>6. ~Asks(c, loop')  BY <3>2, <3>3 DEF Asks
    <3> QED  BY <2>1, <3>3, <3>4, <3>5, <3>6, ToolsMove
  <2> QED  BY <2>2, <2>3
<1>2. ASSUME NEW c \in Control, SetToolResult(c) PROVE ToolInv'
  <2>1. /\ shown[c] # None /\ toolResults' = [toolResults EXCEPT ![shown[c].id] = shown[c]]
        /\ UNCHANGED <<kind, loop, shown>>
    BY <1>2 DEF SetToolResult, asyncVars
  <2>2. kind[c] = "agent"  BY <2>1 DEF ToolInv
  <2>3. ASSUME Asks(c, loop')
        PROVE  /\ shown'[c] = CallOf(loop'[c], Len(loop'[c].got) + 1)
               /\ toolResults'[Len(loop'[c].got) + 1] \in {None, shown'[c]}
    <3>1. ByProgram(c)  BY <2>1, <2>3 DEF ByProgram, Asks
    <3>2. shown[c] = CallOf(loop[c], Len(loop[c].got) + 1)  BY <3>1 DEF ToolInv, Tools
    <3>3. shown[c].id = Len(loop[c].got) + 1 /\ shown[c] \in Call  BY <1>0, <2>1, <3>2 DEF CallOf
    <3>4. toolResults'[Len(loop[c].got) + 1] = shown[c]  BY <1>0, <2>1, <3>3 DEF Call
    <3> QED  BY <2>1, <3>2, <3>4
  <2> QED  BY <1>0, <1>r, <2>1, <2>2, <2>3, ToolsMove
<1>3. ASSUME Wait PROVE ToolInv'
  <2>1. kind' = kind  BY <1>3, WaitEffect
  <2>2. CASE UNCHANGED agentVars  BY <2>1, <2>2, ToolsKept
  <2>3. ASSUME NEW c \in Control, Returned(c), loop' = [loop EXCEPT ![c] = None],
               UNCHANGED <<shown, toolResults>>
        PROVE  ToolInv'
    BY <1>0, <2>1, <2>3, ToolsForgotten DEF Returned
  <2>4. ASSUME NEW c \in Control, Returned(c), NEW l, GoesOn(c, l),
               OwnResults(loop[c]) /\ Tools => OwnResults(l)
        PROVE  ToolInv'
    <3>1. OwnResults(l)  BY <1>r, <2>4 DEF ToolInv, Returned
    <3> QED  BY <1>0, <2>1, <2>4, <3>1, ToolsGoOn DEF Returned
  <2> QED  BY <1>3, <2>2, <2>3, <2>4, WaitEffect
<1>4. ASSUME DeliverAgent PROVE ToolInv'
  <2>1. PICK c \in Control : c = Head(results).ctrl  BY <1>4, DeliveredEffect
  <2>2. kind[c] = "agent" /\ kind' = kind  BY <1>4, <2>1, DeliveredEffect
  <2>3. CASE NothingComesOfIt  BY <2>2, <2>3, ToolsKept DEF NothingComesOfIt
  <2>4. ASSUME NEW op, NEW n, Conclude(c, op, n) PROVE ToolInv'
    BY <2>2, <2>4, ToolsForgotten DEF Conclude
  <2>5. ASSUME NEW l, GoesOn(c, l), loop[c] = None \/ OwnResults(loop[c]) => OwnResults(l)
        PROVE  ToolInv'
    <3>1. OwnResults(l)  BY <1>r, <2>5
    <3> QED  BY <2>2, <2>5, <3>1, ToolsGoOn
  <2> QED  BY <1>4, <2>1, <2>3, <2>4, <2>5, DeliveredEffect
<1>5. ASSUME HandOut PROVE ToolInv'
  <2>1. /\ UNCHANGED <<kind, shown, toolResults>>
        /\ \A c \in Control : loop'[c] = IF /\ Head(queue).ctrl = c /\ Head(queue).name = "onToolCall"
                                           /\ loop[c] # None /\ loop[c].waiting = "queued"
                                        THEN [loop[c] EXCEPT !.waiting = "dispatched"] ELSE loop[c]
    BY <1>5 DEF HandOut, Dispatch
  <2>2. ASSUME NEW c \in Control
        PROVE  /\ loop'[c] # None => loop[c] # None
               /\ loop'[c] # None => /\ loop'[c].got = loop[c].got /\ loop'[c].op = loop[c].op
                                     /\ loop'[c].rounds = loop[c].rounds
               /\ ByProgram(c)' => ByProgram(c)
    <3>1. CASE loop'[c] = loop[c]  BY <3>1 DEF ByProgram
    <3>2. CASE loop[c] # None /\ loop[c].waiting = "queued" /\ loop'[c] = [loop[c] EXCEPT !.waiting = "dispatched"]
      <4>1. loop[c] \in Loop  BY <1>0, <3>2
      <4> QED  BY <3>2, <4>1 DEF ByProgram, Loop
    <3> QED  BY <2>1, <3>1, <3>2
  <2>3. Tools'
    <3> SUFFICES ASSUME NEW c \in Control, ByProgram(c)'
                 PROVE  /\ shown'[c] = CallOf(loop'[c], Len(loop'[c].got) + 1)
                        /\ toolResults'[Len(loop'[c].got) + 1] \in {None, shown'[c]}
      BY DEF Tools, CallOf
    <3>1. ByProgram(c) /\ loop'[c] # None  BY <2>2 DEF ByProgram
    <3>2. /\ loop'[c].got = loop[c].got /\ loop'[c].op = loop[c].op /\ loop'[c].rounds = loop[c].rounds
      BY <2>2, <3>1
    <3>3. /\ shown[c] = CallOf(loop[c], Len(loop[c].got) + 1)
          /\ toolResults[Len(loop[c].got) + 1] \in {None, shown[c]}
      BY <3>1 DEF ToolInv, Tools
    <3> QED  BY <2>1, <3>2, <3>3 DEF CallOf
  <2>4. ResultIsTheCallsOwn'
    <3> SUFFICES ASSUME NEW c \in Control, loop'[c] # None, NEW i \in DOMAIN loop'[c].got
                 PROVE  loop'[c].got[i].call = CallOf(loop'[c], i)
      BY DEF ResultIsTheCallsOwn, CallOf
    <3>1. loop[c] # None /\ loop'[c].got = loop[c].got /\ loop'[c].op = loop[c].op
          /\ loop'[c].rounds = loop[c].rounds
      BY <2>2
    <3>2. loop[c].got[i].call = CallOf(loop[c], i)  BY <3>1 DEF ToolInv, ResultIsTheCallsOwn
    <3> QED  BY <3>1, <3>2 DEF CallOf
  <2> QED  BY <2>1, <2>3, <2>4 DEF ToolInv
<1>6. CASE UNCHANGED vars  BY <1>6, ToolsKept DEF vars, asyncVars, agentVars
<1>7. ASSUME NEW w \in worker, EndOfRound(w) PROVE ToolInv'  BY <1>7, ToolsKept DEF EndOfRound
<1>8. ASSUME UNCHANGED agentVars,
             \/ \E c \in Control : Start(c) \/ Query(c) \/ Refuse(c) \/ Cancel(c) \/ OpenDb(c)
                                   \/ CloseDb(c) \/ Timeout(c)
             \/ \E w \in worker : EndOfOp(w) \/ Progress(w)
             \/ Deliver \/ Drained \/ Swept \/ Poll \/ TakeUiEvent
      PROVE  ToolInv'
  <2>1. kind' = kind
    BY <1>8 DEF Start, Query, Refuse, Cancel, CutOff, OpenDb, CloseDb, Timeout, EndOfOp, Progress,
                Deliver, Drained, Swept, Poll, TakeUiEvent
  <2> QED  BY <1>8, <2>1, ToolsKept
<1> QED
  BY <1>1, <1>2, <1>3, <1>4, <1>5, <1>6, <1>7, <1>8 DEF Next, Program, Threads, Waiting

(* The result a model reads for a call is the one the program gave for it  *)
(* - in a form with one agent, for the results of calls without ids are    *)
(* kept by their number alone, whichever agent asked (tool_loop_advance,   *)
(* tool_loops_resume).                                                     *)
THEOREM ResultsAreTheCallsOwn == OneAgent /\ Spec => []ResultIsTheCallsOwn
<1>1. ASSUME Init PROVE ToolInv
  <2>1. \A c \in Control : loop[c] = None /\ shown[c] = None  BY <1>1 DEF Init
  <2> QED  BY <2>1 DEF ToolInv, Tools, ByProgram, ResultIsTheCallsOwn
<1>2. OneAgent /\ IInv /\ ToolInv /\ [Next]_vars => ToolInv'  BY ToolStep
<1>3. ToolInv => ResultIsTheCallsOwn  BY DEF ToolInv
<1>4. OneAgent => [](OneAgent)
  <2>1. OneAgent => OneAgent'  BY DEF OneAgent
  <2> QED  BY <2>1, PTL
<1> QED  BY <1>1, <1>2, <1>3, <1>4, Invariance, PTL DEF Spec
=============================================================================
