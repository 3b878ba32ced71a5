----------------------------- MODULE AgentLoops -----------------------------
(***************************************************************************)
(* The questions an AgentObject puts to a language model, on top of the    *)
(* asynchronous operations of AsyncOps (interpreter.rs, agent_ask and      *)
(* agent_delivered; interpreter/agent_loop.rs): an Ask that offers tools   *)
(* is a conversation of several rounds under one generation.  A tool call  *)
(* is answered by the runtime ("file", and "wrong": no such tool, or no    *)
(* such arguments), by a thread ("search") or by the program's onToolCall  *)
(* handler ("program"), one call at a time.                                *)
(***************************************************************************)
EXTENDS AsyncOps

CONSTANTS Replies,         \* the tool calls a model may ask for in one reply
          MaxRounds,       \* MaximumToolRounds
          Continuations    \* MaximumContinuations

ASSUME RepliesAssumption == Replies \subseteq Seq(Tool) \ {<<>>}
ASSUME RoundsAssumption == MaxRounds \in Nat /\ Continuations \in Nat

VARIABLES loop,         \* tool_loops
          shown,        \* the call that ToolCallId and ToolArguments describe
          toolResults   \* tool_results, by call id

vars == <<asyncVars, loop, shown, toolResults>>
agentVars == <<loop, shown, toolResults>>

(* A protocol without ids gives the calls of a reply the ids 1, 2, ...      *)
Ids    == UNION {DOMAIN calls : calls \in Replies}
Call   == [op : Gen, round : Nat, id : Ids]
Given  == [by : {"runtime", "search", "program", "nobody"}, call : Call]
Loop   == [op : Gen, offers : BOOLEAN, rounds : Nat, more : Nat,
           asked : Seq(Tool), got : Seq(Given),
           waiting : {"nothing", "queued", "dispatched", "search"}]

ASSUME NoneAssumption == None \notin Loop \cup Call

NewLoop(op, offers) == [op |-> op, offers |-> offers, rounds |-> 0, more |-> 0,
                        asked |-> <<>>, got |-> <<>>, waiting |-> "nothing"]

CallOf(l, i) == [op |-> l.op, round |-> l.rounds, id |-> i]
Gives(l, by, i) == [by |-> by, call |-> CallOf(l, i)]

Init == /\ AsyncInit
        /\ loop = [c \in Control |-> None]
        /\ shown = loop
        /\ toolResults = [i \in Ids |-> None]

-----------------------------------------------------------------------------
(* Ask: one question at a time; the loop of an earlier one is forgotten.    *)
Ask(c, offers) ==
  /\ MayStart(c) /\ kind[c] = "agent"
  /\ Begin(c, IF offers THEN "round" ELSE "op", 0)
  /\ loop' = [loop EXCEPT ![c] = IF offers THEN NewLoop(gen[c] + 1, TRUE) ELSE None]
  /\ UNCHANGED <<kind, results, events, db, at, event, cut, told, shown, toolResults>>

(* SetToolResult, called with the ToolCallId the handler reads.             *)
SetToolResult(c) ==
  /\ at = "handler" /\ event.ctrl = c /\ event.name = "onToolCall" /\ shown[c] # None
  /\ toolResults' = [toolResults EXCEPT ![shown[c].id] = shown[c]]
  /\ UNCHANGED <<asyncVars, loop, shown>>

-----------------------------------------------------------------------------
(* tool_loop_send: the next request goes out under the loop's generation,   *)
(* the question staying in flight (tool_loop_keep_pending).                 *)
Send(c, l) ==
  /\ loop' = [loop EXCEPT ![c] = [l EXCEPT !.waiting = "nothing"]]
  /\ pending' = [pending EXCEPT ![c] = l.op]
  /\ worker' = worker \cup {[ctrl |-> c, op |-> l.op,
                             does |-> IF l.offers THEN "round" ELSE "op",
                             db |-> 0, said |-> FALSE]}

(* A result left under the id by an earlier round is not this call's.       *)
ForgottenNever(given, id) == given
Forgotten(given, id) == [given EXCEPT ![id] = None]

(* tool_loop_advance, from the first call of l without a result: the calls  *)
(* the runtime answers itself, up to the first it does not, or to the end.  *)
(* It tells the program of each that uses a tool.                           *)
Advance(c, l, given) ==
  LET from  == Len(l.got) + 1
      out   == {i \in from .. Len(l.asked) : l.asked[i] \notin {"file", "wrong"}}
      stop  == IF out = {} THEN Len(l.asked) + 1
               ELSE CHOOSE i \in out : \A k \in out : i <= k
      files == {i \in from .. stop - 1 : l.asked[i] = "file"}
      uses  == [i \in 1 .. Cardinality(files) |-> Says(c, "onToolUse", l.op)]
      l2    == [l EXCEPT !.got = @ \o [i \in 1 .. stop - from |-> Gives(l, "runtime", from + i - 1)]]
  IN \/ /\ out = {}
        /\ Send(c, l2)
        /\ queue' = queue \o uses
        /\ toolResults' = given /\ UNCHANGED shown
     \/ /\ out # {} /\ l.asked[stop] = "search"
        /\ loop' = [loop EXCEPT ![c] = [l2 EXCEPT !.waiting = "search"]]
        /\ pending' = [pending EXCEPT ![c] = l.op]
        /\ worker' = worker \cup {[ctrl |-> c, op |-> l.op, does |-> "search",
                                   db |-> 0, said |-> FALSE]}
        /\ queue' = queue \o uses \o <<Says(c, "onToolUse", l.op)>>
        /\ toolResults' = given /\ UNCHANGED shown
     \/ /\ out # {} /\ l.asked[stop] = "program"
        /\ loop' = [loop EXCEPT ![c] = [l2 EXCEPT !.waiting = "queued"]]
        /\ pending' = [pending EXCEPT ![c] = l.op]
        /\ queue' = queue \o uses \o <<Says(c, "onToolCall", l.op)>>
        /\ shown' = [shown EXCEPT ![c] = CallOf(l, stop)]
        /\ toolResults' = Forgotten(given, stop)
        /\ UNCHANGED worker

(* tool_loops_resume, first thing at every wait: the handler of a call that *)
(* was handed out - there is one at most - has returned.                    *)
Returned(c) == loop[c] # None /\ loop[c].waiting = "dispatched"
LoopLiveUnchecked(c) == TRUE
LoopLive(c) == gen[c] = loop[c].op /\ pending[c] # 0

Resume(c) ==
  IF ~LoopLive(c)
  THEN /\ loop' = [loop EXCEPT ![c] = None]
       /\ UNCHANGED <<pending, worker, queue, shown, toolResults>>
  ELSE LET id == Len(loop[c].got) + 1
           r  == IF toolResults[id] = None THEN Gives(loop[c], "nobody", id)
                 ELSE [by |-> "program", call |-> toolResults[id]]
       IN Advance(c, [loop[c] EXCEPT !.got = Append(@, r), !.waiting = "nothing"],
                  [toolResults EXCEPT ![id] = None])

(* The handler returns to COBOL-WAIT-EVENT.                                 *)
Wait ==
  /\ at = "handler"
  /\ at' = "drain" /\ event' = NoEvent
  /\ \/ \E c \in Control : Returned(c) /\ Resume(c)
     \/ /\ \A c \in Control : ~Returned(c)
        /\ UNCHANGED <<pending, worker, queue, agentVars>>
  /\ UNCHANGED <<kind, gen, busy, values, results, payload, db, cut, told>>

-----------------------------------------------------------------------------
(* The threads of an agent: a request to the model, a search for a tool.    *)

EndOfRound(w) ==
  /\ MayReport
  /\ kind[w.ctrl] = "agent"
  /\ \/ /\ w.does # "search"
        /\ \E out \in {"done", "error", "cut"} :
             results' = Append(results, Answer(w, out, <<>>))
     \/ /\ w.does = "round"
        /\ \E calls \in Replies : results' = Append(results, Answer(w, "calls", calls))
     \/ /\ w.does = "search"
        /\ results' = Append(results, Answer(w, "found", <<>>))
  /\ worker' = worker \ {w}
  /\ UNCHANGED <<kind, gen, pending, busy, values, events, db, at, event, cut, told, agentVars>>

(* The answer to the question: Busy, the reply and its event.               *)
Conclude(c, op, name) ==
  /\ loop' = [loop EXCEPT ![c] = None]
  /\ pending' = [pending EXCEPT ![c] = 0]
  /\ busy' = [busy EXCEPT ![c] = FALSE]
  /\ values' = [values EXCEPT ![c] = op]
  /\ queue' = Append(queue, Says(c, name, op))
  /\ UNCHANGED <<worker, shown, toolResults>>

(* One reply of the model.  A plain Ask that is cut off by the length limit *)
(* becomes a loop that offers no tools.                                     *)
Reply(r) ==
  LET c == r.ctrl
      l == IF loop[c] = None THEN NewLoop(r.op, FALSE) ELSE loop[c]
      next == [l EXCEPT !.rounds = @ + 1, !.asked = <<>>, !.got = <<>>]
  IN \/ r.out = "error" /\ Conclude(c, r.op, "onError")
     \/ r.out = "done" /\ Conclude(c, r.op, "onResponse")
     \/ /\ r.out = "cut"
        /\ IF l.more < Continuations
           THEN /\ Send(c, [next EXCEPT !.more = @ + 1])
                /\ busy' = [busy EXCEPT ![c] = TRUE]
                /\ UNCHANGED <<values, queue, shown, toolResults>>
           ELSE Conclude(c, r.op, "onResponse")
     \/ /\ r.out = "calls"
        /\ IF next.rounds >= MaxRounds
           THEN Conclude(c, r.op, "onError")
           ELSE /\ Advance(c, [next EXCEPT !.asked = r.calls], toolResults)
                /\ UNCHANGED <<busy, values>>

(* kb_tool_delivered                                                        *)
Found(r) ==
  LET c == r.ctrl IN
  /\ IF loop[c] # None /\ loop[c].waiting = "search"
     THEN Advance(c, [loop[c] EXCEPT !.got = Append(@, Gives(loop[c], "search", Len(@) + 1)),
                                     !.waiting = "nothing"], toolResults)
     ELSE UNCHANGED <<pending, worker, queue, agentVars>>
  /\ UNCHANGED <<busy, values>>

DeliverAgent ==
  /\ at = "drain" /\ results # <<>>
  /\ LET r == Head(results)
     IN /\ kind[r.ctrl] = "agent"
        /\ IF Stale(r) THEN UNCHANGED <<pending, busy, values, worker, queue, agentVars>>
           ELSE IF r.out = "found" THEN Found(r) ELSE Reply(r)
  /\ results' = Tail(results)
  /\ UNCHANGED <<kind, gen, payload, db, at, event, cut, told>>

(* next_wait_outcome marks the call of an agent's onToolCall handed out.    *)
HandOut ==
  /\ Dispatch
  /\ loop' = [c \in Control |->
                IF /\ Head(queue).ctrl = c /\ Head(queue).name = "onToolCall"
                   /\ loop[c] # None /\ loop[c].waiting = "queued"
                THEN [loop[c] EXCEPT !.waiting = "dispatched"] ELSE loop[c]]
  /\ UNCHANGED <<shown, toolResults>>

-----------------------------------------------------------------------------
Program == \E c \in Control :
  \/ (Start(c) \/ Query(c) \/ Refuse(c) \/ Cancel(c) \/ OpenDb(c) \/ CloseDb(c))
     /\ UNCHANGED agentVars
  \/ \E offers \in BOOLEAN : Ask(c, offers)
  \/ SetToolResult(c)

Threads == \E w \in worker : \/ EndOfRound(w)
                             \/ (EndOfOp(w) \/ Progress(w)) /\ UNCHANGED agentVars

Waiting == \/ \E c \in Control : Timeout(c) /\ UNCHANGED agentVars
           \/ DeliverAgent \/ HandOut
           \/ (Deliver \/ Drained \/ Swept \/ Poll \/ TakeUiEvent) /\ UNCHANGED agentVars

Next == Program \/ Wait \/ Threads \/ Waiting

Spec == Init /\ [][Next]_vars

(* Handlers return to the wait, the wait goes on, and threads end: by the   *)
(* transport's limit or an AWS budget, or, of a request given no limit,     *)
(* because the other side ends it.                                          *)
FairSpec == Spec /\ WF_vars(Wait) /\ WF_vars(Waiting) /\ SF_vars(Threads)

-----------------------------------------------------------------------------
(* The handler of a KnowledgeBase or AWS event reads the values of the      *)
(* operation the event is about, whatever was started, cancelled or refused *)
(* since that operation was answered (kb_apply_payload, aws_apply_payload). *)
EventSeesItsOwnValues ==
  at = "handler" /\ event.name \in {"onIndexed", "onInvoked", "onComplete", "onError"}
    /\ event.op # 0 /\ kind[event.ctrl] \in {"kb", "aws"}
  => values[event.ctrl] = event.op

(* What a thread answers after its operation was cancelled or timed out     *)
(* never reaches the control (the generation check of drain_async_ops).     *)
NoLateAnswer == \A c \in Control : values[c] \notin cut[c]

(* A lent connection comes home (or was closed meanwhile), even when the    *)
(* statement was cancelled or timed out, so that a later one can run.       *)
LentConnectionComesHome == \A h \in Handle : []<>(h \notin lent)

(* On a form of one agent - the results of all agents lie in one table, by  *)
(* id alone -, the result the model reads for a call is one the program gave*)
(* for that very call, although ids repeat from round to round and handlers *)
(* of abandoned questions may still run (tool_loop_advance,                 *)
(* tool_loops_resume).                                                      *)
ResultIsTheCallsOwn ==
  \A c \in Control : loop[c] # None =>
    \A i \in DOMAIN loop[c].got : loop[c].got[i].call = CallOf(loop[c], i)

(* After Cancel, or a timeout, nothing more is sent to the model.           *)
NothingSentAfterEnd ==
  [][\A w \in worker' : w \in worker \/ w.said \/ w.op \notin cut[w.ctrl]]_vars

(* The operations seen as a program sees them: each ends once - answered,   *)
(* cancelled or timed out -, the program is told of each ending once, in    *)
(* the order they ended, and every operation it started comes to that.      *)
EndsOf(c) == {i \in DOMAIN queue : queue[i].ctrl = c /\ Ends(queue[i])}
Answers == INSTANCE OneAnswer WITH
             Ops     <- Gen \ {0},
             running <- pending,
             ended   <- [c \in Control |-> {queue[i].op : i \in EndsOf(c)}]
ImplementsOneAnswer == Answers!FairSpec
=============================================================================
