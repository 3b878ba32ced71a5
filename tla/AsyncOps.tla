------------------------------ MODULE AsyncOps ------------------------------
(***************************************************************************)
(* The asynchronous operations of controls: worker threads that report     *)
(* over one channel, the interpreter thread that drains it at every        *)
(* COBOL-WAIT-EVENT (crates/cobolt-runtime/src/interpreter.rs, async_op.rs,*)
(* interpreter/kb.rs, interpreter/aws.rs), the queue of events it hands    *)
(* the program one at a time, and the database connections it lends        *)
(* (db_runtime.rs).  AgentLoops adds the questions put to language models  *)
(* and states the next-state relation.                                     *)
(*                                                                         *)
(* An operation is known by the generation of its control at its start.    *)
(* Kinds of control: "rest" (RestClient, Maps), "web" (WebSearch), "kb"    *)
(* (KnowledgeBase), "aws", "sql" (a SqlDatabase in Async mode), "agent".   *)
(* What an operation answers is known only by the operation it answers.    *)
(***************************************************************************)
EXTENDS Integers, Sequences, FiniteSets

CONSTANTS Control,
          Forms,        \* a form: the kinds of its controls -> the bounds on them, the last
                        \* generation at which each control starts an operation
          LastHandle,   \* bound: database connections opened
          QueueBound,   \* bound, by form: events waiting when the program raises one itself
          None

LastGens == {Forms[k][c] : k \in DOMAIN Forms, c \in Control}
Gen    == UNION {0 .. n + 1 : n \in LastGens}
Handle == 1 .. LastHandle
Kind   == {"rest", "web", "kb", "aws", "sql", "agent"}

ASSUME FormsAssumption == /\ DOMAIN Forms # {} /\ DOMAIN Forms \subseteq [Control -> Kind]
                          /\ \A k \in DOMAIN Forms : Forms[k] \in [Control -> Nat]
ASSUME BoundsAssumption == LastHandle \in Nat /\ QueueBound \in [DOMAIN Forms -> Nat]
ASSUME NobodyAssumption == None \notin Control

VARIABLES
  kind,       \* the class of each control
  gen,        \* async_generations
  pending,    \* async_pending: the generation of the PendingOp, or 0
  busy,       \* the property Busy
  values,     \* the operation whose answer the control's properties hold
  worker,     \* the threads that have not ended
  results,    \* async_result_rx
  queue,      \* async_dispatch_queue
  payload,    \* kb_payloads, aws_payloads
  handle,     \* the property _Handle of a SqlDatabase
  home,       \* DbRegistry.connections
  lent,       \* DbRegistry.lent
  opened,     \* DbRegistry.next_handle, less one
  at,         \* where the interpreter thread is
  event,      \* what the program's handler was started for
  cut,        \* ghost: the operations cancelled or timed out
  told        \* ghost: the operations whose ending the program was told of

db      == <<handle, home, lent, opened>>
events  == <<queue, payload>>
ops     == <<gen, pending, busy, values, worker>>
asyncVars == <<kind, ops, results, events, db, at, event, cut, told>>

Event == {"onComplete", "onError", "onTimeout", "onCancelled", "onProgress", "onIndexed",
          "onInvoked", "onResultsReceived", "onQueryComplete", "onQueryError", "onConnectOk",
          "onResponse", "onToolCall", "onToolUse"}
Raised == [ctrl : Control, name : Event, op : Gen]
Tool   == {"program", "search", "file", "wrong"}
Report == [ctrl : Control, op : Gen, out : {"done", "error", "timeout", "progress", "cut", "calls", "found"},
           db : 0 .. LastHandle, calls : Seq(Tool)]
Thread == [ctrl : Control, op : Gen, does : {"op", "round", "search"},
           db : 0 .. LastHandle, said : BOOLEAN]
Payload == [name : Event, op : Gen, final : BOOLEAN]

NoEvent == [ctrl |-> None, name |-> "none", op |-> 0]
UiEvent == [ctrl |-> None, name |-> "ui", op |-> 0]

(* The ending of an operation, as opposed to a word on the way and to the   *)
(* event of a call that started nothing.                                    *)
Interim == {"onProgress", "onInvoked", "onResultsReceived", "onToolCall", "onToolUse"}
Ends(e) == e.op # 0 /\ e.name \notin Interim

Says(c, name, op) == [ctrl |-> c, name |-> name, op |-> op]

AsyncInit ==
  /\ kind \in DOMAIN Forms
  /\ gen = [c \in Control |-> 0] /\ pending = gen /\ values = gen
  /\ busy = [c \in Control |-> FALSE]
  /\ worker = {} /\ results = <<>> /\ queue = <<>>
  /\ payload = [c \in Control |-> <<>>]
  /\ handle = [c \in Control |-> 0] /\ home = {} /\ lent = {} /\ opened = 0
  /\ at = "handler" /\ event = UiEvent
  /\ cut = [c \in Control |-> {}] /\ told = [c \in Control |-> <<>>]

-----------------------------------------------------------------------------
(* What a handler of the program does.                                      *)

(* The steps every start has in common: the next generation, Busy, the      *)
(* PendingOp and the thread.                                                *)
Begin(c, does, h) ==
  /\ gen' = [gen EXCEPT ![c] = @ + 1]
  /\ pending' = [pending EXCEPT ![c] = gen[c] + 1]
  /\ busy' = [busy EXCEPT ![c] = TRUE]
  /\ worker' = worker \cup {[ctrl |-> c, op |-> gen[c] + 1, does |-> does,
                             db |-> h, said |-> FALSE]}
  /\ UNCHANGED values

RoomInQueue == Len(queue) < QueueBound[kind]

(* A second start while one is in flight is ignored.                        *)
MayStart(c) == at = "handler" /\ pending[c] = 0 /\ gen[c] < Forms[kind][c]

(* GET, SEARCH, an AWS method.                                              *)
Start(c) == /\ MayStart(c) /\ kind[c] \in {"rest", "web", "kb", "aws"}
            /\ Begin(c, "op", 0)
            /\ UNCHANGED <<kind, results, events, db, at, event, cut, told>>

(* An asynchronous Query lends its connection to the thread.  One that is   *)
(* out, or closed, answers onQueryError.                                    *)
Query(c) ==
  /\ MayStart(c) /\ kind[c] = "sql"
  /\ IF handle[c] \in home
     THEN /\ home' = home \ {handle[c]} /\ lent' = lent \cup {handle[c]}
          /\ Begin(c, "op", handle[c])
          /\ UNCHANGED queue
     ELSE /\ RoomInQueue
          /\ queue' = Append(queue, Says(c, "onQueryError", 0))
          /\ UNCHANGED <<ops, home, lent>>
  /\ UNCHANGED <<kind, results, payload, handle, opened, at, event, cut, told>>

(* A start refused: Maps without a key; a search or a question without a    *)
(* provider, key or address, even while one is in flight; an AWS control    *)
(* that is busy or names no connection, which carries LastError with its    *)
(* event.                                                                   *)
Refuse(c) ==
  /\ at = "handler" /\ RoomInQueue
  /\ \/ kind[c] = "rest" /\ pending[c] = 0 /\ UNCHANGED payload
     \/ kind[c] \in {"web", "agent"} /\ UNCHANGED payload
     \/ /\ kind[c] = "aws"
        /\ payload' = [payload EXCEPT ![c] =
                         Append(@, [name |-> "onError", op |-> 0, final |-> FALSE])]
  /\ queue' = Append(queue, Says(c, "onError", 0))
  /\ UNCHANGED <<kind, ops, results, db, at, event, cut, told>>

CutOffSameGeneration(c, name) ==
  /\ pending[c] # 0
  /\ pending' = [pending EXCEPT ![c] = 0]
  /\ busy' = [busy EXCEPT ![c] = FALSE]
  /\ queue' = Append(queue, Says(c, name, pending[c]))
  /\ cut' = [cut EXCEPT ![c] = @ \cup {pending[c]}]
  /\ UNCHANGED <<kind, gen, values, worker, results, payload, db, event, told>>

(* The end of an operation that no answer brought: its generation moves on, *)
(* and with it every report of its thread is stale.                         *)
CutOff(c, name) ==
  /\ pending[c] # 0
  /\ gen' = [gen EXCEPT ![c] = @ + 1]
  /\ pending' = [pending EXCEPT ![c] = 0]
  /\ busy' = [busy EXCEPT ![c] = FALSE]
  /\ queue' = Append(queue, Says(c, name, pending[c]))
  /\ cut' = [cut EXCEPT ![c] = @ \cup {pending[c]}]
  /\ UNCHANGED <<kind, values, worker, results, payload, db, event, told>>

Cancel(c) == at = "handler" /\ CutOff(c, "onCancelled") /\ UNCHANGED at

(* SqlDatabase Open and Close, both synchronous.                            *)
OpenDb(c) ==
  /\ at = "handler" /\ kind[c] = "sql" /\ opened < LastHandle /\ RoomInQueue
  /\ opened' = opened + 1
  /\ handle' = [handle EXCEPT ![c] = opened + 1]
  /\ home' = home \cup {opened + 1}
  /\ queue' = Append(queue, Says(c, "onConnectOk", 0))
  /\ UNCHANGED <<kind, ops, results, payload, lent, at, event, cut, told>>

CloseDb(c) ==
  /\ at = "handler" /\ kind[c] = "sql" /\ handle[c] # 0
  /\ home' = home \ {handle[c]} /\ lent' = lent \ {handle[c]}
  /\ UNCHANGED <<kind, ops, results, events, handle, opened, at, event, cut, told>>

-----------------------------------------------------------------------------
(* The threads.                                                             *)

Answer(w, out, calls) == [ctrl |-> w.ctrl, op |-> w.op, out |-> out, db |-> w.db, calls |-> calls]

(* A thread reports whenever it is done.  A report that comes in during the *)
(* sweep, or as an event is handed out, is one of the handler that follows. *)
MayReport == at \in {"handler", "drain"}

(* A thread ends with its answer; AWS threads keep the time themselves.     *)
EndOfOp(w) ==
  /\ MayReport
  /\ w.does = "op" /\ kind[w.ctrl] # "agent"
  /\ \E out \in {"done", "error"} \cup (IF kind[w.ctrl] = "aws" THEN {"timeout"} ELSE {}) :
       results' = Append(results, Answer(w, out, <<>>))
  /\ worker' = worker \ {w}
  /\ UNCHANGED <<kind, gen, pending, busy, values, events, db, at, event, cut, told>>

(* KbProgress; one word per thread is enough.                               *)
Progress(w) ==
  /\ MayReport
  /\ w.does = "op" /\ kind[w.ctrl] = "kb" /\ ~w.said
  /\ results' = Append(results, Answer(w, "progress", <<>>))
  /\ worker' = (worker \ {w}) \cup {[w EXCEPT !.said = TRUE]}
  /\ UNCHANGED <<kind, gen, pending, busy, values, events, db, at, event, cut, told>>

-----------------------------------------------------------------------------
(* drain_async_ops.                                                         *)

GiveBackIfLive(r) ==
  IF r.op = gen[r.ctrl]
  THEN /\ home' = IF r.db \in lent THEN home \cup {r.db} ELSE home
       /\ lent' = lent \ {r.db}
  ELSE UNCHANGED <<home, lent>>

(* A lent connection goes home first, whatever became of its statement; one *)
(* closed meanwhile is dropped.                                             *)
GiveBack(r) == /\ home' = IF r.db \in lent THEN home \cup {r.db} ELSE home
               /\ lent' = lent \ {r.db}

StaleNever(r) == FALSE
Stale(r) == r.op # gen[r.ctrl]

(* completion_event_for: a WebSearch has an event of its own, raised first. *)
Completion(c) == IF kind[c] = "web" THEN <<"onResultsReceived", "onComplete">> ELSE <<"onComplete">>

(* One result that no generation has left behind.  RestClient, WebSearch and*)
(* SqlDatabase properties are written here; those of a KnowledgeBase and of *)
(* an AWS control travel with their event.                                  *)
Apply(r) ==
  LET c == r.ctrl
      carry(name, final) == payload' = [payload EXCEPT ![c] =
                              Append(@, [name |-> name, op |-> r.op, final |-> final])]
      raise(names) == queue' = queue \o [i \in DOMAIN names |-> Says(c, names[i], r.op)]
      write == /\ busy' = [busy EXCEPT ![c] = FALSE]
               /\ values' = [values EXCEPT ![c] = r.op]
  IN \/ /\ r.out = "progress"
        /\ raise(<<"onProgress">>) /\ carry("onProgress", FALSE)
        /\ UNCHANGED <<pending, busy, values>>
     \/ /\ r.out # "progress"
        /\ pending' = [pending EXCEPT ![c] = 0]
        /\ CASE kind[c] \in {"rest", "web"} ->
                  /\ raise(IF r.out = "done" THEN Completion(c) ELSE <<"onError">>)
                  /\ write /\ UNCHANGED payload
             [] kind[c] = "sql" ->
                  /\ raise(IF r.out = "done" THEN <<"onQueryComplete">> ELSE <<"onQueryError">>)
                  /\ write /\ UNCHANGED payload
             [] kind[c] = "kb" ->
                  LET name == IF r.out = "done" THEN "onIndexed" ELSE "onError"
                  IN raise(<<name>>) /\ carry(name, TRUE) /\ UNCHANGED <<busy, values>>
             [] kind[c] = "aws" ->
                  /\ UNCHANGED <<busy, values>>
                  /\ CASE r.out = "done"    -> raise(<<"onInvoked", "onComplete">>)
                                               /\ carry("onInvoked", TRUE)
                       [] r.out = "error"   -> raise(<<"onError">>) /\ carry("onError", TRUE)
                       [] r.out = "timeout" -> raise(<<"onTimeout">>) /\ carry("onTimeout", TRUE)

Deliver ==
  /\ at = "drain" /\ results # <<>>
  /\ LET r == Head(results)
     IN /\ kind[r.ctrl] # "agent"
        /\ GiveBack(r)
        /\ IF Stale(r) THEN UNCHANGED <<pending, busy, values, events>> ELSE Apply(r)
  /\ results' = Tail(results)
  /\ UNCHANGED <<kind, gen, worker, handle, opened, at, event, cut, told>>

Drained == /\ at = "drain" /\ results = <<>>
           /\ at' = "sweep"
           /\ UNCHANGED <<kind, ops, results, events, db, event, cut, told>>

(* The sweep: a KnowledgeBase and an AWS operation have no limit here.      *)
Timeout(c) == /\ at = "sweep" /\ kind[c] \in {"rest", "web", "sql", "agent"}
              /\ CutOff(c, "onTimeout")
              /\ UNCHANGED at

Swept == /\ at = "sweep"
         /\ at' = "pop"
         /\ UNCHANGED <<kind, ops, results, events, db, event, cut, told>>

-----------------------------------------------------------------------------
(* next_wait_outcome.                                                       *)

CarriesAny(e) == payload[e.ctrl] # <<>>

(* The values an event carries are written as it leaves the queue: the next *)
(* of the control's payloads if the event is one that a KnowledgeBase       *)
(* raises, for an AWS control only if that payload is the event's own.      *)
Carries(e) ==
  /\ payload[e.ctrl] # <<>>
  /\ \/ kind[e.ctrl] = "kb" /\ e.name \in {"onProgress", "onIndexed", "onError"}
     \/ kind[e.ctrl] = "aws" /\ Head(payload[e.ctrl]).name = e.name

ApplyPayload(e) ==
  IF ~Carries(e) THEN UNCHANGED <<payload, values, busy>>
  ELSE LET p == Head(payload[e.ctrl])
       IN /\ payload' = [payload EXCEPT ![e.ctrl] = Tail(@)]
          /\ values' = IF p.final THEN [values EXCEPT ![e.ctrl] = p.op] ELSE values
          /\ busy' = IF p.final THEN [busy EXCEPT ![e.ctrl] = FALSE] ELSE busy

Dispatch ==
  /\ at = "pop" /\ queue # <<>>
  /\ LET e == Head(queue)
     IN /\ ApplyPayload(e)
        /\ event' = e
        /\ told' = IF Ends(e) THEN [told EXCEPT ![e.ctrl] = Append(@, e.op)] ELSE told
  /\ queue' = Tail(queue)
  /\ at' = "handler"
  /\ UNCHANGED <<kind, gen, pending, worker, results, db, cut>>

(* Nothing to hand out: poll again while something is in flight, or take an *)
(* event of the form.                                                       *)
Poll == /\ at = "pop" /\ queue = <<>> /\ \E c \in Control : pending[c] # 0
        /\ at' = "drain"
        /\ UNCHANGED <<kind, ops, results, events, db, event, cut, told>>

TakeUiEvent == /\ at = "pop" /\ queue = <<>>
               /\ at' = "handler" /\ event' = UiEvent
               /\ UNCHANGED <<kind, ops, results, events, db, cut, told>>
=============================================================================
