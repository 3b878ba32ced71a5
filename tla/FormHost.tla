------------------------------ MODULE FormHost ------------------------------
(***************************************************************************)
(* The GUI host (crates/cobolt-form-host/src/host.rs, shell.rs) between    *)
(* the window supervisor and the programs: one interpreter thread per      *)
(* form, which asks the host through one queue and may block for the       *)
(* answer; the host's frame, which takes the requests, the clicks of the   *)
(* user and the ends of the programs one at a time, calls the supervisor   *)
(* and performs the actions it returns; the ContentPanes of the windows    *)
(* that run as a shell; and the broadcast of closed handles.               *)
(*                                                                         *)
(* Each thing a frame does is a step, in any order: a frame's fixed order  *)
(* says nothing of when a thread, a click or a queue delivers.  A program  *)
(* is known by what it asks of the host; its state, one windowHandler      *)
(* variable and `super` are enough for that.                               *)
(***************************************************************************)
EXTENDS FormSupervisor

CONSTANTS ShellForm,    \* forms that carry a SideMenu: their windows run as a shell
          BrokenForm,   \* forms that cannot be built
          Error,        \* the answer to a call through a closed handle
          Done,         \* the answer to a method that returns nothing
          Guarded,      \* bound: the forms whose programs ever set FormState
          MaxRequests   \* bound: requests queued at once

ASSUME AskersAssumption == Asker = Handle
ASSUME BuiltAssumption  == ShellForm \subseteq Form /\ BrokenForm \subseteq Form \ StartForms
ASSUME AnswersAssumption == Error \notin Handle \cup {None} /\ Done \notin Handle \cup {None, Error}
ASSUME RequestsAssumption == MaxRequests \in Nat /\ Guarded \subseteq Handle

VARIABLES
  work,       \* apply_host_actions: the actions still to perform
  bodies,     \* the windows and pane occupants there are, with their form and pane
  top,        \* the form on top of each window's NavChain; None: the window's own
  closing,    \* the root window was told to close, and its program to quit
  requests,   \* the FormRequest channel
  mirror,     \* the root program's writes of FormState the host has not drained
  prog,       \* each form's interpreter: "none", "running", "asking", "ended"
  answer,     \* the answer waiting for an asking interpreter, as {} or {a}
  quits,      \* the interpreters that were sent the quit event
  state,      \* FormState, as each program last set it: TRUE is Waiting
  var,        \* a windowHandler variable of each program
  super,      \* super_window_handle
  inbox       \* the closed handles each program was told of and has not drained

host     == <<work, bodies, top, closing>>
programs == <<prog, quits, state, var, super, inbox>>
vars     == <<supervisor, host, requests, mirror, answer, programs>>

Item == [do : {"Spawn", "CloseWindow", "Closed", "Release", "Retire"}, handle : Handle]
        \cup [do : {"Exit"}]
Request == [type : {"Open"}, asker : Handle \cup {None}, caller : Handle, form : Form,
            sync : BOOLEAN, modal : BOOLEAN]
           \cup [type : {"Close"}, asker : Handle, target : Handle]
           \cup [type : {"CloseSelf"}, target : Handle]

Init ==
  /\ SupervisorInit
  /\ work = <<>> /\ requests = <<>> /\ mirror = <<>>
  /\ bodies = [h \in {Root} |-> [form |-> handles[Root].form, pane |-> None]]
  /\ top = [h \in Handle |-> None]
  /\ closing = FALSE
  /\ prog = [h \in Handle |-> IF h = Root THEN "running" ELSE "none"]
  /\ answer = [h \in Handle |-> {}]
  /\ quits = {}
  /\ state = [h \in Handle |-> FALSE]
  /\ var = [h \in Handle |-> None]
  /\ super = [h \in Handle |-> None]
  /\ inbox = [h \in Handle |-> {}]
-----------------------------------------------------------------------------
(* The host: what a call of the supervisor returned joins the worklist, and *)
(* its answers reach the threads that wait for them.                       *)
Do(what, h) == [do |-> what, handle |-> h]

ClosingsOfFirst(closed) ==
  [i \in 1 .. (IF closed = <<>> THEN 0 ELSE 2) |->
     Do(IF i % 2 = 1 THEN "CloseWindow" ELSE "Closed", closed[1])]

Closings(closed) ==
  [i \in 1 .. 2 * Len(closed) |->
     Do(IF i % 2 = 1 THEN "CloseWindow" ELSE "Closed", closed[(i + 1) \div 2])]

Returned == (IF out'.spawn # None THEN <<Do("Spawn", out'.spawn)>> ELSE <<>>)
            \o Closings(out'.closed)
            \o (IF out'.exit THEN <<[do |-> "Exit"]>> ELSE <<>>)

Answered == [h \in Handle |-> answer[h] \cup {a[2] : a \in {b \in out'.answers : b[1] = h}}]

IsWindow(h)     == h \in DOMAIN bodies /\ bodies[h].pane = None
OccupantsOf(o)  == {h \in DOMAIN bodies : bodies[h].pane = o}
Occupant(o, f)  == {h \in OccupantsOf(o) : bodies[h].form = f}
NoBody(S)       == [h \in DOMAIN bodies \ S |-> bodies[h]]
Body(h, b)      == [x \in DOMAIN bodies \cup {h} |-> IF x = h THEN b ELSE bodies[x]]

ModalChildrenOf(h) == {c \in DOMAIN handles : handles[c].modal /\ handles[c].caller = h}

(* A modal child of the window, or of the form on its pane, blocks it.     *)
Blocked(o) == \E h \in {o} \cup Occupant(o, top[o]) : ModalChildrenOf(h) # {}

(* NotifyClosed goes to every interpreter.  The receivers of one that      *)
(* ended are gone, and a handle that no variable of the program holds, nor *)
(* the answer it is about to read, is drained to no effect: inbox leaves   *)
(* those out.                                                              *)
Running      == {h \in Handle : prog[h] \in {"running", "asking"}}
Holds(h, answers) == {var[h], super[h]} \cup answers[h]
BroadcastToRunning(S, answers) ==
  [h \in Handle |-> inbox[h] \cup IF prog[h] = "running" THEN S \cap Holds(h, answers) ELSE {}]

Broadcast(S, answers) ==
  [h \in Handle |-> inbox[h] \cup IF h \in Running THEN S \cap Holds(h, answers) ELSE {}]

(* The programs among S that get a quit event: a blocked one finds it when *)
(* its call returns.                                                       *)
QuitSentToReady(S) == {h \in S : prog[h] = "running"}

QuitTo(S) == S \cap Running

(* The reply to a method called through the handle h.                      *)
CloseReplyIfOpen(h) == IF IsOpen(h) THEN {Done} ELSE {}

CloseReply(h) == IF IsOpen(h) THEN {Done} ELSE {Error}

(* The host calls the supervisor between two worklists.                    *)
Calls(call) == /\ work = <<>>
               /\ call
               /\ work' = Returned
               /\ UNCHANGED <<bodies, top, closing, programs>>

TakeRequest ==
  /\ requests # <<>>
  /\ requests' = Tail(requests)
  /\ LET r == Head(requests)
     IN  \/ /\ r.type = "Open"
            /\ Calls(OpenForm(r.caller, r.form, r.sync, r.modal, r.asker))
            /\ answer' = Answered
         \/ /\ r.type = "Close"
            /\ Calls(TryClose(r.target))
            /\ answer' = [Answered EXCEPT ![r.asker] =
                            @ \cup CloseReply(r.target)]
         \/ /\ r.type = "CloseSelf"
            /\ Calls(TryClose(r.target))
            /\ answer' = Answered
  /\ UNCHANGED mirror

(* The host mirrors the FormState of the root's form object alone.         *)
TakeMirror ==
  /\ mirror # <<>>
  /\ mirror' = Tail(mirror)
  /\ Calls(NoteFormState(Root, Head(mirror)))
  /\ UNCHANGED <<requests, answer>>

(* update_children: a child window's program ended.                        *)
NoticeFinished(h) ==
  /\ h # Root /\ IsWindow(h) /\ IsOpen(h) /\ prog[h] = "ended"
  /\ Calls(FormFinished(h))
  /\ answer' = Answered
  /\ UNCHANGED <<requests, mirror>>

(* The user closes a window by its title bar, blocked or not.              *)
ClickClose(h) ==
  /\ IsWindow(h)
  /\ h = Root => ~closing
  /\ Calls(TryClose(h))
  /\ answer' = Answered
  /\ UNCHANGED <<requests, mirror>>

(* The root's program ended: the host closes the root window.              *)
RootEnds ==
  /\ prog[Root] = "ended" /\ ~closing
  /\ closing' = TRUE
  /\ out' = Quiet
  /\ UNCHANGED <<handles, next, work, bodies, top, requests, mirror, answer, programs>>
-----------------------------------------------------------------------------
(* apply_host_actions: the first action of the worklist.  What a call of   *)
(* the supervisor returns meanwhile is performed after the rest.           *)
Now(do) == work # <<>> /\ Head(work).do = do

SpawnFailedAlone(h) ==
  /\ work' = Tail(work)
  /\ out' = Quiet
  /\ UNCHANGED <<handles, next, answer>>

SpawnFailed(h) ==
  /\ FormFinished(h)
  /\ work' = Tail(work) \o Returned
  /\ answer' = Answered

PerformSpawn ==
  /\ Now("Spawn")
  /\ LET h == Head(work).handle
         f == handles[h].form
     IN  IF f \in BrokenForm
           THEN SpawnFailed(h) /\ UNCHANGED <<bodies, top, programs>>
           ELSE /\ bodies' = Body(h, [form |-> f, pane |-> None])
                /\ prog' = [prog EXCEPT ![h] = "running"]
                /\ super' = [super EXCEPT ![h] = handles[h].caller]
                /\ out' = Quiet
                /\ work' = Tail(work)
                /\ UNCHANGED <<handles, next, top, answer, quits, state, var, inbox>>
  /\ UNCHANGED <<closing, requests, mirror>>

(* A window goes with its program told to quit; the forms on its pane go   *)
(* the same way, and the host releases their handles.                      *)
PerformCloseWindow ==
  /\ Now("CloseWindow")
  /\ LET h     == Head(work).handle
         panes == IF h # Root THEN OccupantsOf(h) ELSE {}
         there == {h} \cap DOMAIN bodies
     IN  /\ bodies' = NoBody(there \cup panes)
         /\ quits' = quits \cup QuitTo(there \cup panes)
         /\ closing' = (closing \/ h = Root)
         /\ \E order \in Orders(panes) :
               work' = [i \in DOMAIN order |-> Do("Release", order[i])] \o Tail(work)
  /\ out' = Quiet
  /\ UNCHANGED <<handles, next, top, requests, mirror, answer, prog, state, var, super, inbox>>

PerformRelease ==
  /\ Now("Release")
  /\ FormFinished(Head(work).handle)
  /\ work' = Tail(work) \o Returned
  /\ answer' = Answered
  /\ UNCHANGED <<bodies, top, closing, requests, mirror, programs>>

(* retire_occupants_in: of what the supervisor returns, only the broadcast *)
(* is performed.                                                           *)
PerformRetire ==
  /\ Now("Retire")
  /\ LET h == Head(work).handle
     IN  /\ FormFinished(h)
         /\ inbox' = Broadcast({out'.closed[i] : i \in DOMAIN out'.closed}, Answered)
         /\ bodies' = NoBody({h})
         /\ quits' = quits \cup QuitTo({h})
  /\ work' = Tail(work)
  /\ answer' = Answered
  /\ UNCHANGED <<top, closing, requests, mirror, prog, state, var, super>>

PerformClosed ==
  /\ Now("Closed")
  /\ inbox' = Broadcast({Head(work).handle}, answer)
  /\ work' = Tail(work)
  /\ out' = Quiet
  /\ UNCHANGED <<handles, next, bodies, top, closing, requests, mirror, answer,
                 prog, quits, state, var, super>>

PerformExit ==
  /\ Now("Exit")
  /\ quits' = quits \cup QuitTo({Root})
  /\ closing' = TRUE
  /\ work' = Tail(work)
  /\ out' = Quiet
  /\ UNCHANGED <<handles, next, bodies, top, requests, mirror, answer,
                 prog, state, var, super, inbox>>

Perform == \/ PerformSpawn \/ PerformCloseWindow \/ PerformRelease
           \/ PerformRetire \/ PerformClosed \/ PerformExit
-----------------------------------------------------------------------------
(* The shell of the window o: its menu and its breadcrumb, which wait      *)
(* while a modal child blocks the window.                                  *)
Shell(o) == /\ work = <<>>
            /\ IsWindow(o) /\ bodies[o].form \in ShellForm /\ ~Blocked(o)

(* The bound: nothing asks for a window when no handle is left for it.     *)
Room == next + Cardinality({i \in DOMAIN requests : requests[i].type = "Open"}) <= LastHandle

Displayed(o) == Occupant(o, top[o])
Retiring(S)  == {[i \in DOMAIN order |-> Do("Retire", order[i])] : order \in Orders(S)}

NewOccupant(o, f) ==
  /\ OpenEmbedded(o, f)
  /\ bodies' = Body(next, [form |-> f, pane |-> o])
  /\ prog' = [prog EXCEPT ![next] = "running"]
  /\ super' = [super EXCEPT ![next] = o]

(* An open-form item of a form without a SideMenu of its own: it takes the *)
(* pane, and the form it replaces is retired unless the item preserves it. *)
LoadForm(o, f, preserve) ==
  /\ Shell(o)
  /\ f \notin ShellForm /\ top[o] # f
  /\ Room \/ Occupant(o, f) # {}
  /\ IF f \in BrokenForm
       THEN /\ OpenEmbedded(o, f)
            /\ work' = <<Do("Retire", next)>>
            /\ UNCHANGED <<bodies, top, prog, super>>
       ELSE /\ IF Occupant(o, f) = {}
                 THEN NewOccupant(o, f)
                 ELSE out' = Quiet /\ UNCHANGED <<handles, next, bodies, prog, super>>
            /\ top' = [top EXCEPT ![o] = f]
            /\ work' \in Retiring(IF preserve THEN {} ELSE Displayed(o))
  /\ UNCHANGED <<closing, requests, mirror, answer, quits, state, var, inbox>>

(* The displayed form starts over: its instance is retired, a fresh one     *)
(* takes its place.                                                        *)
ResetForm(o) ==
  /\ Shell(o)
  /\ top[o] # None /\ Room
  /\ NewOccupant(o, top[o])
  /\ work' \in Retiring(Displayed(o))
  /\ UNCHANGED <<top, closing, requests, mirror, answer, quits, state, var, inbox>>

(* Home parks what the pane displays; the window's own segment of the      *)
(* breadcrumb retires it.                                                  *)
ShowOwnForm(o, retire) ==
  /\ Shell(o)
  /\ top[o] # None
  /\ top' = [top EXCEPT ![o] = None]
  /\ work' \in Retiring(IF retire THEN Displayed(o) ELSE {})
  /\ out' = Quiet
  /\ UNCHANGED <<handles, next, bodies, closing, requests, mirror, answer, programs>>

(* close-application: the program of the window is told to quit.           *)
CloseApplication(o) ==
  /\ Shell(o)
  /\ quits' = quits \cup QuitTo({o})
  /\ out' = Quiet
  /\ UNCHANGED <<handles, next, host, requests, mirror, answer,
                 prog, state, var, super, inbox>>

(* An item that opens a window of its own: nobody waits for the answer.    *)
OpenFromMenu(o, f, sync) ==
  /\ Shell(o)
  /\ Room /\ Len(requests) < MaxRequests
  /\ requests' = Append(requests, [type |-> "Open", asker |-> None, caller |-> o,
                                   form |-> f, sync |-> sync, modal |-> sync])
  /\ out' = Quiet
  /\ UNCHANGED <<handles, next, host, mirror, answer, programs>>
-----------------------------------------------------------------------------
(* The programs.                                                           *)
Known(h, v) == IF v \in inbox[h] THEN None ELSE v

(* drain_closed_handles, at the start of every window call.                *)
Drain(h) == /\ var' = [var EXCEPT ![h] = Known(h, @)]
            /\ super' = [super EXCEPT ![h] = Known(h, @)]
            /\ inbox' = [inbox EXCEPT ![h] = {}]

Sends(h, r) == /\ prog[h] = "running"
               /\ Len(requests) < MaxRequests
               /\ requests' = Append(requests, r)
               /\ Drain(h)
               /\ out' = Quiet
               /\ UNCHANGED <<handles, next, host, mirror, answer, quits, state>>

(* The form itself is the caller, or the root for a window that a SideMenu *)
(* of the form opens.                                                      *)
AskOpen(h, f, sync, modal) ==
  /\ modal => sync
  /\ Room
  /\ \E caller \in {h} \cup (IF h \in DOMAIN bodies /\ bodies[h].form \in ShellForm
                              THEN {Root} ELSE {}) :
        Sends(h, [type |-> "Open", asker |-> h, caller |-> caller, form |-> f,
                  sync |-> sync, modal |-> modal])
  /\ prog' = [prog EXCEPT ![h] = "asking"]

AskClose(h) ==
  /\ \E target \in {Known(h, var[h]), Known(h, super[h])} \ {None} :
        Sends(h, [type |-> "Close", asker |-> h, target |-> target])
  /\ prog' = [prog EXCEPT ![h] = "asking"]

CloseSelf(h) == Sends(h, [type |-> "CloseSelf", target |-> h]) /\ UNCHANGED prog

SetFormState(h) ==
  /\ h \in Guarded /\ prog[h] = "running"
  /\ state' = [state EXCEPT ![h] = ~@]
  /\ IF h = Root
       THEN Len(mirror) < MaxRequests /\ mirror' = Append(mirror, state'[h])
       ELSE UNCHANGED mirror
  /\ out' = Quiet
  /\ UNCHANGED <<handles, next, host, requests, answer, prog, quits, var, super, inbox>>

(* A program that ends leaves nothing behind.                              *)
Over(h) == /\ prog' = [prog EXCEPT ![h] = "ended"]
           /\ quits' = quits \ {h}
           /\ state' = [state EXCEPT ![h] = FALSE]
           /\ var' = [var EXCEPT ![h] = None]
           /\ super' = [super EXCEPT ![h] = None]
           /\ inbox' = [inbox EXCEPT ![h] = {}]

(* The blocked call returns; an error ends the program.                    *)
Resume(h) ==
  /\ prog[h] = "asking" /\ answer[h] # {}
  /\ IF Error \in answer[h]
       THEN Over(h)
       ELSE /\ prog' = [prog EXCEPT ![h] = "running"]
            /\ var' = [var EXCEPT ![h] = IF Done \in answer[h] THEN @ ELSE CHOOSE a \in answer[h] : TRUE]
            /\ inbox' = [inbox EXCEPT ![h] = @ \cap {var'[h], super[h]}]
            /\ UNCHANGED <<quits, state, super>>
  /\ answer' = [answer EXCEPT ![h] = {}]
  /\ out' = Quiet
  /\ UNCHANGED <<handles, next, host, requests, mirror>>

Ends(h) ==
  /\ prog[h] = "running"
  /\ Over(h)
  /\ out' = Quiet
  /\ UNCHANGED <<handles, next, host, requests, mirror, answer>>

(* STOP RUN, or a runtime error.                                           *)
Stop(h) == h \notin quits /\ Ends(h)

(* The event loop takes the quit event.                                    *)
Quit(h) == h \in quits /\ Ends(h)
-----------------------------------------------------------------------------
Program(h) == \/ \E f \in Form, sync, modal \in BOOLEAN : AskOpen(h, f, sync, modal)
              \/ AskClose(h) \/ CloseSelf(h) \/ SetFormState(h)
              \/ Resume(h) \/ Stop(h) \/ Quit(h)

User(o) == \/ ClickClose(o)
           \/ \E f \in Form, preserve \in BOOLEAN : LoadForm(o, f, preserve)
           \/ \E retire \in BOOLEAN : ShowOwnForm(o, retire)
           \/ ResetForm(o) \/ CloseApplication(o)
           \/ \E f \in Form, sync \in BOOLEAN : OpenFromMenu(o, f, sync)

Frame == TakeRequest \/ TakeMirror \/ RootEnds \/ \E h \in Handle : NoticeFinished(h)

(* With the root window closed and the worklist empty, the process ends.   *)
Next == \/ Perform
        \/ ~closing /\ (Frame \/ \E h \in Handle : User(h) \/ Program(h))

Spec == Init /\ [][Next]_vars

(* Frames go on for as long as the root window is there, and each drains   *)
(* what waits for it.  A thread whose answer came wakes up; one that was   *)
(* sent the quit event takes it at one of its waits for an event, however  *)
(* often its handlers ask the host for something before.                   *)
Fairness == /\ WF_vars(Perform)
            /\ WF_vars(~closing /\ TakeRequest) /\ WF_vars(~closing /\ TakeMirror)
            /\ \A h \in Handle : /\ WF_vars(~closing /\ NoticeFinished(h))
                                  /\ WF_vars(~closing /\ Resume(h))
                                  /\ SF_vars(~closing /\ Quit(h))

FairSpec == Spec /\ Fairness
-----------------------------------------------------------------------------
(* A program blocked in a window call is never forgotten: its request is   *)
(* in the queue, or its answer is there, or one live modal window holds    *)
(* the answer back, and exactly one of the three.                          *)
Queued(h) == {i \in DOMAIN requests : requests[i].type \in {"Open", "Close"} /\ requests[i].asker = h}
Holding(h) == {c \in DOMAIN handles : handles[c].asker = h}
BlockedCallIsPending ==
  \A h \in Handle : Cardinality(Queued(h)) + Cardinality(Holding(h)) + Cardinality(answer[h])
                     = IF prog[h] = "asking" THEN 1 ELSE 0

(* A windowHandler variable names an open form, or its program was told    *)
(* that the form closed and drains that before it next uses the variable.  *)
Told(h, v) == v \in inbox[h] \/ \E i \in DOMAIN work : work[i] = Do("Closed", v)
HandleVariablesAreLive ==
  \A h \in Handle : (h \in Running /\ var[h] # None)
                    => IsOpen(var[h]) \/ Told(h, var[h])

(* Between two worklists, what is on the screen is what the supervisor     *)
(* knows: no handle without its window, and no window without its handle.  *)
EveryHandleHasItsWindow == work = <<>> => DOMAIN handles \subseteq DOMAIN bodies
EveryWindowHasItsHandle == work = <<>> => DOMAIN bodies \subseteq DOMAIN handles

(* "While a form is Waiting it cannot be closed by ANY path": a form whose *)
(* program set Waiting, and whose writes the host has drained, is not      *)
(* closed while its program goes on.  A program that has ended already,    *)
(* by itself or because the application closes, is not counted.            *)
WaitingFormStaysOpen ==
  [][\A h \in DOMAIN handles \ DOMAIN handles' :
        ~(state[h] /\ mirror = <<>> /\ prog[h] = "running")]_vars

(* Whoever asks is answered, unless it waits for a modal window that the   *)
(* user has open, or the application closes.                               *)
AskersResume ==
  \A h \in Handle : (prog[h] = "asking" /\ Holding(h) = {})
                    ~> (prog[h] # "asking" \/ Holding(h) # {} \/ closing)

(* The program of a form that is closed ends, with the same exceptions.    *)
ClosedFormsEnd ==
  \A h \in Handle : (h < next /\ ~IsOpen(h) /\ Holding(h) = {})
                    ~> (prog[h] \in {"none", "ended"} \/ Holding(h) # {} \/ closing)
=============================================================================
