--------------------------- MODULE FormSupervisor ---------------------------
(***************************************************************************)
(* The multi-form window supervisor (crates/cobolt-runtime/src/            *)
(* form_host.rs): handles, the main-form singleton, the FormState veto,    *)
(* the close cascade and the held reply of a modal OpenForm.  It is pure   *)
(* logic: a call changes the table of handles and returns the actions the  *)
(* GUI host must perform and the answers sent to the callers.  Here every  *)
(* call may come at any time, as from any host; FormHost composes it with  *)
(* the host and the programs.                                              *)
(*                                                                         *)
(* Left out: the published properties, the window-state methods and the    *)
(* menu pane, which touch no lifecycle rule.                               *)
(***************************************************************************)
EXTENDS Naturals, FiniteSets, Sequences

CONSTANTS Form,         \* form ids
          MainForm,     \* the project's main form
          StartForms,   \* the forms the process may start with
          LastHandle,   \* bound: the handles are W0 .. W<LastHandle>
          DepthGuard,   \* the cycle guard of depth_of: 64
          Asker,        \* whoever may wait for the answer to an OpenForm
          None

ASSUME FormAssumption   == MainForm \in Form /\ StartForms \subseteq Form
ASSUME HandleAssumption == LastHandle \in Nat /\ DepthGuard \in Nat
ASSUME NobodyAssumption == None \notin Nat \cup Asker

Root   == 0
Handle == 0 .. LastHandle
Kind   == {"Root", "Sync", "Async", "Embedded"}

VARIABLES handles,      \* the live handles, each with its HandleInfo
          next,         \* next_handle
          out           \* what the last call returned, and the answers it sent

supervisor == <<handles, next, out>>

HandleInfo == [form : Form, kind : Kind, caller : Handle \cup {None},
               modal : BOOLEAN, waiting : BOOLEAN, asker : Asker \cup {None}]

IsOpen(h) == h \in DOMAIN handles

With(h, info) == [x \in DOMAIN handles \cup {h} |-> IF x = h THEN info ELSE handles[x]]

(* What a call gives back: the window to spawn, the handles closed, in the *)
(* order of their CloseWindow and NotifyClosed, the handles told           *)
(* onCloseRejected, whether the process may exit, and the answers.         *)
Quiet == [call |-> "other", spawn |-> None, closed |-> <<>>, rejected |-> {}, exit |-> FALSE, answers |-> {}]

Answer(a, v) == IF a = None THEN {} ELSE {<<a, v>>}

Fresh(f, kind, caller, modal, a) ==
  [form |-> f, kind |-> kind, caller |-> caller, modal |-> modal, waiting |-> FALSE,
   asker |-> a]

SupervisorInit == /\ \E f \in StartForms :
                        handles = [h \in {Root} |-> Fresh(f, "Root", None, FALSE, None)]
                  /\ next = 1
                  /\ out = Quiet
-----------------------------------------------------------------------------
(* The windows h opened, of either kind: not the occupants of its pane.    *)
WindowChildren(h) ==
  {c \in DOMAIN handles : handles[c].kind \in {"Sync", "Async"} /\ handles[c].caller = h}

(* The children, their children, and so on: the least set closed under     *)
(* WindowChildren.                                                         *)
Subtree(h) ==
  {c \in DOMAIN handles :
     \A S \in SUBSET DOMAIN handles :
        (\A p \in S \cup {h} : WindowChildren(p) \subseteq S) => c \in S}

(* The caller of h, its caller, and so on: the least set closed under the  *)
(* caller links.  The last of them may be closed already.                  *)
Callers(h) ==
  {p \in Handle :
     \A S \in SUBSET Handle :
        (\A c \in (S \cup {h}) \cap DOMAIN handles : handles[c].caller \in S \cup {None})
        => p \in S}

(* depth_of counts the callers, and stops past its cycle guard.            *)
Depth(h) == LET n == Cardinality(Callers(h))
            IN  IF n > DepthGuard THEN DepthGuard + 1 ELSE n

(* root_is_main: the main form takes every open form with it.              *)
ClosesEverything(h) == h = Root /\ handles[Root].form = MainForm

VictimsOnlyChildren(h) ==
  IF ClosesEverything(h) THEN DOMAIN handles ELSE WindowChildren(h) \cup {h}

Victims(h) == IF ClosesEverything(h) THEN DOMAIN handles ELSE Subtree(h) \cup {h}

WaitingIn(S) == {h \in S \cap DOMAIN handles : handles[h].waiting}

(* The Waiting forms that keep h open.                                     *)
BlockingItself(h) == WaitingIn({h})
BlockingOthers(h) == WaitingIn(Victims(h) \ {h})

Blocking(h) == WaitingIn(Victims(h))

Orders(S) ==
  {s \in [1 .. Cardinality(S) -> S] : \A i, j \in DOMAIN s : i < j => s[i] # s[j]}

(* The orders the cascade may close S in: deepest first, ties in the order *)
(* of the HashMap.                                                         *)
ShallowestFirst(S) ==
  {s \in Orders(S) : \A i, j \in DOMAIN s : i < j => Depth(s[i]) <= Depth(s[j])}

DeepestFirst(S) ==
  {s \in Orders(S) : \A i, j \in DOMAIN s : i < j => Depth(s[i]) >= Depth(s[j])}

(* A form that finished has its subtree closed one window after the other, *)
(* in the order of a HashMap, each with what it opened before it.          *)
ChildrenFirst(S) ==
  {s \in Orders(S) : \A i, j \in DOMAIN s : i < j => handles[s[j]].caller # s[i]}

(* The table without S, and no caller link to a handle of S.               *)
WithoutAsIs(S) == [h \in DOMAIN handles \ S |-> handles[h]]

Without(S) ==
  [h \in DOMAIN handles \ S |->
     IF handles[h].caller \in S THEN [handles[h] EXCEPT !.caller = None] ELSE handles[h]]

HeldAnswersOfTop(S) ==
  UNION {Answer(handles[h].asker, None) : h \in {c \in S : handles[c].caller \notin S}}

HeldAnswers(S) == UNION {Answer(handles[h].asker, None) : h \in S}

EmptiesWithRoot(S) == Root \in S

Empties(S) == DOMAIN handles = S

(* The live instance of the main form, when f is the main form.            *)
RunningIfStarted(f) ==
  {h \in {Root} \cap DOMAIN handles : f = MainForm /\ handles[h].form = MainForm}

RunningMain(f) == {h \in DOMAIN handles : f = MainForm /\ handles[h].form = MainForm}

(* An Async form is never modal.                                           *)
HeldAsAsked(sync, modal) == modal

Held(sync, modal) == sync /\ modal
-----------------------------------------------------------------------------
(* me::"OpenFormSync" / "OpenFormAsync".  The caller is the handle the     *)
(* request names, whether or not it is still open.                         *)
OpenForm(caller, f, sync, modal, a) ==
  \/ /\ \E h \in RunningMain(f) : out' = [Quiet EXCEPT !.answers = Answer(a, h)]
     /\ UNCHANGED <<handles, next>>
  \/ /\ RunningMain(f) = {}
     /\ next <= LastHandle
     /\ LET held == Held(sync, modal)
        IN  /\ handles' = With(next, Fresh(f, IF sync THEN "Sync" ELSE "Async", caller, held,
                                           IF held THEN a ELSE None))
            /\ out' = [Quiet EXCEPT !.spawn = next,
                                    !.answers = IF held THEN {} ELSE Answer(a, next)]
     /\ next' = next + 1

(* The shell loads a form into the ContentPane of the window `caller`.     *)
OpenEmbedded(caller, f) ==
  /\ next <= LastHandle
  /\ handles' = With(next, Fresh(f, "Embedded", caller, FALSE, None))
  /\ next' = next + 1
  /\ out' = Quiet

NoteFormState(h, waiting) ==
  /\ handles' = IF IsOpen(h) THEN [handles EXCEPT ![h].waiting = waiting] ELSE handles
  /\ out' = Quiet
  /\ UNCHANGED next

(* A close is refused as a whole by any Waiting form it would take.        *)
Veto(h) ==
  /\ \E w \in Blocking(h) : out' = [Quiet EXCEPT !.call = "close", !.rejected = {w, h}]
  /\ UNCHANGED <<handles, next>>

CloseAll(h) ==
  /\ Blocking(h) = {}
  /\ handles' = Without(Victims(h))
  /\ \E order \in DeepestFirst(Victims(h)) :
        out' = [Quiet EXCEPT !.call = "close",
                             !.closed = order,
                             !.answers = HeldAnswers(Victims(h)),
                             !.exit = Empties(Victims(h))]
  /\ UNCHANGED next

(* The one close path: the X of a title bar, a handle's Close, me::"Close".*)
TryClose(h) ==
  \/ ~IsOpen(h) /\ out' = Quiet /\ UNCHANGED <<handles, next>>
  \/ IsOpen(h) /\ Veto(h)
  \/ IsOpen(h) /\ CloseAll(h)

(* The windows under h that its end takes along: try_close is tried on     *)
(* each of the subtree, and a Waiting form saves itself and its callers.   *)
TakenNone(h) == {}

Taken(h) == {c \in Subtree(h) : Blocking(c) = {}}

(* The program of h ended by itself, or its window could not be built.     *)
FormFinished(h) ==
  IF IsOpen(h)
    THEN LET gone == Taken(h) \cup {h}
         IN  /\ handles' = Without(gone)
             /\ \E order \in ChildrenFirst(Taken(h)) :
                   out' = [Quiet EXCEPT !.call = "finished",
                                        !.closed = <<h>> \o order,
                                        !.rejected = Subtree(h) \ Taken(h),
                                        !.answers = HeldAnswers(gone),
                                        !.exit = Empties(gone)]
             /\ UNCHANGED next
    ELSE out' = Quiet /\ UNCHANGED <<handles, next>>
=============================================================================
