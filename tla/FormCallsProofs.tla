-------------------------- MODULE FormCallsProofs --------------------------
(***************************************************************************)
(* The rules of the window supervisor, for every number of forms and of    *)
(* handles, whatever calls a host makes and in whatever order.             *)
(***************************************************************************)
EXTENDS FormCalls, FiniteSetTheorems, TLAPS

-----------------------------------------------------------------------------
(* What a call does to the table, and nothing else of it.                   *)
Adds(h, info) == h = next /\ next <= LastHandle /\ next' = next + 1 /\ handles' = With(h, info)
Drops(S)      == handles' = Without(S) /\ next' = next

LEMMA IssuedHandle == ASSUME TypeOK PROVE Issued \subseteq Nat /\ None \notin Issued
  BY HandleAssumption, NobodyAssumption DEF TypeOK, Issued

LEMMA IssuedFinite ==
  ASSUME TypeOK, NEW S, S \subseteq DOMAIN handles PROVE IsFiniteSet(S) /\ Cardinality(S) \in Nat
  <1>1. 0 \in Int /\ next - 1 \in Int
    BY HandleAssumption DEF TypeOK
  <1>2. IsFiniteSet(Issued)
    BY <1>1, FS_Interval DEF Issued
  <1>3. S \subseteq Issued
    BY DEF TypeOK
  <1> QED BY <1>2, <1>3, FS_Subset, FS_CardinalityType

(* An order of a set is a sequence of its members.                          *)
LEMMA OrderIsSeq ==
  ASSUME TypeOK, NEW S, S \subseteq DOMAIN handles, NEW s \in Orders(S)
  PROVE  s \in Seq(S)
  <1>1. Cardinality(S) \in Nat
    BY IssuedFinite
  <1>2. s \in [1 .. Cardinality(S) -> S]
    BY DEF Orders
  <1> QED BY <1>1, <1>2

LEMMA AtMostOne ==
  ASSUME NEW S, \A x, y \in S : x = y PROVE Cardinality(S) <= 1
  <1>1. CASE S = {}
    BY <1>1, FS_EmptySet
  <1>2. CASE S # {}
    <2>1. PICK x \in S : TRUE
      BY <1>2
    <2>2. S = {x}
      BY <2>1
    <2> QED BY <2>2, FS_Singleton
  <1> QED BY <1>1, <1>2
-----------------------------------------------------------------------------
(* The windows under a window.                                              *)

(* The subtree is closed: a window opened by one of it is one of it.        *)
LEMMA SubtreeClosed ==
  ASSUME NEW h, NEW p \in Subtree(h) \cup {h}
  PROVE  WindowChildren(p) \subseteq Subtree(h)
  BY DEF Subtree, WindowChildren

LEMMA SubtreeOpen == ASSUME NEW h PROVE Subtree(h) \subseteq DOMAIN handles
  BY DEF Subtree

(* What is under a window under h is under h.                               *)
LEMMA SubtreeTransitive ==
  ASSUME NEW h, NEW p \in Subtree(h) \cup {h}
  PROVE  Subtree(p) \subseteq Subtree(h)
  <1>1. \A q \in Subtree(h) \cup {p} : WindowChildren(q) \subseteq Subtree(h)
    BY SubtreeClosed
  <1>2. Subtree(h) \in SUBSET DOMAIN handles
    BY SubtreeOpen
  <1> QED BY <1>1, <1>2 DEF Subtree

LEMMA VictimsOpen ==
  ASSUME NEW h, IsOpen(h)
  PROVE  Victims(h) \subseteq DOMAIN handles /\ h \in Victims(h)
  BY SubtreeOpen DEF Victims, IsOpen

LEMMA TakenOpen == ASSUME NEW h PROVE Taken(h) \subseteq DOMAIN handles
  BY SubtreeOpen DEF Taken

(* A window that is taken along is not Waiting.                             *)
LEMMA TakenReady ==
  ASSUME NEW h, NEW c \in Taken(h) PROVE ~handles[c].waiting
  <1>1. c \in DOMAIN handles /\ Blocking(c) = {}
    BY TakenOpen DEF Taken
  <1>2. c \in Victims(c)
    BY <1>1, VictimsOpen DEF IsOpen
  <1> QED BY <1>1, <1>2 DEF Blocking, WaitingIn
-----------------------------------------------------------------------------
(* What the calls do to the table and to what they return.                  *)

LEMMA OpenCalls ==
  ASSUME TypeOK, Open \/ Embed
  PROVE  /\ out'.call = "other" /\ out'.closed = <<>> /\ out'.exit = FALSE
         /\ \/ UNCHANGED <<handles, next>>
            \/ \E info \in HandleInfo :
                  /\ Adds(next, info)
                  /\ info.caller \in Issued
                  /\ info.asker # None => info.modal
                  /\ info.modal => info.kind = "Sync"
                  /\ info.kind # "Embedded" => RunningMain(info.form) = {}
  <1>1. ASSUME NEW h \in Issued, NEW f \in Form, NEW sync \in BOOLEAN, NEW modal \in BOOLEAN,
               NEW a \in Idle, OpenForm(h, f, sync, modal, a)
        PROVE  /\ out'.call = "other" /\ out'.closed = <<>> /\ out'.exit = FALSE
               /\ \/ UNCHANGED <<handles, next>>
                  \/ \E info \in HandleInfo :
                        /\ Adds(next, info)
                        /\ info.caller \in Issued
                        /\ info.asker # None => info.modal
                        /\ info.modal => info.kind = "Sync"
                        /\ info.kind # "Embedded" => RunningMain(info.form) = {}
    <2>1. CASE \E g \in RunningMain(f) : out' = [Quiet EXCEPT !.answers = Answer(a, g)]
               /\ UNCHANGED <<handles, next>>
      BY <2>1 DEF Quiet
    <2>2. CASE ~ \E g \in RunningMain(f) : out' = [Quiet EXCEPT !.answers = Answer(a, g)]
               /\ UNCHANGED <<handles, next>>
      <3> DEFINE held == Held(sync, modal)
                 info == Fresh(f, IF sync THEN "Sync" ELSE "Async", h, held,
                               IF held THEN a ELSE None)
      <3>1. /\ RunningMain(f) = {} /\ Adds(next, info)
            /\ out'.call = "other" /\ out'.closed = <<>> /\ out'.exit = FALSE
        BY <1>1, <2>2 DEF OpenForm, Adds, Quiet
      <3>2. h \in Handle /\ a \in Asker
        BY HandleAssumption DEF Issued, Handle, TypeOK, Idle
      <3>3. info \in HandleInfo
        BY <3>2 DEF Fresh, HandleInfo, Held, Kind
      <3>4. /\ info.caller = h /\ info.form = f
            /\ info.asker # None => info.modal
            /\ info.modal => info.kind = "Sync"
        BY DEF Fresh, Held
      <3> QED BY <3>1, <3>3, <3>4
    <2> QED BY <2>1, <2>2
  <1>2. ASSUME NEW h \in Windows, NEW f \in Form, OpenEmbedded(h, f)
        PROVE  /\ out' = Quiet
               /\ \E info \in HandleInfo :
                     /\ Adds(next, info)
                     /\ info.caller \in Issued
                     /\ info.asker # None => info.modal
                     /\ info.modal => info.kind = "Sync"
                     /\ info.kind = "Embedded"
    <2> DEFINE info == Fresh(f, "Embedded", h, FALSE, None)
    <2>1. h \in Issued /\ h \in Handle
      BY HandleAssumption DEF Windows, TypeOK, Issued, Handle
    <2>2. info \in HandleInfo
      BY <2>1 DEF Fresh, HandleInfo, Kind
    <2>3. info.caller = h /\ info.asker = None /\ info.modal = FALSE /\ info.kind = "Embedded"
      BY DEF Fresh
    <2>4. Adds(next, info) /\ out' = Quiet
      BY <1>2 DEF OpenEmbedded, Adds
    <2> QED BY <2>1, <2>2, <2>3, <2>4
  <1>3. CASE Open
    BY <1>3, <1>1 DEF Open
  <1>4. CASE Embed
    <2>1. PICK h \in Windows, f \in Form : OpenEmbedded(h, f)
      BY <1>4 DEF Embed
    <2> QED BY <2>1, <1>2 DEF Quiet
  <1> QED BY <1>3, <1>4

LEMMA CloseCall ==
  ASSUME TypeOK, NEW h \in Issued, TryClose(h)
  PROVE  \/ /\ UNCHANGED <<handles, next>>
            /\ out'.closed = <<>> /\ out'.exit = FALSE
         \/ /\ IsOpen(h) /\ Blocking(h) = {}
            /\ Drops(Victims(h))
            /\ out'.call = "close"
            /\ out'.exit = Empties(Victims(h))
  <1>1. CASE ~IsOpen(h) /\ out' = Quiet /\ UNCHANGED <<handles, next>>
    BY <1>1 DEF Quiet
  <1>2. CASE IsOpen(h) /\ Veto(h)
    BY <1>2 DEF Veto, Quiet
  <1>3. CASE IsOpen(h) /\ CloseAll(h)
    <2>1. PICK order \in DeepestFirst(Victims(h)) :
             out' = [Quiet EXCEPT !.call = "close",
                                  !.closed = order,
                                  !.answers = HeldAnswers(Victims(h)),
                                  !.exit = Empties(Victims(h))]
      BY <1>3 DEF CloseAll
    <2>2. out'.call = "close" /\ out'.exit = Empties(Victims(h))
      BY <2>1 DEF Quiet
    <2> QED BY <1>3, <2>2 DEF CloseAll, Drops
  <1> QED BY <1>1, <1>2, <1>3 DEF TryClose

LEMMA FinishedCall ==
  ASSUME TypeOK, NEW h \in Issued, FormFinished(h)
  PROVE  \/ UNCHANGED <<handles, next>> /\ out' = Quiet
         \/ /\ IsOpen(h)
            /\ Drops(Taken(h) \cup {h})
            /\ out'.call = "finished"
            /\ out'.closed[1] = h
            /\ out'.exit = Empties(Taken(h) \cup {h})
  <1>1. CASE ~IsOpen(h)
    BY <1>1 DEF FormFinished
  <1>2. CASE IsOpen(h)
    <2>1. PICK order \in ChildrenFirst(Taken(h)) :
             out' = [Quiet EXCEPT !.call = "finished",
                                  !.closed = <<h>> \o order,
                                  !.rejected = Subtree(h) \ Taken(h),
                                  !.answers = HeldAnswers(Taken(h) \cup {h}),
                                  !.exit = Empties(Taken(h) \cup {h})]
      BY <1>2 DEF FormFinished
    <2>2. order \in Seq(Taken(h))
      BY TakenOpen, OrderIsSeq DEF ChildrenFirst
    <2>3. (<<h>> \o order)[1] = h
      BY <2>2
    <2>4. Drops(Taken(h) \cup {h})
      BY <1>2 DEF FormFinished, Drops
    <2> QED BY <1>2, <2>1, <2>3, <2>4 DEF Quiet
  <1> QED BY <1>1, <1>2

(* The table when handles go: the links to them go too.                     *)
LEMMA DropsKeep ==
  ASSUME TypeOK, NEW S, Drops(S)
  PROVE  /\ DOMAIN handles' = DOMAIN handles \ S
         /\ \A h \in DOMAIN handles' :
               /\ handles'[h] \in HandleInfo
               /\ \A k \in {"form", "kind", "modal", "waiting", "asker"} :
                     handles'[h][k] = handles[h][k]
               /\ handles'[h].caller = IF handles[h].caller \in S THEN None ELSE handles[h].caller
  <1>1. DOMAIN handles' = DOMAIN handles \ S
    BY DEF Drops, Without
  <1>2. ASSUME NEW h \in DOMAIN handles'
        PROVE  /\ handles'[h] \in HandleInfo
               /\ \A k \in {"form", "kind", "modal", "waiting", "asker"} :
                     handles'[h][k] = handles[h][k]
               /\ handles'[h].caller = IF handles[h].caller \in S THEN None ELSE handles[h].caller
    <2>1. handles[h] \in HandleInfo
      BY <1>1 DEF TypeOK
    <2>2. handles'[h] = IF handles[h].caller \in S THEN [handles[h] EXCEPT !.caller = None]
                                                   ELSE handles[h]
      BY <1>1 DEF Drops, Without
    <2> QED BY <2>1, <2>2 DEF HandleInfo
  <1> QED BY <1>1, <1>2

LEMMA AddsKeep ==
  ASSUME TypeOK, NEW info, Adds(next, info)
  PROVE  /\ DOMAIN handles' = DOMAIN handles \cup {next} /\ next \notin DOMAIN handles
         /\ handles'[next] = info
         /\ \A h \in DOMAIN handles : handles'[h] = handles[h]
  BY HandleAssumption DEF Adds, With, TypeOK, Issued

(* Mirroring a FormState changes that and no more.                          *)
LEMMA MirrorKeeps ==
  ASSUME TypeOK, Mirror
  PROVE  /\ DOMAIN handles' = DOMAIN handles /\ next' = next /\ out' = Quiet
         /\ \A h \in DOMAIN handles :
               /\ handles'[h] \in HandleInfo
               /\ \A k \in {"form", "kind", "caller", "modal", "asker"} :
                     handles'[h][k] = handles[h][k]
  <1>1. PICK g \in Issued, w \in BOOLEAN : NoteFormState(g, w)
    BY DEF Mirror
  <1>2. \A h \in DOMAIN handles : handles[h] \in HandleInfo
    BY DEF TypeOK
  <1>3. CASE IsOpen(g)
    <2>1. handles' = [handles EXCEPT ![g].waiting = w]
      BY <1>1, <1>3 DEF NoteFormState
    <2>2. DOMAIN handles' = DOMAIN handles /\ next' = next /\ out' = Quiet
      BY <1>1, <2>1 DEF NoteFormState
    <2>3. \A h \in DOMAIN handles :
             handles'[h] = IF h = g THEN [handles[h] EXCEPT !.waiting = w] ELSE handles[h]
      BY <2>1
    <2> QED BY <1>2, <2>2, <2>3 DEF HandleInfo
  <1>4. CASE ~IsOpen(g)
    BY <1>1, <1>2, <1>4 DEF NoteFormState
  <1> QED BY <1>3, <1>4

-----------------------------------------------------------------------------
(* Type correctness.                                                        *)

LEMMA TypeInit == SupervisorInit => TypeOK
  <1> SUFFICES ASSUME SupervisorInit PROVE TypeOK
    OBVIOUS
  <1>1. PICK f \in StartForms :
           handles = [h \in {Root} |-> Fresh(f, "Root", None, FALSE, None)]
    BY DEF SupervisorInit
  <1>2. DOMAIN handles = {0} /\ next = 1 /\ handles[0] = Fresh(f, "Root", None, FALSE, None)
    BY <1>1 DEF SupervisorInit, Root
  <1>3. handles[0] \in HandleInfo /\ handles[0].caller = None /\ handles[0].asker = None
        /\ handles[0].modal = FALSE
    BY <1>2, FormAssumption DEF Fresh, HandleInfo, Kind
  <1>4. next \in 1 .. LastHandle + 1 /\ DOMAIN handles \subseteq Issued
    BY <1>2, HandleAssumption DEF Issued
  <1>5. \A h \in DOMAIN handles :
           /\ handles[h] \in HandleInfo
           /\ handles[h].caller \in (0 .. h - 1) \cup {None}
           /\ handles[h].asker # None => handles[h].modal
           /\ handles[h].modal => handles[h].kind = "Sync"
    <2> SUFFICES ASSUME NEW h \in DOMAIN handles, h = 0
                 PROVE  /\ handles[h] \in HandleInfo
                        /\ handles[h].caller \in (0 .. h - 1) \cup {None}
                        /\ handles[h].asker # None => handles[h].modal
                        /\ handles[h].modal => handles[h].kind = "Sync"
      BY <1>2
    <2> QED BY <1>3
  <1> QED BY <1>4, <1>5 DEF TypeOK

LEMMA TypeNext == TypeOK /\ [Next]_supervisor => TypeOK'
  <1> SUFFICES ASSUME TypeOK, [Next]_supervisor PROVE TypeOK'
    OBVIOUS
  <1> DEFINE Good(h) == /\ handles[h] \in HandleInfo
                        /\ handles[h].caller \in (0 .. h - 1) \cup {None}
                        /\ handles[h].asker # None => handles[h].modal
                        /\ handles[h].modal => handles[h].kind = "Sync"
  <1>1. \A h \in DOMAIN handles : Good(h)
    BY DEF TypeOK
  <1>2. ASSUME NEW S, Drops(S) PROVE TypeOK'
    <2>1. DOMAIN handles' \subseteq Issued' /\ next' \in 1 .. LastHandle + 1
      <3>1. next' = next
        BY <1>2 DEF Drops
      <3>2. DOMAIN handles' \subseteq DOMAIN handles
        BY <1>2, DropsKeep
      <3> QED BY <3>1, <3>2 DEF TypeOK, Issued
    <2>2. ASSUME NEW h \in DOMAIN handles' PROVE Good(h)'
      <3>1. Good(h) /\ handles'[h] \in HandleInfo
        BY <1>1, <1>2, DropsKeep
      <3>2. /\ handles'[h].kind = handles[h].kind /\ handles'[h].modal = handles[h].modal
            /\ handles'[h].asker = handles[h].asker
            /\ handles'[h].caller \in {handles[h].caller, None}
        <4>1. \A k \in {"form", "kind", "modal", "waiting", "asker"} :
                 handles'[h][k] = handles[h][k]
          BY <1>2, DropsKeep
        <4>2. handles'[h].caller = IF handles[h].caller \in S THEN None ELSE handles[h].caller
          BY <1>2, DropsKeep
        <4> QED BY <4>1, <4>2
      <3> QED BY <3>1, <3>2
    <2> QED BY <2>1, <2>2 DEF TypeOK
  <1>3. ASSUME UNCHANGED <<handles, next>> PROVE TypeOK'
    BY <1>3 DEF TypeOK, Issued
  <1>4. CASE Open \/ Embed
    <2>1. ASSUME NEW info \in HandleInfo, Adds(next, info), info.caller \in Issued,
                 info.asker # None => info.modal, info.modal => info.kind = "Sync"
          PROVE  TypeOK'
      <3>1. next' \in 1 .. LastHandle + 1 /\ next \in Issued' /\ Issued \subseteq Issued'
        BY <2>1, HandleAssumption DEF Adds, TypeOK, Issued
      <3>2. DOMAIN handles' \subseteq Issued'
        BY <2>1, <3>1, AddsKeep DEF TypeOK
      <3>3. \A h \in {next} : Good(h)'
        <4>1. handles'[next] = info
          BY <2>1, AddsKeep
        <4> QED BY <2>1, <4>1 DEF Issued
      <3>4. \A h \in DOMAIN handles : Good(h)'
        BY <1>1, <2>1, AddsKeep
      <3> QED BY <2>1, <3>1, <3>2, <3>3, <3>4, AddsKeep DEF TypeOK
    <2> QED BY <1>3, <1>4, <2>1, OpenCalls
  <1>5. CASE Mirror
    <2>1. DOMAIN handles' \subseteq Issued' /\ next' \in 1 .. LastHandle + 1
      BY <1>5, MirrorKeeps DEF TypeOK, Issued
    <2>2. ASSUME NEW h \in DOMAIN handles' PROVE Good(h)'
      <3>1. h \in DOMAIN handles /\ Good(h) /\ handles'[h] \in HandleInfo
        BY <1>1, <1>5, MirrorKeeps
      <3>2. \A k \in {"form", "kind", "caller", "modal", "asker"} : handles'[h][k] = handles[h][k]
        BY <1>5, <3>1, MirrorKeeps
      <3>3. /\ handles'[h].kind = handles[h].kind /\ handles'[h].modal = handles[h].modal
            /\ handles'[h].asker = handles[h].asker /\ handles'[h].caller = handles[h].caller
        BY <3>2
      <3> QED BY <3>1, <3>3
    <2> QED BY <2>1, <2>2 DEF TypeOK
  <1>6. CASE Close
    BY <1>2, <1>3, <1>6, CloseCall DEF Close
  <1>7. CASE Finished
    BY <1>2, <1>3, <1>7, FinishedCall DEF Finished
  <1>8. CASE UNCHANGED supervisor
    BY <1>3, <1>8 DEF supervisor
  <1> QED BY <1>4, <1>5, <1>6, <1>7, <1>8 DEF Next

(* Handles are handed out in order, no caller is younger than what it       *)
(* opened, and an answer is held only for a modal window, which is never an *)
(* Async one (open_form, try_close, form_finished).                         *)
THEOREM TypeCorrect == Spec => []TypeOK
  BY TypeInit, TypeNext, PTL DEF Spec
-----------------------------------------------------------------------------
(* The main form.                                                           *)

(* Two windows of the main form would be the same one.                      *)
OneMain == \A g, h \in Windows :
             handles[g].form = MainForm /\ handles[h].form = MainForm => g = h

LEMMA OneMainNext == TypeOK /\ OneMain /\ [Next]_supervisor => OneMain'
  <1> SUFFICES ASSUME TypeOK, OneMain, [Next]_supervisor PROVE OneMain'
    OBVIOUS
  <1>1. ASSUME DOMAIN handles' \subseteq DOMAIN handles,
               \A h \in DOMAIN handles' : /\ handles'[h].form = handles[h].form
                                          /\ handles'[h].kind = handles[h].kind
        PROVE  OneMain'
    BY <1>1 DEF OneMain, Windows
  <1>2. ASSUME NEW S, Drops(S) PROVE OneMain'
    <2>1. \A h \in DOMAIN handles' : \A k \in {"form", "kind", "modal", "waiting", "asker"} :
             handles'[h][k] = handles[h][k]
      BY <1>2, DropsKeep
    <2>2. DOMAIN handles' \subseteq DOMAIN handles
      BY <1>2, DropsKeep
    <2> QED BY <1>1, <2>1, <2>2
  <1>3. ASSUME UNCHANGED handles PROVE OneMain'
    BY <1>3, <1>1
  <1>4. CASE Open \/ Embed
    <2>1. ASSUME NEW info \in HandleInfo, Adds(next, info),
                 info.kind # "Embedded" => RunningMain(info.form) = {}
          PROVE  OneMain'
      <3>1. /\ DOMAIN handles' = DOMAIN handles \cup {next} /\ handles'[next] = info
            /\ \A h \in DOMAIN handles : handles'[h] = handles[h]
        BY <2>1, AddsKeep
      <3>2. CASE info.kind = "Embedded"
        BY <3>1, <3>2 DEF OneMain, Windows
      <3>3. CASE info.kind # "Embedded" /\ info.form = MainForm
        <4>1. \A h \in DOMAIN handles : handles[h].form # MainForm
          BY <2>1, <3>3 DEF RunningMain
        <4> QED BY <3>1, <4>1 DEF OneMain, Windows
      <3>4. CASE info.form # MainForm
        BY <3>1, <3>4 DEF OneMain, Windows
      <3> QED BY <3>2, <3>3, <3>4
    <2> QED BY <1>3, <1>4, <2>1, OpenCalls
  <1>5. CASE Mirror
    <2>1. \A h \in DOMAIN handles : \A k \in {"form", "kind", "caller", "modal", "asker"} :
             handles'[h][k] = handles[h][k]
      BY <1>5, MirrorKeeps
    <2>2. DOMAIN handles' = DOMAIN handles
      BY <1>5, MirrorKeeps
    <2> QED BY <1>1, <2>1, <2>2
  <1>6. CASE Close
    BY <1>2, <1>3, <1>6, CloseCall DEF Close
  <1>7. CASE Finished
    BY <1>2, <1>3, <1>7, FinishedCall DEF Finished
  <1>8. CASE UNCHANGED supervisor
    BY <1>3, <1>8 DEF supervisor
  <1> QED BY <1>4, <1>5, <1>6, <1>7, <1>8 DEF Next

(* Whatever is asked, there is at most one window of the main form: the     *)
(* singleton rule of open_form.                                             *)
THEOREM MainFormStaysSingle == Spec => []MainFormIsSingle
  <1>1. SupervisorInit => OneMain
    BY DEF SupervisorInit, OneMain, Windows
  <1>2. OneMain => MainFormIsSingle
    <2> DEFINE S == {h \in Windows : handles[h].form = MainForm}
    <2> SUFFICES ASSUME OneMain PROVE Cardinality(S) <= 1
      BY DEF MainFormIsSingle
    <2>1. \A x, y \in S : x = y
      BY DEF OneMain
    <2> HIDE DEF S
    <2> QED BY <2>1, AtMostOne
  <1> QED BY <1>1, <1>2, OneMainNext, TypeInit, TypeNext, PTL DEF Spec
-----------------------------------------------------------------------------
(* Who leaves, and why.                                                     *)

Stay == /\ DOMAIN handles \subseteq DOMAIN handles'
        /\ \A h \in DOMAIN handles : handles'[h].caller = handles[h].caller

ClosedBy(h) == /\ IsOpen(h) /\ Blocking(h) = {}
               /\ Drops(Victims(h))
               /\ out'.call = "close" /\ out'.exit = Empties(Victims(h))

EndedBy(h) == /\ IsOpen(h) /\ h # Root
              /\ Drops(Taken(h) \cup {h})
              /\ out'.call = "finished" /\ out'.closed[1] = h
              /\ out'.exit = Empties(Taken(h) \cup {h})

(* A step keeps every window and its caller, or is a close nobody vetoed,   *)
(* or the end of a program.                                                 *)
LEMMA WhoLeaves ==
  ASSUME TypeOK, [Next]_supervisor
  PROVE  \/ Stay /\ (out'.exit = FALSE \/ UNCHANGED supervisor)
         \/ \E h \in Issued : ClosedBy(h)
         \/ \E h \in Issued : EndedBy(h)
  <1>1. ASSUME UNCHANGED handles PROVE Stay
    BY <1>1 DEF Stay
  <1>2. CASE Open \/ Embed
    <2>1. ASSUME NEW info, Adds(next, info) PROVE Stay
      BY <2>1, AddsKeep DEF Stay
    <2> QED BY <1>1, <1>2, <2>1, OpenCalls
  <1>3. CASE Mirror
    <2>1. ASSUME NEW h \in DOMAIN handles PROVE handles'[h].caller = handles[h].caller
      <3>1. \A k \in {"form", "kind", "caller", "modal", "asker"} : handles'[h][k] = handles[h][k]
        BY <1>3, MirrorKeeps
      <3> QED BY <3>1
    <2>2. DOMAIN handles' = DOMAIN handles /\ out'.exit = FALSE
      BY <1>3, MirrorKeeps DEF Quiet
    <2> QED BY <2>1, <2>2 DEF Stay
  <1>4. CASE Close
    <2>1. PICK h \in Issued : TryClose(h)
      BY <1>4 DEF Close
    <2> QED BY <1>1, <2>1, CloseCall DEF ClosedBy
  <1>5. CASE Finished
    <2>1. PICK h \in Issued \ {Root} : FormFinished(h)
      BY <1>5 DEF Finished
    <2>2. h \in Issued /\ h # Root
      BY <2>1
    <2>3. CASE UNCHANGED <<handles, next>> /\ out' = Quiet
      BY <1>1, <2>3 DEF Quiet
    <2>4. CASE ~(UNCHANGED <<handles, next>> /\ out' = Quiet)
      <3>1. EndedBy(h)
        BY <2>1, <2>2, <2>4, FinishedCall DEF EndedBy
      <3> QED BY <2>2, <3>1
    <2> QED BY <2>3, <2>4
  <1>6. CASE UNCHANGED supervisor
    BY <1>1, <1>6 DEF supervisor
  <1> QED BY <1>2, <1>3, <1>4, <1>5, <1>6 DEF Next

LEMMA DropsLeave ==
  ASSUME TypeOK, NEW S, Drops(S)
  PROVE  /\ DOMAIN handles \ DOMAIN handles' \subseteq S
         /\ DOMAIN handles' \cap S = {}
         /\ DOMAIN handles' = {} => DOMAIN handles \subseteq S
  <1>1. DOMAIN handles' = DOMAIN handles \ S
    BY DropsKeep
  <1> QED BY <1>1

(* try_close asks every form it would take, and form_finished tries each    *)
(* window under the one that ended: no Waiting form goes but by the end of  *)
(* its own program.                                                         *)
THEOREM AWaitingFormIsNeverTaken == Spec => OnlyItsProgramEndsAWaitingForm
  <1> DEFINE A == \A h \in DOMAIN handles \ DOMAIN handles' :
                     handles[h].waiting => out'.call = "finished" /\ out'.closed[1] = h
  <1>1. TypeOK /\ [Next]_supervisor => A
    <2> SUFFICES ASSUME TypeOK, [Next]_supervisor,
                        NEW h \in DOMAIN handles \ DOMAIN handles', handles[h].waiting
                 PROVE  out'.call = "finished" /\ out'.closed[1] = h
      OBVIOUS
    <2>1. CASE Stay
      BY <2>1 DEF Stay
    <2>2. ASSUME NEW g \in Issued, ClosedBy(g) PROVE FALSE
      BY <2>2, DropsLeave DEF ClosedBy, Blocking, WaitingIn
    <2>3. ASSUME NEW g \in Issued, EndedBy(g)
          PROVE  out'.call = "finished" /\ out'.closed[1] = h
      <3>1. h \in Taken(g) \cup {g}
        BY <2>3, DropsLeave DEF EndedBy
      <3>2. h \notin Taken(g)
        BY TakenReady
      <3> QED BY <2>3, <3>1, <3>2 DEF EndedBy
    <2> QED BY <2>1, <2>2, <2>3, WhoLeaves
  <1>2. TypeOK /\ [Next]_supervisor => [A]_supervisor
    BY <1>1
  <1> HIDE DEF A
  <1>3. SupervisorInit /\ [][Next]_supervisor => [][A]_supervisor
    BY <1>2, TypeInit, TypeNext, PTL
  <1> QED BY <1>3 DEF Spec, OnlyItsProgramEndsAWaitingForm, A

(* A close nobody vetoed takes all the windows under each window it takes   *)
(* (subtree_of, the main form's whole table included).                      *)
THEOREM ACloseLeavesNobodyUnder == Spec => CloseTakesTheSubtree
  <1> DEFINE A == out'.call = "close" =>
                     \A h \in DOMAIN handles \ DOMAIN handles' :
                        Subtree(h) \cap DOMAIN handles' = {}
  <1>1. TypeOK /\ [Next]_supervisor => A
    <2> SUFFICES ASSUME TypeOK, [Next]_supervisor, out'.call = "close",
                        NEW h \in DOMAIN handles \ DOMAIN handles'
                 PROVE  Subtree(h) \cap DOMAIN handles' = {}
      OBVIOUS
    <2>1. CASE Stay
      BY <2>1 DEF Stay
    <2>2. ASSUME NEW g \in Issued, ClosedBy(g) PROVE Subtree(h) \cap DOMAIN handles' = {}
      <3>1. h \in Victims(g) /\ DOMAIN handles' = DOMAIN handles \ Victims(g)
        BY <2>2, DropsKeep, DropsLeave DEF ClosedBy
      <3>2. Subtree(h) \subseteq Victims(g)
        BY <3>1, SubtreeOpen, SubtreeTransitive DEF Victims
      <3> QED BY <3>1, <3>2
    <2>3. ASSUME NEW g \in Issued, EndedBy(g) PROVE FALSE
      BY <2>3 DEF EndedBy
    <2> QED BY <2>1, <2>2, <2>3, WhoLeaves
  <1>2. TypeOK /\ [Next]_supervisor => [A]_supervisor
    BY <1>1
  <1> HIDE DEF A
  <1>3. SupervisorInit /\ [][Next]_supervisor => [][A]_supervisor
    BY <1>2, TypeInit, TypeNext, PTL
  <1> QED BY <1>3 DEF Spec, CloseTakesTheSubtree, A

(* Only a Waiting form outlives the program of its caller: form_finished    *)
(* tries to close every other window under it.                              *)
THEOREM OnlyWaitingFormsAreOrphaned == Spec => OrphansWereWaiting
  <1> DEFINE A == \A h \in DOMAIN handles \cap DOMAIN handles' :
                     (/\ handles[h].kind \in {"Sync", "Async"}
                      /\ handles[h].caller \in DOMAIN handles
                      /\ handles[h].caller \notin DOMAIN handles')
                     => WaitingIn(Subtree(h) \cup {h}) # {}
  <1>1. TypeOK /\ [Next]_supervisor => A
    <2> SUFFICES ASSUME TypeOK, [Next]_supervisor,
                        NEW h \in DOMAIN handles \cap DOMAIN handles',
                        handles[h].kind \in {"Sync", "Async"},
                        handles[h].caller \in DOMAIN handles,
                        handles[h].caller \notin DOMAIN handles'
                 PROVE  WaitingIn(Subtree(h) \cup {h}) # {}
      OBVIOUS
    <2> DEFINE p == handles[h].caller
    <2>1. h \in WindowChildren(p)
      BY DEF WindowChildren
    <2>2. CASE Stay
      BY <2>2 DEF Stay
    <2>3. ASSUME NEW g \in Issued, ClosedBy(g) PROVE FALSE
      <3>1. p \in Victims(g) /\ h \notin Victims(g)
        BY <2>3, DropsLeave DEF ClosedBy
      <3> QED BY <2>1, <3>1, SubtreeClosed DEF Victims
    <2>4. ASSUME NEW g \in Issued, EndedBy(g) PROVE WaitingIn(Subtree(h) \cup {h}) # {}
      <3>1. p \in Taken(g) \cup {g} /\ h \notin Taken(g)
        BY <2>4, DropsLeave DEF EndedBy
      <3>2. h \in Subtree(g)
        BY <2>1, <3>1, SubtreeClosed DEF Taken
      <3>3. WaitingIn(Victims(h)) # {}
        BY <3>1, <3>2 DEF Taken, Blocking
      <3>4. h # Root
        BY IssuedHandle, HandleAssumption DEF TypeOK, Root
      <3> QED BY <3>3, <3>4 DEF Victims, ClosesEverything
    <2> QED BY <2>2, <2>3, <2>4, WhoLeaves
  <1>2. TypeOK /\ [Next]_supervisor => [A]_supervisor
    BY <1>1
  <1> HIDE DEF A
  <1>3. SupervisorInit /\ [][Next]_supervisor => [][A]_supervisor
    BY <1>2, TypeInit, TypeNext, PTL
  <1> QED BY <1>3 DEF Spec, OrphansWereWaiting, A

(* A handle forgets its caller when that goes, by whatever path             *)
(* (try_close and form_finished both orphan the survivors).                 *)
THEOREM NoLinkDangles == Spec => NoLinkLeftDangling
  <1> DEFINE A == \A h \in DOMAIN handles \cap DOMAIN handles' :
                     handles[h].caller \in DOMAIN handles
                     => handles'[h].caller \in DOMAIN handles' \cup {None}
  <1>1. TypeOK /\ [Next]_supervisor => A
    <2> SUFFICES ASSUME TypeOK, [Next]_supervisor,
                        NEW h \in DOMAIN handles \cap DOMAIN handles',
                        handles[h].caller \in DOMAIN handles
                 PROVE  handles'[h].caller \in DOMAIN handles' \cup {None}
      OBVIOUS
    <2>1. CASE Stay
      BY <2>1 DEF Stay
    <2>2. ASSUME NEW S, Drops(S) PROVE handles'[h].caller \in DOMAIN handles' \cup {None}
      BY <2>2, DropsKeep
    <2> QED BY <2>1, <2>2, WhoLeaves DEF ClosedBy, EndedBy
  <1>2. TypeOK /\ [Next]_supervisor => [A]_supervisor
    BY <1>1
  <1> HIDE DEF A
  <1>3. SupervisorInit /\ [][Next]_supervisor => [][A]_supervisor
    BY <1>2, TypeInit, TypeNext, PTL
  <1> QED BY <1>3 DEF Spec, NoLinkLeftDangling, A

(* The supervisor tells the host to exit in the call that takes the last    *)
(* handle, and in no other.                                                 *)
THEOREM ExitIsTheLastHandle == Spec => ExitWithTheLastHandle
  <1> DEFINE A == out'.exit <=> DOMAIN handles # {} /\ DOMAIN handles' = {}
  <1>1. TypeOK /\ [Next]_supervisor => [A]_supervisor
    <2> SUFFICES ASSUME TypeOK, [Next]_supervisor PROVE A \/ UNCHANGED supervisor
      OBVIOUS
    <2>1. ASSUME Stay, out'.exit = FALSE PROVE A
      BY <2>1 DEF Stay
    <2>2. ASSUME NEW S, S # {}, S \subseteq DOMAIN handles, Drops(S), out'.exit = Empties(S)
          PROVE  A
      <3>1. DOMAIN handles' = DOMAIN handles \ S
        BY <2>2, DropsKeep
      <3>2. DOMAIN handles' = {} <=> DOMAIN handles = S
        BY <2>2, <3>1
      <3> QED BY <2>2, <3>2 DEF Empties
    <2>3. ASSUME NEW h \in Issued, ClosedBy(h) PROVE A
      BY <2>2, <2>3, VictimsOpen DEF ClosedBy
    <2>4. ASSUME NEW h \in Issued, EndedBy(h) PROVE A
      BY <2>2, <2>4, TakenOpen DEF EndedBy, IsOpen
    <2> HIDE DEF A
    <2> QED BY <2>1, <2>3, <2>4, WhoLeaves
  <1> HIDE DEF A
  <1>2. SupervisorInit /\ [][Next]_supervisor => [][A]_supervisor
    BY <1>1, TypeInit, TypeNext, PTL
  <1> QED BY <1>2 DEF Spec, ExitWithTheLastHandle, A
-----------------------------------------------------------------------------
(* Children before callers.                                                 *)

(* The callers of a handle are older than it.                               *)
LEMMA CallersCounted ==
  ASSUME TypeOK, NEW h \in Handle
  PROVE  /\ Callers(h) \subseteq 0 .. h - 1
         /\ IsFiniteSet(Callers(h)) /\ Cardinality(Callers(h)) \in 0 .. LastHandle
  <1>1. h \in Nat /\ h <= LastHandle /\ LastHandle \in Nat
    BY HandleAssumption DEF Handle
  <1>2. \A g \in DOMAIN handles : g \in Nat /\ handles[g].caller \in (0 .. g - 1) \cup {None}
    BY HandleAssumption DEF TypeOK, Issued
  <1>3. 0 .. h - 1 \in SUBSET Handle
    BY <1>1 DEF Handle
  <1>4. ASSUME NEW c \in ((0 .. h - 1) \cup {h}) \cap DOMAIN handles
        PROVE  handles[c].caller \in (0 .. h - 1) \cup {None}
    <2>1. c \in Nat /\ c <= h
      BY <1>1, <1>2
    <2> QED BY <1>1, <1>2, <2>1
  <1>5. Callers(h) \subseteq 0 .. h - 1
    BY <1>3, <1>4 DEF Callers
  <1>6. IsFiniteSet(0 .. h - 1) /\ Cardinality(0 .. h - 1) = h
    <2>1. 0 \in Int /\ h - 1 \in Int /\ (h - 1) - 0 + 1 = h
      BY <1>1
    <2>2. /\ IsFiniteSet(0 .. h - 1)
          /\ Cardinality(0 .. h - 1) = (IF 0 > h - 1 THEN 0 ELSE (h - 1) - 0 + 1)
      BY <2>1, FS_Interval
    <2> QED BY <1>1, <2>1, <2>2
  <1>7. IsFiniteSet(Callers(h)) /\ Cardinality(Callers(h)) <= h
        /\ Cardinality(Callers(h)) \in Nat
    BY <1>5, <1>6, FS_Subset, FS_CardinalityType
  <1> QED BY <1>1, <1>5, <1>7

(* A handle has more callers than the handle that opened it.                *)
LEMMA CallersOfCaller ==
  ASSUME TypeOK, NEW h \in DOMAIN handles, handles[h].caller # None
  PROVE  Cardinality(Callers(handles[h].caller)) < Cardinality(Callers(h))
  <1> DEFINE p == handles[h].caller
  <1>1. h \in Handle /\ p \in 0 .. h - 1 /\ p \in Handle
    BY HandleAssumption DEF TypeOK, Issued, Handle
  <1>2. ASSUME NEW S \in SUBSET Handle,
               \A c \in (S \cup {h}) \cap DOMAIN handles : handles[c].caller \in S \cup {None}
        PROVE  p \in S
    BY <1>2
  <1>3. p \in Callers(h)
    BY <1>1, <1>2 DEF Callers
  <1>4. Callers(p) \subseteq Callers(h)
    <2> SUFFICES ASSUME NEW q \in Callers(p),
                        NEW S \in SUBSET Handle,
                        \A c \in (S \cup {h}) \cap DOMAIN handles : handles[c].caller \in S \cup {None}
                 PROVE  q \in S
      BY DEF Callers
    <2>1. S \cup {p} \subseteq S
      BY <1>2
    <2> HIDE DEF p
    <2> QED BY <2>1 DEF Callers
  <1> HIDE DEF p
  <1>5. p \notin Callers(p)
    <2>1. Callers(p) \subseteq 0 .. p - 1 /\ p \in Nat
      BY <1>1, CallersCounted DEF Handle
    <2> QED BY <2>1
  <1>6. IsFiniteSet(Callers(h)) /\ Cardinality(Callers(h)) \in Nat
        /\ Cardinality(Callers(p)) \in Nat
    BY <1>1, CallersCounted, HandleAssumption
  <1>7. /\ Cardinality(Callers(p)) <= Cardinality(Callers(h))
        /\ Cardinality(Callers(p)) # Cardinality(Callers(h))
    BY <1>3, <1>4, <1>5, <1>6, FS_Subset
  <1>8. Cardinality(Callers(p)) < Cardinality(Callers(h))
    BY <1>6, <1>7
  <1> QED BY <1>8 DEF p

(* No chain of callers is long enough to meet the cycle guard of depth_of.  *)
ShortChains == LastHandle <= DepthGuard + 1

(* The windows are closed deepest first, and a child is deeper than its     *)
(* caller, so onClose runs while the caller exists (try_close); the windows *)
(* a finished program leaves are closed one after the other, each with what *)
(* it opened before it (form_finished).                                     *)
THEOREM ChildrenCloseFirst == ShortChains => (Spec => CallerClosesLast)
  <1> SUFFICES ASSUME ShortChains PROVE Spec => CallerClosesLast
    OBVIOUS
  <1> DEFINE Ok(i, j) == (i < j /\ handles[out'.closed[j]].caller = out'.closed[i])
                         => out'.call = "finished" /\ i = 1
             A == \A i, j \in DOMAIN out'.closed : Ok(i, j)
  <1>1. TypeOK /\ [Next]_supervisor => A \/ UNCHANGED supervisor
    <2> SUFFICES ASSUME TypeOK, Next PROVE A
      BY DEF supervisor
    <2>1. ASSUME out'.closed = <<>> PROVE A
      BY <2>1
    <2>2. CASE Open \/ Embed
      BY <2>1, <2>2, OpenCalls
    <2>3. CASE Mirror
      BY <2>1, <2>3, MirrorKeeps DEF Quiet
    <2>4. CASE Close
      <3>1. PICK h \in Issued : TryClose(h)
        BY <2>4 DEF Close
      <3>2. CASE IsOpen(h) /\ CloseAll(h)
        <4> DEFINE S == Victims(h)
        <4>1. PICK order \in DeepestFirst(S) :
                 out' = [Quiet EXCEPT !.call = "close", !.closed = order,
                                      !.answers = HeldAnswers(S), !.exit = Empties(S)]
          BY <3>2 DEF CloseAll
        <4>2. out'.closed = order
          BY <4>1 DEF Quiet
        <4>3. S \subseteq DOMAIN handles
          BY <3>2, VictimsOpen
        <4>4. \A i \in DOMAIN order : order[i] \in DOMAIN handles
          BY <4>3 DEF DeepestFirst, Orders
        <4>5. ASSUME NEW i \in DOMAIN order, NEW j \in DOMAIN order, i < j,
                     handles[order[j]].caller = order[i]
              PROVE  FALSE
          <5>1. Depth(order[i]) >= Depth(order[j])
            BY <4>5 DEF DeepestFirst
          <5>2. /\ order[j] \in DOMAIN handles /\ order[j] \in Handle
                /\ order[i] \in Handle /\ order[i] # None
            BY <4>4, IssuedHandle, HandleAssumption DEF TypeOK, Issued, Handle
          <5>3. Cardinality(Callers(order[i])) < Cardinality(Callers(order[j]))
            BY <4>5, <5>2, CallersOfCaller
          <5>4. /\ Cardinality(Callers(order[i])) \in 0 .. LastHandle
                /\ Cardinality(Callers(order[j])) \in 0 .. LastHandle
            BY <5>2, CallersCounted
          <5> QED BY <5>1, <5>3, <5>4, HandleAssumption DEF Depth, ShortChains
        <4> QED BY <4>2, <4>5
      <3>3. CASE ~(IsOpen(h) /\ CloseAll(h))
        <4>1. out' = Quiet \/ Veto(h)
          BY <3>1, <3>3 DEF TryClose
        <4>2. out'.closed = <<>>
          <5>1. CASE Veto(h)
            BY <5>1 DEF Veto, Quiet
          <5>2. CASE out' = Quiet
            BY <5>2 DEF Quiet
          <5> QED BY <4>1, <5>1, <5>2
        <4> QED BY <2>1, <4>2
      <3> QED BY <3>2, <3>3
    <2>5. CASE Finished
      <3>1. PICK h \in Issued : FormFinished(h)
        BY <2>5 DEF Finished
      <3>2. CASE ~IsOpen(h)
        BY <2>1, <3>1, <3>2 DEF FormFinished, Quiet
      <3>3. CASE IsOpen(h)
        <4> DEFINE S == Taken(h)
        <4>1. PICK order \in ChildrenFirst(S) :
                 out' = [Quiet EXCEPT !.call = "finished", !.closed = <<h>> \o order,
                                      !.rejected = Subtree(h) \ S,
                                      !.answers = HeldAnswers(S \cup {h}),
                                      !.exit = Empties(S \cup {h})]
          BY <3>1, <3>3 DEF FormFinished
        <4>2. out'.closed = <<h>> \o order /\ out'.call = "finished"
          BY <4>1 DEF Quiet
        <4>3. order \in Seq(S)
          BY TakenOpen, OrderIsSeq DEF ChildrenFirst
        <4>4. /\ DOMAIN (<<h>> \o order) = 1 .. Len(order) + 1
              /\ \A i \in 2 .. Len(order) + 1 :
                    i - 1 \in DOMAIN order /\ (<<h>> \o order)[i] = order[i - 1]
          BY <4>3
        <4>5. ASSUME NEW i \in 2 .. Len(order) + 1, NEW j \in 2 .. Len(order) + 1, i < j
              PROVE  handles[(<<h>> \o order)[j]].caller # (<<h>> \o order)[i]
          <5>1. i - 1 < j - 1
            BY <4>5
          <5>2. handles[order[j - 1]].caller # order[i - 1]
            BY <4>4, <5>1 DEF ChildrenFirst
          <5> QED BY <4>4, <5>2
        <4>6. Len(order) \in Nat
          BY <4>3
        <4>7. ASSUME NEW i \in 1 .. Len(order) + 1, NEW j \in 1 .. Len(order) + 1, i < j, i # 1
              PROVE  i \in 2 .. Len(order) + 1 /\ j \in 2 .. Len(order) + 1
          BY <4>6, <4>7
        <4>8. DOMAIN out'.closed = 1 .. Len(order) + 1
          BY <4>2, <4>4
        <4>9. ASSUME NEW i \in 1 .. Len(order) + 1, NEW j \in 1 .. Len(order) + 1, i < j,
                     handles[out'.closed[j]].caller = out'.closed[i]
              PROVE  i = 1
          BY <4>2, <4>5, <4>7, <4>9
        <4> HIDE DEF S
        <4> QED BY <4>2, <4>8, <4>9
      <3> QED BY <3>2, <3>3
    <2> QED BY <2>2, <2>3, <2>4, <2>5 DEF Next
  <1> HIDE DEF A
  <1>2. SupervisorInit /\ [][Next]_supervisor => [][A]_supervisor
    BY <1>1, TypeInit, TypeNext, PTL
  <1> QED BY <1>2 DEF Spec, CallerClosesLast, A
=============================================================================
