----------------------------- MODULE FormCalls -----------------------------
(***************************************************************************)
(* The window supervisor under any host: its calls in any order, with the  *)
(* FormState of every form mirrored, as the comment of note_form_state     *)
(* asks of a host, and requests that name a handle already closed.         *)
(***************************************************************************)
EXTENDS FormSupervisor

Issued  == 0 .. next - 1
Windows == {h \in DOMAIN handles : handles[h].kind # "Embedded"}

(* A program waits for one answer at a time.                               *)
Idle == {a \in Asker : \A h \in DOMAIN handles : handles[h].asker # a}

Open     == \E h \in Issued, f \in Form, sync, modal \in BOOLEAN, a \in Idle :
               OpenForm(h, f, sync, modal, a)
Embed    == \E h \in Windows, f \in Form : OpenEmbedded(h, f)
Mirror   == \E h \in Issued, w \in BOOLEAN : NoteFormState(h, w)
Close    == \E h \in Issued : TryClose(h)
Finished == \E h \in Issued \ {Root} : FormFinished(h)

Next == Open \/ Embed \/ Mirror \/ Close \/ Finished

Spec == SupervisorInit /\ [][Next]_supervisor
-----------------------------------------------------------------------------
(* Handles are handed out in order, a caller is older than what it opened, *)
(* and an answer is held exactly for a modal window.                       *)
TypeOK ==
  /\ next \in 1 .. LastHandle + 1
  /\ DOMAIN handles \subseteq Issued
  /\ \A h \in DOMAIN handles :
        /\ handles[h] \in HandleInfo
        /\ handles[h].caller \in (0 .. h - 1) \cup {None}
        /\ handles[h].asker # None => handles[h].modal
        /\ handles[h].modal => handles[h].kind = "Sync"

(* "Waiting vetoes every close path": a Waiting form leaves only when its  *)
(* own program ends.                                                       *)
OnlyItsProgramEndsAWaitingForm ==
  [][\A h \in DOMAIN handles \ DOMAIN handles' :
        handles[h].waiting => out'.call = "finished" /\ out'.closed[1] = h]_supervisor

(* "A caller takes its whole window subtree with it": whoever is still     *)
(* open after a close that succeeded was not under the window closed.      *)
CloseTakesTheSubtree ==
  [][out'.call = "close" =>
       \A h \in DOMAIN handles \ DOMAIN handles' :
          Subtree(h) \cap DOMAIN handles' = {}]_supervisor

(* A window may outlive its caller, but only because it, or a window under *)
(* it, was Waiting when the caller's program ended.                        *)
OrphansWereWaiting ==
  [][\A h \in DOMAIN handles \cap DOMAIN handles' :
        (/\ handles[h].kind \in {"Sync", "Async"}
         /\ handles[h].caller \in DOMAIN handles
         /\ handles[h].caller \notin DOMAIN handles')
        => WaitingIn(Subtree(h) \cup {h}) # {}]_supervisor

(* "Children before callers": onClose runs while the caller still exists,  *)
(* unless it is the caller's own program that ended.                       *)
CallerClosesLast ==
  [][\A i, j \in DOMAIN out'.closed :
        (i < j /\ handles[out'.closed[j]].caller = out'.closed[i])
        => out'.call = "finished" /\ i = 1]_supervisor

(* "The link must never dangle": a handle whose caller goes forgets it.    *)
NoLinkLeftDangling ==
  [][\A h \in DOMAIN handles \cap DOMAIN handles' :
        handles[h].caller \in DOMAIN handles
        => handles'[h].caller \in DOMAIN handles' \cup {None}]_supervisor

(* The process may exit when the last handle goes, and only then.          *)
ExitWithTheLastHandle ==
  [][out'.exit <=> DOMAIN handles # {} /\ DOMAIN handles' = {}]_supervisor

(* The main form is a singleton, whichever form the process started with,  *)
(* the instances a menu loads into a ContentPane aside: there is one window *)
(* of it, however often programs and menus ask for it.                     *)
MainFormIsSingle == Cardinality({h \in Windows : handles[h].form = MainForm}) <= 1
=============================================================================
