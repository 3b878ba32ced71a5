----------------------------- MODULE MCFormHost -----------------------------
(* Small instances of FormHost for TLC.                                     *)
EXTENDS FormHost

(* What tells two states apart.  No action reads `out`: what a call         *)
(* returned is part of its step; nor the navigation chain of a window that  *)
(* is gone.  Alike are a window its caller opened Async and one it opened   *)
(* Sync and not modal; the closed forms a request asks to close; and a      *)
(* program that drained the handles it was told are closed and one that has *)
(* them to drain, but for the answer it waits for: each use drains first.   *)
SameKind(info) == [info EXCEPT !.kind = IF @ \in {"Sync", "Async"} THEN "Window" ELSE @]
SameWay(r)     == IF r.type = "Open"
                    THEN [r EXCEPT !.sync = r.modal]
                    ELSE [r EXCEPT !.target = IF IsOpen(@) THEN @ ELSE None]

Tops           == [h \in DOMAIN bodies |-> top[h]]
Handles        == [h \in Handle |-> <<Known(h, var[h]), Known(h, super[h]), inbox[h] \cap answer[h]>>]

State == <<[h \in DOMAIN handles |-> SameKind(handles[h])], next, work, bodies, Tops, closing,
           [i \in DOMAIN requests |-> SameWay(requests[i])], mirror, answer,
           prog, quits, state, Handles>>
=============================================================================
