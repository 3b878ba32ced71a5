---------------------------- MODULE MCFormCalls ----------------------------
(* Small instances of FormCalls for TLC.                                    *)
EXTENDS FormCalls

(* No action reads `out`, and no invariant: what a call returned is part of *)
(* its step, not of the state.                                              *)
Table == <<handles, next>>
=============================================================================
