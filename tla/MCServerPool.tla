---------------------------- MODULE MCServerPool ----------------------------
(* Small instances of ServerPool for TLC.                                   *)
EXTENDS ServerPool, TLC

CONSTANTS C1, C2, L1, L2

Callers == {C1, C2}
Asked == (C1 :> {L1}) @@ (C2 :> {L1, L2})
Twice == (C1 :> 2) @@ (C2 :> 1)
=============================================================================
