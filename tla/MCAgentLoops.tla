---------------------------- MODULE MCAgentLoops ----------------------------
(* Small instances of AgentLoops for TLC.                                   *)
EXTENDS AgentLoops, TLC

CONSTANTS A, B

Form(a, b, lastA, lastB) == ((A :> a) @@ (B :> b)) :> ((A :> lastA) @@ (B :> lastB))

AllForms == Form("agent", "kb", 1, 1) @@ Form("kb", "agent", 0, 3)
            @@ Form("sql", "rest", 3, 1) @@ Form("aws", "rest", 3, 0)
            @@ Form("kb", "rest", 3, 0) @@ Form("web", "rest", 2, 0)
            @@ Form("agent", "rest", 2, 0)

Refusals == [k \in DOMAIN AllForms |-> IF {k[A], k[B]} = {"agent", "kb"} THEN 0
                                       ELSE IF k[A] = "agent" THEN 1 ELSE 2]

Calls == {<<"program", "program">>, <<"file", "program">>, <<"search", "wrong">>}
=============================================================================
