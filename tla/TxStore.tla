------------------------------ MODULE TxStore ------------------------------
(***************************************************************************)
(* What the DISK engine of an INDEXED file promises a program, with no     *)
(* journal in sight: a program that opened the file I-O sees its own       *)
(* changes at once, COMMIT makes all of them durable in one step, a CLOSE  *)
(* loses nothing, and a crash leaves exactly what the last COMMIT left.    *)
(* The promise is the one the comments of indexed_disk.rs make for         *)
(* tx_commit, tx_spill, COMMIT and CLOSE.                                  *)
(***************************************************************************)
EXTENDS Naturals

CONSTANT Contents       \* what a container may hold

VARIABLES open,         \* a program has the file open I-O
          working,      \* the content that program sees, or would see
          durable,      \* the content a restart finds
          crashes       \* how often the process died

vars == <<open, working, durable, crashes>>

Init == /\ open = FALSE
        /\ durable \in Contents
        /\ working = durable
        /\ crashes = 0

(* OPEN I-O: the program sees what is durable.                             *)
Open == /\ ~open
        /\ open' = TRUE
        /\ UNCHANGED <<working, durable, crashes>>

(* A verb changes what the program sees, and nothing else.                 *)
Update == /\ open
          /\ working' \in Contents
          /\ UNCHANGED <<open, durable, crashes>>

(* COMMIT: all the changes at once.                                        *)
Commit == /\ open
          /\ durable' = working
          /\ UNCHANGED <<open, working, crashes>>

(* CLOSE: there is nothing left to lose.                                   *)
Close == /\ open
         /\ working = durable
         /\ open' = FALSE
         /\ UNCHANGED <<working, durable, crashes>>

(* The process dies: the changes since the last COMMIT are gone.           *)
Crash == /\ open' = FALSE
         /\ working' = durable
         /\ crashes' = crashes + 1
         /\ UNCHANGED durable

Next == Open \/ Update \/ Commit \/ Close \/ Crash

Spec == Init /\ [][Next]_vars
=============================================================================
