-------------------------- MODULE ServerPoolProofs --------------------------
(***************************************************************************)
(* The invariants of ServerPool, for any callers, launches and numbers of  *)
(* processes, slots and calls.                                             *)
(*                                                                         *)
(* The reader thread, the call's own time and the end of the process race  *)
(* for a registered request, so PendingHasItsCaller holds only together    *)
(* with its converse: Inv says where a request is registered, and that a   *)
(* call which waits for an answer is.  InitInv and one lemma per action    *)
(* make it inductive; the theorems at the end follow from it.              *)
(***************************************************************************)
EXTENDS ServerPool, TLAPS

(* What a call holds in each of its phases: a slot once it entered the     *)
(* map, a server once it got one, and an empty channel until its request   *)
(* is out.                                                                 *)
Phases ==
  \A c \in Caller :
    /\ pc[c] = "idle" => call[c] = Ended(c)
    /\ pc[c] = "slot" => call[c].srv = 0 /\ ~call[c].starts
    /\ pc[c] # "idle" => call[c].slot \in Slot
    /\ pc[c] \in {"have", "send", "wait"} => call[c].srv \in Server
    /\ pc[c] \in {"slot", "have"} => call[c].chan = "nothing"

(* A call with nothing in its channel is registered with its server, from  *)
(* its registration to the end of the round trip.                          *)
Waiting ==
  \A c \in Caller :
    pc[c] \in {"send", "wait"} /\ call[c].chan = "nothing" => Id(c) \in pending[call[c].srv]

(* A registered request is the one its caller is out for, at the server    *)
(* it is registered with, and nothing has come for it yet.                 *)
Registered ==
  \A p \in Server : \A r \in pending[p] :
    /\ r = Id(r[1]) /\ call[r[1]].srv = p /\ call[r[1]].chan = "nothing"
    /\ pc[r[1]] \in {"send", "wait"}

(* A reader that has ended has cleared the flag first, and nothing sets it *)
(* again; its process may run on.                                          *)
Readers == \A p \in Server : reader[p] \in {"ends", "gone"} => p \notin alive

(* A slot is empty while a server is started in it.                        *)
OneStarts == \A c \in Caller : call[c].starts => server[call[c].slot] = 0

(* The inductive invariant.                                                *)
Inv == TypeOK /\ Phases /\ Waiting /\ Registered /\ Readers /\ OneStarts

(* The pool starts empty (the OnceLock of pool()), with no caller in it.   *)
LEMMA InitInv == Init => Inv
<1> SUFFICES ASSUME Init PROVE Inv  OBVIOUS
<1> USE PoolAssumption, NoneAssumption DEF Init
<1>1. TypeOK  BY DEF TypeOK, MapTypes, ProcessTypes, CallTypes, CallType, Locks, CallAt, started
<1>2. Phases  BY DEF Phases, Ended, CallAt
<1>3. Waiting /\ Registered /\ Readers /\ OneStarts
  BY DEF Waiting, Registered, Readers, OneStarts, CallAt
<1> QED  BY <1>1, <1>2, <1>3 DEF Inv

(* The end of a round trip, seen as one assignment to the call: either     *)
(* its handshake went well and it goes on with the server, now in the      *)
(* slot, or it is over.                                                    *)
LEMMA OverStep ==
  ASSUME Inv, NEW c \in Caller, NEW ok \in BOOLEAN, pc[c] \in {"send", "wait"}, Over(c, ok)
  PROVE  \E v \in CallType :
           /\ call' = [call EXCEPT ![c] = v]
           /\ ~v.starts /\ v.chan = "nothing" /\ v.n = call[c].n
           /\ \/ /\ v.slot = call[c].slot /\ v.srv = call[c].srv
                 /\ pc' = [pc EXCEPT ![c] = "have"]
                 /\ call[c].starts /\ owner' = [owner EXCEPT ![call[c].slot] = None]
                 /\ server' = [server EXCEPT ![call[c].slot] = call[c].srv]
              \/ /\ v = CallAt(call[c].n, None, 0) /\ pc' = [pc EXCEPT ![c] = "idle"]
                 /\ server' = server
                 /\ \/ call[c].starts /\ owner' = [owner EXCEPT ![call[c].slot] = None]
                    \/ ~call[c].starts /\ owner' = owner
<1>c. call[c] \in CallType  BY DEF Inv, TypeOK, CallTypes
<1>1. CASE call[c].starts /\ ok
  <2> DEFINE v == [call[c] EXCEPT !.starts = FALSE, !.chan = "nothing"]
  <2>1. v \in CallType /\ ~v.starts /\ v.chan = "nothing" /\ v.n = call[c].n
        /\ v.slot = call[c].slot /\ v.srv = call[c].srv
    BY <1>c DEF CallType
  <2>2. call' = [call EXCEPT ![c] = v]  BY <1>1 DEF Over
  <2> HIDE DEF v
  <2> QED  BY <1>1, <2>1, <2>2 DEF Over
<1>2. CASE ~(call[c].starts /\ ok)
  <2> DEFINE v == CallAt(call[c].n, None, 0)
  <2>1. v \in CallType /\ ~v.starts /\ v.chan = "nothing" /\ v.n = call[c].n
    BY <1>c DEF CallType, CallAt
  <2>2. call' = [call EXCEPT ![c] = v] /\ pc' = [pc EXCEPT ![c] = "idle"] /\ server' = server
    BY <1>2 DEF Over, Ended
  <2>3. \/ call[c].starts /\ owner' = [owner EXCEPT ![call[c].slot] = None]
        \/ ~call[c].starts /\ owner' = owner
    BY DEF Over
  <2>4. v = CallAt(call[c].n, None, 0)  OBVIOUS
  <2> HIDE DEF v
  <2> QED  BY <2>1, <2>2, <2>3, <2>4
<1> QED  BY <1>1, <1>2

(* Whichever way a round trip ends (Handle::start, round_trip), the calls  *)
(* keep their types, phases and locks, and no other call is touched.       *)
LEMMA OverKeeps ==
  ASSUME Inv, NEW c \in Caller, NEW ok \in BOOLEAN, pc[c] \in {"send", "wait"}, Over(c, ok)
  PROVE  /\ CallTypes' /\ Locks' /\ Phases' /\ OneStarts'
         /\ owner' \in [Slot -> Caller \cup {None}] /\ server' \in [Slot -> Server \cup {0}]
         /\ \A d \in Caller \ {c} : pc'[d] = pc[d] /\ call'[d] = call[d]
         /\ pc'[c] \notin {"send", "wait"}
<1> USE NoneAssumption DEF Inv, TypeOK
<1>c. call[c] \in CallType /\ call[c].slot \in Slot /\ call[c].srv \in Server
  BY DEF CallTypes, Phases
<1>v. PICK v \in CallType :
           /\ call' = [call EXCEPT ![c] = v]
           /\ ~v.starts /\ v.chan = "nothing" /\ v.n = call[c].n
           /\ \/ /\ v.slot = call[c].slot /\ v.srv = call[c].srv
                 /\ pc' = [pc EXCEPT ![c] = "have"]
                 /\ call[c].starts /\ owner' = [owner EXCEPT ![call[c].slot] = None]
                 /\ server' = [server EXCEPT ![call[c].slot] = call[c].srv]
              \/ /\ v = CallAt(call[c].n, None, 0) /\ pc' = [pc EXCEPT ![c] = "idle"]
                 /\ server' = server
                 /\ \/ call[c].starts /\ owner' = [owner EXCEPT ![call[c].slot] = None]
                    \/ ~call[c].starts /\ owner' = owner
  BY OverStep
<1>1. CallTypes'  BY <1>v DEF CallTypes
<1>2. /\ owner' \in [Slot -> Caller \cup {None}] /\ server' \in [Slot -> Server \cup {0}]
      /\ call'[c] = v /\ pc'[c] \in {"have", "idle"}
      /\ \A d \in Caller \ {c} : pc'[d] = pc[d] /\ call'[d] = call[d]
  BY <1>c, <1>v DEF MapTypes, CallTypes
<1>3. Locks'
  <2> SUFFICES ASSUME NEW s \in Slot, NEW d \in Caller
               PROVE  owner'[s] = d <=> call'[d].starts /\ call'[d].slot = s
    BY DEF Locks
  <2>1. \A e \in Caller : owner[s] = e <=> call[e].starts /\ call[e].slot = s  BY DEF Locks
  <2>2. CASE d = c  BY <1>v, <1>2, <2>1
  <2>3. CASE d # c
    <3>1. call'[d] = call[d]  BY <1>2, <2>3
    <3>2. owner'[s] = d <=> owner[s] = d  BY <1>v, <2>1, <2>3 DEF MapTypes
    <3> QED  BY <2>1, <3>1, <3>2
  <2> QED  BY <2>2, <2>3
<1>4. Phases'
  <2> SUFFICES ASSUME NEW d \in Caller
               PROVE  /\ pc'[d] = "idle" => call'[d] = CallAt(call'[d].n, None, 0)
                      /\ pc'[d] = "slot" => call'[d].srv = 0 /\ ~call'[d].starts
                      /\ pc'[d] # "idle" => call'[d].slot \in Slot
                      /\ pc'[d] \in {"have", "send", "wait"} => call'[d].srv \in Server
                      /\ pc'[d] \in {"slot", "have"} => call'[d].chan = "nothing"
    BY DEF Phases, Ended
  <2>1. CASE d = c  BY <1>c, <1>v, <2>1 DEF CallTypes
  <2>2. CASE d # c  BY <1>2, <2>2 DEF Phases, Ended
  <2> QED  BY <2>1, <2>2
<1>5. OneStarts'
  <2> SUFFICES ASSUME NEW d \in Caller, call'[d].starts PROVE server'[call'[d].slot] = 0
    BY DEF OneStarts
  <2>1. d # c  BY <1>v, <1>2
  <2>2. call'[d] = call[d]  BY <1>2, <2>1
  <2>3. CASE server' = server  BY <2>2, <2>3 DEF OneStarts
  <2>4. CASE server' # server
    <3>1. call[c].starts /\ server' = [server EXCEPT ![call[c].slot] = call[c].srv]  BY <1>v, <2>4
    <3>2. call[d].slot # call[c].slot  BY <1>c, <2>1, <2>2, <3>1 DEF Locks
    <3> QED  BY <2>2, <3>1, <3>2 DEF OneStarts
  <2> QED  BY <2>3, <2>4
<1> QED  BY <1>1, <1>2, <1>3, <1>4, <1>5

(* A step of one call that is in no round trip and leaves the readers'     *)
(* tables alone disturbs no request.                                       *)
LEMMA OthersWait ==
  ASSUME Inv, NEW c \in Caller,
         \A d \in Caller \ {c} : pc'[d] = pc[d] /\ call'[d] = call[d],
         pc[c] \notin {"send", "wait"}, pc'[c] \notin {"send", "wait"},
         pending' = pending
  PROVE  Waiting' /\ Registered'
<1> USE DEF Inv
<1>1. Waiting'
  <2> SUFFICES ASSUME NEW d \in Caller, pc'[d] \in {"send", "wait"}, call'[d].chan = "nothing"
               PROVE  <<d, call'[d].n, call'[d].starts>> \in pending'[call'[d].srv]
    BY DEF Waiting, Id
  <2>1. d # c  OBVIOUS
  <2> QED  BY DEF Waiting, Id
<1>2. Registered'
  <2> SUFFICES ASSUME NEW p \in Server, NEW r \in pending[p]
               PROVE  /\ r = <<r[1], call'[r[1]].n, call'[r[1]].starts>>
                      /\ call'[r[1]].srv = p /\ call'[r[1]].chan = "nothing"
                      /\ pc'[r[1]] \in {"send", "wait"}
    BY DEF Registered, Id
  <2>1. r[1] \in Caller /\ pc[r[1]] \in {"send", "wait"}
    BY DEF Registered, TypeOK, ProcessTypes, Requests
  <2>2. pc'[r[1]] = pc[r[1]] /\ call'[r[1]] = call[r[1]]  BY <2>1
  <2> QED  BY <2>2 DEF Registered, Id
<1> QED  BY <1>1, <1>2

(* handle_for looks the key up, or makes its slot: the slot is one of      *)
(* Slot.                                                                   *)
LEMMA FindStep ==
  ASSUME Inv, NEW c \in Caller, NEW l \in Launches[c], Find(c, l)
  PROVE  Inv'
<1> USE PoolAssumption, NoneAssumption DEF Inv, TypeOK, map, processes
<1>l. l \in Launch  BY DEF Launch
<1>e. entry' \in Slot  BY DEF Find, MapTypes, Slot
<1>1. MapTypes'  BY <1>e DEF Find, MapTypes
<1>2. ProcessTypes'  BY DEF Find, ProcessTypes, started
<1>3. CallTypes'  BY <1>l, <1>e DEF Find, CallAt, CallTypes, CallType
<1>4. Locks'  BY DEF Find, Ended, CallAt, Locks, CallTypes, Phases
<1>5. Phases'  BY <1>e DEF Find, Ended, CallAt, Phases, CallTypes
<1>6. Waiting' /\ Registered'
  <2>1. \A d \in Caller \ {c} : pc'[d] = pc[d] /\ call'[d] = call[d]  BY DEF Find
  <2>2. pc[c] \notin {"send", "wait"} /\ pc'[c] \notin {"send", "wait"}  BY DEF Find
  <2>3. pending' = pending  BY DEF Find
  <2> QED  BY <2>1, <2>2, <2>3, OthersWait
<1>8. Readers'  BY DEF Find, Readers
<1>9. OneStarts'  BY DEF Find, CallAt, OneStarts
<1> QED  BY <1>1, <1>2, <1>3, <1>4, <1>5, <1>6, <1>8, <1>9

(* handle_for returns the server in the slot to one more caller.           *)
LEMMA ShareStep ==
  ASSUME Inv, NEW c \in Caller, Share(c)
  PROVE  Inv'
<1> USE PoolAssumption, NoneAssumption DEF Inv, TypeOK, map, processes
<1>c. call[c].slot \in Slot /\ server[call[c].slot] \in Server  BY DEF Share, Phases, MapTypes
<1>1. MapTypes'  BY DEF Share, MapTypes
<1>2. ProcessTypes'  BY DEF Share, ProcessTypes, started
<1>3. CallTypes'  BY <1>c DEF Share, CallTypes, CallType
<1>4. Locks'  BY DEF Share, Locks
<1>5. Phases'  BY <1>c DEF Share, Phases, CallTypes, Ended
<1>6. Waiting' /\ Registered'
  <2>1. \A d \in Caller \ {c} : pc'[d] = pc[d] /\ call'[d] = call[d]  BY DEF Share
  <2>2. pc[c] \notin {"send", "wait"} /\ pc'[c] \notin {"send", "wait"}  BY DEF Share
  <2>3. pending' = pending  BY DEF Share
  <2> QED  BY <2>1, <2>2, <2>3, OthersWait
<1>8. Readers'  BY DEF Share, Readers
<1>9. OneStarts'  BY DEF Share, OneStarts
<1> QED  BY <1>1, <1>2, <1>3, <1>4, <1>5, <1>6, <1>8, <1>9

(* handle_for stops what does not fit and starts a server: the lock was    *)
(* free, so no other call starts one in this slot, and the process is      *)
(* new.                                                                    *)
LEMMA ReplaceStep ==
  ASSUME Inv, NEW c \in Caller, Replace(c)
  PROVE  Inv'
<1> USE PoolAssumption, NoneAssumption DEF Inv, TypeOK, map, processes
<1> DEFINE p == CHOOSE q \in Server : q \notin started
<1>p. p \in Server /\ p \notin started  BY DEF Replace, ProcessTypes
<1>c. call[c].slot \in Slot /\ call[c].launch \in Launch
      BY DEF Replace, Phases, CallTypes, CallType
<1>1. MapTypes'  BY DEF Replace, MapTypes
<1>2. ProcessTypes'  BY DEF Replace, CallTypes, CallType, Phases
<1>3. CallTypes'  BY DEF Replace, CallTypes, CallType, Phases
<1>4. Locks'  BY DEF Replace, MayEnter, Locks, MapTypes, CallTypes
<1>5. Phases'
  <2> SUFFICES ASSUME NEW d \in Caller
               PROVE  /\ pc'[d] = "idle" => call'[d] = CallAt(call'[d].n, None, 0)
                      /\ pc'[d] = "slot" => call'[d].srv = 0 /\ ~call'[d].starts
                      /\ pc'[d] # "idle" => call'[d].slot \in Slot
                      /\ pc'[d] \in {"have", "send", "wait"} => call'[d].srv \in Server
                      /\ pc'[d] \in {"slot", "have"} => call'[d].chan = "nothing"
    BY DEF Phases, Ended
  <2>1. CASE d = c
    <3>1. call[c] \in CallType /\ call[c].chan = "nothing"  BY DEF Replace, CallTypes, Phases
    <3>2. pc'[c] = "have" /\ call'[c] = [call[c] EXCEPT !.srv = p, !.starts = TRUE]
      BY DEF Replace, CallTypes
    <3> QED  BY <1>p, <1>c, <2>1, <3>1, <3>2
  <2>2. CASE d # c  BY <2>2 DEF Replace, Phases, CallTypes, Ended
  <2> QED  BY <2>1, <2>2
<1>6. Waiting' /\ Registered'
  <2>1. \A d \in Caller \ {c} : pc'[d] = pc[d] /\ call'[d] = call[d]  BY DEF Replace, CallTypes
  <2>2. pc[c] \notin {"send", "wait"} /\ pc'[c] \notin {"send", "wait"}  BY DEF Replace
  <2>3. pending' = pending  BY DEF Replace
  <2> QED  BY <2>1, <2>2, <2>3, OthersWait
<1>8. Readers'  BY DEF Replace, Readers, ProcessTypes
<1>9. OneStarts'  BY <1>c DEF Replace, OneStarts, MapTypes, CallTypes
<1> QED  BY <1>1, <1>2, <1>3, <1>4, <1>5, <1>6, <1>8, <1>9

(* A program that cannot be run leaves an empty slot and ends the call.    *)
LEMMA SpawnFailsStep ==
  ASSUME Inv, NEW c \in Caller, SpawnFails(c)
  PROVE  Inv'
<1> USE PoolAssumption, NoneAssumption DEF Inv, TypeOK, map, processes
<1>1. MapTypes'  BY DEF SpawnFails, MapTypes
<1>2. ProcessTypes'  BY DEF SpawnFails, StopHandle, Unread, ProcessTypes, started
<1>3. CallTypes'  BY DEF SpawnFails, Ended, CallAt, CallTypes, CallType
<1>4. Locks'  BY DEF SpawnFails, Ended, CallAt, Locks, Phases
<1>5. Phases'  BY DEF SpawnFails, Ended, CallAt, Phases, CallTypes
<1>6. Waiting' /\ Registered'
  <2>1. \A d \in Caller \ {c} : pc'[d] = pc[d] /\ call'[d] = call[d]  BY DEF SpawnFails
  <2>2. pc[c] \notin {"send", "wait"} /\ pc'[c] \notin {"send", "wait"}  BY DEF SpawnFails
  <2>3. pending' = pending  BY DEF SpawnFails
  <2> QED  BY <2>1, <2>2, <2>3, OthersWait
<1>8. Readers'  BY DEF SpawnFails, StopHandle, Readers
<1>9. OneStarts'  BY DEF SpawnFails, Ended, CallAt, OneStarts
<1> QED  BY <1>1, <1>2, <1>3, <1>4, <1>5, <1>6, <1>8, <1>9

(* round_trip registers the request before it sends it.                    *)
LEMMA RegisterStep ==
  ASSUME Inv, NEW c \in Caller, Register(c)
  PROVE  Inv'
<1> USE PoolAssumption, NoneAssumption DEF Inv, TypeOK, map, processes
<1>1. MapTypes'  BY DEF Register, MapTypes
<1>2. ProcessTypes'
  BY DEF Register, ProcessTypes, started, Requests, Id, CallTypes, CallType, Phases
<1>3. CallTypes'  BY DEF Register, CallTypes
<1>4. Locks'  BY DEF Register, Locks
<1>5. Phases'  BY DEF Register, Phases, Ended
<1>6. Waiting'  BY DEF Register, Phases, Waiting, ProcessTypes, Id
<1>7. Registered'  BY DEF Register, Phases, Registered, CallTypes, Id
<1>8. Readers'  BY DEF Register, Readers
<1>9. OneStarts'  BY DEF Register, OneStarts
<1> QED  BY <1>1, <1>2, <1>3, <1>4, <1>5, <1>6, <1>7, <1>8, <1>9

(* A request that is written is waited for, whether anybody reads the      *)
(* answers or not; one that is not is withdrawn and its round trip over.   *)
LEMMA SendStep ==
  ASSUME Inv, NEW c \in Caller, Send(c)
  PROVE  Inv'
<1> USE PoolAssumption, NoneAssumption DEF Inv, TypeOK, map, processes
<1> DEFINE p == call[c].srv
<1>c. pc[c] = "send" /\ p \in Server /\ Id(c) \in Requests
  BY DEF Send, Phases, CallTypes, CallType, Id, Requests
<1>1. CASE /\ inbox' = Sent(p, Id(c)) /\ pc' = [pc EXCEPT ![c] = "wait"]
           /\ UNCHANGED <<pending, owner, server, call>>
  <2> USE <1>1
  <2>1. MapTypes'  BY DEF Send, MapTypes
  <2>2. ProcessTypes'  BY <1>c DEF Send, Sent, ProcessTypes, started
  <2>3. CallTypes' /\ Locks'  BY DEF CallTypes, Locks
  <2>4. Phases'  BY <1>c DEF Phases, CallTypes, Ended
  <2>5. Waiting'  BY <1>c DEF Waiting, CallTypes, Id
  <2>6. Registered'  BY DEF Registered, ProcessTypes, CallTypes, Id, Requests
  <2>7. Readers' /\ OneStarts'  BY DEF Send, Readers, OneStarts
  <2> QED  BY <2>1, <2>2, <2>3, <2>4, <2>5, <2>6, <2>7
<1>2. CASE pending' = Withdrawn(c) /\ Over(c, FALSE) /\ UNCHANGED inbox
  <2> USE <1>2
  <2>1. MapTypes'  BY <1>c, OverKeeps DEF Send, MapTypes
  <2>2. ProcessTypes'  BY <1>c DEF Send, Withdrawn, ProcessTypes, started
  <2>3. CallTypes' /\ Locks' /\ Phases' /\ OneStarts'  BY <1>c, OverKeeps
  <2>5. Waiting'  BY DEF Withdrawn, Over, Waiting, CallTypes, Id
  <2>6. Registered'
    BY DEF Withdrawn, Over, Registered, ProcessTypes, CallTypes, Id, Requests
  <2>7. Readers'  BY DEF Send, Readers
  <2> QED  BY <2>1, <2>2, <2>3, <2>5, <2>6, <2>7
<1> QED  BY <1>1, <1>2 DEF Send

(* What came in the channel ends the round trip; the reader has removed    *)
(* the request.                                                            *)
LEMMA ReceiveStep ==
  ASSUME Inv, NEW c \in Caller, Receive(c)
  PROVE  Inv'
<1> USE PoolAssumption, NoneAssumption DEF Inv, TypeOK, map, processes
<1>o. PICK ok \in BOOLEAN : Over(c, ok) /\ pc[c] \in {"send", "wait"}
  BY DEF Receive, Acknowledges
<1>1. MapTypes'  BY <1>o, OverKeeps DEF Receive, MapTypes
<1>2. ProcessTypes'  BY DEF Receive, ProcessTypes, started
<1>3. CallTypes'  BY <1>o, OverKeeps
<1>4. Locks'  BY <1>o, OverKeeps
<1>5. Phases'  BY <1>o, OverKeeps
<1>6. Waiting'  BY <1>o DEF Receive, Over, Waiting, CallTypes, Id
<1>7. Registered'  BY <1>o DEF Receive, Over, Registered, ProcessTypes, CallTypes, Id, Requests
<1>8. Readers'  BY DEF Receive, Readers
<1>9. OneStarts'  BY <1>o, OverKeeps
<1> QED  BY <1>1, <1>2, <1>3, <1>4, <1>5, <1>6, <1>7, <1>8, <1>9

(* A call that gives up withdraws its request in the same step.            *)
LEMMA TimeOutStep ==
  ASSUME Inv, NEW c \in Caller, TimeOut(c)
  PROVE  Inv'
<1> USE PoolAssumption, NoneAssumption DEF Inv, TypeOK, map, processes
<1>1. MapTypes'  BY DEF TimeOut, Over, MapTypes
<1>2. ProcessTypes'  BY DEF TimeOut, Withdrawn, ProcessTypes, started, Phases
<1>3. CallTypes'  BY OverKeeps DEF TimeOut
<1>4. Locks'  BY OverKeeps DEF TimeOut
<1>5. Phases'  BY OverKeeps DEF TimeOut
<1>6. Waiting'  BY DEF TimeOut, Withdrawn, Over, Waiting, CallTypes, Id
<1>7. Registered'
  BY DEF TimeOut, Withdrawn, Over, Registered, ProcessTypes, CallTypes, Id, Requests
<1>8. Readers'  BY DEF TimeOut, Readers
<1>9. OneStarts'  BY OverKeeps DEF TimeOut
<1> QED  BY <1>1, <1>2, <1>3, <1>4, <1>5, <1>6, <1>7, <1>8, <1>9

(* An answer in the pipe changes nothing yet.                              *)
LEMMA AnswerCallStep ==
  ASSUME Inv, NEW p \in started, AnswerCall(p)
  PROVE  Inv'
<1> USE PoolAssumption, NoneAssumption DEF Inv, TypeOK, map, processes
<1>1. MapTypes'  BY DEF AnswerCall, MapTypes
<1>2. ProcessTypes'  BY DEF AnswerCall, ProcessTypes, started
<1>3. CallTypes'  BY DEF AnswerCall, CallTypes
<1>4. Locks'  BY DEF AnswerCall, Locks
<1>5. Phases'  BY DEF AnswerCall, Phases, Ended
<1>6. Waiting'  BY DEF AnswerCall, Waiting, Id
<1>7. Registered'  BY DEF AnswerCall, Registered, Id
<1>8. Readers'  BY DEF AnswerCall, Readers
<1>9. OneStarts'  BY DEF AnswerCall, OneStarts
<1> QED  BY <1>1, <1>2, <1>3, <1>4, <1>5, <1>6, <1>7, <1>8, <1>9

(* Nor does the end of a process, until its reader sees it.                *)
LEMMA DieStep ==
  ASSUME Inv, NEW p \in started, Die(p)
  PROVE  Inv'
<1> USE PoolAssumption, NoneAssumption DEF Inv, TypeOK, map, processes
<1>1. MapTypes'  BY DEF Die, MapTypes
<1>2. ProcessTypes'  BY DEF Die, Unread, ProcessTypes, started
<1>3. CallTypes'  BY DEF Die, CallTypes
<1>4. Locks'  BY DEF Die, Locks
<1>5. Phases'  BY DEF Die, Phases, Ended
<1>6. Waiting'  BY DEF Die, Waiting, Id
<1>7. Registered'  BY DEF Die, Registered, Id
<1>8. Readers'  BY DEF Die, Readers
<1>9. OneStarts'  BY DEF Die, OneStarts
<1> QED  BY <1>1, <1>2, <1>3, <1>4, <1>5, <1>6, <1>7, <1>8, <1>9

(* The reader removes a request and fills its channel; a late answer       *)
(* finds no request and is dropped.                                        *)
LEMMA RouteStep ==
  ASSUME Inv, NEW p \in started, Route(p)
  PROVE  Inv'
<1> USE PoolAssumption, NoneAssumption DEF Inv, TypeOK, map, processes
<1>1. MapTypes'  BY DEF Route, MapTypes
<1>2. ProcessTypes'  BY DEF Route, ProcessTypes, started
<1>3. CallTypes'
  <2>1. ASSUME NEW d \in Caller PROVE call'[d] \in CallType
    <3>1. call[d] \in CallType  BY DEF CallTypes
    <3>2. call'[d] = [call[d] EXCEPT !.chan = "answer"] \/ call'[d] = call[d]  BY DEF Route, Given
    <3> QED  BY <3>1, <3>2 DEF CallType
  <2> QED  BY <2>1 DEF Route, Given, CallTypes
<1>4. Locks'  BY DEF Route, Given, Locks
<1>5. Phases'
  <2> SUFFICES ASSUME NEW d \in Caller
               PROVE  /\ pc'[d] = "idle" => call'[d] = CallAt(call'[d].n, None, 0)
                      /\ pc'[d] = "slot" => call'[d].srv = 0 /\ ~call'[d].starts
                      /\ pc'[d] # "idle" => call'[d].slot \in Slot
                      /\ pc'[d] \in {"have", "send", "wait"} => call'[d].srv \in Server
                      /\ pc'[d] \in {"slot", "have"} => call'[d].chan = "nothing"
    BY DEF Phases, Ended
  <2>1. pc'[d] = pc[d]  BY DEF Route
  <2>2. CASE Id(d) \in pending[p]
    <3>1. pc[d] \in {"send", "wait"}  BY <2>2 DEF Registered, Id, ProcessTypes
    <3>2. call[d] \in CallType  BY DEF CallTypes
    <3>3. \/ call'[d] = [call[d] EXCEPT !.chan = "answer"]
          \/ call'[d] = call[d]
      BY DEF Route, Given
    <3>4. call'[d].slot = call[d].slot /\ call'[d].srv = call[d].srv  BY <3>2, <3>3 DEF CallType
    <3> QED  BY <2>1, <3>1, <3>4 DEF Phases
  <2>3. CASE Id(d) \notin pending[p]
    <3>1. call'[d] = call[d]  BY <2>3 DEF Route, Given
    <3> QED  BY <2>1, <3>1 DEF Phases, Ended
  <2> QED  BY <2>2, <2>3
<1>6. Waiting'  BY DEF Route, Given, Waiting, Id
<1>7. Registered'  BY DEF Route, Given, Registered, ProcessTypes, Id, Requests
<1>8. Readers'  BY DEF Route, Readers
<1>9. OneStarts'  BY DEF Route, Given, OneStarts
<1> QED  BY <1>1, <1>2, <1>3, <1>4, <1>5, <1>6, <1>7, <1>8, <1>9

(* A reader that ends, for whatever reason, clears the flag and has still  *)
(* every request it had.                                                   *)
LEMMA ReadingEndsStep ==
  ASSUME Inv, NEW p \in started, ReadingEnds(p)
  PROVE  Inv'
<1> USE PoolAssumption, NoneAssumption DEF Inv, TypeOK, map, processes
<1>1. MapTypes'  BY DEF ReadingEnds, MapTypes
<1>2. ProcessTypes'  BY DEF ReadingEnds, Unheard, Unread, ProcessTypes, started
<1>3. CallTypes'  BY DEF ReadingEnds, CallTypes
<1>4. Locks'  BY DEF ReadingEnds, Locks
<1>5. Phases'  BY DEF ReadingEnds, Phases, Ended
<1>6. Waiting'  BY DEF ReadingEnds, Waiting, Id
<1>7. Registered'  BY DEF ReadingEnds, Registered, Id
<1>8. Readers'  BY DEF ReadingEnds, Readers
<1>9. OneStarts'  BY DEF ReadingEnds, OneStarts
<1> QED  BY <1>1, <1>2, <1>3, <1>4, <1>5, <1>6, <1>7, <1>8, <1>9

(* It then fails whatever is registered and leaves nothing behind; a call  *)
(* that registers later has still to send.                                 *)
LEMMA FailPendingStep ==
  ASSUME Inv, NEW p \in started, FailPending(p)
  PROVE  Inv'
<1> USE PoolAssumption, NoneAssumption DEF Inv, TypeOK, map, processes
<1>1. MapTypes'  BY DEF FailPending, MapTypes
<1>2. ProcessTypes'  BY DEF FailPending, ProcessTypes, started
<1>3. CallTypes'
  <2>1. ASSUME NEW d \in Caller PROVE call'[d] \in CallType
    <3>1. call[d] \in CallType  BY DEF CallTypes
    <3>2. call'[d] = [call[d] EXCEPT !.chan = "stopped"] \/ call'[d] = call[d]  BY DEF FailPending, Given
    <3> QED  BY <3>1, <3>2 DEF CallType
  <2> QED  BY <2>1 DEF FailPending, Given, CallTypes
<1>4. Locks'  BY DEF FailPending, Given, Locks
<1>5. Phases'
  <2> SUFFICES ASSUME NEW d \in Caller
               PROVE  /\ pc'[d] = "idle" => call'[d] = CallAt(call'[d].n, None, 0)
                      /\ pc'[d] = "slot" => call'[d].srv = 0 /\ ~call'[d].starts
                      /\ pc'[d] # "idle" => call'[d].slot \in Slot
                      /\ pc'[d] \in {"have", "send", "wait"} => call'[d].srv \in Server
                      /\ pc'[d] \in {"slot", "have"} => call'[d].chan = "nothing"
    BY DEF Phases, Ended
  <2>1. pc'[d] = pc[d]  BY DEF FailPending
  <2>2. CASE Id(d) \in pending[p]
    <3>1. pc[d] \in {"send", "wait"}  BY <2>2 DEF Registered, Id, ProcessTypes
    <3>2. call[d] \in CallType  BY DEF CallTypes
    <3>3. \/ call'[d] = [call[d] EXCEPT !.chan = "stopped"]
          \/ call'[d] = call[d]
      BY DEF FailPending, Given
    <3>4. call'[d].slot = call[d].slot /\ call'[d].srv = call[d].srv  BY <3>2, <3>3 DEF CallType
    <3> QED  BY <2>1, <3>1, <3>4 DEF Phases
  <2>3. CASE Id(d) \notin pending[p]
    <3>1. call'[d] = call[d]  BY <2>3 DEF FailPending, Given
    <3> QED  BY <2>1, <3>1 DEF Phases, Ended
  <2> QED  BY <2>2, <2>3
<1>6. Waiting'  BY DEF FailPending, Given, Waiting, Id
<1>7. Registered'  BY DEF FailPending, Given, Registered, ProcessTypes, Id, Requests
<1>8. Readers'  BY DEF FailPending, Readers
<1>9. OneStarts'  BY DEF FailPending, Given, OneStarts
<1> QED  BY <1>1, <1>2, <1>3, <1>4, <1>5, <1>6, <1>7, <1>8, <1>9

(* stop and shutdown take the slot out of the map.                         *)
LEMMA ForgetStep ==
  ASSUME Inv, Forget
  PROVE  Inv'
<1> USE PoolAssumption, NoneAssumption DEF Inv, TypeOK, map, processes
<1>1. MapTypes'  BY DEF Forget, MapTypes
<1>2. ProcessTypes'  BY DEF Forget, ProcessTypes, started
<1>3. CallTypes'  BY DEF Forget, CallTypes
<1>4. Locks'  BY DEF Forget, Locks
<1>5. Phases'  BY DEF Forget, Phases, Ended
<1>6. Waiting'  BY DEF Forget, Waiting, Id
<1>7. Registered'  BY DEF Forget, Registered, Id
<1>8. Readers'  BY DEF Forget, Readers
<1>9. OneStarts'  BY DEF Forget, OneStarts
<1> QED  BY <1>1, <1>2, <1>3, <1>4, <1>5, <1>6, <1>7, <1>8, <1>9

(* They stop the server in it once they have its lock.                     *)
LEMMA StopServerStep ==
  ASSUME Inv, NEW s \in Slot, StopServer(s)
  PROVE  Inv'
<1> USE PoolAssumption, NoneAssumption DEF Inv, TypeOK, map, processes
<1>1. MapTypes'  BY DEF StopServer, MapTypes
<1>2. ProcessTypes'  BY DEF StopServer, StopHandle, Unread, ProcessTypes, started
<1>3. CallTypes'  BY DEF StopServer, CallTypes
<1>4. Locks'  BY DEF StopServer, Locks
<1>5. Phases'  BY DEF StopServer, Phases, Ended
<1>6. Waiting'  BY DEF StopServer, Waiting, Id
<1>7. Registered'  BY DEF StopServer, Registered, Id
<1>8. Readers'  BY DEF StopServer, StopHandle, Readers
<1>9. OneStarts'  BY DEF StopServer, OneStarts
<1> QED  BY <1>1, <1>2, <1>3, <1>4, <1>5, <1>6, <1>7, <1>8, <1>9

(* Every step of the pool keeps the invariant.                             *)
LEMMA NextInv == Inv /\ [Next]_vars => Inv'
<1> SUFFICES ASSUME Inv, [Next]_vars PROVE Inv'  OBVIOUS
<1>1. ASSUME NEW c \in Caller, Calls(c) PROVE Inv'
  BY <1>1, ShareStep, ReplaceStep, SpawnFailsStep, RegisterStep, SendStep, ReceiveStep, TimeOutStep
     DEF Calls
<1>2. ASSUME NEW c \in Caller, NEW l \in Launches[c], Find(c, l) PROVE Inv'  BY <1>2, FindStep
<1>3. ASSUME NEW p \in started, Reads(p) \/ AnswerCall(p) \/ Die(p) PROVE Inv'
  BY <1>3, RouteStep, ReadingEndsStep, FailPendingStep, AnswerCallStep, DieStep DEF Reads
<1>4. CASE Forget  BY <1>4, ForgetStep
<1>5. ASSUME NEW s \in Slot, StopServer(s) PROVE Inv'  BY <1>5, StopServerStep
<1>6. CASE UNCHANGED vars
  <2> USE <1>6 DEF Inv, vars, map, processes
  <2>1. TypeOK'  BY DEF TypeOK, MapTypes, ProcessTypes, CallTypes, Locks, started
  <2>2. Phases' /\ Waiting'  BY DEF Phases, Waiting, Ended, Id
  <2>3. Registered' /\ Readers' /\ OneStarts'  BY DEF Registered, Readers, OneStarts, Id
  <2> QED  BY <2>1, <2>2, <2>3
<1> QED  BY <1>1, <1>2, <1>3, <1>4, <1>5, <1>6 DEF Next

(* The invariant holds of every behaviour.                                 *)
LEMMA Invariance == Spec => []Inv
<1>1. Init => Inv  BY InitInv
<1>2. Inv /\ [Next]_vars => Inv'  BY NextInv
<1> QED  BY <1>1, <1>2, PTL DEF Spec

(* The pool's state is well typed, and the lock of a slot is held by       *)
(* exactly the call that starts a server in it (handle_for).               *)
THEOREM TypeCorrect == Spec => []TypeOK
<1>1. Inv => TypeOK  BY DEF Inv
<1> QED  BY <1>1, Invariance, PTL

(* In whatever order answers, timeouts, deaths and stops come, an entry    *)
(* of a reader belongs to a call that is still out for it (round_trip,     *)
(* reader).                                                                *)
THEOREM NothingStaysRegistered == Spec => []PendingHasItsCaller
<1>1. Inv => PendingHasItsCaller  BY DEF Inv, Registered, PendingHasItsCaller
<1> QED  BY <1>1, Invariance, PTL

(* A slot never has two servers, one in it and one being started or two    *)
(* being started, however many callers meet there (handle_for).            *)
THEOREM CallersShareOneServer == Spec => []OneServerPerSlot
<1>1. Inv => OneServerPerSlot
  <2> SUFFICES ASSUME Inv, NEW s \in Slot, NEW p \in ServersOf(s), NEW q \in ServersOf(s)
               PROVE  p = q
    BY DEF OneServerPerSlot
  <2>1. \A c, d \in Caller : (/\ call[c].starts /\ call[c].slot = s
                              /\ call[d].starts /\ call[d].slot = s) => c = d
    BY DEF Inv, TypeOK, Locks
  <2>2. \A c \in Caller : call[c].starts /\ call[c].slot = s => server[s] = 0
    BY DEF Inv, OneStarts
  <2> QED  BY <2>1, <2>2 DEF ServersOf
<1> QED  BY <1>1, Invariance, PTL

(* A step after which a call waits in vain, with an empty channel for a    *)
(* reader that has gone, is that call's own write, to a process that runs: *)
(* the reader left nothing registered unanswered (reader, round_trip).     *)
LEMMA OnlySendersWaitInVain ==
  ASSUME Inv, [Next]_vars, NEW c \in Caller, InVain(c)', ~InVain(c)
  PROVE  pc[c] = "send" /\ call[c].srv \in running
<1> USE DEF InVain, Inv, TypeOK, map, processes
<1>w. /\ pc'[c] = "wait" /\ call'[c].chan = "nothing"
      /\ reader'[call'[c].srv] = "gone"
  OBVIOUS
<1>1. ASSUME NEW d \in Caller, Calls(d), ~Send(d) PROVE FALSE
  <2>1. pc'[d] # "wait" /\ \A e \in Caller \ {d} : pc'[e] = pc[e] /\ call'[e] = call[e]
    BY <1>1 DEF Calls, Share, Replace, SpawnFails, Register, Receive, TimeOut, Over, CallTypes
  <2>2. pc[c] = "wait" /\ call'[c] = call[c]  BY <1>w, <2>1
  <2>3. call[c].srv \in Server  BY <2>2 DEF Phases
  <2>4. \A p \in Server : reader'[p] = "gone" => reader[p] = "gone"
    BY <1>1 DEF Calls, Share, Replace, SpawnFails, Register, Receive, TimeOut, ProcessTypes
  <2> QED  BY <1>w, <2>2, <2>3, <2>4
<1>2. ASSUME NEW d \in Caller, Send(d) PROVE d = c /\ pc[c] = "send" /\ call[c].srv \in running
  <2>1. reader' = reader /\ \A e \in Caller \ {d} : pc'[e] = pc[e] /\ call'[e] = call[e]
    BY <1>2 DEF Send, Over, CallTypes
  <2>2. d = c  BY <1>w, <2>1
  <2>3. CASE Takes(call[d].srv)  BY <1>2, <2>2, <2>3 DEF Send, Takes
  <2>4. CASE ~Takes(call[d].srv)  BY <1>2, <1>w, <2>2, <2>4 DEF Send, Over, CallTypes
  <2> QED  BY <2>3, <2>4
<1>3. ASSUME NEW d \in Caller, NEW l \in Launches[d], Find(d, l) PROVE FALSE
  BY <1>3, <1>w DEF Find, CallTypes
<1>4. ASSUME NEW p \in started, FailPending(p) PROVE FALSE
  <2>1. pc[c] = "wait"  BY <1>4, <1>w DEF FailPending
  <2>2. call[c] \in CallType /\ p \in Server  BY DEF CallTypes, ProcessTypes
  <2>3. Id(c) \notin pending[p] /\ call'[c] = call[c]
    BY <1>4, <1>w, <2>2 DEF FailPending, Given, CallType
  <2>4. call[c].srv = p  BY <1>4, <1>w, <2>1, <2>3, <2>2 DEF FailPending, ProcessTypes
  <2> QED  BY <1>w, <2>1, <2>3, <2>4 DEF Waiting
<1>5. ASSUME NEW p \in started, Route(p) \/ ReadingEnds(p) \/ AnswerCall(p) \/ Die(p) PROVE FALSE
  <2>1. pc[c] = "wait"  BY <1>5, <1>w DEF Route, ReadingEnds, AnswerCall, Die
  <2>2. call[c] \in CallType /\ call[c].srv \in Server /\ p \in Server
    BY <2>1 DEF CallTypes, Phases, ProcessTypes
  <2>3. call'[c] = call[c]
    BY <1>5, <1>w, <2>2 DEF Route, Given, CallType, ReadingEnds, AnswerCall, Die
  <2>4. \A q \in Server : reader'[q] = "gone" => reader[q] = "gone"
    BY <1>5 DEF Route, ReadingEnds, AnswerCall, Die, ProcessTypes
  <2> QED  BY <1>w, <2>1, <2>2, <2>3, <2>4
<1>6. CASE Forget \/ (\E s \in Slot : StopServer(s)) \/ UNCHANGED vars
  BY <1>6, <1>w DEF Forget, StopServer, vars
<1> QED  BY <1>1, <1>2, <1>3, <1>4, <1>5, <1>6 DEF Next, Calls, Reads

(* handle_for gives a call the server of the slot only while its flag is   *)
(* set, so before its reader has gone, or one it has just started.         *)
LEMMA OnlyHeardServersAreGiven ==
  ASSUME Inv, [Next]_vars, NEW c \in Caller, pc[c] = "slot", pc'[c] = "have"
  PROVE  reader'[call'[c].srv] # "gone"
<1> USE DEF Inv, TypeOK, map, processes
<1>1. ASSUME NEW d \in Caller, Calls(d) PROVE d = c
  BY <1>1 DEF Calls, Share, Replace, SpawnFails, Register, Send, Receive, TimeOut, Over, CallTypes
<1>2. ASSUME Calls(c) PROVE Share(c) \/ Replace(c)
  BY <1>2 DEF Calls, SpawnFails, Register, Send, Receive, TimeOut, CallTypes
<1>3. CASE Share(c)
  <2>1. server[call[c].slot] \in alive /\ call'[c].srv = server[call[c].slot] /\ reader' = reader
    BY <1>3 DEF Share, Fits, IsAlive, CallTypes, CallType
  <2> QED  BY <2>1 DEF Readers, ProcessTypes
<1>4. CASE Replace(c)
  <2> DEFINE p == CHOOSE q \in Server : q \notin started
  <2>1. p \in Server  BY <1>4 DEF Replace, ProcessTypes
  <2>2. call'[c].srv = p /\ reader'[p] = "reads"
    BY <1>4, <2>1 DEF Replace, CallTypes, CallType, ProcessTypes
  <2> QED  BY <2>2
<1>5. ASSUME NEW d \in Caller, NEW l \in Launches[d], Find(d, l) PROVE FALSE
  BY <1>5 DEF Find, CallTypes
<1>6. ASSUME NEW p \in started, Reads(p) \/ AnswerCall(p) \/ Die(p) PROVE FALSE
  BY <1>6 DEF Reads, Route, ReadingEnds, FailPending, AnswerCall, Die
<1>7. CASE Forget \/ (\E s \in Slot : StopServer(s)) \/ UNCHANGED vars
  BY <1>7 DEF Forget, StopServer, vars
<1> QED  BY <1>1, <1>2, <1>3, <1>4, <1>5, <1>6, <1>7 DEF Next

(* However a reader ends, no call is left waiting by it: it fails them     *)
(* all, its server is given to nobody afterwards, and only a call that had *)
(* the server before, and writes to its process while it runs on, waits    *)
(* for its own time in vain (reader, round_trip, handle_for).              *)
THEOREM EndedReadersLeaveNobody == Spec => EndedReaderLeavesNobody
<1>1. ASSUME Inv, [Next]_vars
      PROVE  \A c \in Caller :
               /\ InVain(c)' /\ ~InVain(c) => pc[c] = "send" /\ call[c].srv \in running
               /\ pc[c] = "slot" /\ pc'[c] = "have" => reader'[call'[c].srv] # "gone"
  BY <1>1, OnlySendersWaitInVain, OnlyHeardServersAreGiven
<1> QED  BY <1>1, Invariance, PTL DEF Spec, EndedReaderLeavesNobody

=============================================================================
