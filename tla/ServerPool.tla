----------------------------- MODULE ServerPool -----------------------------
(***************************************************************************)
(* The pool of AWS service processes (crates/cobolt-runtime/src/aws/       *)
(* pool.rs): the threads that call a service share one server process per  *)
(* key, started by the first call and replaced when it died or was started *)
(* differently; a reader thread per process hands its answers to the calls *)
(* that wait for them; and AWS-SET-CREDENTIALS, a diagnosis or the end of  *)
(* the application stop it while calls go on.                              *)
(*                                                                         *)
(* One key: the slots of others share nothing with it but the map, which   *)
(* is locked for single steps.  Links over https are not modelled.         *)
(***************************************************************************)
EXTENDS Naturals

CONSTANTS Caller,       \* the threads that make calls
          Launches,     \* the launches the controls behind each thread ask for
          LastServer,   \* bound: processes started
          LastSlot,     \* bound: times the key's slot is made anew
          LastCall,     \* bound: calls of each thread
          None

Server == 1 .. LastServer
Slot   == 1 .. LastSlot

Launch == UNION {Launches[c] : c \in Caller}

ASSUME PoolAssumption == LastServer \in Nat /\ LastSlot \in Nat /\ LastCall \in [Caller -> Nat]
ASSUME NoneAssumption == None \notin Caller

VARIABLES
  entry,      \* the slot the map holds for the key, or 0
  slots,      \* slots made
  owner,      \* who holds the lock of a slot
  server,     \* the Handle in a slot, or 0
  stopping,   \* slots a stop has taken out of the map and not yet emptied
  launch,     \* launch of each Handle; its processes started are the domain
  running,    \* processes that have not ended: their input is open
  alive,      \* the alive flag
  reader,     \* each reader thread
  inbox,      \* requests a process has been sent and may still answer
  out,        \* answers in a process's output
  pending,    \* requests registered with the reader
  pc,         \* where a caller is
  call        \* its call: number, launch asked for, slot, server, whether it is
              \* the handshake of a server it started, and what its channel holds

started == DOMAIN launch
processes == <<launch, running, alive, reader, inbox, out, pending>>
map == <<entry, slots, stopping>>
vars == <<map, owner, server, processes, pc, call>>

CallAt(n, l, s) == [n |-> n, launch |-> l, slot |-> s, srv |-> 0, starts |-> FALSE, chan |-> "nothing"]

Ended(c) == CallAt(call[c].n, None, 0)

(* A request of a session: the call and the handshake before it differ.     *)
Id(c) == <<c, call[c].n, call[c].starts>>

Init ==
  /\ entry = 0 /\ slots = 0 /\ stopping = {}
  /\ owner = [s \in Slot |-> None] /\ server = [s \in Slot |-> 0]
  /\ launch = [p \in {} |-> None]
  /\ running = {} /\ alive = {}
  /\ reader = [p \in Server |-> "none"]
  /\ inbox = [p \in Server |-> {}] /\ out = inbox /\ pending = inbox
  /\ pc = [c \in Caller |-> "idle"]
  /\ call = [c \in Caller |-> CallAt(0, None, 0)]

-----------------------------------------------------------------------------
(* What was written to a process that ends is lost; what it wrote is not.   *)
Unread(p) == [q \in Server |-> IF q = p THEN {} ELSE inbox[q]]

(* Handle::stop: the input is closed, and the process ends or is killed.    *)
StopHandle(p) == running' = running \ {p} /\ inbox' = Unread(p)

(* handle_for.                                                              *)

(* The map's entry for the key, made if there is none.                      *)
Find(c, l) ==
  /\ pc[c] = "idle" /\ call[c].n < LastCall[c]
  /\ \/ entry # 0 /\ UNCHANGED <<entry, slots>>
     \/ entry = 0 /\ slots < LastSlot /\ slots' = slots + 1 /\ entry' = slots + 1
  /\ pc' = [pc EXCEPT ![c] = "slot"]
  /\ call' = [call EXCEPT ![c] = CallAt(@.n + 1, l, entry')]
  /\ UNCHANGED <<stopping, owner, server, processes>>

IsAlive(p) == p \in alive /\ p \in running
Fits(p, l) == IsAlive(p) /\ launch[p] = l

AnyoneMayEnter(s) == TRUE
MayEnter(s) == owner[s] = None

(* The lock of the slot: a server that fits is shared.                      *)
Share(c) ==
  LET s == call[c].slot IN
  /\ pc[c] = "slot" /\ MayEnter(s)
  /\ server[s] # 0 /\ Fits(server[s], call[c].launch)
  /\ pc' = [pc EXCEPT ![c] = "have"]
  /\ call' = [call EXCEPT ![c].srv = server[s]]
  /\ UNCHANGED <<map, owner, server, processes>>

(* Otherwise it is stopped - input closed, then killed - and another        *)
(* started; the lock is held until its handshake is over.                   *)
Replace(c) ==
  LET s == call[c].slot
      p == CHOOSE q \in Server : q \notin started
  IN
  /\ pc[c] = "slot" /\ MayEnter(s)
  /\ server[s] # 0 => ~Fits(server[s], call[c].launch)
  /\ started # Server
  /\ server' = [server EXCEPT ![s] = 0]
  /\ owner' = [owner EXCEPT ![s] = c]
  /\ launch' = [q \in started \cup {p} |-> IF q = p THEN call[c].launch ELSE launch[q]]
  /\ running' = (running \ {server[s]}) \cup {p}
  /\ inbox' = Unread(server[s])
  /\ alive' = alive \cup {p}
  /\ reader' = [reader EXCEPT ![p] = "reads"]
  /\ pc' = [pc EXCEPT ![c] = "have"]
  /\ call' = [call EXCEPT ![c].srv = p, ![c].starts = TRUE]
  /\ UNCHANGED <<map, out, pending>>

(* A program that cannot be run at all.                                     *)
SpawnFails(c) ==
  LET s == call[c].slot IN
  /\ pc[c] = "slot" /\ MayEnter(s)
  /\ server[s] # 0 => ~Fits(server[s], call[c].launch)
  /\ server' = [server EXCEPT ![s] = 0]
  /\ StopHandle(server[s])
  /\ pc' = [pc EXCEPT ![c] = "idle"]
  /\ call' = [call EXCEPT ![c] = Ended(c)]
  /\ UNCHANGED <<map, owner, launch, alive, reader, out, pending>>

-----------------------------------------------------------------------------
(* round_trip.                                                              *)

Register(c) ==
  /\ pc[c] = "have"
  /\ pending' = [pending EXCEPT ![call[c].srv] = @ \cup {Id(c)}]
  /\ pc' = [pc EXCEPT ![c] = "send"]
  /\ UNCHANGED <<map, owner, server, launch, running, alive, reader, inbox, out, call>>

Withdrawn(c) == [pending EXCEPT ![call[c].srv] = @ \ {Id(c)}]

(* The end of a round trip.  A handshake that went well puts its server in  *)
(* the slot and goes on to the call; one that did not leaves the slot empty.*)
Over(c, ok) ==
  LET s == call[c].slot IN
  IF call[c].starts
  THEN /\ owner' = [owner EXCEPT ![s] = None]
       /\ server' = IF ok THEN [server EXCEPT ![s] = call[c].srv] ELSE server
       /\ pc' = [pc EXCEPT ![c] = IF ok THEN "have" ELSE "idle"]
       /\ call' = [call EXCEPT ![c] = IF ok THEN [@ EXCEPT !.starts = FALSE, !.chan = "nothing"]
                                     ELSE Ended(c)]
  ELSE /\ pc' = [pc EXCEPT ![c] = "idle"]
       /\ call' = [call EXCEPT ![c] = Ended(c)]
       /\ UNCHANGED <<owner, server>>

(* A write to a server that is gone fails; one to a server that runs may.   *)
Takes(p) == p \in running

(* An answer that nobody would read is none.                                *)
Sent(p, r) == IF reader[p] = "reads" THEN [inbox EXCEPT ![p] = @ \cup {r}] ELSE inbox

Send(c) ==
  LET p == call[c].srv IN
  /\ pc[c] = "send"
  /\ \/ /\ Takes(p)
        /\ inbox' = Sent(p, Id(c))
        /\ pc' = [pc EXCEPT ![c] = "wait"]
        /\ UNCHANGED <<pending, owner, server, call>>
     \/ /\ pending' = Withdrawn(c)
        /\ Over(c, FALSE)
        /\ UNCHANGED inbox
  /\ UNCHANGED <<map, launch, running, alive, reader, out>>

(* What the reader sent arrives.  The answer to a handshake may be a        *)
(* refusal, and has to be acknowledged.                                     *)
Acknowledges(c) == call[c].chan = "answer" /\ Takes(call[c].srv)

Receive(c) ==
  /\ pc[c] = "wait" /\ call[c].chan # "nothing"
  /\ \E ok \in {FALSE, Acknowledges(c)} : Over(c, ok)
  /\ UNCHANGED <<map, processes>>

TimeOutNever(c) == FALSE /\ UNCHANGED vars
TimeOutAlone(c) ==
  /\ pc[c] = "wait" /\ call[c].chan = "nothing"
  /\ Over(c, FALSE)
  /\ UNCHANGED <<map, processes>>

TimeOut(c) ==
  /\ pc[c] = "wait" /\ call[c].chan = "nothing"
  /\ pending' = Withdrawn(c)
  /\ Over(c, FALSE)
  /\ UNCHANGED <<map, launch, running, alive, reader, inbox, out>>

-----------------------------------------------------------------------------
(* The process, and the thread that reads what it writes.                   *)

AnswerCall(p) ==
  /\ p \in running
  /\ \E r \in inbox[p] : /\ inbox' = [inbox EXCEPT ![p] = @ \ {r}]
                         /\ out' = [out EXCEPT ![p] = @ \cup {r}]
  /\ UNCHANGED <<map, owner, server, launch, running, alive, reader, pending, pc, call>>

(* It may end at any time.                                                  *)
Die(p) ==
  /\ p \in running
  /\ running' = running \ {p} /\ inbox' = Unread(p)
  /\ UNCHANGED <<map, owner, server, launch, alive, reader, out, pending, pc, call>>

Given(rs, what) == [c \in Caller |-> IF Id(c) \in rs THEN [call[c] EXCEPT !.chan = what] ELSE call[c]]

(* An answer goes to the call that waits for it; a late one is dropped.     *)
Route(p) ==
  /\ reader[p] = "reads"
  /\ \E r \in out[p] :
       /\ out' = [out EXCEPT ![p] = @ \ {r}]
       /\ pending' = [pending EXCEPT ![p] = @ \ {r}]
       /\ call' = Given(pending[p] \cap {r}, "answer")
  /\ UNCHANGED <<map, owner, server, launch, running, alive, reader, inbox, pc>>

Unheard(p) == out' = [out EXCEPT ![p] = {}] /\ inbox' = Unread(p)

ReadingEndsAlone(p) ==
  /\ reader[p] = "reads"
  /\ alive' = alive \ {p}
  /\ reader' = [reader EXCEPT ![p] = "gone"] /\ Unheard(p)
  /\ UNCHANGED <<map, owner, server, launch, running, pending, pc, call>>

(* read_message returns no more messages: the process ended, or closed its  *)
(* output and runs on, or wrote a message that is cut short or too long, or *)
(* the read failed.  First the flag, then every call that waits.            *)
ReadingEnds(p) ==
  /\ reader[p] = "reads"
  /\ alive' = alive \ {p}
  /\ reader' = [reader EXCEPT ![p] = "ends"] /\ Unheard(p)
  /\ UNCHANGED <<map, owner, server, launch, running, pending, pc, call>>

FailPending(p) ==
  /\ reader[p] = "ends"
  /\ pending' = [pending EXCEPT ![p] = {}]
  /\ call' = Given(pending[p], "stopped")
  /\ reader' = [reader EXCEPT ![p] = "gone"]
  /\ UNCHANGED <<map, owner, server, launch, running, alive, inbox, out, pc>>

-----------------------------------------------------------------------------
(* stop, stop_connection and shutdown: the slot leaves the map at once; the *)
(* server in it is stopped when the slot's lock is free.                    *)
Forget ==
  /\ entry # 0
  /\ stopping' = stopping \cup {entry} /\ entry' = 0
  /\ UNCHANGED <<slots, owner, server, processes, pc, call>>

StopServer(s) ==
  /\ s \in stopping /\ MayEnter(s)
  /\ stopping' = stopping \ {s}
  /\ server' = [server EXCEPT ![s] = 0]
  /\ StopHandle(server[s])
  /\ UNCHANGED <<entry, slots, owner, launch, alive, reader, out, pending, pc, call>>

-----------------------------------------------------------------------------
Calls(c) == \/ Share(c) \/ Replace(c) \/ SpawnFails(c)
            \/ Register(c) \/ Send(c) \/ Receive(c) \/ TimeOut(c)
Reads(p) == Route(p) \/ ReadingEnds(p) \/ FailPending(p)

Next == \/ \E c \in Caller : Calls(c) \/ \E l \in Launches[c] : Find(c, l)
        \/ \E p \in started : Reads(p) \/ AnswerCall(p) \/ Die(p)
        \/ Forget \/ \E s \in Slot : StopServer(s)

Spec == Init /\ [][Next]_vars

(* A call's thread goes on - recv_timeout gives up by itself -, and so does *)
(* a stop.  Nothing is assumed of the server processes.                     *)
FairSpec == /\ Spec
            /\ \A c \in Caller : WF_vars(Calls(c))
            /\ \A s \in Slot : WF_vars(StopServer(s))
-----------------------------------------------------------------------------
Requests == Caller \X Nat \X BOOLEAN
CallType == [n : Nat, launch : Launch \cup {None}, slot : Slot \cup {0}, srv : Server \cup {0},
             starts : BOOLEAN, chan : {"nothing", "answer", "stopped"}]

MapTypes == /\ slots \in 0 .. LastSlot /\ entry \in Slot \cup {0} /\ stopping \subseteq Slot
            /\ owner \in [Slot -> Caller \cup {None}] /\ server \in [Slot -> Server \cup {0}]
ProcessTypes ==
  /\ started \subseteq Server /\ launch \in [started -> Launch]
  /\ running \subseteq Server /\ alive \subseteq Server
  /\ reader \in [Server -> {"none", "reads", "ends", "gone"}]
  /\ \A f \in {inbox, out, pending} : f \in [Server -> SUBSET Requests]
CallTypes == /\ pc \in [Caller -> {"idle", "slot", "have", "send", "wait"}]
             /\ call \in [Caller -> CallType]

(* Types; and who holds the lock of a slot is the call that starts a server *)
(* in it.                                                                   *)
Locks  == \A s \in Slot, c \in Caller : owner[s] = c <=> call[c].starts /\ call[c].slot = s
TypeOK == MapTypes /\ ProcessTypes /\ CallTypes /\ Locks

(* Nothing is left registered with a reader by a call that is over, however *)
(* it ended: the answer, the end of the process and the call's own time     *)
(* race for the entry (round_trip and the reader thread).                   *)
PendingHasItsCaller ==
  \A p \in Server : \A r \in pending[p] :
    /\ r = Id(r[1]) /\ call[r[1]].srv = p
    /\ pc[r[1]] \in {"send", "wait"}

(* Callers that arrive together at an empty slot, at a dead server or at one*)
(* launched otherwise start one server between them (handle_for).           *)
ServersOf(s) == ({server[s]} \ {0}) \cup
                {call[c].srv : c \in {d \in Caller : call[d].starts /\ call[d].slot = s}}
OneServerPerSlot == \A s \in Slot : \A p, q \in ServersOf(s) : p = q

(* A reader that ends fails every call that waits for its server, and the   *)
(* server is given to no call from then on.  The only call that waits in    *)
(* vain, until its own time, is one that had the server before and writes   *)
(* its request afterwards, to a process that still runs (reader, round_trip,*)
(* handle_for).                                                             *)
InVain(c) == pc[c] = "wait" /\ call[c].chan = "nothing" /\ reader[call[c].srv] = "gone"
EndedReaderLeavesNobody ==
  [][\A c \in Caller :
       /\ InVain(c)' /\ ~InVain(c) => pc[c] = "send" /\ call[c].srv \in running
       /\ pc[c] = "slot" /\ pc'[c] = "have" => reader'[call'[c].srv] # "gone"]_vars

(* Every call ends, whatever the servers do and whoever else starts, stops  *)
(* or replaces them meanwhile.                                              *)
EveryCallEnds == \A c \in Caller : []<>(pc[c] = "idle")

=============================================================================
