# A TLA+ model of PowerRustCOBOL

PowerRustCOBOL is a COBOL system written in Rust: a compiler and interpreter, a
runtime with its own indexed files, forms with a graphical host, an IDE, and the
services around them. Most of it is sequential translation from text to text or
pure user interface. This project models the parts whose correctness depends on
the order in which things happen: what survives a crash of an indexed file and what
a program reads of it while it changes; which windows, programs and handles exist
while several forms run at once; what becomes of the answers of worker threads and
server processes that come late, or never.

Contents: the inventory, the modules and what in the code they stand for, the
runs and their bounds, the fairness assumed, the proofs, the places where the
code and its own words part, what is left out, and what could come next.

## 1. Inventory

Paths are relative to `src/crates/`.

| Component | State | Operations | Hard behaviour | What makes it correct | Here |
|---|---|---|---|---|---|
| Pager of indexed files: `cobolt-runtime/src/indexed_disk.rs` | container, `.jrn`, write set, undo images, `jrn_*`, `io_failed` | OPEN, verbs, spill, COMMIT, ROLLBACK, CLOSE, recovery | kills and power losses between file operations, torn writes, errors half-way | recovery finds a commit point; the program reads its writes; CLOSE does not lie | `DiskJournal` |
| Keyed access above it: same file, `indexed.rs`, verbs of `interpreter.rs` | B+trees, record directory, cursor, key of reference, resume key, inverse log | READ, READ NEXT / PREVIOUS, START, WRITE, REWRITE, DELETE, ROLLBACK | a cursor over a tree that changes under it; a verb that fails half-way; ROLLBACK by inverse verbs | indexes describe the records; a scan neither skips nor repeats; ROLLBACK restores | `KeyedStore`, `KeyedFile` |
| Window supervisor: `cobolt-runtime/src/form_host.rs` | table of handles, caller links, held modal answers | `open_form`, `open_embedded`, `note_form_state`, `try_close`, `form_finished` | cascades over a tree, vetoes, ends that nobody asked for | veto, order, no dangling link, singleton, exit | `FormSupervisor`, `FormCalls` |
| Form host and shell: `cobolt-form-host/src/host.rs`, `shell.rs` | child windows, pane occupants, navigation chain, action worklist | a frame: requests, mirror, clicks, ended programs, actions | queues between threads and the frame; several failures half-way | every handle has its window and the reverse; answers come | `FormHost` |
| Window calls of a program: `cobolt-runtime/src/interpreter.rs` | windowHandler variables, `super`, closed-handle queue | open, call a handle, CLOSE, WAIT-EVENT | blocks for an answer; a handle closes behind its back | no call is lost, no stale handle is used | `FormHost` |
| Asynchronous operations of controls: `async_op.rs`, `interpreter.rs`, `interpreter/kb.rs`, `interpreter/aws.rs`, `db_runtime.rs` | generation and pending operation per control, result channel, dispatch queue, payload queues, lent connections | start, report, deliver, cancel, time out, hand out | late results, timeouts that race an answer, values that travel beside their event | one end per operation, told once; no late result applied; the connection comes home | `OneAnswer`, `AsyncOps` |
| Agents of a form: `interpreter/agent_loop.rs` | a tool loop per agent, results by call id | Ask, tool call, SetToolResult, resume | ids repeat, handlers outlive their question | each call gets its own result; nothing is sent after the end | `AgentLoops` |
| Pool of AWS service processes: `aws/pool.rs`, `aws/process.rs` | a slot per key, a `Handle` per process, pending requests | call, handshake, time out, replace, stop | answers, timeouts, deaths and stops race | each call ends once, callers share one server, nothing stays registered | `ServerPool` |
| Debugger: `debug_session.rs`, `debugger.rs`, crate `cobolt-dap` | step mode, call depth, breakpoints, link | continue, step, pause, disconnect | little: one command at a time | a step stops | no |
| Knowledge base: crate `cobolt-kb` | collection, file lock | refresh, search, write | lock with a deadline, writers in several processes | one writer; a refusal changes nothing | no: locks and transactions are those of the system and of redb |
| Relative, sequential, registered files | records in memory or a stream | file verbs | little | file status | no |
| Databases, audio, images, HTTP, language models | drivers' own | calls | the drivers' | | lending of connections only |
| Lexer, parser, semantic analysis, code generation, build | none kept | pure functions over text | large inputs | | no |
| Forms library, designer, IDE, agents, project tools, conversions | user interface, files | | | | no |

How they interact: the interpreter runs a form's program on a thread of its own.
It calls the pager directly (one program, one `DiskIndexedFile`, no concurrency
inside). It talks to the form host through channels: requests go into one queue
that the frame drains; some carry a reply channel on which the program blocks;
closed handles and the quit event come back through channels of the program's
own. The host calls the supervisor, which is pure logic, and performs the
actions it returns. Operations that take long run on worker threads, which report
over one channel that the interpreter drains when the program waits; workers of AWS
controls call service processes through the pool, which a program has in common with
every other one in the same process.

## 2. Modules

    TxStore            what a transactional file promises
    DiskJournal        the pager, journal and recovery          implements TxStore
      DiskJournalProofs      type correctness
      DiskRecoveryProofs     the invariant of recovery; refinement, under kills
      DiskFaultProofs        power losses; a CLOSE that does not lie
    FormSupervisor     the supervisor's state and operators
      FormCalls        its calls in any order, by any host
        FormCallsProofs      all its rules
      FormHost         host + shell + programs + user around it
        FormHostProofs       its worklist and its invariants
    KeyedStore         what an indexed file promises a program
    KeyedFile          the disk engine above the pages          implements KeyedStore
      KeyedFileProofs        its types; its indexes; the refinement
    OneAnswer          what an asynchronous operation promises
    AsyncOps           operations, queues, connections
      AgentLoops       the questions to language models on top  implements OneAnswer
        AgentLoopsProofs     its invariants; OneAnswer but its liveness
    ServerPool         the pool of server processes of one key
      ServerPoolProofs       types and all its invariants
    MC*                instances for TLC

### DiskJournal and TxStore

`DiskJournal` follows every file operation of `tx_flush`, `journal_*`,
`persist_and_sync`, `close` and `journal_recover_v2`: each is an action, so a
crash may come between any two. The content of a page is abstract: page 0, the
header, is the page count and a tag for all the rest of it; any other page is a
tag. A WRITE, REWRITE or DELETE (`Verb`) is known by the pages it changes and
leaves a new tag in each. Variables and fields correspond by name: `dirty`,
`undo`, `inTx`, `live` (`jrn_*`), `ioFailed`; `pc` and `fl` are the program
counter and the locals of `tx_flush` and of recovery.

The files have two faces: what the operating system shows (`disk`, `jrn`), which
a killed process leaves, and what a power loss may leave: of `disk`, any mixture
of the pages written since the last `fsync`, at any length between; of the
journal, any of the states in `jrnAfter`. Assumed of the platform: a page write
and the 64-byte head of the journal are atomic, except that the slot rewritten by
`journal_certify` may be torn; `fsync` of a new file publishes its directory
entry; a removal is durable only after the directory is synced; a read does not
fail.

The ghosts `logical`, `committed` and `previous` are what the successful verbs
built, what it was when a journal was last removed, and the one before.

`TxStore` is the promise: `durable` changes only by an orderly commit, and an
OPEN reads it; a crash loses `working` and nothing else.
`Store == INSTANCE TxStore` maps `durable` to what recovery would find at this
instant, and `working` to what `read_page` answers.

### KeyedFile and KeyedStore

`KeyedFile` begins where `DiskJournal` ends: a verb that succeeds changes the pages
at once, as a transaction of the pager. `db` is what those pages hold. A tree is the
sequence of its leaves; the separators of inner pages, which no DELETE moves, are the
lower bounds of the leaves, so a search, an insertion, a split and a leaf that
emptied and is still linked are those of `bt_search`, `bt_insert` and `bt_delete`.
An entry of a key with duplicates carries the sequence it joined at. `scan` is
`kor`, `cursor`, `current` and `resume_key`; a cursor is a page and an index in it,
and goes on pointing there when the entries of that page shift. `undo` is the
inverse log that ROLLBACK replays. `atEnd` and `established` are the interpreter's
`at_end_files` and `read_established`, which decide the statuses 43, 46 and 47.

The ghosts: `base`, the content at the last COMMIT; `reached`, the key the position of
the file stands for; `shifted`, the verbs that moved an entry of the scanned tree
other than the one the cursor is on. `ScanIsExact` speaks of scans with `shifted`
empty, and says which exceptions it makes.

`KeyedStore` has no index and no cursor: a set of records without clashes, the content
at the last COMMIT, and what a verb may answer. The mapping: the live records of the
directory; the record a DELETE without a key would remove is that of `current` after
a successful READ.

### AsyncOps, AgentLoops and OneAnswer

`AsyncOps` has what all asynchronous controls share. `gen`, `pending`, `busy`,
`results` and `queue` are `async_generations`, `async_pending`, the property Busy,
`async_result_rx` and `async_dispatch_queue`; `worker` is the threads; `home` and
`lent` the registry of database connections. `at` walks through `next_wait_outcome`:
a handler of the program runs, then results are drained, then limits are swept, then
one event is handed out. Threads report during the handler or the drain; a report at
another moment is seen no earlier than one that comes in the handler after it. The
`rest` kind stands for the RestClient and Maps, which start and end in the same way; a
WebSearch (`web`) raises its own `onResultsReceived` before `onComplete`. A start may be
refused (`Refuse`): Maps without a key, a search or a question without a provider, key or
address, an AWS control that is busy; it raises `onError` and starts nothing.

`payload` is `kb_payloads` and `aws_payloads`: the properties of these controls are
written when the event leaves the queue, not when its answer is drained. `values` says
whose answer the properties hold. `cut` and `told` are ghosts.

`AgentLoops` adds `agent_ask` and `agent_loop.rs`: an agent's question may take several
requests, tool calls the runtime answers (files, which raise `onToolUse`, and calls of an
unknown tool or with bad arguments, which raise nothing), searches on a thread of their
own, and calls the program's handler answers with SetToolResult. A call is known by its question,
round and id; ids start again in each round, as services that number their calls do
and as the ids are that the interpreter mints.

`OneAnswer` is the promise of `src/specs/032-async-io-operations`: one operation in flight
per control, each ends once and the program is told once, in order. The mapping takes
`pending` for the operation running and the endings in `queue` for those not told.

### ServerPool

One key of `pool.rs`. A `Handle` is a number; `started`, `launch` and `alive`
are its fields, `reader` its thread, `pending` its table of requests, `inbox` and `out`
the two pipes. A caller goes through `handle_for` (`slot`), `round_trip` (`have`, `send`,
`wait`) and, for the one that starts the server, through both again, the handshake
first. `owner` is the mutex of a slot, held from the replacement of a server to the end
of its handshake. Taking the slot out of the map (`Forget`) and stopping the server in it
(`StopServer`) are two steps, as in `stop`, `stop_connection` and `shutdown`: a call may
find the slot between them or hold it already. A process may end at any step, and may
answer late or never. Its reader may end at any step too, and the process live on
(`ReadingEnds`): `read_message` stops at the end of the output, at a message cut short or
over 16 MiB, and at an error of the read. What the reader does then is two steps, the flag
and the drain (`FailPending`); a request may be registered and sent to the process after
both. The program launched is taken for one process, whose pipes end with it: `running` says
that its input is open; a write to it then may succeed or fail, and a write to any other
fails. A timeout may come whenever the channel is empty; its clock is not modelled. A
request fits the pipe: `Stdio::send` does not block.

### FormSupervisor, FormCalls, FormHost

`FormSupervisor` has one operator per function of `FormSupervisor`
(`form_host.rs`). A call changes `handles` and `next` and leaves in `out` what it
returned: the window to spawn, the handles closed in their order, those told of a
rejection, the answers sent to blocked callers. `HashMap` iteration is a choice
over the orders it can produce. `Asker` is whoever can wait for an answer.
`FormCalls` lets these calls come in any order with any handle ever issued, as
the supervisor's documentation promises to any host. `DepthGuard` is the guard of
`depth_of` against cycles, 64 in the code and in every run.

`FormHost` composes it with the real host. `work` is the worklist of
`apply_host_actions`; `bodies` the child windows and pane occupants; `top` the
navigation chain (at most one entry above the window's own form, which is what
menu clicks and the breadcrumb can build); `requests` the request queue; `mirror`
the FormState updates of the root form; `inbox` the closed-handle queues.
A program (`prog`) runs, asks and blocks, or has ended. What a frame does is
split into steps in any order: the order within one frame says nothing about when
a thread, a click or a queue delivers. `PerformRelease` and `PerformRetire` are
the parts of a `CloseWindow` or of a menu click that call the supervisor again,
one per occupant.

Bounds and simplifications: one windowHandler variable per program; `inbox` omits
handles that no variable of the program holds and no answer it is about to read names; `Room` keeps a program or a menu
from asking for a window when no handle is left; `Guarded` names the forms whose
programs touch FormState; after `closing` with an empty worklist the process
ends. A `BrokenForm` is one whose design reads and whose program cannot be built.

## 3. Runs

| Run | Asks | Bounds |
|---|---|---|
| `journal_power` | does every crash, power loss included, recover to a commit point; is a journal ever refused; is the commit of a long transaction durable | 4 pages, 3 to begin with, spill at 2 dirty pages, 2 verbs, 2 faults |
| `journal_kill` | with kills only: refinement of `TxStore`, reads, INPUT opens, termination of every flush and recovery | 3 pages, 3 verbs, 2 kills, both modes |
| `journal_io` | does CLOSE tell of every loss | 3 pages, 2 verbs, 2 errors or kills |
| `form_calls` | the supervisor's own rules | 4 handles, main form and another, either started |
| `form_waiting` | does the veto hold from the program's write of FormState to the close; are calls answered once and handles known to be closed | 3 handles; the process starts with a shell that is not the main form, its children may be shells, the root is Waiting at will |
| `form_live` | answers and ends come; no window without its handle | 3 handles, 3 forms of which one cannot be built; the root is the main form, no shell |
| `form_child_waiting` | violated: see 6 | 3 handles |
| `form_pane_child` | violated: see 6 | 3 handles, shell |
| `async_ops` | stale and late results, payloads, tool results, lent connections; refinement of `OneAnswer` with its liveness | 2 controls: agent or knowledge base with each other, and SQL, AWS, knowledge base, WebSearch or agent with a RestClient, each with up to three operations; up to two refused starts queued, none where agent and knowledge base share a form; one connection, 3 rounds, replies of two calls |
| `pool` | registered requests, sharing of a server, its death, the end of its reader; does every call end | 2 callers, of two calls and one, 2 launches, 2 processes, 2 slots |
| `keyed_file` | indexes, refinement of `KeyedStore`, exactness of scans | 9 records, keys 1 to 3, one alternate key with duplicates and one without, 2 entries to a leaf, 2 changes, files of 2 and 3 records, both access modes |
| `keyed_delete` | violated: see 6 | the same |

Why the bounds are enough. Disk: a spill at two pages with three or four pages
lets one transaction spill, add pages, change a spilled page again and spill
again, so a live journal grows and is certified twice, which is where its rules
matter; two faults let a crash strike the recovery of a crash. Forms: four handles
make chains of depth three and forks at every level for the cascade; three
handles in `FormHost` are a caller, a callee and a third party (a grandchild, a
sibling or a pane occupant's child). Keyed files: with two entries to a leaf and files of
two and three records, the two changes split a leaf, empty one, and move a record within
and between the leaves a cursor is on; the second alternate key refuses a REWRITE after
the first has moved. Asynchronous operations: the operations of one control are what
races, and two controls share the queue, the channel and the tool results; three
operations give a late result an operation to be mistaken for and one after it. The
pool: two callers and two launches are a reuse, a replacement and a caller left with the
handle of the replaced server; a second slot is one made after a stop while the first is
still in somebody's hand. The `MC` modules give `VIEW`s: no action
reads `out`, which belongs to the step that made it, and in `FormHost` none tells
an Async window from a Sync one that is not modal, reads the navigation chain of a
window that is gone, tells apart the closed forms a request asks to close, or uses a
handle variable before it drained the closed handles. Action properties that speak of
`out'` are evaluated on every step.

`CHECK_DEADLOCK FALSE` in the form runs: the application really stops, when the
root window closes, and the bounded supervisor runs out of handles. In `pool`: the
callers' calls are used up. In the keyed runs it changes nothing that a program can
reach: an open file always admits another verb.

### The properties, and what could break them

* `KillRecovers`, `AtomicOutcomes`: recovery at any instant finds a commit point.
  Broken by a page journaled twice or never, an `fsync` missing or late.
* `NeverRefused`: the certificate never counts more images than are on disk, and a
  torn slot leaves the other one.
* `LongCommitDurable`: a long transaction, once committed, does not come back.
* `ReadsOwnWrites`, `InputReadsCommitted`: which of three layers a read sees.
* `IndexesDescribeRecords`: after every verb, refused ones included, each index has exactly
  one entry per record. Broken by an alternate moved before a later one is refused.
* `ImplementsKeyedStore`: verbs are atomic, their status is true, ROLLBACK restores the
  last COMMIT although it only replays inverse verbs.
* `ScanIsExact`: a scan neither skips nor repeats through splits, emptied leaves and
  changes of the record it stands on.
* `HonestClose`: a `00` from CLOSE means nothing was lost.
* `Settles`: flushes and recoveries end.
* `OnlyItsProgramEndsAWaitingForm`, `CloseTakesTheSubtree`, `CallerClosesLast`,
  `OrphansWereWaiting`, `NoLinkLeftDangling`, `ExitWithTheLastHandle`,
  `MainFormIsSingle`: the rules of the supervisor over whole trees of windows.
* `BlockedCallIsPending`: a blocked program has exactly one of: a queued request,
  a window that holds its answer, an answer.
* `HandleVariablesAreLive`: a program never uses a closed handle unawares.
* `EveryHandleHasItsWindow`, `EveryWindowHasItsHandle`: supervisor and screen agree.
* `WaitingFormStaysOpen`: the veto, end to end, from the program's own state, as long as
  that program goes on; the form of a program that has ended, by itself or because the
  application closes, may go.
* `AskersResume`, `ClosedFormsEnd`: answers and ends arrive.
* `NoLateAnswer`, `EventSeesItsOwnValues`: an answer never lands in another operation.
* `ResultIsTheCallsOwn`, `NothingSentAfterEnd`: a tool loop never uses a result of another
  call, and sends nothing once its question was cancelled or timed out.
* `LentConnectionComesHome`, `ImplementsOneAnswer`: whatever became of a statement its
  connection returns; each operation ends once and is told once.
* `PendingHasItsCaller`, `OneServerPerSlot`, `EveryCallEnds`: the pool, under answers,
  timeouts, deaths, stops and readers that end, in any order.
* `EndedReaderLeavesNobody`: a reader that ends leaves no call waiting with an empty channel
  and its server is given to no call afterwards; the exception it names is a call that had
  the server before and writes to it afterwards (section 6).

## 4. Fairness

`journal_kill`: weak fairness of `Recovery` and of `Flush`. Both are straight code
of one thread between a call and its return: once begun they continue, or a crash
ends them.

`form_live`: weak fairness of performing an action of the worklist (one loop), of
taking a request and a mirrored update (a frame drains each queue, and frames go on
while the root window is there), of noticing each ended child, and of a blocked
thread waking once its answer is there. Strong fairness of `Quit(h)`: a program
that was sent the quit event takes it at one of its waits, though its handlers may
ask the host for things in between. This assumes that handlers return: a program in
an endless loop is not promised to end. Nothing is assumed of the user, nor that a
program ever asks, stops or closes anything.

`async_ops`: weak fairness of `Wait` (a handler returns to COBOL-WAIT-EVENT) and of
`Waiting` (`next_wait_outcome` goes on), strong fairness of `Threads`: a thread ends by the
limit of its transport or of its AWS budget, or, where a request has no limit, because the
other side ends it; it is strong because the model lets reports come only in the handler
and the drain. Nothing says that a program starts, cancels or answers anything.

`pool`: weak fairness of each caller, whose `recv_timeout` gives up by itself, and of
`StopServer`. None of the processes, nor of the reader threads: every call ends even if
they do nothing.

## 5. Proofs

All are checked by TLAPS for every value of the constants that satisfies the named
assumptions.

* `DiskJournalProofs!TypeCorrect`: `Spec => []TypeOK`, for kills, power losses and
  I/O errors alike.
* `DiskRecoveryProofs!JournalImplementsTxStore`: the refinement of `TxStore`, under the
  hypothesis `OnlyKills` (`Failures \subseteq {"kill"}`).
* `DiskFaultProofs!OutcomesAreCommits`, `JournalsAreAccepted`, `FilesRecover`,
  `ProgramReadsItsWrites`, `LongCommitsStay`, `InputsReadCommits`: `AtomicOutcomes`,
  `NeverRefused`, `KillRecovers`, `ReadsOwnWrites`, `LongCommitDurable` and
  `InputReadsCommitted`, through kills and power losses, under `NoDiskErrors`
  (`"io" \notin Failures`): a failed `tx_commit` may leave the container half-written by
  the code's own doing (section 6).
* `DiskFaultProofs!ClosesAreHonest`: `HonestClose`, with no hypothesis.

`KillRecovers` is not inductive: it says what recovery would find, and not why. The
inductive invariant `IInv` says, for each value of `pc`, how container, journal and write
set make up the committed content: before the journal is published the container
is the committed content; while pages are written, each page of the container
that differs from it has its first image in the journal, or was added by the
transaction and will be cut; the records and `live` agree with each other; during
recovery the images not yet written back suffice for what is still different. That the
first image is the right one is where `NeedsUndoImage` enters; the refinement then
follows step by step: only `JournalFinish` (and a commit with nothing to write)
changes what recovery finds, and a crash loses only what was not committed.

A power loss leaves a mixture of the pages and one of several journals, so `PInv` adds what
is true of each of them: it is `Sound` (it has a certificate that can be read and none
counts an image that is not there), and it `Leaves` both faces of the container, and
with them any mixture, to be brought back to the last commit; or to the one before, as
long as the removal of the journal is all that came since. What makes that inductive is
`Synced`: pages are written only while the journal is as the last `fsync` left it.
`LongCommitDurable` then needs that a commit that spilled syncs the removal too.

`HonestClose` has another invariant, `HInv`, as it is about errors: while the program met
none, the container under the two write sets is what its verbs built (`Faithful`); one it
met is remembered, in `io_failed` or in the local of the flush, until the CLOSE has answered.

* `FormCallsProofs`: every property of the run `form_calls` (`TypeCorrect`,
  `MainFormStaysSingle`, `AWaitingFormIsNeverTaken`, `ACloseLeavesNobodyUnder`,
  `OnlyWaitingFormsAreOrphaned`, `ChildrenCloseFirst`, `NoLinkDangles`,
  `ExitIsTheLastHandle`), for any forms and any number of handles.
  `ChildrenCloseFirst` supposes `ShortChains`: `depth_of` counts to 65 and stops, a
  guard its comment says is never met, but a chain of more than 66 windows meets it
  without any cycle, and its deep end closes in any order.

The supervisor's rules are mostly about steps, so the induction is short: `TypeOK`
(a caller is older than what it opened) and `OneMain` are inductive, and the lemma
`WhoLeaves` says that a step removes nobody, or the victims of a close that no
Waiting form vetoed, or an ended form with what it could take along. The rest is
about trees: the subtree is the least set closed under opening, so it is closed
itself and transitive; a handle has strictly more callers than its caller.

* `ServerPoolProofs`: every invariant of the run `pool` (`TypeCorrect`,
  `NothingStaysRegistered`, `CallersShareOneServer`) and its action property
  (`EndedReadersLeaveNobody`), for any callers, launches and numbers of processes, slots and calls.

`PendingHasItsCaller` and `EndedReaderLeavesNobody` lean on each other and on more. That an
entry is removed by whoever ends the call needs that it is registered with the server the
call holds (`Registered`); that a reader which ends fails everybody who waits then needs the
converse, that a call which waits with an empty channel is registered (`Waiting`). Two
lemmas then carry the action property: only a call that sends to a process that runs comes
to wait in vain (`OnlySendersWaitInVain`), and a server is given to a call only while its
reader reads, because a reader which ended took `alive` back (`Readers`,
`OnlyHeardServersAreGiven`). `OneServerPerSlot` needs that a slot whose lock is
held is empty (`OneStarts`), with `Locks`. `Inv` is their conjunction with the phases of a
call, and each action has one lemma that preserves it.

* `AgentLoopsProofs`, for any forms, replies and bounds: `LateAnswersNeverLand`,
  `NothingSentAfterTheEnd`, `EventsSeeTheirValues` (`NoLateAnswer`, `NothingSentAfterEnd`,
  `EventSeesItsOwnValues`), `EndingsInOrder`, and `OneAnswerEach`, which is
  `ImplementsOneAnswer` but for the fairness it asks. `ResultsAreTheCallsOwn`
  (`ResultIsTheCallsOwn`) supposes `OneAgent`, at most one agent on a form: the
  results the program sets are filed under the id of the call alone, and two agents share
  them (section 6).

The inductive invariant (`Invariance`) counts who can still answer: for each operation in
flight there is one thread, or one report after words on the way, or a call that waits for
the program (`Tokens`); a late thread or report is of an earlier generation, whose
operation is over. `Ordered` adds that the endings in the queue follow those told and each
other, from which the refinement follows with each action a step of `OneAnswer` or a
stutter. The payloads of AWS and KnowledgeBase controls are matched with the events that
carry one by an increasing function (`Aligned`): every step that adds to both adds at
their ends, and the event handed out is the first of both (`Travel`). `ToolInv` says that
what lies under the id of the call a handler was shown was given for that call.

* `FormHostProofs`, for any forms and any number of handles: `WorklistIsWellFormed`,
  `CallsArePending` (`BlockedCallIsPending`), `HandlesAreLive`
  (`HandleVariablesAreLive`), `HandlesHaveWindows` (`EveryHandleHasItsWindow`);
  `WindowsHaveHandles` (`EveryWindowHasItsHandle`) under `ShellForm = {}` and
  `WaitingRootStays` (`WaitingFormStaysOpen`) under `Guarded \subseteq {Root}`. The runs
  `form_pane_child` and `form_child_waiting` show that the code breaks these two
  without their hypotheses.

`Shape` is about the worklist: its actions name handles that were given out, and a window
being opened is the only thing to do until it is there. The others stand on it: `Pending`
gives each blocked program one of a request, a window that holds its answer, an answer;
`Cared` gives each handle variable an open form, a word in the program's inbox or one about
to be put there; `Shown` each form a window or an action that makes one, and no form an
action that closes its window; `Plain` is its converse where there are no panes. For the
veto, `RootStays` says that no cascade and no navigation reaches the root, and `Noted` that
the supervisor knows its FormState once the host has drained what its program wrote,
the moment from which `WaitingFormStaysOpen` speaks.

* `KeyedFileProofs!Typed` (`TypeOK`), `KeyedFileProofs!IndexesDescribe`
  (`IndexesDescribeRecords`) and `KeyedFileProofs!Implements` (`ImplementsKeyedStore`), for
  any records, number of keys, size of a leaf, files loaded and length of the run, with no
  hypothesis but that `None` is no record, number or slot (`NoneAssumption`).

`IndexesDescribeRecords` does not survive a verb by itself: that a new entry goes to a leaf
where a search finds it needs the lower bounds of the leaves in order, that a duplicate is
not met needs every join sequence below the next one, and that the page of a split is not
in use needs the counter of pages above all of them. The invariant is `Good`: each tree is
in order (`TreeOK`), each page in one leaf of one tree (`PagesApart`), each index describes
the records (`Describe`); with `ScanOK`, that the cursor is on a page of a tree, which holds
because no DELETE gives a page up (`PagesKept`), and that the current record is live, without
which a DELETE by position would remove nothing. `InsertIs` and `WithoutIs` say what an
insertion, with its split, and a removal do to the entries of a tree; `JoinIs` and `LeaveIs`
put the trees of a record together; `WrittenIs`, `RewrittenIs` and `DeletedIs` are the
verbs, and keep `Good` whatever they answer. A load and the replay of ROLLBACK are recursive
functions over a sequence of verbs: `StepByStep` is an induction on numbers, from
`LeastNumber`, that each of their steps is defined and `Good`.

The refinement reads the verbs on sets of records: an index without duplicates finds a value
exactly when a record has it (`SearchFinds`, `NoClash`), so a WRITE or REWRITE is refused
exactly when the record clashes, and a slot is found by START or READ exactly when a record
fits (`MatchedFits`, `FitsIs`). That ROLLBACK restores the last COMMIT needs one more
invariant, `Back`: the records of the file are the end of a sequence of sets that begins at
`base`, in which each inverse verb of the log leads one set back (`BackTo`). A verb appends
to it (`WriteUndone`, `DeleteUndone`, `RewriteUndone`), and `ReplayedContent` walks it back.

Only model-checked: what recovery finds after an I/O error; the refinement of `TxStore`
through power losses; that the scans of `KeyedFile` are exact; and the liveness properties,
with the fairness part of `ImplementsOneAnswer`, as TLAPS cannot prove liveness under
fairness. Its provers cannot use an induction theorem with an
operator for a parameter either, so the models the proofs are about have no recursive
operator: the trees of windows are described by least closed sets, and where a recursion runs
over a sequence, an induction stands on the least element of a set of numbers.

## 6. Where the code and its words part

Each is a run whose property states the words, and which TLC violates.

1. `form_child_waiting`: only the root form's FormState is mirrored into the
   supervisor, so a Waiting child is closed by its title bar, a handle or a cascade.
2. `form_pane_child`: retiring a form from a pane drops the actions that close the
   windows it had opened; they stay, without a handle, and cannot be closed.
3. `keyed_delete`: a DELETE by key of another record of the leaf the cursor is in shifts
   the slots below the cursor, and the next READ NEXT skips a record; a comment of
   `delete_inner` says that stepping from the slot is still right.

Further disagreements, seen in the models and not stated as runs:

* A COMMIT that did not spill is not durable when it returns: `journal_finish` syncs the
  directory only for a journal that was live (`indexed_disk.rs:874-877`), while `commit`
  promises durability (`:2915-2916`). Atomicity holds.
* After a failed `tx_commit`, `persist_and_sync` writes the header in place, unprotected by
  any journal (`:2966-2970`), though the comment of `tx_commit` says the container is never
  left in a state no header describes (`:1128-1130`). CLOSE does report the error.
* Busy of a KnowledgeBase or AWS control is cleared when the event is handed out
  (`interpreter/kb.rs:63-88`, `interpreter/aws.rs:56-73`), while the operation ends when its
  answer is drained. A handler that runs between may start the next operation, and the
  earlier event then clears its Busy: `IsBusy()` does not always say "whether one is
  running" (`src/docs/developers-guide-en.md:16438-16439`).
* SetToolResult files a result under the id of the call alone (`interpreter.rs:1665`,
  `:17340`), and agents whose service gives no ids mint the same ones. A result set for a
  call of one agent, whose question ended by Cancel or a timeout, while a call of another
  agent on the form with the same id is queued, is sent as the answer of that one, although
  its own handler set nothing (`interpreter/agent_loop.rs:479`, `:583`): "a handler that set
  nothing sends an empty result" (`:582`). With one agent on each form it cannot happen
  (`ResultsAreTheCallsOwn`); a form of two agents with one question each shows it.
* A reader that ends while its process lives - the process closed its output, or sent a
  message over 16 MiB or one that cannot be read (`aws/pool.rs:278`,
  `cobolt-mcp/src/transport.rs:75-79`) - fails the calls registered at that moment
  (`:294-297`). A call that already holds the handle and registers afterwards sends its
  request with success and waits for nobody until its own timeout, though the comment says
  "on EOF every pending call failed" (`:269-270`).
* A server whose handshake fails is not stopped (`aws/pool.rs:124-126`), and a stop that
  comes between `handle_for`'s look into the map and its lock of the slot (`:374`, `:450`)
  leaves a server started in a slot that is in no map; a diagnosis says it "leaves nothing
  running behind it" (`aws/diagnose.rs:120`).
* A WRITE, or a split, below the cursor makes READ NEXT repeat or skip in the same way as
  the DELETE of finding 3; a REWRITE refused with 22 leaves `resume_key` behind, and the
  next READ NEXT takes the position from it; READ PREVIOUS answers AT END after a DELETE
  of the last record, and after START begins one record too early; a START or READ that
  finds nothing changes the key of reference and leaves the cursor in the tree of the
  old one; ROLLBACK puts a record back at the end of its duplicate set, where the
  in-memory engine restores its place.

Behaviour that the model shows and no document speaks against: a request queued by
a program whose form closes meanwhile still opens its window, with a caller that is
gone; an occupant that closes itself stays the current entry of the navigation
chain; an occupant whose program stops keeps its handle until it is replaced; a lent
connection returns only when the program waits next; results of a RestClient are
overwritten by the next operation if its answer is drained before the first event is
handed out; an `onToolCall` raised before a Cancel still reaches its handler afterwards.

## 7. Not modelled

Disk: creation by OPEN OUTPUT and EXTEND, migration, `publish_definition`, journals of the
first format; the direct writes of ROLLBACK's replay beyond their being verbs. Keyed access:
the in-memory and redb engines, generic START keys, RANDOM access, WRITE under sequential
access, I/O errors inside a verb, several run units on one file. Forms: form
properties, window state, focus, effects, dialogs, breadcrumb detail, `root_switch` and
`breadcrumb_pop` (called by tests only). Asynchronous operations: what the services answer,
fragments of a streamed reply, the conversation log. Pool: links over https, servers started
without a handshake, the clock.

The components marked "no" in section 1 are not modelled. The lexer, the parser, the
semantic analysis, the compiler and the code generator are sequential functions of
unbounded text; the evaluation of statements, the painting and editing of forms, the IDE
and the conversions have no state that several actors touch; the rest calls libraries and
services. They are most of the repository's lines.

## 8. What could come next

1. Proofs: that the scans of `KeyedFile` are exact; what recovery finds after an I/O error.
2. The in-memory engine of `indexed.rs` as a second implementation of `KeyedStore`.
3. Several run units on one file, once the shared-lock protocol that comments of
   `indexed_disk.rs` prepare for is there.
