---------------------------- MODULE DiskJournal ----------------------------
(***************************************************************************)
(* The pager, the write set, the transaction journal and the recovery of   *)
(* the DISK engine (crates/cobolt-runtime/src/indexed_disk.rs): every file *)
(* operation of a spill, of a commit and of a recovery is a step of its    *)
(* own, and the process may be killed, or the power lost, between any two. *)
(*                                                                         *)
(* Page contents are abstract.  A page image is a record: page 0, the      *)
(* header, holds next_page_id and a tag that stands for every other header *)
(* field; the other pages hold a tag, 0 for zeros.  A verb of the program  *)
(* (WRITE, REWRITE, DELETE) is known here by the pages it changes: it      *)
(* leaves the next tag in the header and in every page it writes.          *)
(***************************************************************************)
EXTENDS Integers, Sequences, FiniteSets

CONSTANTS MaxPages,     \* bound: pages a container can grow to, header included
          MaxTag,       \* bound: tags, one for each verb since the container was made
          InitPages,    \* pages of the container as the first OPEN finds it
          MaxFaults,   \* bound: kills, power losses and I/O errors in a behaviour
          Checkpoint,   \* CHECKPOINT_PAGES, the write set that forces a spill
          Modes,        \* the modes the program opens the file in: "io", "input"
          Failures,     \* what may go wrong: "kill", "power", "io"
          None          \* no image, no journal, no slot

ASSUME PagesAssumption == MaxPages \in Nat /\ MaxPages > 1
ASSUME InitAssumption  == InitPages \in 2 .. MaxPages
ASSUME TagsAssumption  == MaxTag \in Nat /\ MaxTag > 0
ASSUME FaultsAssumption == MaxFaults \in Nat
ASSUME CheckpointAssumption == Checkpoint \in Nat

Pages == 0 .. MaxPages - 1
Image == [next : 0 .. MaxPages, tag : 0 .. MaxTag]
Zero  == [next |-> 0, tag |-> 0]
Data(v) == [next |-> 0, tag |-> v]

Container == [len : 0 .. MaxPages, page : [Pages -> Image]]
Slot      == [seq : Nat, pages : 0 .. MaxPages, certified : Nat]
Record    == [id : Pages, img : Image]
Journal   == [slots : [0 .. 1 -> Slot \cup {None}], recs : Seq(Record)]
WriteSet  == [Pages -> Image \cup {None}]
ASSUME NoneAssumption == None \notin Image \cup Slot \cup Journal

NoPages == [p \in Pages |-> None]
In(ws)  == {p \in Pages : ws[p] # None}

VARIABLES
  disk,       \* the container as the operating system shows it
  stable,     \* the container as of the last fsync
  jrn,        \* <container>.jrn as the operating system shows it, or None
  jrnAfter,   \* the journals (None: no journal) a power loss may leave
  mode,       \* "closed", "io" or "input"
  copied,     \* the OPEN INPUT reads a temporary copy
  hdr,        \* the header fields in memory
  dirty,      \* the transaction's write set
  undo,       \* undo_pages: the images the container held of those pages
  inTx,       \* in_tx
  live,       \* the jrn_* fields
  ioFailed,   \* io_failed
  pc,         \* what the engine is in the middle of
  fl,         \* the locals of tx_flush, and of recovery
  faults,    \* ghost: how many of them so far
  closeOk,    \* ghost: what the last CLOSE answered
  logical,    \* ghost: the content the successful verbs built
  committed,  \* ghost: logical, when a journal was last removed
  previous    \* ghost: committed before that, while the journal may come back

files  == <<disk, stable, jrn, jrnAfter>>
memory == <<mode, copied, hdr, dirty, undo, inTx, live, ioFailed>>
ghosts == <<closeOk, logical, committed, previous>>
vars   == <<files, memory, pc, fl, faults, ghosts>>

-----------------------------------------------------------------------------
(* The container file.                                                      *)

PutAppending(c, p, img) == [len  |-> c.len + 1,
                            page |-> [c.page EXCEPT ![p] = img]]

Put(c, p, img) == [len  |-> IF p < c.len THEN c.len ELSE p + 1,
                   page |-> [c.page EXCEPT ![p] = img]]

CutNothing(c, n) == c

Cut(c, n) == IF c.len > n
             THEN [len  |-> n,
                   page |-> [p \in Pages |-> IF p < n THEN c.page[p] ELSE Zero]]
             ELSE c

(* Page writes that were not followed by an fsync may be lost one by one.   *)
Surviving(old, new) ==
  {[len  |-> n,
    page |-> [p \in Pages |-> IF n <= p THEN Zero
                              ELSE IF p \in S THEN new.page[p] ELSE old.page[p]]] :
      n \in (old.len .. new.len) \cup (new.len .. old.len),
      S \in SUBSET {p \in Pages : old.page[p] # new.page[p]}}

-----------------------------------------------------------------------------
(* The journal file.                                                        *)

EmptyJournal == [slots |-> [i \in 0 .. 1 |-> None], recs |-> <<>>]

(* A slot whose write was torn: it fails its checksum, and is not zero.    *)
Torn == [seq |-> 0, pages |-> 0, certified |-> 0]

(* The slot recovery believes: the readable one with the newest sequence.   *)
Readable(j) == {i \in 0 .. 1 : j.slots[i] \notin {None, Torn}}
Newest(j)   == j.slots[CHOOSE i \in Readable(j) :
                         \A k \in Readable(j) : j.slots[k].seq <= j.slots[i].seq]
NotWritten(j) == \A i \in 0 .. 1 : j.slots[i] = None

(* A journal that recovery will not touch: no readable slot where one was   *)
(* written, or fewer images than were certified.                            *)
Refused(j) == /\ j # None
              /\ ~NotWritten(j)
              /\ Readable(j) # {} => Len(j.recs) < Newest(j).certified

(* The slot that is not the newest takes the next one.                      *)
SlotOfFirst(seq) == 0

SlotOf(seq) == seq % 2

(* Write back the images newest first, cut the pages the transaction added. *)
FirstOf(recs, p) == CHOOSE i \in DOMAIN recs :
                      /\ recs[i].id = p
                      /\ \A k \in DOMAIN recs : recs[k].id = p => i <= k
Restore(c, recs) ==
  [c EXCEPT !.page = [p \in Pages |->
     IF \E i \in DOMAIN recs : recs[i].id = p
     THEN recs[FirstOf(recs, p)].img ELSE c.page[p]]]
Recovered(c, j) ==
  IF j = None \/ Readable(j) = {} THEN c ELSE Cut(Restore(c, j.recs), Newest(j).pages)

(* Every pair of files a crash at this instant can leave.                   *)
Outcomes ==
  (IF "kill" \in Failures THEN {<<disk, jrn>>} ELSE {})
  \cup (IF "power" \in Failures THEN Surviving(stable, disk) \X jrnAfter ELSE {})

-----------------------------------------------------------------------------
NotLive == [on |-> FALSE, orig |-> 0, ids |-> {}, recs |-> 0, seq |-> 0]
NoFlush == [spill |-> FALSE, dirty |-> NoPages, undo |-> NoPages, after |-> "none",
            long |-> FALSE, bad |-> FALSE, left |-> 0]

(* The first change to page p keeps its image, unless the journal has it or *)
(* the transaction added the page.                                          *)
NeedsUndoImageNever(p) == ~live.on

NeedsUndoImage(p) == ~live.on \/ (p < live.orig /\ p \notin live.ids)

(* What read_page answers, page 0 being known to the program as hdr.        *)
ViewOfDisk == [p \in Pages |-> IF p = 0 THEN hdr ELSE disk.page[p]]

View == [p \in Pages |-> IF p = 0 THEN hdr
                         ELSE IF fl.dirty[p] # None THEN fl.dirty[p]
                         ELSE IF dirty[p] # None THEN dirty[p] ELSE disk.page[p]]

Fresh == [next |-> InitPages, tag |-> 1]
Settled == [len  |-> InitPages,
            page |-> [p \in Pages |-> CASE p = 0 -> Fresh
                                        [] 0 < p /\ p < InitPages -> Data(1)
                                        [] OTHER -> Zero]]
-----------------------------------------------------------------------------
Init == /\ disk = Settled /\ stable = Settled
        /\ jrn = None /\ jrnAfter = {None}
        /\ mode = "closed" /\ copied = FALSE /\ hdr = Fresh
        /\ dirty = NoPages /\ undo = NoPages /\ inTx = FALSE
        /\ live = NotLive /\ ioFailed = FALSE
        /\ pc = "idle" /\ fl = NoFlush
        /\ closeOk = TRUE /\ faults = 0
        /\ logical = Settled /\ committed = Settled /\ previous = Settled

(* reset_pending_writes, and a handle that is gone.                         *)
Forget == /\ mode' = "closed" /\ copied' = FALSE /\ hdr' = Fresh
          /\ dirty' = NoPages /\ undo' = NoPages /\ inTx' = FALSE
          /\ live' = NotLive /\ ioFailed' = FALSE
          /\ pc' = "idle" /\ fl' = NoFlush

-----------------------------------------------------------------------------
(* OPEN.                                                                    *)

Opened(m, c) == /\ mode' = m /\ hdr' = c.page[0]
                /\ pc' = "idle" /\ fl' = NoFlush
                /\ logical' = IF m = "io" THEN c ELSE logical
                /\ UNCHANGED <<dirty, undo, inTx, live, ioFailed, closeOk, committed, previous>>

CanOpen(m) == /\ m \in Modes /\ mode = "closed" /\ pc = "idle"
              /\ jrn # None => ~Refused(jrn)

OpenInputInPlace == /\ CanOpen("input")
                    /\ copied' = FALSE
                    /\ Opened("input", disk)
                    /\ UNCHANGED <<files, faults>>

(* OPEN INPUT never replays a journal onto the user's file: it reads a copy. *)
OpenInput == /\ CanOpen("input")
             /\ copied' = (jrn # None)
             /\ Opened("input", Recovered(disk, jrn))
             /\ UNCHANGED <<files, faults>>

OpenIo == /\ CanOpen("io")
          /\ IF jrn = None
             THEN Opened("io", disk) /\ UNCHANGED files
             ELSE IF NotWritten(jrn)
             THEN /\ jrn' = None /\ jrnAfter' = jrnAfter \cup {None}
                  /\ Opened("io", disk)
                  /\ UNCHANGED <<disk, stable>>
             ELSE /\ pc' = "restore" /\ fl' = [fl EXCEPT !.left = Len(jrn.recs)]
                  /\ UNCHANGED <<files, mode, hdr, dirty, undo, inTx, live, ioFailed, ghosts>>
          /\ UNCHANGED <<copied, faults>>

RestorePageStuck == /\ pc = "restore" /\ fl.left > 0
                    /\ LET r == jrn.recs[fl.left] IN disk' = Put(disk, r.id, r.img)
                    /\ UNCHANGED <<stable, jrn, jrnAfter, memory, pc, fl, faults, ghosts>>

RestorePage == /\ pc = "restore" /\ fl.left > 0
               /\ LET r == jrn.recs[fl.left] IN disk' = Put(disk, r.id, r.img)
               /\ fl' = [fl EXCEPT !.left = @ - 1]
               /\ UNCHANGED <<stable, jrn, jrnAfter, memory, pc, faults, ghosts>>

CutContainer == /\ pc = "restore" /\ fl.left = 0
                /\ disk' = Cut(disk, Newest(jrn).pages)
                /\ pc' = "rsync"
                /\ UNCHANGED <<stable, jrn, jrnAfter, memory, fl, faults, ghosts>>

RecoverSync == /\ pc = "rsync"
               /\ stable' = disk /\ pc' = "rremove"
               /\ UNCHANGED <<disk, jrn, jrnAfter, memory, fl, faults, ghosts>>

RecoverRemove == /\ pc = "rremove"
                 /\ jrn' = None /\ jrnAfter' = jrnAfter \cup {None}
                 /\ pc' = "rdir"
                 /\ UNCHANGED <<disk, stable, memory, fl, faults, ghosts>>

RecoverDone == /\ pc = "rdir"
               /\ jrnAfter' = {jrn}
               /\ Opened("io", disk)
               /\ UNCHANGED <<disk, stable, jrn, copied, faults>>

-----------------------------------------------------------------------------
(* The verbs.                                                               *)

(* A WRITE, REWRITE or DELETE that succeeds: it changes the pages S, those  *)
(* it allocates among them, and the header; op_finish folds it into the     *)
(* write set.                                                               *)
Verb(S, n) ==
  /\ mode = "io" /\ pc = "idle" /\ ~ioFailed
  /\ hdr.next <= n /\ S # {}
  /\ hdr.next .. n - 1 \subseteq S /\ S \subseteq 1 .. n - 1
  /\ hdr.tag < MaxTag
  /\ hdr' = [next |-> n, tag |-> hdr.tag + 1]
  /\ undo' = [p \in Pages |-> IF p \in S /\ dirty[p] = None /\ NeedsUndoImage(p)
                              THEN disk.page[p] ELSE undo[p]]
  /\ dirty' = [p \in Pages |-> IF p \in S THEN Data(hdr'.tag) ELSE dirty[p]]
  /\ inTx' = TRUE
  /\ pc' = IF Cardinality(In(dirty')) >= Checkpoint THEN "spill" ELSE "idle"
  /\ logical' = [len  |-> n,
                 page |-> [p \in Pages |-> IF p = 0 THEN hdr'
                                           ELSE IF p \in S THEN Data(hdr'.tag)
                                           ELSE logical.page[p]]]
  /\ UNCHANGED <<files, mode, copied, live, ioFailed, fl, closeOk, committed, previous, faults>>

(* One that fails is dropped whole (op_abort), but leaves in_tx set.        *)
Rejected == /\ mode # "closed" /\ pc = "idle"
            /\ inTx' = TRUE
            /\ UNCHANGED <<files, mode, copied, hdr, dirty, undo, live, ioFailed,
                           pc, fl, faults, ghosts>>

-----------------------------------------------------------------------------
(* tx_flush.                                                                *)

(* What happens when tx_flush returns to op_finish, to persist_and_sync or  *)
(* to close.                                                                *)
Return(after, ok) ==
  /\ ioFailed' = (ioFailed \/ (~ok /\ after # "close"))
  /\ fl' = IF after = "verb" THEN NoFlush
           ELSE [NoFlush EXCEPT !.after = after, !.bad = ~ok]
  /\ pc' = CASE after = "verb" -> "idle"
             [] after = "close" /\ ~ok -> "hsync"
             [] OTHER -> "header"

TxFlush(spill, after) ==
  IF ~inTx /\ ~live.on
  THEN Return(after, TRUE) /\ UNCHANGED <<dirty, undo, inTx>>
  ELSE LET d == IF inTx THEN [dirty EXCEPT ![0] = hdr] ELSE dirty
           u == IF inTx /\ NeedsUndoImage(0)
                THEN [undo EXCEPT ![0] = disk.page[0]] ELSE undo
       IN /\ dirty' = NoPages /\ undo' = NoPages /\ inTx' = FALSE
          /\ fl' = [NoFlush EXCEPT !.spill = spill, !.after = after,
                                   !.dirty = d, !.undo = u, !.long = live.on \/ spill]
          /\ pc' = CASE In(d) = {}               -> "finish"
                     [] In(d) # {} /\ ~live.on   -> "jopen"
                     [] In(d) # {} /\ live.on /\ In(u) # {} -> "jrecs"
                     [] OTHER                    -> "page"
          /\ UNCHANGED ioFailed

Spill == /\ pc = "spill"
         /\ TxFlush(TRUE, "verb")
         /\ UNCHANGED <<files, mode, copied, hdr, live, faults, ghosts>>

(* COMMIT, and the end of a ROLLBACK.  A copy that OPEN INPUT reads is not  *)
(* the user's file.                                                         *)
Commit == /\ mode # "closed" /\ pc = "idle"
          /\ IF copied
             THEN inTx' = FALSE /\ UNCHANGED <<dirty, undo, ioFailed, pc, fl>>
             ELSE TxFlush(FALSE, "persist")
          /\ UNCHANGED <<files, mode, copied, hdr, live, faults, ghosts>>

Close == /\ mode = "io" /\ pc = "idle"
         /\ TxFlush(FALSE, "close")
         /\ UNCHANGED <<files, mode, copied, hdr, live, faults, ghosts>>

CloseInput == /\ mode = "input" /\ pc = "idle"
              /\ Forget
              /\ closeOk' = TRUE
              /\ UNCHANGED <<files, logical, committed, previous, faults>>

(* journal_create: the file, its head and first slot, one image per record. *)
JournalOpen == /\ pc = "jopen"
               /\ jrn' = EmptyJournal /\ jrnAfter' = jrnAfter \cup {jrn'}
               /\ fl' = [fl EXCEPT !.left = disk.len,
                                   !.undo = [p \in Pages |-> IF p < disk.len
                                                             THEN @[p] ELSE None]]
               /\ pc' = "jhead"
               /\ UNCHANGED <<disk, stable, memory, faults, ghosts>>

JournalHead == /\ pc = "jhead"
               /\ jrn' = [jrn EXCEPT !.slots[0] =
                            [seq |-> 2, pages |-> fl.left, certified |-> 0]]
               /\ jrnAfter' = jrnAfter \cup {jrn'}
               /\ pc' = "jrecs"
               /\ UNCHANGED <<disk, stable, memory, fl, faults, ghosts>>

JournalRecord(p) ==
  /\ pc = "jrecs" /\ fl.undo[p] # None
  /\ jrn' = [jrn EXCEPT !.recs = Append(@, [id |-> p, img |-> fl.undo[p]])]
  /\ jrnAfter' = jrnAfter \cup {jrn'}
  /\ fl' = [fl EXCEPT !.undo[p] = None]
  /\ UNCHANGED <<disk, stable, memory, pc, faults, ghosts>>

FsyncJournalDropped == UNCHANGED jrnAfter

FsyncJournal == jrnAfter' = {jrn}

(* fsync; a journal that stays is remembered, and certified next.           *)
JournalSync ==
  /\ pc = "jrecs" /\ In(fl.undo) = {}
  /\ FsyncJournal
  /\ live' = IF fl.long
             THEN [on   |-> TRUE,
                   orig |-> IF live.on THEN live.orig ELSE fl.left,
                   ids  |-> {jrn.recs[i].id : i \in DOMAIN jrn.recs},
                   recs |-> Len(jrn.recs),
                   seq  |-> IF live.on THEN live.seq ELSE 2]
             ELSE live
  /\ pc' = IF fl.long THEN "jcert" ELSE "page"
  /\ previous' = committed
  /\ UNCHANGED <<disk, stable, jrn, mode, copied, hdr, dirty, undo, inTx, ioFailed, fl,
                 closeOk, logical, committed, faults>>

JournalCertify ==
  /\ pc = "jcert"
  /\ live' = [live EXCEPT !.seq = @ + 1]
  /\ LET i == SlotOf(live'.seq)
         s == [seq |-> live'.seq, pages |-> live.orig, certified |-> live.recs]
     IN /\ jrn' = [jrn EXCEPT !.slots[i] = s]
        /\ jrnAfter' = jrnAfter \cup {jrn', [jrn EXCEPT !.slots[i] = Torn]}
  /\ pc' = "jcertsync"
  /\ UNCHANGED <<disk, stable, mode, copied, hdr, dirty, undo, inTx, ioFailed, fl, faults, ghosts>>

CertifySync == /\ pc = "jcertsync"
               /\ FsyncJournal
               /\ pc' = "page"
               /\ UNCHANGED <<disk, stable, jrn, memory, fl, faults, ghosts>>

(* The pages in order of their ids, page 0 last of all.                     *)
NextPage(p) == /\ fl.dirty[p] # None
               /\ \A q \in Pages : /\ 0 < q /\ q < p => fl.dirty[q] = None
                                   /\ p = 0 /\ q # 0 => fl.dirty[q] = None

WritePage(p) == /\ pc = "page" /\ NextPage(p) /\ mode = "io"
                /\ disk' = Put(disk, p, fl.dirty[p])
                /\ fl' = [fl EXCEPT !.dirty[p] = None]
                /\ UNCHANGED <<stable, jrn, jrnAfter, memory, pc, faults, ghosts>>

PagesSync == /\ pc = "page" /\ In(fl.dirty) = {}
             /\ stable' = disk
             /\ IF fl.spill
                THEN Return(fl.after, TRUE)
                ELSE pc' = "finish" /\ UNCHANGED <<ioFailed, fl>>
             /\ UNCHANGED <<disk, jrn, jrnAfter, mode, copied, hdr, dirty, undo, inTx,
                            live, faults, ghosts>>

(* Removing the journal: the commit point.  Only the removal of a journal   *)
(* that had stayed is made durable.                                         *)
JournalFinish ==
  /\ pc = "finish"
  /\ jrn' = None /\ jrnAfter' = jrnAfter \cup {None}
  /\ live' = NotLive
  /\ committed' = logical /\ previous' = committed
  /\ IF live.on THEN pc' = "fdir" /\ UNCHANGED <<ioFailed, fl>>
                ELSE Return(fl.after, TRUE)
  /\ UNCHANGED <<disk, stable, mode, copied, hdr, dirty, undo, inTx, closeOk, logical, faults>>

FinishDirSkipped == /\ pc = "fdir"
                    /\ previous' = committed
                    /\ Return(fl.after, TRUE)
                    /\ UNCHANGED <<files, mode, copied, hdr, dirty, undo, inTx, live,
                                   closeOk, logical, committed, faults>>

FinishDir == /\ pc = "fdir"
             /\ jrnAfter' = {jrn}
             /\ previous' = committed
             /\ Return(fl.after, TRUE)
             /\ UNCHANGED <<disk, stable, jrn, mode, copied, hdr, dirty, undo, inTx, live,
                            closeOk, logical, committed, faults>>

(* persist_and_sync and close publish the header once more, then fsync.     *)
Header == /\ pc = "header" /\ mode = "io"
          /\ disk' = Put(disk, 0, hdr)
          /\ pc' = "hsync"
          /\ UNCHANGED <<stable, jrn, jrnAfter, memory, fl, faults, ghosts>>

LastSyncForgets(ok) ==
  IF fl.after = "close"
  THEN /\ Forget
       /\ closeOk' = (ok /\ ~fl.bad)
  ELSE /\ ioFailed' = (ioFailed \/ fl.bad \/ ~ok)
       /\ pc' = "idle" /\ fl' = NoFlush
       /\ UNCHANGED <<mode, copied, hdr, dirty, undo, inTx, live, closeOk>>

LastSync(ok) ==
  IF fl.after = "close"
  THEN /\ Forget
       /\ closeOk' = (ok /\ ~fl.bad /\ ~ioFailed)
  ELSE /\ ioFailed' = (ioFailed \/ fl.bad \/ ~ok)
       /\ pc' = "idle" /\ fl' = NoFlush
       /\ UNCHANGED <<mode, copied, hdr, dirty, undo, inTx, live, closeOk>>

HeaderSync == /\ pc = "hsync"
              /\ stable' = disk
              /\ LastSync(TRUE)
              /\ UNCHANGED <<disk, jrn, jrnAfter, logical, committed, previous, faults>>

-----------------------------------------------------------------------------
(* What may go wrong.                                                       *)

Fault   == faults < MaxFaults /\ faults' = faults + 1
IoError == "io" \in Failures /\ Fault
Crash   == Fault /\ Forget

(* A step of tx_flush that answers an error: an I/O failure, or a page      *)
(* written through the read-only handle of an OPEN INPUT.                   *)
FlushFails == /\ pc \in {"jopen", "jhead", "jrecs", "jcert", "jcertsync", "page", "finish"}
              /\ \/ IoError
                 \/ mode = "input" /\ pc = "page" /\ In(fl.dirty) # {} /\ UNCHANGED faults
              /\ live' = IF pc = "finish" THEN NotLive ELSE live
              /\ Return(fl.after, FALSE)
              /\ UNCHANGED <<files, mode, copied, hdr, dirty, undo, inTx, ghosts>>

HeaderFails == /\ pc = "header"
               /\ IoError \/ (mode = "input" /\ UNCHANGED faults)
               /\ fl' = [fl EXCEPT !.bad = TRUE] /\ pc' = "hsync"
               /\ UNCHANGED <<files, memory, ghosts>>

LastSyncFails == /\ pc = "hsync" /\ IoError
                 /\ LastSync(FALSE)
                 /\ UNCHANGED <<files, logical, committed, previous>>

(* The process is killed: the files stay as the operating system has them.  *)
Kill == /\ "kill" \in Failures /\ (mode # "closed" \/ pc # "idle")
        /\ Crash
        /\ logical' = committed
        /\ UNCHANGED <<files, closeOk, committed, previous>>

(* The power is lost: what was not fsynced may or may not be there.         *)
PowerLoss ==
  /\ "power" \in Failures
  /\ \E d \in Surviving(stable, disk), j \in jrnAfter :
       /\ disk' = d /\ stable' = d /\ jrn' = j /\ jrnAfter' = {j}
       /\ committed' = IF Recovered(d, j) = previous THEN previous ELSE committed
  /\ logical' = committed' /\ previous' = committed'
  /\ Crash
  /\ UNCHANGED closeOk

-----------------------------------------------------------------------------
Recovery == RestorePage \/ CutContainer \/ RecoverSync \/ RecoverRemove \/ RecoverDone

Flush == \/ Spill \/ JournalOpen \/ JournalHead
         \/ \E p \in Pages : JournalRecord(p) \/ WritePage(p)
         \/ JournalSync \/ JournalCertify \/ CertifySync
         \/ PagesSync \/ JournalFinish \/ FinishDir
         \/ Header \/ HeaderSync
         \/ FlushFails \/ HeaderFails \/ LastSyncFails

Calls == \/ OpenInput \/ OpenIo
         \/ \E S \in SUBSET (Pages \ {0}), n \in 1 .. MaxPages : Verb(S, n)
         \/ Rejected \/ Commit \/ Close \/ CloseInput

Next == Calls \/ Recovery \/ Flush \/ Kill \/ PowerLoss

Spec == Init /\ [][Next]_vars

-----------------------------------------------------------------------------
LiveFields == [on : BOOLEAN, orig : 0 .. MaxPages, ids : SUBSET Pages, recs : Nat, seq : Nat]
FlushLocals == [spill : BOOLEAN, dirty : WriteSet, undo : WriteSet,
                after : {"none", "verb", "persist", "close"},
                long : BOOLEAN, bad : BOOLEAN, left : Nat]
Steps == {"idle", "restore", "rsync", "rremove", "rdir", "spill", "jopen", "jhead",
          "jrecs", "jcert", "jcertsync", "page", "finish", "fdir", "header", "hsync"}

TypeOK ==
  /\ disk \in Container /\ stable \in Container
  /\ jrn \in Journal \cup {None} /\ jrnAfter \subseteq Journal \cup {None}
  /\ mode \in {"closed", "io", "input"} /\ copied \in BOOLEAN
  /\ hdr \in Image /\ dirty \in WriteSet /\ undo \in WriteSet /\ inTx \in BOOLEAN
  /\ live \in LiveFields
  /\ ioFailed \in BOOLEAN
  /\ pc \in Steps /\ fl \in FlushLocals
  /\ closeOk \in BOOLEAN /\ faults \in 0 .. MaxFaults
  /\ logical \in Container /\ committed \in Container /\ previous \in Container

(* The order of the fsyncs: a crash at any instant, a power loss included,  *)
(* leaves files that recover to the last commit point, or to the one before *)
(* it - never to part of a transaction (tx_flush, journal_recover_v2).      *)
AtomicOutcomes == \A o \in Outcomes : Recovered(o[1], o[2]) \in {committed, previous}

(* Removing the journal is the commit point (tx_commit): a killed process   *)
(* loses no commit, and leaves no change that was not committed, spilled or *)
(* not, recovering or not.                                                  *)
KillRecovers == Recovered(disk, jrn) = committed

(* No crash leaves a journal that recovery refuses: the certificate always  *)
(* follows the images it counts, and never overwrites the newest slot.      *)
NeverRefused == \A o \in Outcomes : ~Refused(o[2])

(* The program reads its own changes, whether they are in the write set,    *)
(* spilled behind the journal or committed (read_page).                     *)
ReadsOwnWrites == mode = "io" => View = logical.page

(* The COMMIT of a transaction that spilled is durable when it returns:     *)
(* journal_finish has made the removal of the journal durable.              *)
LongCommitDurable ==
  [][pc = "fdir" /\ faults' = faults
     => \A o \in Outcomes' : Recovered(o[1], o[2]) = committed']_vars

(* OPEN INPUT reads the file as the last commit left it, even when an       *)
(* interrupted commit left the container half written under its journal.    *)
InputReadsCommitted == mode = "input" => hdr = committed.page[0]

(* A CLOSE that answers 00 leaves what the program was told it had: every   *)
(* failure that lost a change before it, COMMIT's own included, is answered *)
(* by the CLOSE (io_failed).                                                *)
HonestClose ==
  [][mode = "io" /\ mode' = "closed" /\ faults' = faults /\ closeOk'
     => Recovered(disk', jrn').page = logical'.page]_vars

(* The steps the engine takes by itself, once started, go on to their end.  *)
FairSpec == Spec /\ WF_vars(Recovery) /\ WF_vars(Flush)

(* A recovery, a spill, a COMMIT or a CLOSE that started ends, or a crash   *)
(* ends it.                                                                 *)
Settles == pc # "idle" ~> pc = "idle"

(* The journal implements the promise of TxStore: durable is what recovery  *)
(* would find now, working is what the program reads; no step of a commit,  *)
(* a spill or a recovery shows through, and an orderly CLOSE loses nothing. *)
Store == INSTANCE TxStore WITH
           Contents <- [Pages -> Image],
           open     <- mode = "io",
           durable  <- Recovered(disk, jrn).page,
           working  <- IF mode = "io" THEN View ELSE Recovered(disk, jrn).page,
           crashes  <- faults
ImplementsTxStore == Store!Spec
=============================================================================
