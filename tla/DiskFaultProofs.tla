-------------------------- MODULE DiskFaultProofs --------------------------
(***************************************************************************)
(* A power loss leaves any mixture of the pages written since the last     *)
(* fsync and any of several journals: whichever it leaves recovers to the  *)
(* last commit point or to the one before, and recovery never refuses it.  *)
(* For every number of pages, of verbs and of faults, as long as the disk  *)
(* answers no error.  When it does answer errors, in any number and at any *)
(* step, a CLOSE that reports success still tells the truth.               *)
(***************************************************************************)
EXTENDS DiskRecoveryProofs

(* A journal that recovery does not refuse: no slot of it was written, or  *)
(* one can be read and none counts images that are not there.              *)
Sound(j) ==
  j # None => \/ NotWritten(j)
              \/ /\ Readable(j) # {}
                 /\ \A i \in Readable(j) : j.slots[i].certified <= Len(j.recs)

(* The slot that the newest certificate is in.                             *)
Holds(i) == jrn # None /\ i \in Readable(jrn)

Certified ==
  /\ pc = "jrecs" /\ ~live.on => Holds(0)
  /\ live.on => Holds(SlotOf(live.seq)) /\ live.recs <= Len(jrn.recs)

(* A journal a power loss may leave belongs to the last commit point; or   *)
(* to the one before, while its removal is all that came since.            *)
Leaves(j) ==
  \/ Brings(disk, j, committed) /\ Brings(stable, j, committed)
  \/ disk = stable /\ disk = committed /\ Brings(disk, j, previous)

(* Pages are written only while the journal is as the last fsync left it,  *)
(* and everything else waits until they are synced.                        *)
Synced ==
  /\ jrn \in jrnAfter
  /\ pc \in {"jcert", "page", "finish"} => jrnAfter = {jrn}
  /\ live.on /\ pc \notin {"jrecs", "jcertsync"} => jrnAfter = {jrn}
  /\ disk = stable \/ (Written /\ (mode = "io" => pc = "page")
                               /\ (mode = "input" => copied)
                               /\ pc \notin {"rremove", "rdir"})
  /\ pc \in {"finish", "fdir"} => mode = "io"
  /\ pc = "fdir" => jrn = None

PInv == /\ Whole(previous) /\ ZeroPast(stable)
        /\ Certified /\ Synced
        /\ \A j \in jrnAfter : Sound(j) /\ Leaves(j)
-----------------------------------------------------------------------------
(* What a power loss makes of the pages that were not synced.              *)

LEMMA MixtureIs ==
  ASSUME NEW old \in Container, NEW new \in Container, NEW d \in Surviving(old, new)
  PROVE  /\ d \in Container /\ ZeroPast(d)
         /\ (old.len <= d.len /\ d.len <= new.len) \/ (new.len <= d.len /\ d.len <= old.len)
         /\ \A p \in Pages : p < d.len => d.page[p] = old.page[p] \/ d.page[p] = new.page[p]
<1>1. PICK n \in (old.len .. new.len) \cup (new.len .. old.len), S \in SUBSET Pages :
        d = [len |-> n, page |-> [p \in Pages |-> IF n <= p THEN Zero
                                   ELSE IF p \in S THEN new.page[p] ELSE old.page[p]]]
  BY DEF Surviving
<1>2. old.len \in Nat /\ new.len \in Nat /\ n \in Nat /\ d.len = n /\ \A p \in Pages : p \in Nat
  BY <1>1, PagesAssumption DEF Container, Pages
<1>3. \A p \in Pages : d.page[p] = IF n <= p THEN Zero
                                    ELSE IF p \in S THEN new.page[p] ELSE old.page[p]
  BY <1>1
<1>4. d \in Container
  BY SurvivingType
<1>5. (old.len <= n /\ n <= new.len) \/ (new.len <= n /\ n <= old.len)
  BY <1>1, <1>2
<1> QED
  BY <1>2, <1>3, <1>4, <1>5 DEF ZeroPast

LEMMA NothingLost ==
  ASSUME NEW c \in Container, ZeroPast(c), NEW d \in Surviving(c, c)
  PROVE  d = c
<1>1. /\ d \in Container /\ ZeroPast(d)
      /\ (c.len <= d.len /\ d.len <= c.len)
      /\ \A p \in Pages : p < d.len => d.page[p] = c.page[p]
  BY MixtureIs
<1>2. c.len \in Nat /\ d.len \in Nat /\ \A p \in Pages : p \in Nat
  BY <1>1, PagesAssumption DEF Container, Pages
<1>3. \A p \in Pages : d.page[p] = c.page[p]
  BY <1>1, <1>2 DEF ZeroPast
<1> QED
  BY <1>1, <1>2, <1>3, SameContainer

(* The journal covers the container whichever of the pages were lost.      *)
LEMMA MixtureBrings ==
  ASSUME NEW old \in Container, NEW new \in Container, NEW d \in Surviving(old, new),
         NEW j \in Journal \cup {None}, NEW c \in Container, ZeroPast(c),
         Brings(old, j, c), Brings(new, j, c)
  PROVE  Brings(d, j, c)
<1>1. CASE j # None /\ Readable(j) # {}
  <2>1. /\ d \in Container
        /\ (old.len <= d.len /\ d.len <= new.len) \/ (new.len <= d.len /\ d.len <= old.len)
        /\ \A p \in Pages : p < d.len => d.page[p] = old.page[p] \/ d.page[p] = new.page[p]
    BY MixtureIs
  <2>2. c.len \in Nat /\ d.len \in Nat /\ old.len \in Nat /\ new.len \in Nat
        /\ \A p \in Pages : p \in Nat
    BY <2>1, PagesAssumption DEF Container, Pages
  <2>3. c.len <= old.len /\ c.len <= new.len
    BY <1>1 DEF Brings
  <2>4. c.len <= d.len
    BY <2>1, <2>2, <2>3
  <2>5. \A p \in Pages : p < c.len => d.page[p] = c.page[p] \/ p \in Ids(j)
    BY <1>1, <2>1, <2>2, <2>4 DEF Brings
  <2> QED
    BY <1>1, <2>4, <2>5 DEF Brings
<1>2. CASE ~(j # None /\ Readable(j) # {})
  <2>1. old = c /\ new = c
    BY <1>2 DEF Brings
  <2>2. d = c
    BY <2>1, NothingLost
  <2> QED
    BY <2>1, <2>2
<1> QED
  BY <1>1, <1>2

(* What a power loss leaves is brought back to one of two contents.        *)
LEMMA EitherCommit ==
  ASSUME IInv, PInv, NEW j \in jrnAfter, NEW d \in Surviving(stable, disk)
  PROVE  /\ d \in Container /\ ZeroPast(d) /\ j \in Journal \cup {None}
         /\ \E c \in {committed, previous} :
               c \in Container /\ Whole(c) /\ Brings(d, j, c) /\ Recovered(d, j) = c
<1>1. /\ disk \in Container /\ stable \in Container /\ j \in Journal \cup {None}
      /\ committed \in Container /\ previous \in Container
      /\ ZeroPast(disk) /\ ZeroPast(stable) /\ Whole(committed) /\ Whole(previous)
  BY DEF IInv, TypeInv, TypeOK, PInv
<1>2. d \in Container /\ ZeroPast(d)
  BY <1>1, MixtureIs
<1>3. CASE Brings(disk, j, committed) /\ Brings(stable, j, committed)
  <2>1. Brings(d, j, committed)
    BY <1>1, <1>3, MixtureBrings DEF Whole
  <2> QED
    BY <1>1, <1>2, <2>1, BringsBack
<1>4. CASE disk = stable /\ Brings(disk, j, previous)
  <2>1. d = disk
    BY <1>1, <1>4, NothingLost
  <2> QED
    BY <1>1, <1>2, <1>4, <2>1, BringsBack
<1> QED
  BY <1>1, <1>2, <1>3, <1>4 DEF PInv, Leaves

(* A sound journal is not refused.                                         *)
LEMMA SoundAccepted ==
  ASSUME NEW j \in Journal \cup {None}, Sound(j)
  PROVE  ~Refused(j)
<1> SUFFICES ASSUME j # None, ~NotWritten(j), Readable(j) # {},
                    \A i \in Readable(j) : j.slots[i].certified <= Len(j.recs)
             PROVE  ~(Len(j.recs) < Newest(j).certified)
  BY DEF Refused, Sound
<1>1. PICK i \in 0 .. 1 : i \in Readable(j) /\ Newest(j) = j.slots[i] /\ j.slots[i] \in Slot
  BY NewestReadable
<1>2. Len(j.recs) \in Nat /\ Newest(j).certified \in Nat
  BY <1>1 DEF Journal, Slot
<1> QED
  BY <1>1, <1>2
-----------------------------------------------------------------------------
(* Each step keeps the invariant.                                          *)

LEMMA PowerInit == Init => PInv
<1> SUFFICES ASSUME Init PROVE PInv
  OBVIOUS
<1>1. IInv
  BY RecoveryInit
<1>2. disk = Settled /\ stable = Settled /\ committed = Settled /\ previous = Settled
      /\ jrn = None /\ jrnAfter = {None} /\ ~live.on /\ pc = "idle"
  BY DEF Init, NotLive
<1>3. Brings(disk, None, committed)
  BY <1>2 DEF Brings
<1> QED
  BY <1>1, <1>2, <1>3 DEF PInv, IInv, Certified, Synced, Sound, Leaves, Whole

DiskIs == Brings(disk, jrn, committed)

LEMMA DiskIsNow == IInv => DiskIs
BY DiskBrings DEF DiskIs

LEMMA DiskBringsNext == IInv' => Brings(disk', jrn', committed')
<1>1. IInv' => DiskIs'
  BY DiskIsNow, PTL
<1> QED
  BY <1>1 DEF DiskIs

(* The synced container is covered by the journal that is there.           *)
LEMMA StableBrings ==
  ASSUME IInv, PInv
  PROVE  /\ Brings(disk, jrn, committed) /\ Brings(stable, jrn, committed)
         /\ Sound(jrn)
<1>1. jrn \in jrnAfter /\ Brings(disk, jrn, committed)
  BY DiskBrings DEF PInv, Synced
<1> QED
  BY <1>1 DEF PInv, Leaves

(* The files stay as they are.                                             *)
LEMMA FilesAlone ==
  ASSUME PInv, UNCHANGED <<disk, stable, jrn, jrnAfter, committed, previous>>,
         Certified', Synced'
  PROVE  PInv'
BY DEF PInv, Whole, ZeroPast, Sound, Leaves

(* The journals a power loss may leave are not touched, and the container  *)
(* is synced.                                                              *)
LEMMA ContainerSynced ==
  ASSUME IInv, PInv, stable' = disk, UNCHANGED <<disk, jrn, jrnAfter, committed, previous>>,
         Certified', Synced'
  PROVE  PInv'
<1>1. ZeroPast(stable)' /\ Whole(previous)'
  BY DEF IInv, PInv, ZeroPast, Whole
<1> QED
  BY <1>1 DEF PInv, Sound, Leaves

(* One journal more that a power loss may leave.                           *)
LEMMA JournalAdded ==
  ASSUME IInv', PInv, disk = stable,
         UNCHANGED <<disk, stable, committed, previous>>,
         \A j \in jrnAfter' : j \in jrnAfter \/ j = jrn', Sound(jrn'),
         Certified', Synced'
  PROVE  PInv'
<1>1. ZeroPast(stable)' /\ Whole(previous)'
  BY DEF PInv, ZeroPast, Whole
<1>2. ASSUME NEW j \in jrnAfter'
      PROVE  Sound(j) /\ Leaves(j)'
  <2>1. CASE j = jrn'
    BY <2>1, DiskBringsNext DEF Leaves
  <2>2. CASE j \in jrnAfter
    BY <2>2 DEF PInv, Leaves
  <2> QED
    BY <2>1, <2>2
<1> QED
  BY <1>1, <1>2 DEF PInv, Sound

(* The journal is as the last fsync left it.                               *)
LEMMA JournalSynced ==
  ASSUME IInv, IInv', PInv, disk = stable, UNCHANGED <<disk, stable, jrn, committed>>,
         jrnAfter' = {jrn}, previous' \in {committed, previous},
         Certified', Synced'
  PROVE  PInv'
<1>1. ZeroPast(stable)' /\ Whole(previous)'
  BY DEF IInv, PInv, ZeroPast, Whole
<1>2. Leaves(jrn)' /\ Sound(jrn)
  BY DiskBringsNext, StableBrings DEF Leaves
<1> QED
  BY <1>1, <1>2 DEF PInv, Sound

(* tx_flush goes to the journal, unless it is live and has every image, or *)
(* to the end when a live one is all there is.                             *)
LEMMA FlushStarts ==
  ASSUME IInv, NEW spill, NEW after, TxFlush(spill, after)
  PROVE  /\ pc' \in {"idle", "hsync", "header", "jopen", "jrecs", "page", "finish"}
         /\ pc' \in {"jrecs", "page", "finish"} => live.on
<1>1. 0 \in Pages /\ hdr # None
  BY PagesAssumption, NoneAssumption DEF Pages, IInv, TypeInv, TypeOK
<1>2. CASE ~inTx /\ ~live.on
  BY <1>2 DEF TxFlush, Return
<1>3. CASE ~(~inTx /\ ~live.on)
  <2> DEFINE w == IF inTx THEN [dirty EXCEPT ![0] = hdr] ELSE dirty
             u == IF inTx /\ NeedsUndoImage(0) THEN [undo EXCEPT ![0] = disk.page[0]] ELSE undo
  <2>1. pc' = CASE In(w) = {} -> "finish"
                [] In(w) # {} /\ ~live.on -> "jopen"
                [] In(w) # {} /\ live.on /\ In(u) # {} -> "jrecs"
                [] OTHER -> "page"
    BY <1>3 DEF TxFlush
  <2>2. ~live.on => In(w) # {}
    BY <1>1, <1>3 DEF In, IInv, TypeInv, TypeOK, WriteSet
  <2> HIDE DEF w, u
  <2> QED
    BY <2>1, <2>2
<1> QED
  BY <1>2, <1>3

(* The program's verbs and the start of a flush.                           *)
LEMMA QuietKeeps ==
  ASSUME NoDiskErrors, IInv, IInv', PInv,
         \/ OpenInput \/ \E S \in SUBSET (Pages \ {0}), n \in 1 .. MaxPages : Verb(S, n)
         \/ Rejected \/ Commit \/ Close \/ CloseInput \/ Spill
         \/ FlushFails \/ HeaderFails \/ Kill
  PROVE  PInv'
<1> USE DEF files, memory, ghosts
<1>0. /\ UNCHANGED <<disk, stable, jrn, jrnAfter, committed, previous>>
  BY DEF OpenInput, Opened, Verb, Rejected, Commit, Close, CloseInput, Spill, FlushFails,
         HeaderFails, Kill
<1>1. CASE OpenInput \/ CloseInput \/ Kill
  <2>1. /\ pc' = "idle" /\ mode' \in {"closed", "input"} /\ ~live'.on
        /\ mode' = "input" => (copied' <=> jrn # None)
    BY <1>1 DEF OpenInput, CanOpen, Opened, CloseInput, Kill, Crash, Forget, NotLive, IInv, ClosedMode
  <2>2. Certified' /\ Synced'
    BY <1>0, <2>1 DEF PInv, Certified, Synced, Written, Readable
  <2> QED
    BY <1>0, <2>2, FilesAlone
<1>2. CASE \E S \in SUBSET (Pages \ {0}), n \in 1 .. MaxPages : Verb(S, n)
  <2>1. /\ pc = "idle" /\ pc' \in {"idle", "spill"} /\ UNCHANGED <<mode, live, copied>> /\ mode = "io"
    BY <1>2 DEF Verb
  <2>2. Certified' /\ Synced'
    BY <1>0, <2>1 DEF PInv, Certified, Synced, Holds, Readable, Written
  <2> QED
    BY <1>0, <2>2, FilesAlone
<1>3. CASE Rejected
  <2>1. pc' = pc /\ UNCHANGED <<mode, live, copied>>
    BY <1>3 DEF Rejected
  <2>2. Certified' /\ Synced'
    BY <1>0, <2>1 DEF PInv, Certified, Synced, Holds, Readable, Written
  <2> QED
    BY <1>0, <2>2, FilesAlone
<1>4. CASE Commit \/ Close \/ Spill
  <2>1. /\ pc \in {"idle", "spill"} /\ UNCHANGED <<mode, live, copied>>
        /\ mode = "closed" => pc = "idle"
    BY <1>4 DEF Commit, Close, Spill, IInv, TypeInv, JournalThere
  <2>2. \/ pc' = "idle"
        \/ /\ pc' \in {"idle", "hsync", "header", "jopen", "jrecs", "page", "finish"}
           /\ pc' \in {"jrecs", "page", "finish"} => live.on
    BY <1>4, FlushStarts DEF Commit, Close, Spill
  <2>3. pc' = "finish" => mode' = "io"
    BY DEF IInv, Ended
  <2>4. Certified'
    BY <1>0, <2>1, <2>2 DEF PInv, Certified, Holds, Readable
  <2>5. Synced'
    BY <1>0, <2>1, <2>2, <2>3 DEF PInv, Synced, Written, Readable
  <2> QED
    BY <1>0, <2>4, <2>5, FilesAlone
<1>5. CASE FlushFails
  <2>1. /\ pc = "page" /\ mode = "input" /\ ~live.on /\ UNCHANGED <<mode, live, copied>>
        /\ pc' \in {"idle", "hsync", "header"}
    BY <1>5 DEF FlushFails, IoError, NoDiskErrors, Return, IInv, InputMode
  <2>2. Certified' /\ Synced'
    BY <1>0, <2>1 DEF PInv, Certified, Synced, Written, Readable
  <2> QED
    BY <1>0, <2>2, FilesAlone
<1>6. CASE HeaderFails
  <2>1. pc = "header" /\ pc' = "hsync" /\ mode = "input" /\ ~live.on /\ UNCHANGED <<mode, live, copied>>
    BY <1>6 DEF HeaderFails, IoError, NoDiskErrors, IInv, InputMode
  <2>2. Certified' /\ Synced'
    BY <1>0, <2>1 DEF PInv, Certified, Synced, Written, Readable
  <2> QED
    BY <1>0, <2>2, FilesAlone
<1> QED
  BY <1>1, <1>2, <1>3, <1>4, <1>5, <1>6

(* The journal is written and synced.                                      *)
LEMMA Waits ==
  ASSUME IInv, PInv, pc \in Appending \cup Ending, pc # "page"
  PROVE  disk = stable /\ mode \in {"io", "input"}
<1>1. mode \in {"io", "input"}
  BY DEF IInv, TypeInv, TypeOK, JournalThere, Appending, Ending
<1>2. mode = "input" => ~copied
  BY DEF IInv, InputMode, Appending, Ending
<1> QED
  BY <1>1, <1>2 DEF PInv, Synced

LEMMA BuildingKeeps ==
  ASSUME IInv, IInv', PInv,
         JournalOpen \/ JournalHead \/ \E p \in Pages : JournalRecord(p)
  PROVE  PInv'
<1> USE DEF memory, ghosts
<1>1. /\ UNCHANGED <<disk, stable, committed, previous, live, mode, copied>>
      /\ jrnAfter' = jrnAfter \cup {jrn'}
      /\ pc \in {"jopen", "jhead", "jrecs"} /\ pc' \in {"jhead", "jrecs"}
      /\ disk = stable
  BY Waits DEF JournalOpen, JournalHead, JournalRecord, Appending
<1>2. Synced'
  <2>1. pc' = "jhead" => ~live.on
    BY DEF JournalOpen, JournalHead, JournalRecord, IInv, JournalFirst
  <2> QED
    BY <1>1, <2>1 DEF PInv, Synced
<1>3. CASE JournalOpen
  <2>1. jrn' = EmptyJournal /\ pc' = "jhead" /\ ~live.on
    BY <1>3 DEF JournalOpen, IInv, JournalFirst
  <2>2. Sound(jrn') /\ Certified'
    BY <1>1, <2>1 DEF Sound, NotWritten, EmptyJournal, Certified
  <2> QED
    BY <1>1, <1>2, <2>2, JournalAdded
<1>4. CASE JournalHead
  <2>1. /\ jrn = EmptyJournal /\ pc' = "jrecs" /\ ~live.on /\ fl.left = committed.len
        /\ jrn' = [jrn EXCEPT !.slots[0] = [seq |-> 2, pages |-> fl.left, certified |-> 0]]
    BY <1>4 DEF JournalHead, IInv, JournalFirst
  <2>2. /\ jrn'.slots[0] = [seq |-> 2, pages |-> fl.left, certified |-> 0]
        /\ jrn'.slots[1] = None /\ jrn'.recs = <<>>
    BY <2>1 DEF EmptyJournal
  <2>3. jrn'.slots[0] \in Slot
    BY <2>1, <2>2 DEF Slot, IInv, TypeInv, TypeOK, Container
  <2>4. Readable(jrn') = {0}
    BY <2>2, <2>3, NoneAssumption DEF Readable, Torn
  <2>5. jrn' # None
    BY <2>1 DEF IInv, TypeInv, JournalThere
  <2>6. Sound(jrn') /\ Certified'
    BY <1>1, <2>1, <2>2, <2>4, <2>5 DEF Sound, Certified, Holds
  <2> QED
    BY <1>1, <1>2, <2>6, JournalAdded
<1>5. CASE \E p \in Pages : JournalRecord(p)
  <2>1. PICK p \in Pages : JournalRecord(p)
    BY <1>5
  <2> DEFINE r == [id |-> p, img |-> fl.undo[p]]
  <2>2. /\ pc = "jrecs" /\ pc' = "jrecs" /\ jrn' = [jrn EXCEPT !.recs = Append(@, r)]
        /\ fl.undo[p] # None
    BY <2>1 DEF JournalRecord
  <2>3. jrn \in Journal /\ jrn' # None /\ Written
    BY <2>2 DEF IInv, TypeInv, TypeOK, JournalThere, JournalFirst
  <2>4. r \in Record
    BY <2>2 DEF Record, IInv, TypeInv, TypeOK, FlushLocals, WriteSet
  <2> HIDE DEF r
  <2>5. /\ jrn'.slots = jrn.slots /\ Len(jrn'.recs) = Len(jrn.recs) + 1 /\ Len(jrn.recs) \in Nat
    BY <2>2, <2>3, <2>4 DEF Journal
  <2>6. Readable(jrn') = Readable(jrn)
    BY <2>5 DEF Readable
  <2>7. ~NotWritten(jrn)
    BY <2>3 DEF Written, Readable, NotWritten
  <2>8. \A i \in Readable(jrn) : jrn.slots[i].certified <= Len(jrn.recs)
                                 /\ jrn.slots[i].certified \in Nat
    BY <2>3, <2>7, StableBrings DEF Sound, Readable, Journal, Slot, Written
  <2>9. Sound(jrn')
    BY <2>3, <2>5, <2>6, <2>8 DEF Sound, Written
  <2>10. live.recs \in Nat
    BY DEF IInv, TypeInv, TypeOK, LiveFields
  <2>11. Certified'
    BY <1>1, <2>2, <2>3, <2>5, <2>6, <2>10 DEF PInv, Certified, Holds
  <2> QED
    BY <1>1, <1>2, <2>9, <2>11, JournalAdded
<1> QED
  BY <1>3, <1>4, <1>5

LEMMA CertifyingKeeps ==
  ASSUME IInv, IInv', PInv, JournalSync \/ JournalCertify \/ CertifySync
  PROVE  PInv'
<1> USE DEF memory, ghosts
<1>1. /\ UNCHANGED <<disk, stable, committed, mode, copied>>
      /\ pc \in {"jrecs", "jcert", "jcertsync"} /\ pc' \in {"jcert", "jcertsync", "page"}
      /\ disk = stable /\ Written
  BY Waits DEF JournalSync, JournalCertify, CertifySync, Appending, IInv, JournalFirst
<1>2. jrn \in Journal /\ jrn # None /\ Len(jrn.recs) \in Nat
  BY <1>1 DEF IInv, TypeInv, TypeOK, Written, Journal
<1>3. CASE JournalSync
  <2>1. /\ jrn' = jrn /\ jrnAfter' = {jrn} /\ previous' = committed
        /\ pc = "jrecs" /\ pc' \in {"jcert", "page"}
        /\ live' = IF fl.long
                   THEN [on   |-> TRUE,
                         orig |-> IF live.on THEN live.orig ELSE fl.left,
                         ids  |-> {jrn.recs[i].id : i \in DOMAIN jrn.recs},
                         recs |-> Len(jrn.recs),
                         seq  |-> IF live.on THEN live.seq ELSE 2]
                   ELSE live
    BY <1>3 DEF JournalSync, FsyncJournal
  <2>2. SlotOf(2) = 0
    BY DEF SlotOf
  <2>3. live.on => Holds(SlotOf(live.seq)) /\ live.recs <= Len(jrn.recs)
    BY DEF PInv, Certified
  <2>4. ~live.on => Holds(0)
    BY <2>1 DEF PInv, Certified
  <2>5. Certified'
    <3>1. CASE fl.long
      <4>1. live'.recs = Len(jrn.recs) /\ live'.seq = IF live.on THEN live.seq ELSE 2
        BY <2>1, <3>1
      <4>2. Holds(SlotOf(live'.seq))
        BY <2>2, <2>3, <2>4, <4>1
      <4> QED
        BY <1>2, <2>1, <4>1, <4>2 DEF Certified, Holds, Readable
    <3>2. CASE ~fl.long
      BY <2>1, <2>3, <3>2 DEF Certified, Holds, Readable
    <3> QED
      BY <3>1, <3>2
  <2>6. Synced'
    BY <1>1, <2>1 DEF Synced
  <2> QED
    BY <1>1, <2>1, <2>5, <2>6, JournalSynced
<1>4. CASE CertifySync
  <2>1. jrn' = jrn /\ jrnAfter' = {jrn} /\ previous' = previous /\ live' = live /\ pc' = "page"
    BY <1>4 DEF CertifySync, FsyncJournal
  <2>2. Certified' /\ Synced'
    BY <1>1, <2>1 DEF PInv, Certified, Holds, Readable, Synced
  <2> QED
    BY <1>1, <2>1, <2>2, JournalSynced
<1>5. CASE JournalCertify
  <2> DEFINE i == SlotOf(live'.seq)
             s == [seq |-> live'.seq, pages |-> live.orig, certified |-> live.recs]
             torn == [jrn EXCEPT !.slots[i] = Torn]
  <2>1. /\ live.on /\ live' = [live EXCEPT !.seq = @ + 1] /\ live \in LiveFields
        /\ jrn' = [jrn EXCEPT !.slots[i] = s] /\ previous' = previous
        /\ pc = "jcert" /\ pc' = "jcertsync"
        /\ jrnAfter = {jrn} /\ jrnAfter' = jrnAfter \cup {jrn', torn}
    BY <1>5 DEF JournalCertify, IInv, TypeInv, TypeOK, JournalFirst, PInv, Synced
  <2>2. /\ live'.on /\ live'.seq = live.seq + 1 /\ live'.recs = live.recs /\ live.recs \in Nat
        /\ live.seq \in Nat
    BY <2>1 DEF LiveFields
  <2>3. i \in 0 .. 1 /\ SlotOf(live.seq) \in 0 .. 1 /\ SlotOf(live.seq) # i
    BY <2>2 DEF SlotOf
  <2>4. s \in Slot /\ s # Torn /\ s # None /\ s.certified = live.recs
    <3>1. s \in Slot
      BY <2>1, <2>2 DEF LiveFields, Slot
    <3>2. s.seq # 0
      BY <2>2
    <3> QED
      BY <3>1, <3>2, NoneAssumption DEF Torn
  <2>5. Holds(SlotOf(live.seq)) /\ live.recs <= Len(jrn.recs)
    BY <2>1 DEF PInv, Certified
  <2>6. jrn' # None /\ torn # None /\ torn \in Journal
    <3>1. Torn \in Slot
      BY EmptyType
    <3>2. torn \in Journal
      BY <1>2, <2>3, <3>1 DEF Journal
    <3>3. jrn' \in Journal
      BY <1>2, <2>1, <2>3, <2>4 DEF Journal
    <3> QED
      BY <3>2, <3>3, NoneAssumption
  <2>7. \A k \in Readable(jrn) : jrn.slots[k].certified <= Len(jrn.recs)
    BY <1>2, <2>5, StableBrings DEF Sound, Holds, NotWritten, Readable
  <2> HIDE DEF s
  <2>8. /\ jrn'.recs = jrn.recs
        /\ \A k \in 0 .. 1 : jrn'.slots[k] = IF k = i THEN s ELSE jrn.slots[k]
    BY <1>2, <2>1, <2>3 DEF Journal
  <2>9. /\ torn.recs = jrn.recs
        /\ \A k \in 0 .. 1 : torn.slots[k] = IF k = i THEN Torn ELSE jrn.slots[k]
    BY <1>2, <2>3 DEF Journal
  <2> HIDE DEF i, torn
  <2>10. Readable(jrn') = Readable(jrn) \cup {i}
    BY <2>3, <2>4, <2>8 DEF Readable
  <2>11. Readable(torn) = Readable(jrn) \ {i} /\ SlotOf(live.seq) \in Readable(torn)
    BY <2>3, <2>5, <2>9 DEF Readable, Holds
  <2>12. Sound(jrn')
    BY <2>4, <2>5, <2>6, <2>7, <2>8, <2>10 DEF Sound, Readable
  <2>13. Sound(torn)
    <3>1. \A k \in Readable(torn) : k \in Readable(jrn) /\ torn.slots[k] = jrn.slots[k]
      BY <2>9, <2>11 DEF Readable
    <3> QED
      BY <2>7, <2>9, <2>11, <3>1 DEF Sound
  <2>14. Brings(disk, torn, committed)
    <3>1. Brings(disk, jrn, committed) /\ Readable(jrn) # {}
      BY <2>5, StableBrings DEF Holds
    <3>2. Ids(torn) = Ids(jrn)
      BY <2>9 DEF Ids
    <3>3. \A k \in 0 .. 1 : torn.slots[k] \notin {None, Torn} => torn.slots[k].pages = committed.len
      BY <1>2, <2>9, <3>1 DEF Brings
    <3>4. Readable(torn) # {}
      BY <2>11
    <3> QED
      BY <1>2, <2>6, <2>9, <3>1, <3>2, <3>3, <3>4 DEF Brings
  <2>15. Certified'
    <3>1. i \in Readable(jrn') /\ jrn' # None
      BY <2>6, <2>10
    <3>2. i = SlotOf(live'.seq)
      BY DEF i
    <3> QED
      BY <2>1, <2>2, <2>5, <2>8, <3>1, <3>2 DEF Certified, Holds
  <2>16. Synced'
    BY <1>1, <2>1 DEF Synced
  <2>17. ASSUME NEW j \in jrnAfter'
         PROVE  Sound(j) /\ Leaves(j)'
    <3>1. CASE j = jrn'
      BY <1>1, <2>12, <3>1, DiskBringsNext DEF Leaves
    <3>2. CASE j = jrn
      BY <1>1, <3>2, StableBrings DEF Leaves
    <3>3. CASE j = torn
      BY <1>1, <2>13, <2>14, <3>3 DEF Leaves
    <3> QED
      BY <2>1, <3>1, <3>2, <3>3
  <2>18. ZeroPast(stable)' /\ Whole(previous)'
    BY <1>1, <2>1 DEF PInv, ZeroPast, Whole
  <2> QED
    BY <2>15, <2>16, <2>17, <2>18 DEF PInv, Sound
<1> QED
  BY <1>3, <1>4, <1>5

(* The pages are written over images that are synced.                      *)
LEMMA WritingKeeps ==
  ASSUME IInv, IInv', PInv, NEW p \in Pages, WritePage(p)
  PROVE  PInv'
<1> USE DEF memory, ghosts
<1>1. /\ pc = "page" /\ pc' = "page" /\ mode = "io" /\ jrnAfter = {jrn}
      /\ UNCHANGED <<stable, jrn, jrnAfter, committed, previous, mode, copied, live>>
  BY DEF WritePage, PInv, Synced
<1>2. Written
  BY <1>1 DEF IInv, JournalFirst
<1>3. Leaves(jrn)'
  BY <1>1, StableBrings, DiskBringsNext DEF Leaves
<1>4. Certified' /\ Synced'
  BY <1>1, <1>2 DEF PInv, Certified, Holds, Readable, Synced, Written
<1>5. ZeroPast(stable)' /\ Whole(previous)'
  BY <1>1 DEF PInv, ZeroPast, Whole
<1> QED
  BY <1>1, <1>3, <1>4, <1>5 DEF PInv, Sound

(* A recovery puts images back; the pages it has not come to are still     *)
(* covered by every journal a power loss may leave.                        *)
LEMMA RestoringKeeps ==
  ASSUME IInv, IInv', PInv, RestorePage
  PROVE  PInv'
<1> USE DEF memory, ghosts
<1>1. /\ pc = "restore" /\ pc' = "restore" /\ mode = "closed" /\ Written /\ ~live.on
      /\ UNCHANGED <<stable, jrn, jrnAfter, committed, previous, mode, copied, live>>
      /\ fl.left > 0 /\ fl.left <= Len(jrn.recs)
  BY DEF RestorePage, IInv, TypeInv, JournalThere, Recovering
<1> DEFINE r == jrn.recs[fl.left]
<1>2. fl.left \in DOMAIN jrn.recs /\ r.id \in Pages
  BY <1>1, RecordType DEF IInv, TypeInv, TypeOK, Written, FlushLocals, Journal
<1>3. r.id < committed.len /\ r.img = committed.page[r.id] /\ committed.len <= disk.len
  BY <1>1, <1>2 DEF IInv, JournalIsOld, Covered, Written
<1>4. disk \in Container /\ r.id \in Nat /\ disk.len \in Nat /\ committed.len \in Nat
  BY <1>2, PagesAssumption DEF Pages, IInv, TypeInv, TypeOK, Container
<1>5. disk'.len = disk.len /\ disk'.page = [disk.page EXCEPT ![r.id] = committed.page[r.id]]
  BY <1>3, <1>4 DEF RestorePage, Put
<1>6. \A p \in Pages : disk'.page[p] = IF p = r.id THEN committed.page[p] ELSE disk.page[p]
  BY <1>4, <1>5 DEF Container
<1>7. disk' \in Container
  BY DEF IInv, TypeInv, TypeOK
<1> HIDE DEF r
<1>8. disk = committed => disk' = disk
  BY <1>4, <1>5, <1>6, <1>7, SameContainer
<1>9. ASSUME NEW j \in jrnAfter
      PROVE  Leaves(j)'
  <2>1. CASE disk = committed
    BY <1>1, <1>8, <2>1 DEF PInv, Leaves
  <2>2. CASE disk # committed
    <3>1. Brings(disk, j, committed) /\ Brings(stable, j, committed)
      BY <2>2 DEF PInv, Leaves
    <3>2. Brings(disk', j, committed)
      BY <1>5, <1>6, <2>2, <3>1 DEF Brings
    <3> QED
      BY <1>1, <3>1, <3>2 DEF Leaves
  <2> QED
    BY <2>1, <2>2
<1>10. Certified' /\ Synced'
  BY <1>1 DEF PInv, Certified, Synced, Written, Readable
<1>11. ZeroPast(stable)' /\ Whole(previous)'
  BY <1>1 DEF PInv, ZeroPast, Whole
<1> QED
  BY <1>1, <1>9, <1>10, <1>11 DEF PInv, Sound

LEMMA CuttingKeeps ==
  ASSUME IInv, IInv', PInv, CutContainer
  PROVE  PInv'
<1> USE DEF memory, ghosts
<1>1. /\ pc = "restore" /\ pc' = "rsync" /\ mode = "closed" /\ Written /\ ~live.on
      /\ UNCHANGED <<stable, jrn, jrnAfter, committed, previous, mode, copied, live>>
  BY DEF CutContainer, IInv, TypeInv, JournalThere, Recovering
<1>2. disk' = committed
  BY <1>1 DEF IInv, Recovering
<1>3. committed.len \in Nat
  BY PagesAssumption DEF IInv, TypeInv, TypeOK, Container
<1>4. ASSUME NEW j \in jrnAfter
      PROVE  Leaves(j)'
  <2>1. CASE disk = committed
    BY <1>1, <1>2, <2>1 DEF PInv, Leaves
  <2>2. CASE disk # committed
    <3>1. Brings(disk, j, committed) /\ Brings(stable, j, committed)
      BY <2>2 DEF PInv, Leaves
    <3>2. Brings(committed, j, committed)
      BY <1>3, <3>1 DEF Brings
    <3> QED
      BY <1>1, <1>2, <3>1, <3>2 DEF Leaves
  <2> QED
    BY <2>1, <2>2
<1>5. Certified' /\ Synced'
  BY <1>1 DEF PInv, Certified, Synced, Written, Readable
<1>6. ZeroPast(stable)' /\ Whole(previous)'
  BY <1>1 DEF PInv, ZeroPast, Whole
<1> QED
  BY <1>1, <1>4, <1>5, <1>6 DEF PInv, Sound

(* Syncs of the container, and removals of a journal.                      *)
LEMMA SyncingKeeps ==
  ASSUME NoDiskErrors, IInv, IInv', PInv, RecoverSync \/ PagesSync \/ HeaderSync
  PROVE  PInv'
<1> USE DEF memory, ghosts
<1>1. stable' = disk /\ UNCHANGED <<disk, jrn, jrnAfter, committed, previous>>
  BY DEF RecoverSync, PagesSync, HeaderSync
<1>2. pc' = "finish" => mode' = "io"
  BY DEF IInv, Ended
<1>3. CASE RecoverSync
  <2>1. pc' = "rremove" /\ mode = "closed" /\ ~live.on /\ UNCHANGED <<mode, copied, live>>
    BY <1>3 DEF RecoverSync, IInv, TypeInv, JournalThere
  <2>2. Certified' /\ Synced'
    BY <1>1, <2>1 DEF PInv, Certified, Synced
  <2> QED
    BY <1>1, <2>2, ContainerSynced
<1>4. CASE PagesSync
  <2>1. /\ pc = "page" /\ pc' \in {"finish", "idle", "hsync", "header"} /\ jrnAfter = {jrn}
        /\ UNCHANGED <<mode, copied, live>>
    BY <1>4 DEF PagesSync, Return, PInv, Synced
  <2>2. Certified' /\ Synced'
    BY <1>1, <1>2, <2>1 DEF PInv, Certified, Holds, Readable, Synced
  <2> QED
    BY <1>1, <2>2, ContainerSynced
<1>5. CASE HeaderSync
  <2>1. pc' = "idle" /\ ~live.on /\ ~live'.on
    BY <1>5 DEF HeaderSync, LastSync, Forget, NotLive, IInv, Ended
  <2>2. Certified' /\ Synced'
    BY <1>1, <2>1 DEF PInv, Certified, Synced
  <2> QED
    BY <1>1, <2>2, ContainerSynced
<1> QED
  BY <1>3, <1>4, <1>5

LEMMA RemovingKeeps ==
  ASSUME IInv, IInv', PInv, OpenIo \/ RecoverRemove \/ RecoverDone
  PROVE  PInv'
<1> USE DEF files, memory, ghosts
<1>1. mode = "closed" /\ ~live.on
  BY DEF OpenIo, CanOpen, RecoverRemove, RecoverDone, IInv, TypeInv, JournalThere
<1>2. /\ UNCHANGED <<disk, stable, committed, previous, live>>
  BY DEF OpenIo, RecoverRemove, RecoverDone, Opened
<1>3. CASE jrn' = jrn /\ jrnAfter' = jrnAfter
  <2>1. (pc' = "restore" /\ mode' = "closed" /\ Written) \/ (pc' = "idle" /\ mode' = "io" /\ jrn = None)
    <3>1. pc' = "restore" => Written
      BY <1>3 DEF IInv, Recovering, Written, Readable
    <3>2. pc = "rremove" => Written
      BY DEF IInv, Recovering
    <3> QED
      BY <1>3, <3>1, <3>2
      DEF OpenIo, RecoverRemove, RecoverDone, Opened, CanOpen, Written, IInv, Recovering
  <2>2. Certified' /\ Synced'
    BY <1>1, <1>2, <1>3, <2>1 DEF PInv, Certified, Synced, Written, Readable
  <2> QED
    BY <1>2, <1>3, <2>2, FilesAlone
<1>4. CASE jrn # None /\ jrn' = None /\ jrnAfter' = jrnAfter \cup {None}
  <2>1. (pc = "rremove" /\ pc' = "rdir") \/ (pc' = "idle" /\ NotWritten(jrn))
    BY <1>4 DEF OpenIo, RecoverRemove, RecoverDone, Opened, CanOpen, IInv, Recovering
  <2>2. disk = stable
    BY <2>1 DEF PInv, Synced, Written, NotWritten, Readable
  <2>3. Certified' /\ Synced' /\ Sound(jrn')
    BY <1>1, <1>2, <1>4, <2>1, <2>2 DEF Certified, Synced, Sound
  <2> QED
    BY <1>2, <1>4, <2>2, <2>3, JournalAdded
<1>5. CASE RecoverDone
  <2>1. /\ pc = "rdir" /\ pc' = "idle" /\ jrn = None /\ jrn' = jrn /\ jrnAfter' = {jrn}
    BY <1>5 DEF RecoverDone, Opened, IInv, Recovering
  <2>2. disk = stable
    BY <2>1 DEF PInv, Synced
  <2>3. Certified' /\ Synced'
    BY <1>1, <1>2, <2>1, <2>2 DEF Certified, Synced
  <2> QED
    BY <1>2, <2>1, <2>2, <2>3, JournalSynced
<1>6. CASE OpenIo \/ RecoverRemove
  <2>1. pc = "rremove" => jrn # None
    BY DEF IInv, Recovering, Written
  <2> QED
    BY <1>3, <1>4, <1>6, <2>1 DEF OpenIo, RecoverRemove, Opened
<1> QED
  BY <1>5, <1>6

(* The commit point: what the journal covered becomes the content before,  *)
(* and the container, which is synced, the content committed.              *)
LEMMA CommittingKeeps ==
  ASSUME NoDiskErrors, IInv, IInv', PInv, JournalFinish \/ FinishDir \/ Header
  PROVE  PInv'
<1> USE DEF memory, ghosts
<1>1. disk = stable
  BY Waits DEF JournalFinish, FinishDir, Header, Ending
<1>2. CASE JournalFinish
  <2>1. /\ pc = "finish" /\ mode = "io" /\ pc' \in {"fdir", "idle", "hsync", "header"}
        /\ UNCHANGED <<disk, stable, mode, copied>> /\ ~live'.on
        /\ jrn' = None /\ jrnAfter = {jrn} /\ jrnAfter' = {jrn, None} /\ previous' = committed
    BY <1>2 DEF JournalFinish, Return, NotLive, PInv, Synced
  <2>2. disk' = committed'
    BY <2>1 DEF IInv, Covered, Written
  <2>3. ASSUME NEW j \in jrnAfter'
        PROVE  Sound(j) /\ Leaves(j)'
    <3>1. CASE j = None
      BY <1>1, <2>1, <3>1, DiskBringsNext DEF Sound, Leaves
    <3>2. CASE j = jrn
      BY <1>1, <2>1, <2>2, <3>2, StableBrings DEF Leaves
    <3> QED
      BY <2>1, <3>1, <3>2
  <2>4. Certified' /\ Synced'
    BY <1>1, <2>1 DEF Certified, Synced
  <2>5. ZeroPast(stable)' /\ Whole(previous)'
    BY <2>1 DEF IInv, PInv, ZeroPast, Whole
  <2> QED
    BY <2>3, <2>4, <2>5 DEF PInv, Sound
<1>3. CASE FinishDir
  <2>1. /\ pc = "fdir" /\ jrn = None /\ ~live.on /\ pc' \in {"idle", "hsync", "header"}
        /\ UNCHANGED <<disk, stable, jrn, committed, mode, copied, live>>
        /\ jrnAfter' = {jrn} /\ previous' = committed
    BY <1>3 DEF FinishDir, Return, PInv, Synced, IInv, Ended
  <2>2. Certified' /\ Synced'
    BY <1>1, <2>1 DEF Certified, Synced
  <2> QED
    BY <1>1, <2>1, <2>2, JournalSynced
<1>4. CASE Header
  <2>1. /\ pc = "header" /\ pc' = "hsync" /\ mode = "io" /\ jrn = None /\ ~live.on
        /\ UNCHANGED <<stable, jrn, jrnAfter, committed, previous, mode, copied, live>>
    BY <1>4 DEF Header, IInv, Ended
  <2>2. disk = committed /\ disk' = committed
    BY <2>1 DEF IInv, Covered, Written
  <2>3. Certified' /\ Synced'
    BY <1>1, <2>1, <2>2 DEF PInv, Certified, Synced
  <2> QED
    BY <2>1, <2>2, <2>3, FilesAlone
<1> QED
  BY <1>2, <1>3, <1>4

(* The power is lost.                                                      *)
LEMMA ClosedKeeps ==
  ASSUME TypeInv', Forget, Whole(committed'), ZeroPast(disk'), ZeroPast(logical'),
         Brings(disk', jrn', committed')
  PROVE  IInv'
<1>1. /\ mode' = "closed" /\ ~copied' /\ dirty' = NoPages /\ undo' = NoPages /\ ~inTx'
      /\ ~live'.on /\ pc' = "idle" /\ fl'.dirty = NoPages
  BY DEF Forget, NotLive, NoFlush
<1>2. JournalIsOld' /\ Covered'
  BY DEF Brings, JournalIsOld, Covered, Written
<1>3. LiveIsJournal' /\ BetweenVerbs' /\ Recovering' /\ InFlush' /\ JournalFirst' /\ Ended'
  BY <1>1, NoneOf DEF LiveIsJournal, BetweenVerbs, Undoable, Recovering, InFlush, Appending, Ending,
              JournalFirst, Ended
<1>4. ClosedMode' /\ InputMode' /\ IoMode' /\ Lengths'
  BY <1>1 DEF ClosedMode, AtRest, InputMode, IoMode, Lengths
<1>5. ZeroPast(disk)' /\ Whole(committed)' /\ ZeroPast(logical)'
  BY DEF ZeroPast, Whole
<1> QED
  BY <1>2, <1>3, <1>4, <1>5 DEF IInv

LEMMA PowerLossKeeps ==
  ASSUME IInv, TypeInv', PInv, PowerLoss
  PROVE  IInv' /\ PInv'
<1> USE DEF memory, ghosts
<1>1. PICK d \in Surviving(stable, disk), j \in jrnAfter :
        /\ disk' = d /\ stable' = d /\ jrn' = j /\ jrnAfter' = {j}
        /\ committed' = IF Recovered(d, j) = previous THEN previous ELSE committed
  BY DEF PowerLoss
<1>2. /\ logical' = committed' /\ previous' = committed' /\ Forget
  BY DEF PowerLoss, Crash
<1>3. PICK c \in {committed, previous} :
        c \in Container /\ Whole(c) /\ Brings(d, j, c) /\ Recovered(d, j) = c
  BY EitherCommit
<1>4. d \in Container /\ ZeroPast(d) /\ Sound(j)
  BY EitherCommit DEF PInv
<1>5. committed' = c
  BY <1>1, <1>3
<1>6. IInv'
  BY <1>1, <1>2, <1>3, <1>4, <1>5, ClosedKeeps DEF Whole
<1>7. ~live'.on /\ pc' = "idle"
  BY <1>2 DEF Forget, NotLive
<1>8. Certified' /\ Synced'
  BY <1>1, <1>7 DEF Certified, Synced
<1>9. \A k \in jrnAfter' : Sound(k) /\ Leaves(k)'
  BY <1>1, <1>3, <1>4, <1>5 DEF Leaves
<1>10. Whole(previous)' /\ ZeroPast(stable)'
  BY <1>1, <1>2, <1>3, <1>4, <1>5 DEF Whole, ZeroPast
<1> QED
  BY <1>6, <1>8, <1>9, <1>10 DEF PInv, Sound

LEMMA PowerNext ==
  ASSUME NoDiskErrors, IInv, PInv, [Next]_vars
  PROVE  IInv' /\ PInv'
<1>1. TypeInv'
  BY TypeNext DEF IInv
<1>2. CASE PowerLoss
  BY <1>1, <1>2, PowerLossKeeps
<1>3. CASE ~PowerLoss
  <2>1. IInv'
    BY <1>3, RecoveryStep
  <2>2. CASE Calls \/ Kill
    BY <2>1, <2>2, QuietKeeps, RemovingKeeps DEF Calls
  <2>3. CASE Recovery
    BY <2>1, <2>3, RestoringKeeps, CuttingKeeps, SyncingKeeps, RemovingKeeps DEF Recovery
  <2>4. CASE Flush
    <3>1. ~LastSyncFails
      BY DEF LastSyncFails, IoError, NoDiskErrors
    <3>2. ASSUME NEW p \in Pages, JournalRecord(p) \/ WritePage(p)
          PROVE  PInv'
      BY <2>1, <3>2, BuildingKeeps, WritingKeeps
    <3>3. CASE Spill \/ FlushFails \/ HeaderFails
      BY <2>1, <3>3, QuietKeeps
    <3>4. CASE JournalOpen \/ JournalHead \/ JournalSync \/ JournalCertify \/ CertifySync
      BY <2>1, <3>4, BuildingKeeps, CertifyingKeeps
    <3>5. CASE PagesSync \/ HeaderSync \/ JournalFinish \/ FinishDir \/ Header
      BY <2>1, <3>5, SyncingKeeps, CommittingKeeps
    <3> QED
      BY <2>1, <2>4, <3>1, <3>2, <3>3, <3>4, <3>5 DEF Flush
  <2>5. CASE UNCHANGED vars
    BY <2>1, <2>5, FilesAlone
    DEF vars, files, memory, ghosts, PInv, Certified, Holds, Readable, Synced, Written
  <2> QED
    BY <1>3, <2>1, <2>2, <2>3, <2>4, <2>5 DEF Next
<1> QED
  BY <1>2, <1>3
-----------------------------------------------------------------------------
(* Whatever instant the power is lost at, and whichever of the page writes *)
(* and of the journals it leaves, recovery makes of them the content of    *)
(* the last commit or of the one before: the images reach the disk before  *)
(* the pages, and the pages before the journal goes (tx_flush,             *)
(* journal_recover_v2).                                                    *)
THEOREM OutcomesAreCommits ==
  ASSUME NoDiskErrors
  PROVE  Spec => []AtomicOutcomes
<1>1. IInv /\ PInv => AtomicOutcomes
  <2> SUFFICES ASSUME IInv, PInv, NEW o \in Outcomes
               PROVE  Recovered(o[1], o[2]) \in {committed, previous}
    BY DEF AtomicOutcomes
  <2>1. CASE o = <<disk, jrn>>
    BY <2>1, RecoveredIsCommitted
  <2>2. CASE o \in Surviving(stable, disk) \X jrnAfter
    BY <2>2, EitherCommit
  <2> QED
    BY <2>1, <2>2 DEF Outcomes
<1>2. IInv /\ PInv /\ [Next]_vars => (IInv /\ PInv)'
  BY PowerNext
<1> QED
  BY <1>1, <1>2, RecoveryInit, PowerInit, PTL DEF Spec

(* No kill and no power loss leaves a journal that an OPEN refuses: the    *)
(* certificate follows the images it counts, and the slot that is torn is  *)
(* never the only one (journal_certify, journal_recover_v2).               *)
THEOREM JournalsAreAccepted ==
  ASSUME NoDiskErrors
  PROVE  Spec => []NeverRefused
<1>1. IInv /\ PInv => NeverRefused
  <2> SUFFICES ASSUME IInv, PInv, NEW o \in Outcomes
               PROVE  ~Refused(o[2])
    BY DEF NeverRefused
  <2>1. o[2] \in jrnAfter
    BY DEF Outcomes, PInv, Synced
  <2> QED
    BY <2>1, SoundAccepted DEF IInv, PInv, TypeInv, TypeOK
<1>2. IInv /\ PInv /\ [Next]_vars => (IInv /\ PInv)'
  BY PowerNext
<1> QED
  BY <1>1, <1>2, RecoveryInit, PowerInit, PTL DEF Spec

(* The files recover to the last commit point at every instant as the      *)
(* operating system shows them, through power losses too.                  *)
THEOREM FilesRecover ==
  ASSUME NoDiskErrors
  PROVE  Spec => []KillRecovers
<1>1. IInv => KillRecovers
  BY RecoveredIsCommitted DEF KillRecovers
<1>2. IInv /\ PInv /\ [Next]_vars => (IInv /\ PInv)'
  BY PowerNext
<1> QED
  BY <1>1, <1>2, RecoveryInit, PowerInit, PTL DEF Spec

(* The program reads what its verbs built, from the write set, from behind *)
(* the journal or from the container (read_page).                          *)
THEOREM ProgramReadsItsWrites ==
  ASSUME NoDiskErrors
  PROVE  Spec => []ReadsOwnWrites
<1>1. IInv => ReadsOwnWrites
  BY DEF IInv, IoMode, ReadsOwnWrites
<1>2. IInv /\ PInv /\ [Next]_vars => (IInv /\ PInv)'
  BY PowerNext
<1> QED
  BY <1>1, <1>2, RecoveryInit, PowerInit, PTL DEF Spec

(* The commit of a transaction that spilled survives any crash once it     *)
(* returned: journal_finish synced the directory its journal was in.       *)
THEOREM LongCommitsStay ==
  ASSUME NoDiskErrors
  PROVE  Spec => LongCommitDurable
<1>1. IInv /\ PInv /\ IInv' /\ [Next]_vars
      => [pc = "fdir" /\ faults' = faults
          => \A o \in Outcomes' : Recovered(o[1], o[2]) = committed']_vars
  <2> SUFFICES ASSUME IInv, PInv, IInv', Next, pc = "fdir", faults' = faults,
                      NEW o \in Outcomes'
               PROVE  Recovered(o[1], o[2]) = committed'
    OBVIOUS
  <2>1. disk = stable /\ jrn = None /\ mode = "io"
    BY Waits DEF PInv, Synced, Ending
  <2>2. disk = committed /\ disk \in Container /\ ZeroPast(disk)
    BY <2>1 DEF IInv, Covered, Written, TypeInv, TypeOK
  <2>3. ~Fault /\ ~Kill /\ ~PowerLoss
    BY DEF Fault, Kill, PowerLoss, Crash, IInv, TypeInv, TypeOK
  <2>4. ~Calls
    BY <2>1 DEF Calls, OpenInput, OpenIo, CanOpen, Verb, Rejected, Commit, Close, CloseInput
  <2>5. ~Recovery
    BY DEF Recovery, RestorePage, CutContainer, RecoverSync, RecoverRemove, RecoverDone
  <2>6. FinishDir
    BY <2>3, <2>4, <2>5
    DEF Next, Flush, Spill, JournalOpen, JournalHead, JournalRecord, WritePage, JournalSync,
        JournalCertify, CertifySync, PagesSync, JournalFinish, Header, HeaderSync, FlushFails,
        HeaderFails, LastSyncFails
  <2>7. /\ disk' = disk /\ stable' = disk /\ jrn' = None /\ jrnAfter' = {None} /\ committed' = disk
    BY <2>1, <2>2, <2>6 DEF FinishDir
  <2>8. o = <<disk, None>> \/ o \in Surviving(disk, disk) \X {None}
    BY <2>7 DEF Outcomes
  <2>9. o[1] = disk /\ o[2] = None
    BY <2>2, <2>8, NothingLost
  <2> QED
    BY <2>7, <2>9 DEF Recovered
<1>2. IInv /\ PInv /\ [Next]_vars => IInv' /\ PInv'
  BY PowerNext
<1> QED
  BY <1>1, <1>2, RecoveryInit, PowerInit, PTL DEF Spec, LongCommitDurable

(* OPEN INPUT reads the content of the last commit, although it leaves a   *)
(* journal on the user's file alone: it reads a copy it has recovered      *)
(* (DiskIndexedFile::open, journal_recover_v2).                            *)
THEOREM InputsReadCommits ==
  ASSUME NoDiskErrors
  PROVE  Spec => []InputReadsCommitted
<1>1. Init => InputReadsCommitted
  BY DEF Init, InputReadsCommitted
<1>2. IInv /\ PInv /\ InputReadsCommitted /\ [Next]_vars => InputReadsCommitted'
  <2> SUFFICES ASSUME IInv, PInv, InputReadsCommitted, [Next]_vars, mode' = "input"
               PROVE  hdr' = committed'.page[0]
    BY DEF InputReadsCommitted
  <2> USE DEF files, memory, ghosts
  <2>1. CASE OpenInput
    BY <2>1, RecoveredIsCommitted DEF OpenInput, Opened
  <2>2. CASE mode = "input" /\ UNCHANGED <<hdr, committed>>
    BY <2>2 DEF InputReadsCommitted
  <2>3. mode = "input" \/ OpenInput
    BY DEF Next, vars, Calls, OpenIo, Verb, Rejected, Commit, Close, CloseInput, Forget, Opened,
           Recovery, RestorePage, CutContainer, RecoverSync, RecoverRemove, RecoverDone,
           Flush, Spill, JournalOpen, JournalHead, JournalRecord, WritePage, JournalSync,
           JournalCertify, CertifySync, PagesSync, JournalFinish, FinishDir, Header, HeaderSync,
           LastSync, FlushFails, HeaderFails, LastSyncFails, Kill, PowerLoss, Crash
  <2>4. CASE mode = "input" /\ ~OpenInput
    <3>1. pc # "finish" /\ ~JournalFinish /\ ~OpenIo /\ ~RecoverDone
          /\ (\A S, n : ~Verb(S, n)) /\ ~PowerLoss /\ ~Kill
      BY <2>4 DEF IInv, TypeInv, JournalThere, Ended, JournalFinish, OpenIo, CanOpen, RecoverDone,
                  Verb, PowerLoss, Kill, Crash, Forget
    <3>2. UNCHANGED <<hdr, committed>>
      BY <2>4, <3>1
      DEF Next, vars, Calls, Rejected, Commit, Close, CloseInput, Forget,
          Recovery, RestorePage, CutContainer, RecoverSync, RecoverRemove,
          Flush, Spill, JournalOpen, JournalHead, JournalRecord, WritePage, JournalSync,
          JournalCertify, CertifySync, PagesSync, FinishDir, Header, HeaderSync,
          LastSync, FlushFails, HeaderFails, LastSyncFails
    <3> QED
      BY <2>2, <2>4, <3>2
  <2> QED
    BY <2>1, <2>3, <2>4
<1>3. IInv /\ PInv /\ [Next]_vars => IInv' /\ PInv'
  BY PowerNext
<1> QED
  BY <1>1, <1>2, <1>3, RecoveryInit, PowerInit, PTL DEF Spec
-----------------------------------------------------------------------------
(* I/O errors: what a session that met none has in memory and on disk, and *)
(* that one which met an error remembers it until its CLOSE.               *)

Settling ==
  /\ copied => mode = "input"
  /\ mode = "closed" => /\ AtRest /\ ~live.on /\ fl.dirty = NoPages
                        /\ ~ioFailed /\ ~fl.bad
                        /\ pc = "rdir" => jrn = None

(* The locals of tx_flush; a spill ends with a journal that stays.         *)
Flushing ==
  /\ fl.bad => pc \in {"header", "hsync"}
  /\ fl.spill => fl.after = "verb" /\ fl.long
  /\ pc \in {"jcert", "jcertsync", "page"} /\ fl.long => live.on
  /\ pc \in Ending => fl.dirty = NoPages

(* The program's content is the container's under the two write sets, and  *)
(* the container's alone once the journal is gone.                         *)
Faithful ==
  mode = "io" /\ ~ioFailed /\ ~fl.bad =>
    /\ View = logical.page
    /\ fl.dirty[0] # None => fl.dirty[0] = hdr
    /\ disk.page[0] = hdr \/ fl.dirty[0] # None \/ inTx
    /\ ~inTx => AtRest
    /\ pc \in Appending \cup Ending => ~inTx
    /\ pc \in {"idle", "spill"} => fl.dirty = NoPages /\ (~live.on => jrn = None)
    /\ pc \in {"fdir", "header", "hsync"} => ~live.on /\ jrn = None

HInv == TypeInv /\ Settling /\ Flushing /\ Faithful

(* View, page by page.                                                     *)
LEMMA ViewPages ==
  /\ View \in [Pages -> {View[p] : p \in Pages}]
  /\ \A p \in Pages : View[p] = IF p = 0 THEN hdr
                                ELSE IF fl.dirty[p] # None THEN fl.dirty[p]
                                ELSE IF dirty[p] # None THEN dirty[p] ELSE disk.page[p]
BY DEF View

LEMMA SameView ==
  ASSUME hdr' = hdr,
         \A p \in Pages \ {0} :
           (IF fl'.dirty[p] # None THEN fl'.dirty[p]
            ELSE IF dirty'[p] # None THEN dirty'[p] ELSE disk'.page[p]) = View[p]
  PROVE  View' = View
<1>1. \A p \in Pages : View[p] = IF p = 0 THEN hdr ELSE View[p]
  BY ViewPages
<1>2. View' = [p \in Pages |-> View[p]]
  BY <1>1 DEF View
<1>3. View = [p \in Pages |-> View[p]]
  BY DEF View
<1> QED
  BY <1>2, <1>3

LEMMA HonestInit == Init => HInv
<1> SUFFICES ASSUME Init PROVE HInv
  OBVIOUS
<1>1. TypeInv
  BY TypeInit DEF Init, NotLive, TypeInv, JournalThere
<1> QED
  BY <1>1 DEF Init, NotLive, NoFlush, HInv, Settling, AtRest, Flushing, Appending, Ending, Faithful

(* A handle that is gone leaves nothing in memory.                         *)
LEMMA GoneIsSettled ==
  ASSUME TypeInv', Forget
  PROVE  HInv'
<1>1. /\ mode' = "closed" /\ dirty' = NoPages /\ undo' = NoPages /\ ~inTx' /\ ~live'.on
      /\ ~ioFailed' /\ pc' = "idle" /\ fl'.dirty = NoPages /\ ~fl'.bad /\ ~fl'.spill /\ ~copied'
  BY DEF Forget, NotLive, NoFlush
<1> QED
  BY <1>1 DEF HInv, Settling, AtRest, Flushing, Appending, Ending, Faithful

(* OPEN, the recovery it may need, and the end of an OPEN INPUT.           *)
LEMMA OpeningIsFaithful ==
  ASSUME HInv, TypeInv', OpenInput \/ OpenIo \/ CloseInput \/ Recovery
  PROVE  HInv'
<1> USE DEF memory, ghosts, files
<1>1. CASE CloseInput
  BY <1>1, GoneIsSettled DEF CloseInput
<1>2. CASE OpenInput \/ (OpenIo /\ pc' = "idle") \/ RecoverDone
  <2>1. mode = "closed" /\ mode' \in {"io", "input"} /\ pc' = "idle" /\ fl' = NoFlush
        /\ UNCHANGED <<dirty, undo, inTx, live, ioFailed>>
    BY <1>2 DEF OpenInput, OpenIo, RecoverDone, CanOpen, Opened, HInv, TypeInv, JournalThere
  <2>2. AtRest' /\ ~live'.on /\ ~ioFailed' /\ fl'.dirty = NoPages /\ ~fl'.bad
    BY <2>1 DEF HInv, Settling, AtRest, NoFlush
  <2>3. mode' = "io" => jrn' = None /\ hdr' = disk'.page[0] /\ logical' = disk'
    <3>1. pc = "rdir" => jrn = None
      BY <2>1 DEF HInv, Settling
    <3> QED
      BY <1>2, <3>1 DEF OpenInput, OpenIo, RecoverDone, Opened
  <2>4. mode' = "io" => View' = logical'.page
    <3> SUFFICES ASSUME mode' = "io" PROVE View' = logical'.page
      OBVIOUS
    <3>1. View' = [p \in Pages |-> disk'.page[p]]
      BY <2>2, <2>3, NoneOf DEF View, AtRest
    <3> QED
      BY <2>3, <3>1 DEF TypeInv, TypeOK, Container
  <2>5. fl'.dirty[0] = None
    BY <2>2, NoneOf, PagesAssumption DEF Pages
  <2>6. Settling' /\ Flushing'
    <3>1. copied' => mode' = "input"
      BY <1>2, <2>1 DEF OpenInput, OpenIo, RecoverDone, Opened, HInv, Settling
    <3> QED
      BY <2>1, <2>2, <3>1 DEF Settling, Flushing, Appending, Ending, NoFlush
  <2>7. Faithful'
    BY <2>1, <2>2, <2>3, <2>4, <2>5 DEF Faithful, AtRest
  <2> QED
    BY <2>6, <2>7 DEF HInv
<1>3. CASE (OpenIo /\ pc' # "idle") \/ RestorePage \/ CutContainer \/ RecoverSync \/ RecoverRemove
  <2>1. /\ mode = "closed" /\ mode' = "closed" /\ pc' \notin Appending \cup Ending
        /\ UNCHANGED <<dirty, undo, inTx, live, ioFailed>>
        /\ fl'.dirty = fl.dirty /\ fl'.bad = fl.bad /\ fl'.spill = fl.spill
        /\ fl'.after = fl.after /\ fl'.long = fl.long
        /\ UNCHANGED copied /\ pc' \notin {"header", "hsync", "jcert", "jcertsync", "page"}
        /\ (pc' = "rdir" => jrn' = None)
    BY <1>3 DEF OpenIo, CanOpen, Opened, RestorePage, CutContainer, RecoverSync, RecoverRemove,
                HInv, TypeInv, TypeOK, JournalThere, FlushLocals, Appending, Ending
  <2> QED
    <3>1. ~fl.bad /\ ~copied
      BY <2>1 DEF HInv, Settling, Flushing
    <3> QED
      BY <2>1, <3>1 DEF HInv, Settling, AtRest, Flushing, Faithful
<1> QED
  BY <1>1, <1>2, <1>3 DEF Recovery

(* A verb that succeeds shows in the write set alone.                      *)
LEMMA VerbIsFaithful ==
  ASSUME HInv, TypeInv', NEW S \in SUBSET (Pages \ {0}), NEW n \in 1 .. MaxPages, Verb(S, n)
  PROVE  HInv'
<1> USE NoneOf DEF files
<1>1. /\ mode = "io" /\ mode' = "io" /\ pc = "idle" /\ pc' \in {"spill", "idle"} /\ inTx'
      /\ ~ioFailed /\ UNCHANGED <<disk, jrn, live, fl, ioFailed, copied>>
  BY DEF Verb
<1>2. \A p \in Pages : dirty'[p] = IF p \in S THEN Data(hdr'.tag) ELSE dirty[p]
  BY DEF Verb
<1>3. Data(hdr'.tag) # None
  <2>1. hdr'.tag \in 0 .. MaxTag
    BY DEF TypeInv, TypeOK, Image
  <2> QED
    BY <2>1, PagesAssumption, NoneAssumption DEF Data, Image
<1>4. Settling' /\ Flushing'
  BY <1>1 DEF HInv, Settling, Flushing, Appending, Ending
<1>5. ASSUME ~fl.bad
      PROVE  View' = logical'.page
  <2>1. fl.dirty = NoPages /\ View = logical.page
    BY <1>1, <1>5 DEF HInv, Faithful
  <2>2. \A p \in Pages : View'[p] = logical'.page[p]
    <3> TAKE p \in Pages
    <3>1. CASE p = 0
      BY <3>1 DEF View, Verb
    <3>2. CASE p # 0 /\ p \in S
      BY <1>1, <1>2, <1>3, <2>1, <3>2 DEF View, Verb
    <3>3. CASE p # 0 /\ p \notin S
      <4>1. View[p] = logical.page[p]
        BY <2>1
      <4> QED
        BY <1>1, <1>2, <2>1, <3>3, <4>1 DEF View, Verb
    <3> QED
      BY <3>1, <3>2, <3>3
  <2>3. View' = [p \in Pages |-> View'[p]]
    BY DEF View
  <2>4. logical'.page = [p \in Pages |-> logical'.page[p]]
    BY DEF TypeInv, TypeOK, Container
  <2> QED
    BY <2>2, <2>3, <2>4
<1>6. ~fl.bad => fl'.dirty[0] = None
  BY <1>1, PagesAssumption DEF Pages, HInv, Faithful
<1>7. Faithful'
  BY <1>1, <1>5, <1>6 DEF HInv, Faithful, Appending, Ending
<1> QED
  BY <1>4, <1>7 DEF HInv

(* How tx_flush returns.                                                   *)
LEMMA ReturnsWell ==
  ASSUME ioFailed \in BOOLEAN, NEW after, Return(after, TRUE)
  PROVE  /\ ioFailed' = ioFailed /\ pc' \in {"idle", "header"}
         /\ fl'.dirty = NoPages /\ ~fl'.spill /\ ~fl'.bad
<1>1. fl' = IF after = "verb" THEN NoFlush ELSE [NoFlush EXCEPT !.after = after, !.bad = ~TRUE]
  BY Zenon DEF Return
<1>2. fl'.dirty = NoPages /\ ~fl'.spill /\ ~fl'.bad
  BY <1>1 DEF NoFlush
<1>3. ioFailed' = ioFailed
  <2>1. ioFailed' = (ioFailed \/ (~TRUE /\ after # "close"))
    BY DEF Return
  <2> QED
    BY <2>1
<1> QED
  BY <1>2, <1>3 DEF Return

LEMMA ReturnsError ==
  ASSUME NEW after, Return(after, FALSE)
  PROVE  /\ ioFailed' \/ fl'.bad
         /\ pc' \in {"idle", "header", "hsync"}
         /\ fl'.dirty = NoPages /\ ~fl'.spill
         /\ fl'.bad => pc' \in {"header", "hsync"}
<1>1. CASE after = "verb"
  <2>1. /\ ioFailed' = (ioFailed \/ (~FALSE /\ after # "close"))
        /\ fl' = NoFlush /\ pc' = "idle"
    BY <1>1, Zenon DEF Return
  <2> QED
    BY <1>1, <2>1 DEF NoFlush
<1>2. CASE after # "verb"
  <2>1. fl' = [NoFlush EXCEPT !.after = after, !.bad = ~FALSE] /\ pc' \in {"header", "hsync"}
    BY <1>2 DEF Return
  <2>2. fl'.dirty = NoPages /\ ~fl'.spill /\ fl'.bad
    BY <2>1 DEF NoFlush
  <2> QED
    BY <2>1, <2>2
<1> QED
  BY <1>1, <1>2

(* What tx_flush takes over is in its own write set.                       *)
LEMMA StartIsFaithful ==
  ASSUME HInv, TypeInv', NEW spill \in BOOLEAN, NEW after \in {"verb", "persist", "close"},
         spill => after = "verb",
         mode # "closed", pc \in {"idle", "spill"}, TxFlush(spill, after),
         UNCHANGED <<files, mode, copied, hdr, live, logical>>
  PROVE  HInv'
<1> USE NoneOf DEF files
<1>0. 0 \in Pages /\ hdr \in Image /\ hdr # None /\ ~fl.bad
  BY PagesAssumption, NoneAssumption DEF Pages, HInv, TypeInv, TypeOK, Flushing
<1>1. CASE ~inTx /\ ~live.on
  <2>0. Return(after, TRUE) /\ UNCHANGED <<dirty, undo, inTx>> /\ ioFailed \in BOOLEAN
    BY <1>1 DEF TxFlush, HInv, TypeInv, TypeOK
  <2>1. UNCHANGED <<dirty, undo, inTx, ioFailed>> /\ ~fl'.bad
    BY <2>0, ReturnsWell
  <2>2. /\ fl'.dirty = NoPages /\ ~fl'.spill /\ pc' \in {"idle", "header"}
    BY <2>0, ReturnsWell
  <2>3. Settling' /\ Flushing'
    BY <2>1, <2>2 DEF Settling, Flushing, Ending, HInv
  <2>4. ASSUME mode = "io", ~ioFailed
        PROVE  View' = View
    <3>1. fl.dirty = NoPages
      BY <1>0, <2>4 DEF HInv, Faithful
    <3> QED
      BY <2>1, <2>2, <3>1 DEF View
  <2>5. Faithful'
    BY <1>0, <1>1, <2>1, <2>2, <2>4 DEF HInv, Faithful, AtRest
  <2> QED
    BY <2>3, <2>5 DEF HInv
<1>2. CASE ~(~inTx /\ ~live.on)
  <2> DEFINE d == IF inTx THEN [dirty EXCEPT ![0] = hdr] ELSE dirty
             u == IF inTx /\ NeedsUndoImage(0) THEN [undo EXCEPT ![0] = disk.page[0]] ELSE undo
  <2>1. /\ dirty' = NoPages /\ undo' = NoPages /\ inTx' = FALSE /\ ioFailed' = ioFailed
        /\ fl'.dirty = d /\ ~fl'.bad /\ fl'.spill = spill /\ fl'.after = after
        /\ fl'.long = (live.on \/ spill)
        /\ pc' = CASE In(d) = {} -> "finish"
                   [] In(d) # {} /\ ~live.on -> "jopen"
                   [] In(d) # {} /\ live.on /\ In(u) # {} -> "jrecs"
                   [] OTHER -> "page"
    BY <1>2 DEF TxFlush, NoFlush
  <2>2. d \in WriteSet /\ (~inTx => d = dirty) /\ (inTx => d[0] = hdr)
        /\ (\A p \in Pages \ {0} : d[p] = dirty[p])
    BY <1>0 DEF HInv, TypeInv, TypeOK, WriteSet
  <2> HIDE DEF d, u
  <2>3. /\ pc' \in {"finish", "jopen", "jrecs", "page"}
        /\ pc' = "finish" => In(d) = {}
        /\ pc' = "page" => live.on
    BY <2>1
  <2>4. pc' = "finish" => fl'.dirty = NoPages
    BY <2>1, <2>2, <2>3 DEF In, NoPages, WriteSet
  <2>5. Settling' /\ Flushing'
    BY <2>1, <2>3, <2>4 DEF Settling, Flushing, Ending, HInv
  <2>6. ASSUME mode = "io", ~ioFailed
        PROVE  View' = View
    <3>1. fl.dirty = NoPages
      BY <1>0, <2>6 DEF HInv, Faithful
    <3>2. \A p \in Pages \ {0} : (IF fl'.dirty[p] # None THEN fl'.dirty[p]
            ELSE IF dirty'[p] # None THEN dirty'[p] ELSE disk'.page[p]) = View[p]
      BY <2>1, <2>2, <3>1 DEF View
    <3> QED
      BY <3>2, SameView
  <2>7. ASSUME mode = "io", ~ioFailed
        PROVE  (fl'.dirty[0] # None => fl'.dirty[0] = hdr) /\ (disk.page[0] = hdr \/ fl'.dirty[0] # None)
    <3>1. fl.dirty[0] = None /\ (~inTx => dirty[0] = None) /\ (disk.page[0] = hdr \/ inTx)
      BY <1>0, <2>7 DEF HInv, Faithful, AtRest
    <3> QED
      BY <1>0, <2>1, <2>2, <3>1
  <2>8. Faithful'
    BY <1>0, <2>1, <2>3, <2>6, <2>7 DEF HInv, Faithful, AtRest
  <2> QED
    BY <2>5, <2>8 DEF HInv
<1> QED
  BY <1>1, <1>2

LEMMA FlushStartIsFaithful ==
  ASSUME HInv, TypeInv', Spill \/ Commit \/ Close \/ Rejected
  PROVE  HInv'
<1> USE DEF files
<1>1. CASE Spill
  <2>1. mode # "closed"
    BY <1>1 DEF Spill, HInv, TypeInv, JournalThere
  <2> QED
    BY <1>1, <2>1, StartIsFaithful DEF Spill, ghosts
<1>2. CASE Commit /\ ~copied
  BY <1>2, StartIsFaithful DEF Commit, ghosts
<1>3. CASE Close
  BY <1>3, StartIsFaithful DEF Close, ghosts
<1>4. CASE Rejected \/ (Commit /\ copied)
  <2>1. /\ UNCHANGED <<disk, jrn, mode, copied, hdr, dirty, undo, live, ioFailed, pc, fl, logical>>
        /\ mode # "closed" /\ pc = "idle" /\ (mode = "io" => inTx')
    BY <1>4 DEF Rejected, Commit, HInv, Settling, ghosts
  <2>2. View' = View
    BY <2>1 DEF View
  <2>3. Settling' /\ Flushing'
    BY <2>1 DEF HInv, Settling, Flushing
  <2>4. Faithful'
    BY <2>1, <2>2 DEF HInv, Faithful, Appending, Ending
  <2> QED
    BY <2>3, <2>4 DEF HInv
<1> QED
  BY <1>1, <1>2, <1>3, <1>4

(* The steps on the journal touch neither the content nor the container.   *)
LEMMA JournalIsFaithful ==
  ASSUME HInv, TypeInv',
         \/ JournalOpen \/ JournalHead \/ \E p \in Pages : JournalRecord(p)
         \/ JournalSync \/ JournalCertify \/ CertifySync
  PROVE  HInv'
<1> USE DEF files, memory, ghosts
<1>1. /\ UNCHANGED <<disk, mode, copied, hdr, dirty, undo, inTx, ioFailed, logical>>
      /\ mode # "closed" /\ pc \in Appending /\ pc # "page"
      /\ fl'.dirty = fl.dirty /\ fl'.bad = fl.bad /\ fl'.spill = fl.spill
      /\ fl'.after = fl.after /\ fl'.long = fl.long
  BY DEF JournalOpen, JournalHead, JournalRecord, JournalSync, JournalCertify, CertifySync,
         Appending, HInv, TypeInv, TypeOK, JournalThere, FlushLocals
<1>2. /\ pc' \in {"jhead", "jrecs", "jcert", "jcertsync", "page"}
      /\ pc' \in {"jcert", "jcertsync", "page"} /\ fl'.long => live'.on
  <2>1. CASE JournalOpen \/ JournalHead \/ \E p \in Pages : JournalRecord(p)
    BY <2>1 DEF JournalOpen, JournalHead, JournalRecord
  <2>2. CASE JournalSync
    BY <2>2 DEF JournalSync
  <2>3. CASE JournalCertify \/ CertifySync
    <3>1. live'.on = live.on
      BY <2>3 DEF JournalCertify, CertifySync, HInv, TypeInv, TypeOK, LiveFields
    <3> QED
      BY <1>1, <2>3, <3>1 DEF JournalCertify, CertifySync, HInv, Flushing
  <2> QED
    BY <2>1, <2>2, <2>3
<1>3. View' = View
  BY <1>1 DEF View
<1>4. Settling' /\ Flushing'
  BY <1>1, <1>2 DEF HInv, Settling, Flushing, Appending, Ending
<1>5. Faithful'
  BY <1>1, <1>2, <1>3 DEF HInv, Faithful, Appending, Ending, AtRest
<1> QED
  BY <1>4, <1>5 DEF HInv

(* A page is where the program reads it before and after it is written.    *)
LEMMA PageIsFaithful ==
  ASSUME HInv, TypeInv', NEW p \in Pages, WritePage(p)
  PROVE  HInv'
<1> USE NoneOf DEF files, memory, ghosts
<1>1. /\ UNCHANGED <<jrn, mode, copied, hdr, dirty, undo, inTx, live, ioFailed, pc, logical>>
      /\ mode = "io" /\ pc = "page" /\ fl.dirty[p] # None
      /\ fl'.bad = fl.bad /\ fl'.spill = fl.spill /\ fl'.after = fl.after /\ fl'.long = fl.long
  BY DEF WritePage, NextPage, HInv, TypeInv, TypeOK, FlushLocals
<1>2. \A q \in Pages : /\ fl'.dirty[q] = IF q = p THEN None ELSE fl.dirty[q]
                       /\ disk'.page[q] = IF q = p THEN fl.dirty[p] ELSE disk.page[q]
  BY DEF WritePage, Put, HInv, TypeInv, TypeOK, FlushLocals, WriteSet, Container
<1>3. Settling' /\ Flushing'
  BY <1>1 DEF HInv, Settling, Flushing, Ending
<1>4. ASSUME ~ioFailed, ~fl.bad
      PROVE  View' = View
  <2>1. dirty = NoPages
    BY <1>1, <1>4 DEF HInv, Faithful, AtRest, Appending
  <2>2. \A q \in Pages \ {0} : (IF fl'.dirty[q] # None THEN fl'.dirty[q]
          ELSE IF dirty'[q] # None THEN dirty'[q] ELSE disk'.page[q]) = View[q]
    BY <1>1, <1>2, <2>1 DEF View
  <2> QED
    BY <1>1, <2>2, SameView
<1>5. Faithful'
  <2>1. 0 \in Pages
    BY PagesAssumption DEF Pages
  <2> QED
    BY <1>1, <1>2, <1>4, <2>1 DEF HInv, Faithful, AtRest
<1> QED
  BY <1>3, <1>5 DEF HInv

(* tx_flush returns, and the header is published.                          *)
LEMMA EndIsFaithful ==
  ASSUME HInv, TypeInv', PagesSync \/ JournalFinish \/ FinishDir \/ Header
  PROVE  HInv'
<1> USE NoneOf DEF files, memory, ghosts
<1>0. 0 \in Pages /\ ioFailed \in BOOLEAN /\ mode # "closed"
  <2>1. pc \in {"page", "finish", "fdir", "header"}
    BY DEF PagesSync, JournalFinish, FinishDir, Header
  <2> QED
    BY <2>1, PagesAssumption DEF Pages, HInv, TypeInv, TypeOK, JournalThere
<1>1. CASE PagesSync \/ JournalFinish \/ FinishDir
  <2>1. /\ UNCHANGED <<disk, mode, copied, hdr, dirty, undo, inTx, logical>>
        /\ live' = live \/ ~live'.on
        /\ jrn' = jrn \/ jrn' = None
        /\ pc \in {"page", "finish", "fdir"}
    <3>1. CASE PagesSync
      BY <3>1 DEF PagesSync
    <3>2. CASE JournalFinish
      BY <3>2 DEF JournalFinish, NotLive
    <3>3. CASE FinishDir
      BY <3>3 DEF FinishDir
    <3> QED
      BY <1>1, <3>1, <3>2, <3>3
  <2>2. fl.dirty = NoPages
    <3>1. CASE PagesSync
      BY <3>1 DEF PagesSync, In, NoPages, HInv, TypeInv, TypeOK, FlushLocals, WriteSet
    <3>2. CASE JournalFinish \/ FinishDir
      BY <3>2 DEF JournalFinish, FinishDir, HInv, Flushing, Ending
    <3> QED
      BY <1>1, <3>1, <3>2
  <2>3. \/ ioFailed' = ioFailed /\ pc' \in {"idle", "header"}
           /\ fl'.dirty = NoPages /\ ~fl'.spill /\ ~fl'.bad
        \/ UNCHANGED <<ioFailed, fl>> /\ pc' \in {"finish", "fdir"}
    BY <1>0, <1>1, ReturnsWell DEF PagesSync, JournalFinish, FinishDir
  <2>4. ~fl.bad /\ ~fl'.bad /\ ioFailed' = ioFailed /\ fl'.dirty = NoPages
    BY <2>1, <2>2, <2>3 DEF HInv, Flushing
  <2>5. View' = View
    BY <2>1, <2>2, <2>4 DEF View
  <2>6. Settling' /\ Flushing'
    BY <1>0, <2>1, <2>2, <2>3, <2>4 DEF HInv, Settling, Flushing, Ending
  <2>7. /\ pc' \in {"idle", "header", "fdir"} => live'.on \/ jrn' = None \/ mode # "io" \/ ioFailed
        /\ pc' \in {"fdir", "header"} => (~live'.on /\ jrn' = None) \/ mode # "io" \/ ioFailed
    <3>1. CASE PagesSync
      <4>1. fl.spill => live.on /\ live' = live /\ pc' = "idle"
        BY <3>1 DEF PagesSync, Return, HInv, Flushing
      <4>2. ~fl.spill => pc' = "finish"
        BY <3>1 DEF PagesSync
      <4> QED
        BY <4>1, <4>2, <3>1 DEF HInv, TypeInv, TypeOK, FlushLocals
    <3>2. CASE JournalFinish
      BY <3>2 DEF JournalFinish, NotLive
    <3>3. CASE FinishDir
      BY <2>4, <3>3 DEF FinishDir, HInv, Faithful
    <3> QED
      BY <1>1, <3>1, <3>2, <3>3
  <2>8. Faithful'
    BY <1>0, <2>1, <2>2, <2>3, <2>4, <2>5, <2>7 DEF HInv, Faithful, AtRest, Appending, Ending
  <2> QED
    BY <2>6, <2>8 DEF HInv
<1>2. CASE Header
  <2>1. /\ UNCHANGED <<jrn, mode, copied, hdr, dirty, undo, inTx, live, ioFailed, fl, logical>>
        /\ pc = "header" /\ pc' = "hsync" /\ mode = "io" /\ fl.dirty = NoPages
    BY <1>2 DEF Header, HInv, Flushing, Ending
  <2>2. \A q \in Pages : disk'.page[q] = IF q = 0 THEN hdr ELSE disk.page[q]
    BY <1>0, <1>2 DEF Header, Put, HInv, TypeInv, TypeOK, Container
  <2>3. Settling' /\ Flushing'
    BY <2>1 DEF HInv, Settling, Flushing, Ending
  <2>4. View' = View
    <3>1. \A q \in Pages \ {0} : (IF fl'.dirty[q] # None THEN fl'.dirty[q]
            ELSE IF dirty'[q] # None THEN dirty'[q] ELSE disk'.page[q]) = View[q]
      BY <2>1, <2>2 DEF View
    <3> QED
      BY <2>1, <3>1, SameView
  <2>5. Faithful'
    BY <1>0, <2>1, <2>2, <2>4 DEF HInv, Faithful, AtRest, Ending
  <2> QED
    BY <2>3, <2>5 DEF HInv
<1> QED
  BY <1>1, <1>2

(* A failure is remembered; the last fsync ends the call.                  *)
LEMMA FailureIsFaithful ==
  ASSUME HInv, TypeInv', FlushFails \/ HeaderFails \/ HeaderSync \/ LastSyncFails
  PROVE  HInv'
<1> USE NoneOf DEF files, memory, ghosts
<1>0. mode # "closed" /\ ioFailed \in BOOLEAN /\ fl.bad \in BOOLEAN
  BY DEF HInv, TypeInv, TypeOK, FlushLocals, JournalThere, FlushFails, HeaderFails, HeaderSync,
         LastSyncFails
<1>1. CASE FlushFails
  <2>1. /\ UNCHANGED <<mode, copied>> /\ Return(fl.after, FALSE)
    BY <1>1 DEF FlushFails
  <2>2. /\ (ioFailed' \/ fl'.bad) /\ pc' \in {"idle", "header", "hsync"}
        /\ fl'.dirty = NoPages /\ ~fl'.spill /\ (fl'.bad => pc' \in {"header", "hsync"})
    BY <2>1, ReturnsError
  <2> QED
    BY <1>0, <2>1, <2>2 DEF HInv, Settling, Flushing, Faithful
<1>2. CASE HeaderFails
  <2>1. /\ UNCHANGED <<mode, copied, live, ioFailed>> /\ pc = "header" /\ pc' = "hsync"
        /\ fl' = [fl EXCEPT !.bad = TRUE]
    BY <1>2 DEF HeaderFails
  <2>2. fl'.bad /\ fl'.dirty = fl.dirty /\ fl'.spill = fl.spill
        /\ fl'.after = fl.after /\ fl'.long = fl.long
    BY <2>1 DEF HInv, TypeInv, TypeOK, FlushLocals
  <2> QED
    BY <1>0, <2>1, <2>2 DEF HInv, Settling, Flushing, Ending, Faithful
<1>3. CASE (HeaderSync \/ LastSyncFails) /\ fl.after = "close"
  BY <1>3, GoneIsSettled DEF HeaderSync, LastSyncFails, LastSync
<1>4. CASE (HeaderSync \/ LastSyncFails) /\ fl.after # "close"
  <2>1. /\ UNCHANGED <<disk, jrn, mode, copied, hdr, dirty, undo, inTx, live, logical>>
        /\ pc = "hsync" /\ pc' = "idle" /\ fl' = NoFlush
        /\ ~ioFailed' => ~ioFailed /\ ~fl.bad
    BY <1>0, <1>4 DEF HeaderSync, LastSyncFails, LastSync
  <2>2. fl.dirty = NoPages /\ fl'.dirty = NoPages /\ ~fl'.bad /\ ~fl'.spill
    BY <2>1 DEF HInv, Flushing, Ending, NoFlush
  <2>3. View' = View
    BY <2>1, <2>2 DEF View
  <2>4. Settling' /\ Flushing'
    BY <1>0, <2>1, <2>2 DEF HInv, Settling, Flushing, Ending
  <2>5. 0 \in Pages
    BY PagesAssumption DEF Pages
  <2>6. Faithful'
    BY <2>1, <2>2, <2>3, <2>5 DEF HInv, Faithful, AtRest, Appending, Ending
  <2> QED
    BY <2>4, <2>6 DEF HInv
<1> QED
  BY <1>1, <1>2, <1>3, <1>4

LEMMA HonestNext == HInv /\ [Next]_vars => HInv'
<1> SUFFICES ASSUME HInv, [Next]_vars PROVE HInv'
  OBVIOUS
<1>0. TypeInv'
  BY TypeNext DEF HInv
<1>1. CASE UNCHANGED vars
  <2>1. UNCHANGED <<disk, jrn, mode, copied, hdr, dirty, undo, inTx, live, ioFailed, pc, fl, logical>>
    BY <1>1 DEF vars, files, memory, ghosts
  <2> QED
    BY <1>0, <2>1 DEF HInv, Settling, AtRest, Flushing, Faithful, View
<1>2. CASE OpenInput \/ OpenIo \/ CloseInput \/ Recovery
  BY <1>0, <1>2, OpeningIsFaithful
<1>3. CASE \E S \in SUBSET (Pages \ {0}), n \in 1 .. MaxPages : Verb(S, n)
  BY <1>0, <1>3, VerbIsFaithful
<1>4. CASE Spill \/ Commit \/ Close \/ Rejected
  BY <1>0, <1>4, FlushStartIsFaithful
<1>5. CASE JournalOpen \/ JournalHead \/ (\E p \in Pages : JournalRecord(p))
           \/ JournalSync \/ JournalCertify \/ CertifySync
  BY <1>0, <1>5, JournalIsFaithful
<1>6. CASE \E p \in Pages : WritePage(p)
  BY <1>0, <1>6, PageIsFaithful
<1>7. CASE PagesSync \/ JournalFinish \/ FinishDir \/ Header
  BY <1>0, <1>7, EndIsFaithful
<1>8. CASE FlushFails \/ HeaderFails \/ HeaderSync \/ LastSyncFails
  BY <1>0, <1>8, FailureIsFaithful
<1>9. CASE Kill \/ PowerLoss
  BY <1>0, <1>9, GoneIsSettled DEF Kill, PowerLoss, Crash
<1> QED
  BY <1>1, <1>2, <1>3, <1>4, <1>5, <1>6, <1>7, <1>8, <1>9 DEF Next, Calls, Flush

(* HonestClose: a CLOSE that answers 00 leaves in the file exactly what    *)
(* the program's verbs built, whatever failed before it.                   *)
THEOREM ClosesAreHonest == Spec => HonestClose
<1> DEFINE Step == mode = "io" /\ mode' = "closed" /\ faults' = faults /\ closeOk'
                   => Recovered(disk', jrn').page = logical'.page
<1>1. HInv /\ HInv' /\ [Next]_vars => Step
  <2> SUFFICES ASSUME HInv, HInv', Next, mode = "io", mode' = "closed", faults' = faults, closeOk'
               PROVE  Recovered(disk', jrn').page = logical'.page
    BY DEF vars, memory
  <2>1. faults \in Nat
    BY FaultsAssumption DEF HInv, TypeInv, TypeOK
  <2>2. ~Kill /\ ~PowerLoss /\ ~LastSyncFails
    <3>1. ~Fault
      BY <2>1 DEF Fault
    <3> QED
      BY <3>1, Zenon DEF Kill, PowerLoss, LastSyncFails, Crash, IoError
  <2>3. HeaderSync /\ fl.after = "close"
    <3>1. ~Calls
      BY DEF Calls, OpenInput, OpenIo, CanOpen, Verb, Rejected, Commit, Close, CloseInput
    <3>2. ~Recovery
      BY DEF Recovery, RestorePage, CutContainer, RecoverSync, RecoverRemove, RecoverDone,
             memory, HInv, TypeInv, JournalThere
    <3>3. \A p \in Pages : ~JournalRecord(p) /\ ~WritePage(p)
      BY DEF JournalRecord, WritePage, memory
    <3>4. /\ ~Spill /\ ~JournalOpen /\ ~JournalHead /\ ~JournalSync /\ ~JournalCertify /\ ~CertifySync
          /\ ~PagesSync /\ ~JournalFinish /\ ~FinishDir /\ ~Header /\ ~FlushFails /\ ~HeaderFails
      BY DEF Spill, JournalOpen, JournalHead, JournalSync, JournalCertify, CertifySync, PagesSync,
             JournalFinish, FinishDir, Header, FlushFails, HeaderFails, memory
    <3>5. HeaderSync
      BY <2>2, <3>1, <3>2, <3>3, <3>4 DEF Next, Flush
    <3> QED
      BY <3>5 DEF HeaderSync, LastSync
  <2>4. ~fl.bad /\ ~ioFailed /\ pc = "hsync" /\ UNCHANGED <<disk, jrn, logical>>
    BY <2>3 DEF HeaderSync, LastSync
  <2>5. /\ View = logical.page /\ jrn = None /\ fl.dirty = NoPages /\ dirty = NoPages
        /\ disk.page[0] = hdr
    <3>1. 0 \in Pages
      BY PagesAssumption DEF Pages
    <3> QED
      BY <2>4, <3>1, NoneOf DEF HInv, Flushing, Faithful, AtRest, Ending
  <2>6. View = [p \in Pages |-> disk.page[p]]
    BY <2>5, NoneOf DEF View
  <2>7. disk.page = [p \in Pages |-> disk.page[p]]
    BY DEF HInv, TypeInv, TypeOK, Container
  <2> QED
    BY <2>4, <2>5, <2>6, <2>7 DEF Recovered
<1>2. HInv /\ [Next]_vars => HInv'
  BY HonestNext
<1>3. Spec => []HInv
  BY <1>2, HonestInit, PTL DEF Spec
<1>4. Spec => [][Step]_vars
  BY <1>1, <1>2, HonestInit, PTL DEF Spec
<1> QED
  BY <1>4 DEF HonestClose
=============================================================================
