------------------------ MODULE DiskRecoveryProofs ------------------------
(***************************************************************************)
(* The inductive invariant of DiskJournal that says how the container, the *)
(* journal and the write set make up what was committed, kept by every     *)
(* step but a power loss (that step is in DiskFaultProofs); and, while     *)
(* nothing worse happens than the process being killed, the refinement of  *)
(* TxStore.  For every number of pages, of verbs and of faults.            *)
(***************************************************************************)
EXTENDS DiskJournalProofs

(* Disks do not fail.                                                       *)
NoDiskErrors == "io" \notin Failures

(* Nor does the power: the process may be killed.                           *)
OnlyKills == "power" \notin Failures /\ NoDiskErrors

Ids(j) == {j.recs[i].id : i \in DOMAIN j.recs}

ZeroPast(c) == \A p \in Pages : c.len <= p => c.page[p] = Zero

(* A content the header of which counts its pages.                          *)
Whole(c) == ZeroPast(c) /\ 0 < c.len /\ c.page[0].next = c.len

(* The pages of the write set ws that were in the container at the last     *)
(* commit have their images in u or, when ids says so, in the journal.      *)
Undoable(ws, u, ids) ==
  \A p \in Pages : p < committed.len => /\ ws[p] # None => u[p] # None \/ p \in ids
                                        /\ u[p] # None => u[p] = committed.page[p]

(* The images are of pages the container had.                               *)
Inside(u) == \A p \in Pages : u[p] # None => p < committed.len

JournalIds == IF live.on THEN live.ids ELSE {}

Written == jrn # None /\ Readable(jrn) # {}

(* The journal holds images of the committed content, and nothing else.     *)
JournalIsOld ==
  jrn # None =>
    /\ \A i \in DOMAIN jrn.recs : /\ jrn.recs[i].id < committed.len
                                  /\ jrn.recs[i].img = committed.page[jrn.recs[i].id]
    /\ \A i \in 0 .. 1 : jrn.slots[i] \notin {None, Torn} => jrn.slots[i].pages = committed.len

(* The container differs from the committed content only where the journal  *)
(* can put it back.                                                         *)
Covered ==
  IF Written
  THEN /\ committed.len <= disk.len
       /\ \A p \in Pages : p < committed.len => \/ disk.page[p] = committed.page[p]
                                                \/ p \in Ids(jrn)
  ELSE disk = committed

(* What memory knows of the journal while it is live.                       *)
LiveIsJournal ==
  live.on => /\ Written
             /\ live.orig = committed.len
             /\ IF pc = "jrecs" THEN live.ids \subseteq Ids(jrn) ELSE live.ids = Ids(jrn)

AtRest == dirty = NoPages /\ undo = NoPages /\ ~inTx

(* Between two verbs, or before the spill that ends one.                    *)
BetweenVerbs ==
  pc \in {"idle", "spill"} => /\ fl.dirty = NoPages
                              /\ Undoable(dirty, undo, JournalIds)
                              /\ live.on => Inside(undo)
                              /\ pc = "spill" => mode = "io"

(* A recovery has put back the newest images, then all of them.             *)
Recovering ==
  /\ pc = "restore" =>
       \A i \in DOMAIN jrn.recs : fl.left < i =>
          disk.page[jrn.recs[i].id] = committed.page[jrn.recs[i].id]
  /\ pc \in {"restore", "rsync", "rremove"} => Written
  /\ pc \in {"rsync", "rremove", "rdir"} => disk = committed
  /\ pc = "rdir" => jrn = None

Appending == {"jopen", "jhead", "jrecs", "jcert", "jcertsync", "page"}
Ending    == {"finish", "fdir", "header", "hsync"}

InFlush ==
  pc \in Appending \cup Ending =>
    /\ AtRest
    /\ fl.spill => fl.after = "verb" /\ fl.long
    /\ fl.after = "verb" => fl.spill
    /\ live.on => fl.long

(* The images reach the journal before the pages reach the container.       *)
JournalFirst ==
  /\ pc \in {"jopen", "jhead"} =>
       ~live.on /\ disk = committed /\ Undoable(fl.dirty, fl.undo, {})
  /\ pc = "jhead" => /\ jrn = EmptyJournal
                     /\ fl.left = committed.len /\ Inside(fl.undo)
  /\ pc = "jrecs" => /\ Written /\ Inside(fl.undo)
                     /\ Undoable(fl.dirty, fl.undo, Ids(jrn))
                     /\ live.on \/ fl.left = committed.len
  /\ pc \in {"jcert", "jcertsync", "page"} =>
       /\ Written /\ Undoable(fl.dirty, NoPages, Ids(jrn))
       /\ fl.long \/ pc # "page" => live.on

Ended ==
  /\ pc \in Ending => fl.dirty = NoPages
  /\ pc = "finish" => mode = "io"
  /\ pc \in {"fdir", "header", "hsync"} => ~live.on /\ (mode = "io" => jrn = None)

ClosedMode == mode = "closed" => AtRest /\ ~live.on /\ fl.dirty = NoPages /\ ~copied

(* A handle of OPEN INPUT leaves the container alone.                       *)
InputMode ==
  mode = "input" => /\ dirty = NoPages /\ undo = NoPages /\ ~live.on /\ ~fl.long
                    /\ pc \in Appending => fl.dirty[0] # None
                    /\ copied => pc = "idle"
                    /\ ~copied => disk = committed

(* The program's content is the container's under the two write sets.       *)
IoMode == 
  mode = "io" => /\ ~copied
                 /\ View = logical.page /\ hdr.next = logical.len
                 /\ fl.dirty[0] # None => fl.dirty[0] = hdr
                 /\ disk.page[0] = hdr \/ fl.dirty[0] # None \/ inTx
                 /\ ~inTx => AtRest
                 /\ ~live.on /\ pc \in {"idle", "spill"} => jrn = None

Lengths ==
  mode = "io" =>
    /\ disk.len <= logical.len
    /\ \A p \in Pages : dirty[p] # None \/ fl.dirty[p] # None => p < logical.len
    /\ \/ disk.len = logical.len
       \/ \E p \in Pages : p + 1 = logical.len /\ (dirty[p] # None \/ fl.dirty[p] # None)

IInv ==
  /\ TypeInv
  /\ ZeroPast(disk) /\ Whole(committed) /\ ZeroPast(logical)
  /\ JournalIsOld /\ Covered /\ LiveIsJournal
  /\ BetweenVerbs /\ Recovering /\ InFlush /\ JournalFirst /\ Ended
  /\ ClosedMode /\ InputMode /\ IoMode /\ Lengths
-----------------------------------------------------------------------------
(* Two containers of the same length with the same pages are the same.      *)
LEMMA SameContainer ==
  ASSUME NEW c \in Container, NEW d \in Container, c.len = d.len,
         \A p \in Pages : c.page[p] = d.page[p]
  PROVE  c = d
  <1>1. c.page = d.page
    BY DEF Container
  <1>2. c = [len |-> c.len, page |-> c.page] /\ d = [len |-> d.len, page |-> d.page]
    BY DEF Container
  <1> QED BY <1>1, <1>2

(* FirstOf finds a record of the page.                                      *)
LEMMA FirstOfFinds ==
  ASSUME NEW j \in Journal, NEW p \in Pages, p \in Ids(j)
  PROVE  FirstOf(j.recs, p) \in DOMAIN j.recs /\ j.recs[FirstOf(j.recs, p)].id = p
  <1> DEFINE S == {i \in DOMAIN j.recs : j.recs[i].id = p}
  <1>1. S \subseteq Nat /\ S # {}
    BY DEF Journal, Ids
  <1>2. \E i \in S : \A k \in S : i <= k
    BY <1>1, SmallestIn
  <1> QED BY <1>2 DEF FirstOf

(* The container d, under the journal j, holds what it takes to bring the   *)
(* content c back.                                                          *)
Brings(d, j, c) ==
  /\ j # None =>
       /\ \A i \in DOMAIN j.recs : j.recs[i].id < c.len /\ j.recs[i].img = c.page[j.recs[i].id]
       /\ \A i \in 0 .. 1 : j.slots[i] \notin {None, Torn} => j.slots[i].pages = c.len
  /\ IF j # None /\ Readable(j) # {}
     THEN c.len <= d.len /\ \A p \in Pages : p < c.len => d.page[p] = c.page[p] \/ p \in Ids(j)
     ELSE d = c

(* What recovery, whole or in part, makes of such a container.              *)
LEMMA CutBringsBack ==
  ASSUME NEW d \in Container, NEW j \in Journal, NEW c \in Container, Whole(c), ZeroPast(d),
         Brings(d, j, c), Readable(j) # {}, \A p \in Pages : p < c.len => d.page[p] = c.page[p]
  PROVE  Cut(d, Newest(j).pages) = c
  <1>1. Newest(j).pages = c.len /\ c.len <= d.len
    BY NewestReadable, NoneAssumption DEF Brings, Readable
  <1>2. d.len \in Nat /\ c.len \in 0 .. MaxPages
    BY PagesAssumption DEF Container
  <1>3. Cut(d, c.len) \in Container
    BY <1>2, CutType
  <1>4. Cut(d, c.len).len = c.len
    BY <1>1, <1>2 DEF Cut
  <1>5. \A p \in Pages : Cut(d, c.len).page[p] = c.page[p]
    <2> TAKE p \in Pages
    <2>1. p \in Nat
      BY PagesAssumption DEF Pages
    <2>2. CASE p < c.len
      BY <1>2, <2>1, <2>2 DEF Cut
    <2>3. CASE ~(p < c.len)
      BY <1>1, <1>2, <2>1, <2>3 DEF Cut, Whole, ZeroPast
    <2> QED BY <2>2, <2>3
  <1> QED BY <1>1, <1>3, <1>4, <1>5, SameContainer

LEMMA BringsBack ==
  ASSUME NEW d \in Container, NEW j \in Journal \cup {None}, NEW c \in Container,
         Whole(c), ZeroPast(d), Brings(d, j, c)
  PROVE  Recovered(d, j) = c
  <1>1. CASE j = None \/ Readable(j) = {}
    BY <1>1 DEF Brings, Recovered
  <1>2. CASE j # None /\ Readable(j) # {}
    <2> DEFINE e == Restore(d, j.recs)
    <2>1. j \in Journal
      BY <1>2
    <2>2. e \in Container /\ e.len = d.len
      BY <2>1, RestoreType DEF Restore, Container
    <2>3. \A p \in Pages : e.page[p] = IF p \in Ids(j) THEN c.page[p] ELSE d.page[p]
      <3> TAKE p \in Pages
      <3>1. e.page[p] = IF p \in Ids(j) THEN j.recs[FirstOf(j.recs, p)].img ELSE d.page[p]
        BY <2>1 DEF Restore, Ids, Container
      <3>2. p \in Ids(j) => j.recs[FirstOf(j.recs, p)].img = c.page[p]
        BY <1>2, <2>1, FirstOfFinds DEF Brings
      <3> QED BY <3>1, <3>2
    <2>4. \A p \in Pages : p < c.len => e.page[p] = c.page[p]
      BY <1>2, <2>3 DEF Brings
    <2>5. \A p \in Ids(j) : p < c.len
      BY <1>2 DEF Brings, Ids
    <2>6. c.len <= d.len /\ c.len \in Nat /\ d.len \in Nat
      BY <1>2, PagesAssumption DEF Brings, Container
    <2>7. ZeroPast(e)
      <3> SUFFICES ASSUME NEW p \in Pages, e.len <= p PROVE e.page[p] = Zero
        BY DEF ZeroPast
      <3>1. p \in Nat
        BY PagesAssumption DEF Pages
      <3>2. p \notin Ids(j)
        BY <2>2, <2>5, <2>6, <3>1
      <3> QED BY <2>2, <2>3, <3>2 DEF ZeroPast
    <2>8. Brings(e, j, c)
      BY <1>2, <2>2, <2>4, <2>6 DEF Brings
    <2>9. Cut(e, Newest(j).pages) = c
      <3> HIDE DEF e
      <3> QED BY <1>2, <2>1, <2>2, <2>4, <2>7, <2>8, CutBringsBack
    <2> QED BY <1>2, <2>9 DEF Recovered
  <1> QED BY <1>1, <1>2

LEMMA DiskBrings ==
  ASSUME IInv
  PROVE  /\ disk \in Container /\ jrn \in Journal \cup {None} /\ committed \in Container
         /\ Whole(committed) /\ ZeroPast(disk) /\ Brings(disk, jrn, committed)
  BY DEF IInv, TypeInv, TypeOK, JournalIsOld, Covered, Written, Brings

LEMMA RecoveredIsCommitted ==
  ASSUME IInv
  PROVE  Recovered(disk, jrn) = committed
  BY DiskBrings, BringsBack
-----------------------------------------------------------------------------
(* The invariant holds at first, and each step keeps it.                    *)

LEMMA RecoveryInit == Init => IInv
  <1> SUFFICES ASSUME Init PROVE IInv
    OBVIOUS
  <1> USE DEF Init
  <1>1. TypeInv
    BY TypeInit DEF NotLive, TypeInv, JournalThere
  <1>2. Whole(Settled)
    BY PagesAssumption, InitAssumption DEF Whole, ZeroPast, Settled, Fresh, Pages
  <1>3. \A p \in Pages : NoPages[p] = None
    BY DEF NoPages
  <1> QED BY <1>1, <1>2, <1>3
          DEF IInv, Whole, JournalIsOld, Covered, Written, LiveIsJournal, BetweenVerbs, Undoable,
              Recovering, InFlush, Appending, Ending, JournalFirst, Ended, ClosedMode, AtRest,
              InputMode, IoMode, Lengths, NotLive, NoFlush

(* A step that leaves the files alone.                                      *)
LEMMA SameFiles ==
  ASSUME IInv, UNCHANGED <<disk, jrn, committed>>
  PROVE  ZeroPast(disk)' /\ Whole(committed)' /\ JournalIsOld' /\ Covered'
  BY DEF IInv, ZeroPast, Whole, JournalIsOld, Covered, Written, Readable, Ids

(* Between two verbs a container without a journal is the committed one.    *)
LEMMA NoneOf == \A p \in Pages : NoPages[p] = None
  BY DEF NoPages

(* The handle that an OPEN of a settled container makes.                    *)
LEMMA OpenedForIo ==
  ASSUME IInv, TypeInv', Opened("io", disk), disk = committed, jrn' = None, disk' = disk,
         copied' = copied, ~copied, mode = "closed"
  PROVE  IInv'
  <1> USE NoneOf
  <1>1. /\ mode' = "io" /\ hdr' = disk.page[0] /\ pc' = "idle" /\ fl' = NoFlush
        /\ logical' = disk /\ UNCHANGED <<dirty, undo, inTx, live, ioFailed, committed>>
    BY DEF Opened
  <1>2. dirty = NoPages /\ undo = NoPages /\ ~inTx /\ ~live.on /\ NoFlush.dirty = NoPages
    BY DEF IInv, ClosedMode, AtRest, NoFlush
  <1>3. ZeroPast(disk)' /\ Whole(committed)' /\ ZeroPast(logical)' /\ JournalIsOld' /\ Covered'
    BY <1>1 DEF IInv, ZeroPast, Whole, JournalIsOld, Covered, Written
  <1>4. LiveIsJournal' /\ BetweenVerbs' /\ Recovering' /\ InFlush' /\ JournalFirst' /\ Ended'
    BY <1>1, <1>2 DEF LiveIsJournal, BetweenVerbs, Undoable, Recovering, InFlush, Appending,
                      Ending, JournalFirst, Ended
  <1>5. ClosedMode' /\ InputMode'
    BY <1>1 DEF ClosedMode, InputMode
  <1>6. View' = logical'.page
    <2>1. logical'.page \in [Pages -> Image] /\ logical' = disk
      BY <1>1 DEF TypeInv, TypeOK, Container
    <2>2. View' = [p \in Pages |-> logical'.page[p]]
      BY <1>1, <1>2, <2>1 DEF View
    <2> QED BY <2>1, <2>2
  <1>7. IoMode'
    BY <1>1, <1>2, <1>6, PagesAssumption DEF IoMode, AtRest, IInv, Whole, Pages
  <1>8. Lengths'
    BY <1>1, <1>2 DEF Lengths, TypeInv, TypeOK, Container
  <1> QED BY <1>3, <1>4, <1>5, <1>7, <1>8 DEF IInv

LEMMA OpenKeeps ==
  ASSUME IInv, TypeInv', OpenInput \/ OpenIo
  PROVE  IInv'
  <1> USE NoneOf DEF files, memory, ghosts
  <1>0. mode = "closed" => AtRest /\ ~live.on /\ fl.dirty = NoPages /\ ~copied
    BY DEF IInv, ClosedMode
  <1>1. CASE OpenInput
    <2>1. /\ mode = "closed" /\ mode' = "input" /\ pc' = "idle" /\ fl' = NoFlush
          /\ copied' = (jrn # None)
          /\ UNCHANGED <<disk, jrn, dirty, undo, inTx, live, ioFailed, logical, committed>>
      BY <1>1 DEF OpenInput, CanOpen, Opened
    <2>2. ZeroPast(disk)' /\ Whole(committed)' /\ ZeroPast(logical)' /\ JournalIsOld' /\ Covered'
      BY <2>1, SameFiles DEF IInv, ZeroPast
    <2>3. LiveIsJournal' /\ BetweenVerbs' /\ Recovering' /\ InFlush' /\ JournalFirst' /\ Ended'
      BY <1>0, <2>1 DEF LiveIsJournal, BetweenVerbs, Undoable, Recovering, InFlush, Appending,
                        Ending, JournalFirst, Ended, AtRest, NoFlush
    <2>4. ClosedMode' /\ IoMode' /\ Lengths'
      BY <2>1 DEF ClosedMode, IoMode, Lengths
    <2>5. InputMode'
      BY <1>0, <2>1 DEF InputMode, AtRest, NoFlush, Appending, IInv, Covered, Written
    <2> QED BY <2>2, <2>3, <2>4, <2>5 DEF IInv
  <1>2. CASE OpenIo
    <2>1. CASE jrn = None \/ NotWritten(jrn)
      <3>1. disk = committed
        BY <2>1 DEF IInv, Covered, Written, NotWritten, Readable
      <3> QED BY <1>0, <1>2, <2>1, <3>1, OpenedForIo DEF OpenIo, CanOpen
    <2>2. CASE jrn # None /\ ~NotWritten(jrn)
      <3>1. /\ pc' = "restore" /\ fl' = [fl EXCEPT !.left = Len(jrn.recs)]
            /\ UNCHANGED <<disk, jrn, mode, copied, hdr, dirty, undo, inTx, live, logical, committed>>
            /\ mode = "closed"
        BY <1>2, <2>2 DEF OpenIo, CanOpen
      <3>2. Written
        BY <1>2, <2>2 DEF OpenIo, CanOpen, Refused, Written
      <3>3. fl'.left = Len(jrn.recs) /\ fl'.dirty = NoPages
        BY <1>0, <3>1 DEF IInv, TypeInv, TypeOK, FlushLocals
      <3>4. ZeroPast(disk)' /\ Whole(committed)' /\ ZeroPast(logical)' /\ JournalIsOld' /\ Covered'
        BY <3>1, SameFiles DEF IInv, ZeroPast
      <3>5. Recovering'
        <4>1. jrn \in Journal
          BY <2>2 DEF IInv, TypeInv, TypeOK
        <4>2. \A i \in DOMAIN jrn.recs : ~(Len(jrn.recs) < i)
          BY <4>1 DEF Journal
        <4> QED BY <3>1, <3>2, <3>3, <4>2 DEF Recovering, Written, Readable
      <3>6. LiveIsJournal' /\ BetweenVerbs' /\ InFlush' /\ JournalFirst' /\ Ended'
        BY <1>0, <3>1 DEF LiveIsJournal, BetweenVerbs, InFlush, Appending, Ending,
                          JournalFirst, Ended
      <3>7. ClosedMode' /\ InputMode' /\ IoMode' /\ Lengths'
        BY <1>0, <3>1, <3>3 DEF ClosedMode, InputMode, IoMode, Lengths, AtRest
      <3> QED BY <3>4, <3>5, <3>6, <3>7 DEF IInv
    <2> QED BY <2>1, <2>2
  <1> QED BY <1>1, <1>2

(* Recovery puts back one image, and what is not yet put back stays covered. *)
LEMMA RestorePageKeeps ==
  ASSUME IInv, TypeInv', RestorePage
  PROVE  IInv'
  <1> USE NoneOf DEF memory, ghosts
  <1>1. /\ pc = "restore" /\ pc' = pc /\ mode = "closed" /\ Written /\ fl.left \in 1 .. Len(jrn.recs)
        /\ fl'.left = fl.left - 1 /\ fl'.dirty = fl.dirty
        /\ UNCHANGED <<jrn, mode, copied, hdr, dirty, undo, inTx, live, logical, committed>>
    BY DEF RestorePage, IInv, TypeInv, TypeOK, JournalThere, Recovering, FlushLocals, Journal
  <1> DEFINE r == jrn.recs[fl.left]
  <1>2. r.id \in Pages /\ r.img \in Image /\ fl.left \in DOMAIN jrn.recs
    BY <1>1, RecordType DEF IInv, TypeInv, TypeOK, Written
  <1>3. r.id < committed.len /\ r.img = committed.page[r.id] /\ committed.len <= disk.len
    BY <1>1, <1>2 DEF IInv, JournalIsOld, Covered, Written
  <1>4. r.id \in Nat /\ disk.len \in Nat /\ committed.len \in Nat
    BY <1>2, PagesAssumption DEF Pages, IInv, TypeInv, TypeOK, Container
  <1>5. disk'.len = disk.len /\ disk'.page = [disk.page EXCEPT ![r.id] = committed.page[r.id]]
    BY <1>3, <1>4 DEF RestorePage, Put
  <1>6. \A p \in Pages : disk'.page[p] = IF p = r.id THEN committed.page[p] ELSE disk.page[p]
    BY <1>5 DEF IInv, TypeInv, TypeOK, Container
  <1> HIDE DEF r
  <1>7. ZeroPast(disk)'
    BY <1>3, <1>4, <1>5, <1>6 DEF IInv, ZeroPast
  <1>8. Whole(committed)' /\ ZeroPast(logical)' /\ JournalIsOld'
    BY <1>1 DEF IInv, Whole, ZeroPast, JournalIsOld
  <1>9. Covered'
    BY <1>1, <1>3, <1>5, <1>6 DEF IInv, Covered, Written, Readable, Ids
  <1>10. Recovering'
    <2>1. ASSUME NEW i \in DOMAIN jrn.recs, fl.left - 1 < i
          PROVE  disk'.page[jrn.recs[i].id] = committed.page[jrn.recs[i].id]
      <3>1. jrn.recs[i].id \in Pages /\ i \in Nat
        BY <1>1, RecordType DEF IInv, TypeInv, TypeOK, Written, Journal
      <3>2. CASE i = fl.left
        BY <1>6, <3>1, <3>2 DEF r
      <3>3. CASE i # fl.left
        <4>1. fl.left < i
          BY <1>1, <2>1, <3>1, <3>3
        <4> QED BY <1>1, <1>6, <3>1, <4>1 DEF IInv, Recovering
      <3> QED BY <3>2, <3>3
    <2> QED BY <1>1, <2>1 DEF Recovering, Written, Readable
  <1>11. LiveIsJournal' /\ BetweenVerbs' /\ InFlush' /\ JournalFirst' /\ Ended'
    BY <1>1 DEF IInv, LiveIsJournal, ClosedMode, BetweenVerbs, InFlush, Appending, Ending,
                JournalFirst, Ended
  <1>12. ClosedMode' /\ InputMode' /\ IoMode' /\ Lengths'
    BY <1>1 DEF IInv, ClosedMode, AtRest, InputMode, IoMode, Lengths
  <1> QED BY <1>7, <1>8, <1>9, <1>10, <1>11, <1>12 DEF IInv

(* The steps of a recovery, once the container is what was committed.       *)
LEMMA SettledKeeps ==
  ASSUME IInv, TypeInv', mode = "closed", pc' \in {"rsync", "rremove", "rdir"},
         disk' = committed, (jrn' = jrn /\ Written /\ pc' # "rdir") \/ jrn' = None,
         pc' # "rdir" => jrn' # None, pc' = "rdir" => jrn' = None,
         UNCHANGED <<mode, copied, hdr, dirty, undo, inTx, live, logical, committed, fl>>
  PROVE  IInv'
  <1> USE NoneOf
  <1>1. committed.len \in Nat
    BY PagesAssumption DEF IInv, TypeInv, TypeOK, Container
  <1>2. ZeroPast(disk)' /\ Whole(committed)' /\ ZeroPast(logical)' /\ JournalIsOld'
    BY DEF IInv, ZeroPast, Whole, JournalIsOld
  <1>3. Covered' /\ Recovering'
    BY <1>1 DEF Covered, Recovering, Written, Readable
  <1>4. LiveIsJournal' /\ BetweenVerbs' /\ InFlush' /\ JournalFirst' /\ Ended'
    BY DEF IInv, LiveIsJournal, ClosedMode, BetweenVerbs, InFlush, Appending, Ending,
           JournalFirst, Ended
  <1>5. ClosedMode' /\ InputMode' /\ IoMode' /\ Lengths'
    BY DEF IInv, ClosedMode, AtRest, InputMode, IoMode, Lengths
  <1> QED BY <1>2, <1>3, <1>4, <1>5 DEF IInv

LEMMA RecoveryKeeps ==
  ASSUME IInv, TypeInv', Recovery
  PROVE  IInv'
  <1> USE DEF memory, ghosts
  <1>0. pc \in {"restore", "rsync", "rremove", "rdir"} => mode = "closed"
    BY DEF IInv, TypeInv, JournalThere
  <1>1. CASE RestorePage
    BY <1>1, RestorePageKeeps
  <1>2. CASE CutContainer
    <2>1. /\ pc = "restore" /\ fl.left = 0 /\ Written /\ disk' = Cut(disk, Newest(jrn).pages)
          /\ pc' = "rsync"
          /\ UNCHANGED <<jrn, mode, copied, hdr, dirty, undo, inTx, live, logical, committed, fl>>
      BY <1>2 DEF CutContainer, IInv, Recovering
    <2>2. jrn \in Journal /\ disk \in Container
      BY <2>1 DEF IInv, TypeInv, TypeOK, Written
    <2>3. \A p \in Pages : p < committed.len => disk.page[p] = committed.page[p]
      <3> SUFFICES ASSUME NEW p \in Pages, p < committed.len, p \in Ids(jrn)
                   PROVE  disk.page[p] = committed.page[p]
        BY <2>1 DEF IInv, Covered
      <3>1. PICK i \in DOMAIN jrn.recs : jrn.recs[i].id = p
        BY DEF Ids
      <3>2. 0 < i
        BY <2>2 DEF Journal
      <3> QED BY <2>1, <3>1, <3>2 DEF IInv, Recovering
    <2>4. disk' = committed
      BY <2>1, <2>2, <2>3, CutBringsBack, DiskBrings DEF Written
    <2> QED BY <1>0, <2>1, <2>4, SettledKeeps DEF Written
  <1>3. CASE RecoverSync
    BY <1>0, <1>3, SettledKeeps DEF RecoverSync, IInv, Recovering, Written
  <1>4. CASE RecoverRemove
    BY <1>0, <1>4, SettledKeeps DEF RecoverRemove, IInv, Recovering
  <1>5. CASE RecoverDone
    BY <1>0, <1>5, OpenedForIo DEF RecoverDone, IInv, Recovering, ClosedMode
  <1> QED BY <1>1, <1>2, <1>3, <1>4, <1>5 DEF Recovery

LEMMA VerbKeeps ==
  ASSUME IInv, TypeInv', NEW S \in SUBSET (Pages \ {0}), NEW n \in 1 .. MaxPages, Verb(S, n)
  PROVE  IInv'
  <1> USE NoneOf DEF files
  <1>1. /\ mode = "io" /\ mode' = "io" /\ pc = "idle" /\ pc' \in {"spill", "idle"} /\ inTx'
        /\ hdr.next <= n /\ hdr.next .. n - 1 \subseteq S /\ S \subseteq 1 .. n - 1
        /\ UNCHANGED <<disk, jrn, copied, live, fl, committed>>
    BY DEF Verb
  <1>2. /\ logical'.len = n /\ hdr'.next = n
        /\ logical.len = hdr.next /\ logical.len \in Nat /\ disk.len \in Nat /\ n \in Nat
    BY <1>1, PagesAssumption DEF Verb, IInv, IoMode, TypeInv, TypeOK, Container
  <1>3. \A p \in Pages : p \in Nat
    BY PagesAssumption DEF Pages
  <1>4. \A p \in Pages : dirty'[p] = IF p \in S THEN Data(hdr'.tag) ELSE dirty[p]
    BY DEF Verb
  <1>5. \A p \in Pages : undo'[p] = IF p \in S /\ dirty[p] = None /\ NeedsUndoImage(p)
                                    THEN disk.page[p] ELSE undo[p]
    BY DEF Verb
  <1>6. \A p \in Pages : disk.page[p] # None /\ disk.page[p] \in Image
    BY NoneAssumption DEF IInv, TypeInv, TypeOK, Container
  <1>7. Data(hdr'.tag) \in Image /\ Data(hdr'.tag) # None
    <2>1. hdr'.tag \in 0 .. MaxTag
      BY DEF TypeInv, TypeOK, Image
    <2> QED BY <2>1, PagesAssumption, NoneAssumption DEF Data, Image
  <1>8. fl.dirty = NoPages /\ Undoable(dirty, undo, JournalIds) /\ (live.on => Inside(undo))
    BY <1>1 DEF IInv, BetweenVerbs
  <1>9. ZeroPast(disk)' /\ Whole(committed)' /\ JournalIsOld' /\ Covered'
    BY <1>1, SameFiles
  <1>10. ZeroPast(logical)'
    <2> SUFFICES ASSUME NEW p \in Pages, n <= p PROVE logical'.page[p] = Zero
      BY <1>2 DEF ZeroPast
    <2>1. p # 0 /\ p \notin S
      BY <1>1, <1>2, <1>3
    <2>2. logical'.page[p] = logical.page[p]
      BY <2>1 DEF Verb
    <2>3. logical.len <= p
      BY <1>1, <1>2, <1>3
    <2> QED BY <2>2, <2>3 DEF IInv, ZeroPast
  <1>11. LiveIsJournal'
    BY <1>1 DEF IInv, LiveIsJournal, Written, Readable, Ids
  <1>12. BetweenVerbs'
    <2>1. \A p \in Pages : NeedsUndoImage(p) /\ p < committed.len => disk.page[p] = committed.page[p]
      <3> SUFFICES ASSUME NEW p \in Pages, NeedsUndoImage(p), p < committed.len
                   PROVE  disk.page[p] = committed.page[p]
        OBVIOUS
      <3>1. CASE live.on
        <4>1. Written /\ p \notin Ids(jrn)
          BY <1>1, <3>1 DEF NeedsUndoImage, IInv, LiveIsJournal
        <4> QED BY <4>1 DEF IInv, Covered
      <3>2. CASE ~live.on
        BY <1>1, <3>2 DEF IInv, IoMode, Covered, Written
      <3> QED BY <3>1, <3>2
    <2>2. ASSUME NEW p \in Pages, p < committed.len, dirty'[p] # None
          PROVE  undo'[p] # None \/ p \in JournalIds
      <3>1. CASE dirty[p] # None
        BY <1>5, <1>8, <2>2, <3>1 DEF Undoable
      <3>2. CASE dirty[p] = None
        <4>1. p \in S
          BY <1>4, <2>2, <3>2
        <4>2. CASE NeedsUndoImage(p)
          BY <1>5, <1>6, <3>2, <4>1, <4>2
        <4>3. CASE ~NeedsUndoImage(p)
          BY <2>2, <4>3 DEF NeedsUndoImage, JournalIds, IInv, LiveIsJournal
        <4> QED BY <4>2, <4>3
      <3> QED BY <3>1, <3>2
    <2>3. ASSUME NEW p \in Pages, p < committed.len, undo'[p] # None
          PROVE  undo'[p] = committed.page[p]
      BY <1>5, <1>8, <2>1, <2>3 DEF Undoable
    <2>4. Undoable(dirty, undo, JournalIds)'
      BY <1>1, <2>2, <2>3 DEF Undoable, JournalIds
    <2>5. live.on => Inside(undo)'
      BY <1>1, <1>5, <1>8 DEF Inside, NeedsUndoImage, IInv, LiveIsJournal
    <2> QED BY <1>1, <1>8, <2>4, <2>5 DEF BetweenVerbs
  <1>13. Recovering' /\ InFlush' /\ JournalFirst' /\ Ended' /\ ClosedMode' /\ InputMode'
    BY <1>1 DEF Recovering, InFlush, Appending, Ending, JournalFirst, Ended, ClosedMode, InputMode
  <1>14. IoMode'
    <2>1. View' = logical'.page
      <3>1. \A p \in Pages : View[p] = logical.page[p]
        BY <1>1 DEF IInv, IoMode
      <3>2. \A p \in Pages : View'[p] = logical'.page[p]
        <4> TAKE p \in Pages
        <4>1. CASE p = 0
          BY <4>1 DEF View, Verb
        <4>2. CASE p # 0 /\ p \in S
          BY <1>1, <1>4, <1>7, <1>8, <4>2 DEF View, Verb
        <4>3. CASE p # 0 /\ p \notin S
          BY <1>1, <1>4, <1>8, <3>1, <4>3 DEF View, Verb
        <4> QED BY <4>1, <4>2, <4>3
      <3>3. View' = [p \in Pages |-> View'[p]]
        BY DEF View
      <3>4. logical'.page = [p \in Pages |-> logical'.page[p]]
        BY DEF TypeInv, TypeOK, Container
      <3> QED BY <3>2, <3>3, <3>4
    <2>2. fl'.dirty[0] = None
      BY <1>1, <1>8, PagesAssumption DEF Pages
    <2> QED BY <1>1, <1>2, <2>1, <2>2 DEF IInv, IoMode
  <1>15. Lengths'
    <2>1. disk.len <= n
      BY <1>1, <1>2 DEF IInv, Lengths
    <2>2. \A p \in Pages : dirty'[p] # None \/ fl'.dirty[p] # None => p < n
      <3> SUFFICES ASSUME NEW p \in Pages, dirty'[p] # None PROVE p < n
        BY <1>1, <1>8
      <3>1. CASE p \in S
        BY <1>1, <1>2, <1>3, <3>1
      <3>2. CASE p \notin S
        <4>1. p < logical.len
          BY <1>1, <1>4, <3>2 DEF IInv, Lengths
        <4> QED BY <1>1, <1>2, <1>3, <4>1
      <3> QED BY <3>1, <3>2
    <2>3. CASE hdr.next = n
      <3>1. CASE disk.len = logical.len
        BY <1>1, <1>2, <2>1, <2>2, <2>3, <3>1 DEF Lengths
      <3>2. CASE disk.len # logical.len
        <4>1. PICK p \in Pages : p + 1 = logical.len /\ (dirty[p] # None \/ fl.dirty[p] # None)
          BY <1>1, <3>2 DEF IInv, Lengths
        <4>2. dirty'[p] # None
          BY <1>4, <1>7, <1>8, <4>1
        <4> QED BY <1>1, <1>2, <2>1, <2>2, <2>3, <4>1, <4>2 DEF Lengths
      <3> QED BY <3>1, <3>2
    <2>4. CASE hdr.next # n
      <3>1. n - 1 \in S
        BY <1>1, <1>2, <2>4
      <3>2. dirty'[n - 1] # None /\ n - 1 \in Pages /\ (n - 1) + 1 = n
        BY <1>2, <1>4, <1>7, <3>1
      <3> QED BY <1>1, <1>2, <2>1, <2>2, <3>2 DEF Lengths
    <2> QED BY <2>3, <2>4
  <1> QED BY <1>9, <1>10, <1>11, <1>12, <1>13, <1>14, <1>15 DEF IInv

(* A handle between two verbs, or one that just ended a flush: nothing is   *)
(* pending but what the write sets hold.                                    *)
LEMMA ReturnKeeps ==
  ASSUME IInv, TypeInv', NEW after, NEW ok, Return(after, ok),
         mode # "closed", mode = "input" => ~copied, dirty = NoPages, undo = NoPages, ~inTx,
         mode = "io" => fl.dirty = NoPages,
         after = "verb" => mode = "io",
         ~live.on => (mode = "io" => jrn = None), after # "verb" => ~live.on,
         pc # "jrecs",
         UNCHANGED <<disk, jrn, mode, copied, hdr, dirty, undo, inTx, live, logical, committed>>
  PROVE  IInv'
  <1> USE NoneOf
  <1>1. pc' \in {"idle", "hsync", "header"} /\ (pc' = "idle" <=> after = "verb")
    BY DEF Return
  <1>2. fl'.dirty = NoPages /\ ~fl'.spill /\ ~fl'.long /\ (pc' # "idle" => fl'.after # "verb")
    BY DEF Return, NoFlush
  <1>3. ZeroPast(disk)' /\ Whole(committed)' /\ ZeroPast(logical)' /\ JournalIsOld' /\ Covered'
    BY SameFiles DEF IInv, ZeroPast
  <1>4. LiveIsJournal'
    BY <1>1 DEF IInv, LiveIsJournal, Written, Readable, Ids
  <1>5. BetweenVerbs' /\ Recovering' /\ InFlush' /\ JournalFirst' /\ Ended'
    BY <1>1, <1>2 DEF BetweenVerbs, Undoable, Inside, Recovering, InFlush, AtRest, Appending,
                      Ending, JournalFirst, Ended
  <1>6. ClosedMode' /\ InputMode'
    BY <1>1, <1>2 DEF IInv, ClosedMode, InputMode, Appending
  <1>7. IoMode'
    BY <1>2 DEF IInv, IoMode, View, AtRest
  <1>8. Lengths'
    BY <1>2 DEF IInv, Lengths
  <1> QED BY <1>3, <1>4, <1>5, <1>6, <1>7, <1>8 DEF IInv

LEMMA TxFlushKeeps ==
  ASSUME IInv, TypeInv', NEW spill \in BOOLEAN, NEW after \in {"verb", "persist", "close"},
         TxFlush(spill, after), mode # "closed", ~copied, pc \in {"idle", "spill"},
         spill <=> after = "verb", spill => mode = "io",
         UNCHANGED <<disk, jrn, mode, copied, hdr, live, logical, committed>>
  PROVE  IInv'
  <1> USE NoneOf
  <1>0. /\ fl.dirty = NoPages /\ Undoable(dirty, undo, JournalIds)
        /\ live.on => Inside(undo)
        /\ ~inTx => dirty = NoPages /\ undo = NoPages
        /\ mode = "io" \/ mode = "input"
    BY DEF IInv, BetweenVerbs, IoMode, InputMode, AtRest, TypeInv, TypeOK
  <1>1. CASE ~inTx /\ ~live.on
    <2>1. Return(after, TRUE) /\ UNCHANGED <<dirty, undo, inTx>>
      BY <1>1 DEF TxFlush
    <2>2. mode = "io" => jrn = None
      BY <1>1 DEF IInv, IoMode
    <2> QED BY <1>0, <1>1, <2>1, <2>2, ReturnKeeps
  <1>2. CASE ~(~inTx /\ ~live.on)
    <2> DEFINE d == IF inTx THEN [dirty EXCEPT ![0] = hdr] ELSE dirty
               u == IF inTx /\ NeedsUndoImage(0)
                    THEN [undo EXCEPT ![0] = disk.page[0]] ELSE undo
    <2>1. /\ dirty' = NoPages /\ undo' = NoPages /\ ~inTx'
          /\ fl'.dirty = d /\ fl'.undo = u /\ fl'.spill = spill /\ fl'.after = after
          /\ fl'.long = (live.on \/ spill) /\ fl'.left = 0
      BY <1>2 DEF TxFlush, NoFlush
    <2>2. pc' = CASE In(d) = {}               -> "finish"
                  [] In(d) # {} /\ ~live.on   -> "jopen"
                  [] In(d) # {} /\ live.on /\ In(u) # {} -> "jrecs"
                  [] OTHER                    -> "page"
      BY <1>2 DEF TxFlush
    <2>3. \A p \in Pages : d[p] = IF p = 0 /\ inTx THEN hdr ELSE dirty[p]
      BY DEF IInv, TypeInv, TypeOK, WriteSet
    <2>4. \A p \in Pages : u[p] = IF p = 0 /\ inTx /\ NeedsUndoImage(0)
                                  THEN disk.page[0] ELSE undo[p]
      BY DEF IInv, TypeInv, TypeOK, WriteSet
    <2>5. 0 \in Pages /\ 0 < committed.len /\ hdr # None /\ disk.page[0] # None
      BY PagesAssumption, NoneAssumption DEF Pages, IInv, Whole, TypeInv, TypeOK, Container
    <2> HIDE DEF d, u
    <2>6. NeedsUndoImage(0) => disk.page[0] = committed.page[0]
      <3>1. CASE live.on
        BY <2>5, <3>1 DEF NeedsUndoImage, IInv, LiveIsJournal, Covered
      <3>2. CASE ~live.on
        BY <1>0, <3>2 DEF IInv, IoMode, InputMode, Covered, Written
      <3> QED BY <3>1, <3>2
    <2>7. ~NeedsUndoImage(0) => 0 \in JournalIds
      BY <2>5 DEF NeedsUndoImage, JournalIds, IInv, LiveIsJournal
    <2>8. Undoable(d, u, JournalIds)
      BY <1>0, <2>3, <2>4, <2>5, <2>6, <2>7 DEF Undoable
    <2>9. live.on => Inside(u)
      BY <1>0, <2>4, <2>5 DEF Inside
    <2>10. In(d) = {} => d = NoPages
      <3>1. d \in WriteSet
        BY <2>1 DEF TypeInv, TypeOK, FlushLocals
      <3>2. In(d) = {} => \A p \in Pages : d[p] = None
        BY DEF In
      <3> QED BY <3>1, <3>2 DEF WriteSet, NoPages
    <2>11. /\ pc' \in {"finish", "jopen", "jrecs", "page"}
           /\ pc' = "finish" => d = NoPages /\ live.on
           /\ pc' = "jopen" => ~live.on /\ inTx
           /\ pc' \in {"jrecs", "page"} => live.on
           /\ pc' = "page" => In(u) = {}
      <3>1. In(d) = {} => ~inTx
        BY <2>3, <2>5 DEF In
      <3> QED BY <1>2, <2>2, <2>10, <3>1
    <2>12. ZeroPast(disk)' /\ Whole(committed)' /\ ZeroPast(logical)' /\ JournalIsOld' /\ Covered'
      BY SameFiles DEF IInv, ZeroPast
    <2>13. live.on => Written /\ live.ids = Ids(jrn) /\ JournalIds = Ids(jrn)
      BY DEF IInv, LiveIsJournal, JournalIds
    <2>14. LiveIsJournal'
      BY <2>13 DEF IInv, LiveIsJournal, Written, Readable, Ids
    <2>15. BetweenVerbs' /\ Recovering' /\ Ended'
      BY <1>0, <2>1, <2>11 DEF BetweenVerbs, Recovering, Ended, Ending, IInv, InputMode
    <2>16. InFlush'
      BY <2>1 DEF InFlush, AtRest
    <2>17. JournalFirst'
      <3>1. pc' = "jopen" => ~live.on /\ disk = committed /\ Undoable(d, u, {})
        BY <1>0, <2>8, <2>11 DEF IInv, IoMode, InputMode, Covered, Written, JournalIds
      <3>2. pc' = "jrecs" => Written /\ Inside(u) /\ Undoable(d, u, Ids(jrn)) /\ live.on
        BY <2>8, <2>9, <2>11, <2>13
      <3>3. pc' = "page" => Written /\ Undoable(d, NoPages, Ids(jrn)) /\ live.on
        BY <2>8, <2>11, <2>13 DEF Undoable, In
      <3> QED BY <2>1, <2>11, <3>1, <3>2, <3>3
              DEF JournalFirst, Undoable, Inside, Written, Readable, Ids
    <2>18. ClosedMode'
      BY DEF ClosedMode
    <2>19. InputMode'
      BY <2>1, <2>3, <2>5, <2>11 DEF IInv, InputMode, Appending
    <2>20. IoMode'
      <3>1. mode = "io" => View' = View
        BY <1>0, <2>1, <2>3 DEF View
      <3>2. mode = "io" /\ ~inTx => dirty = NoPages
        BY <1>0
      <3> QED BY <1>0, <2>1, <2>3, <2>5, <2>11, <3>1 DEF IInv, IoMode, AtRest
    <2>21. Lengths'
      <3>1. mode = "io" => 0 < logical.len
        <4> SUFFICES ASSUME mode = "io" PROVE 0 < logical.len
          OBVIOUS
        <4>1. committed.len <= disk.len /\ disk.len <= logical.len
          BY DEF IInv, Covered, Lengths, TypeInv, TypeOK, Container
        <4> QED BY <2>5, <4>1, PagesAssumption DEF IInv, TypeInv, TypeOK, Container
      <3>2. \A p \in Pages : dirty[p] # None => d[p] # None
        BY <2>3, <2>5
      <3>3. \A p \in Pages : d[p] # None => dirty[p] # None \/ p = 0
        BY <2>3
      <3> QED BY <1>0, <2>1, <3>1, <3>2, <3>3 DEF IInv, Lengths
    <2> QED BY <2>12, <2>14, <2>15, <2>16, <2>17, <2>18, <2>19, <2>20, <2>21 DEF IInv
  <1> QED BY <1>1, <1>2

(* A handle that is gone, by CLOSE or with its process.                     *)
LEMMA ForgetKeeps ==
  ASSUME IInv, TypeInv', Forget, UNCHANGED <<disk, jrn, committed>>, ZeroPast(logical)'
  PROVE  IInv'
  <1> USE NoneOf
  <1>1. /\ mode' = "closed" /\ ~copied' /\ dirty' = NoPages /\ undo' = NoPages /\ ~inTx'
        /\ ~live'.on /\ pc' = "idle" /\ fl'.dirty = NoPages
    BY DEF Forget, NotLive, NoFlush
  <1>2. ZeroPast(disk)' /\ Whole(committed)' /\ JournalIsOld' /\ Covered'
    BY SameFiles
  <1>3. LiveIsJournal' /\ BetweenVerbs' /\ Recovering' /\ InFlush' /\ JournalFirst' /\ Ended'
    BY <1>1 DEF LiveIsJournal, BetweenVerbs, Undoable, Recovering, InFlush, Appending, Ending,
                JournalFirst, Ended
  <1>4. ClosedMode' /\ InputMode' /\ IoMode' /\ Lengths'
    BY <1>1 DEF ClosedMode, AtRest, InputMode, IoMode, Lengths
  <1> QED BY <1>2, <1>3, <1>4 DEF IInv

LEMMA CallsKeep ==
  ASSUME IInv, TypeInv', Rejected \/ Commit \/ Close \/ CloseInput \/ Spill
  PROVE  IInv'
  <1> USE NoneOf DEF files, memory, ghosts
  <1>1. CASE Rejected \/ (Commit /\ copied)
    <2>1. UNCHANGED <<disk, jrn, mode, copied, hdr, dirty, undo, live, logical, committed, fl>>
      BY <1>1 DEF Rejected, Commit
    <2>2. mode # "closed" /\ pc = "idle" /\ pc' = "idle" /\ (inTx' \/ mode = "input")
      BY <1>1, <2>1 DEF Rejected, Commit, IInv, IoMode, TypeInv, TypeOK
    <2>3. ZeroPast(disk)' /\ Whole(committed)' /\ ZeroPast(logical)' /\ JournalIsOld' /\ Covered'
      BY <2>1, SameFiles DEF IInv, ZeroPast
    <2>4. LiveIsJournal' /\ BetweenVerbs' /\ Recovering' /\ InFlush' /\ JournalFirst' /\ Ended'
      BY <2>1, <2>2 DEF IInv, LiveIsJournal, BetweenVerbs, Undoable, Inside, JournalIds, Recovering,
                  InFlush, Appending, Ending, JournalFirst, Ended, Written, Readable, Ids
    <2>5. ClosedMode' /\ InputMode' /\ IoMode' /\ Lengths'
      BY <2>1, <2>2 DEF IInv, ClosedMode, InputMode, Appending, IoMode, View, Lengths
    <2> QED BY <2>3, <2>4, <2>5 DEF IInv
  <1>2. CASE Commit /\ ~copied
    BY <1>2, TxFlushKeeps DEF Commit
  <1>3. CASE Close
    BY <1>3, TxFlushKeeps DEF Close, IInv, IoMode
  <1>4. CASE CloseInput
    BY <1>4, ForgetKeeps DEF CloseInput, IInv, ZeroPast
  <1>5. CASE Spill
    BY <1>5, TxFlushKeeps DEF Spill, IInv, IoMode, BetweenVerbs
  <1> QED BY <1>1, <1>2, <1>3, <1>4, <1>5

(* The steps that write the journal leave the program's side alone.         *)
LEMMA JournalStepKeeps ==
  ASSUME IInv, TypeInv', pc \in Appending, pc' \in Appending,
         UNCHANGED <<disk, mode, copied, hdr, dirty, undo, inTx, logical, committed>>,
         fl'.dirty = fl.dirty, fl'.spill = fl.spill, fl'.after = fl.after, fl'.long = fl.long,
         live'.on => fl.long, mode = "input" => ~live'.on,
         JournalIsOld', Covered', LiveIsJournal', JournalFirst'
  PROVE  IInv'
  <1>1. ZeroPast(disk)' /\ Whole(committed)' /\ ZeroPast(logical)'
    BY DEF IInv, ZeroPast, Whole
  <1>2. BetweenVerbs' /\ Recovering' /\ InFlush' /\ Ended'
    BY DEF IInv, BetweenVerbs, Recovering, InFlush, AtRest, Appending, Ending, Ended
  <1>3. mode # "closed"
    BY DEF IInv, TypeInv, JournalThere, Appending
  <1>4. ClosedMode' /\ InputMode'
    BY <1>3 DEF IInv, ClosedMode, InputMode, Appending
  <1>5. IoMode'
    BY DEF IInv, IoMode, View, AtRest, Appending
  <1>6. Lengths'
    BY DEF IInv, Lengths
  <1> QED BY <1>1, <1>2, <1>4, <1>5, <1>6 DEF IInv

LEMMA StartKeeps ==
  ASSUME IInv, TypeInv', JournalOpen \/ JournalHead
  PROVE  IInv'
  <1> USE NoneOf DEF memory, ghosts
  <1>1. CASE JournalOpen
    <2>1. /\ pc = "jopen" /\ pc' = "jhead" /\ jrn' = EmptyJournal /\ jrn' # None
          /\ ~live.on /\ disk = committed /\ Undoable(fl.dirty, fl.undo, {})
          /\ UNCHANGED <<disk, mode, copied, hdr, dirty, undo, inTx, live, logical, committed>>
      BY <1>1, EmptyType, NoneAssumption DEF JournalOpen, IInv, JournalFirst
    <2>2. /\ fl'.left = disk.len
          /\ \A p \in Pages : fl'.undo[p] = IF p < disk.len THEN fl.undo[p] ELSE None
          /\ fl'.dirty = fl.dirty /\ fl'.spill = fl.spill /\ fl'.after = fl.after
          /\ fl'.long = fl.long
      BY <1>1 DEF JournalOpen, IInv, TypeInv, TypeOK, FlushLocals
    <2>3. Undoable(fl.dirty, fl.undo, {})' /\ Inside(fl.undo)'
      BY <2>1, <2>2 DEF Undoable, Inside
    <2>4. JournalFirst'
      BY <2>1, <2>2, <2>3 DEF JournalFirst
    <2>5. \A i \in 0 .. 1 : jrn'.slots[i] = None
      BY <2>1 DEF EmptyJournal
    <2>6. DOMAIN jrn'.recs = {}
      BY <2>1 DEF EmptyJournal
    <2>7. JournalIsOld' /\ Covered' /\ LiveIsJournal'
      BY <2>1, <2>5, <2>6 DEF JournalIsOld, Covered, Written, Readable, LiveIsJournal
    <2> QED BY <2>1, <2>2, <2>4, <2>7, JournalStepKeeps DEF Appending
  <1>2. CASE JournalHead
    <2>1. /\ pc = "jhead" /\ pc' = "jrecs" /\ jrn = EmptyJournal /\ jrn \in Journal
          /\ fl.left = committed.len /\ Inside(fl.undo)
          /\ ~live.on /\ disk = committed /\ Undoable(fl.dirty, fl.undo, {})
          /\ jrn' = [jrn EXCEPT !.slots[0] = [seq |-> 2, pages |-> committed.len, certified |-> 0]]
          /\ UNCHANGED <<disk, mode, copied, hdr, dirty, undo, inTx, live, logical, committed, fl>>
      BY <1>2, EmptyType DEF JournalHead, IInv, JournalFirst
    <2>2. jrn' # None
      BY <2>1 DEF TypeInv, JournalThere
    <2>3. /\ jrn'.slots[0] = [seq |-> 2, pages |-> committed.len, certified |-> 0]
          /\ jrn'.slots[1] = None /\ jrn'.recs = <<>>
      BY <2>1 DEF EmptyJournal
    <2>4. 0 \in Readable(jrn)'
      <3>1. 0 < committed.len
        BY DEF IInv, Whole
      <3>2. jrn'.slots[0] \in Slot
        BY <2>1, <2>3 DEF Slot, IInv, TypeInv, TypeOK, Container
      <3> QED BY <2>3, <3>1, <3>2, NoneAssumption DEF Readable, Torn
    <2>5. DOMAIN jrn'.recs = {}
      BY <2>3
    <2>6. Written'
      BY <2>2, <2>4 DEF Written
    <2>7. JournalIsOld'
      <3>1. \A i \in 0 .. 1 : i = 0 \/ i = 1
        OBVIOUS
      <3> QED BY <2>1, <2>3, <2>5, <3>1 DEF JournalIsOld
    <2>8. Covered' /\ LiveIsJournal'
      BY <2>1, <2>6, PagesAssumption
      DEF Covered, LiveIsJournal, IInv, TypeInv, TypeOK, Container
    <2>9. JournalFirst'
      BY <2>1, <2>5, <2>6 DEF JournalFirst, Undoable, Inside, Ids
    <2>10. fl.long \in BOOLEAN
      BY DEF IInv, TypeInv, TypeOK, FlushLocals
    <2> QED BY <2>1, <2>7, <2>8, <2>9, JournalStepKeeps DEF Appending
  <1> QED BY <1>1, <1>2

LEMMA RecordKeeps ==
  ASSUME IInv, TypeInv', NEW p \in Pages, JournalRecord(p)
  PROVE  IInv'
  <1> USE NoneOf DEF memory, ghosts
  <1> DEFINE r == [id |-> p, img |-> fl.undo[p]]
  <1>1. /\ pc = "jrecs" /\ pc' = "jrecs" /\ fl.undo[p] # None
        /\ Written /\ Inside(fl.undo) /\ Undoable(fl.dirty, fl.undo, Ids(jrn))
        /\ live.on \/ fl.left = committed.len
        /\ UNCHANGED <<disk, mode, copied, hdr, dirty, undo, inTx, live, logical, committed>>
    BY DEF JournalRecord, IInv, JournalFirst
  <1>2. /\ fl'.left = fl.left /\ fl'.dirty = fl.dirty /\ fl'.spill = fl.spill
        /\ fl'.after = fl.after /\ fl'.long = fl.long
        /\ \A q \in Pages : fl'.undo[q] = IF q = p THEN None ELSE fl.undo[q]
    BY DEF JournalRecord, IInv, TypeInv, TypeOK, FlushLocals, WriteSet
  <1>3. jrn \in Journal /\ jrn' \in Journal /\ jrn' # None
    BY <1>1 DEF Written, IInv, TypeInv, TypeOK, JournalThere
  <1>4. jrn'.slots = jrn.slots /\ jrn'.recs = Append(jrn.recs, r)
    BY <1>3 DEF JournalRecord, Journal
  <1>5. /\ DOMAIN jrn'.recs = DOMAIN jrn.recs \cup {Len(jrn.recs) + 1}
        /\ \A i \in DOMAIN jrn.recs : jrn'.recs[i] = jrn.recs[i]
        /\ jrn'.recs[Len(jrn.recs) + 1] = r
    <2> HIDE DEF r
    <2>1. jrn.recs \in Seq(Record)
      BY <1>3 DEF Journal
    <2>2. r \in Record
      BY <1>1 DEF r, Record, IInv, TypeInv, TypeOK, FlushLocals, WriteSet
    <2> QED BY <1>4, <2>1, <2>2
  <1>6. Ids(jrn)' = Ids(jrn) \cup {p}
    BY <1>5 DEF Ids
  <1>7. p < committed.len /\ fl.undo[p] = committed.page[p]
    BY <1>1 DEF Inside, Undoable
  <1>8. JournalIsOld'
    BY <1>1, <1>3, <1>4, <1>5, <1>7 DEF IInv, JournalIsOld, Written
  <1>9. Written'
    BY <1>1, <1>3, <1>4 DEF Written, Readable
  <1>10. Covered' /\ LiveIsJournal'
    BY <1>1, <1>6, <1>9 DEF IInv, Covered, LiveIsJournal
  <1>11. JournalFirst'
    BY <1>1, <1>2, <1>6, <1>9 DEF JournalFirst, Undoable, Inside
  <1>12. live'.on => fl.long
    BY <1>1 DEF IInv, InFlush, Appending
  <1>13. mode = "input" => ~live'.on
    BY <1>1 DEF IInv, InputMode
  <1> QED BY <1>1, <1>2, <1>8, <1>10, <1>11, <1>12, <1>13, JournalStepKeeps DEF Appending

LEMMA CertifyKeeps ==
  ASSUME IInv, TypeInv', JournalSync \/ JournalCertify \/ CertifySync
  PROVE  IInv'
  <1> USE NoneOf DEF memory, ghosts
  <1>1. CASE JournalSync
    <2>1. /\ pc = "jrecs" /\ In(fl.undo) = {} /\ pc' = (IF fl.long THEN "jcert" ELSE "page")
          /\ Written /\ Undoable(fl.dirty, fl.undo, Ids(jrn))
          /\ live.on \/ fl.left = committed.len
          /\ UNCHANGED <<disk, jrn, mode, copied, hdr, dirty, undo, inTx, logical, committed, fl>>
      BY <1>1 DEF JournalSync, IInv, JournalFirst
    <2>2. IF fl.long
          THEN live'.on /\ live'.ids = Ids(jrn)
               /\ live'.orig = (IF live.on THEN live.orig ELSE fl.left)
          ELSE live' = live
      BY <1>1 DEF JournalSync, Ids
    <2>3. live.on => fl.long
      BY <2>1 DEF IInv, InFlush, Appending
    <2>4. LiveIsJournal'
      BY <2>1, <2>2, <2>3 DEF IInv, LiveIsJournal, Written, Readable, Ids
    <2>5. JournalFirst'
      BY <2>1, <2>2 DEF JournalFirst, Undoable, In, Written, Readable, Ids
    <2>6. JournalIsOld' /\ Covered'
      BY <2>1, SameFiles
    <2>7. mode = "input" => ~live'.on
      BY <2>2 DEF IInv, InputMode
    <2>8. live'.on => fl.long
      BY <2>2, <2>3
    <2> QED BY <2>1, <2>4, <2>5, <2>6, <2>7, <2>8, JournalStepKeeps DEF Appending
  <1>2. CASE JournalCertify
    <2>1. /\ pc = "jcert" /\ pc' = "jcertsync" /\ Written /\ live.on
          /\ Undoable(fl.dirty, NoPages, Ids(jrn))
          /\ UNCHANGED <<disk, mode, copied, hdr, dirty, undo, inTx, logical, committed, fl>>
      BY <1>2 DEF JournalCertify, IInv, JournalFirst
    <2>2. /\ live'.on = live.on /\ live'.orig = live.orig /\ live'.ids = live.ids
          /\ live'.seq = live.seq + 1 /\ live.seq \in Nat
      BY <1>2 DEF JournalCertify, IInv, TypeInv, TypeOK, LiveFields
    <2>3. jrn \in Journal /\ jrn' # None /\ jrn' \in Journal
      BY <2>1, <2>2 DEF Written, IInv, TypeInv, TypeOK, JournalThere
    <2> DEFINE i == SlotOf(live'.seq)
               s == [seq |-> live'.seq, pages |-> live.orig, certified |-> live.recs]
    <2>4. i \in 0 .. 1
      BY <2>2 DEF SlotOf
    <2>5. jrn' = [jrn EXCEPT !.slots[i] = s]
      BY <1>2 DEF JournalCertify
    <2>6. s.pages = committed.len /\ s # Torn /\ s # None
      <3>1. live.orig = committed.len /\ 0 < committed.len
        BY <2>1 DEF IInv, LiveIsJournal, Whole
      <3>2. s \in Slot
        BY <2>2 DEF IInv, TypeInv, TypeOK, LiveFields, Slot
      <3> QED BY <3>1, <3>2, NoneAssumption DEF Torn
    <2> HIDE DEF i, s
    <2>7. /\ jrn'.recs = jrn.recs
          /\ \A k \in 0 .. 1 : jrn'.slots[k] = IF k = i THEN s ELSE jrn.slots[k]
      BY <2>3, <2>4, <2>5 DEF Journal
    <2>8. Written'
      BY <2>3, <2>4, <2>6, <2>7 DEF Written, Readable
    <2>9. Ids(jrn)' = Ids(jrn)
      BY <2>7 DEF Ids
    <2>10. JournalIsOld'
      BY <2>1, <2>6, <2>7 DEF IInv, JournalIsOld, Written
    <2>11. Covered' /\ LiveIsJournal'
      BY <2>1, <2>2, <2>8, <2>9 DEF IInv, Covered, LiveIsJournal
    <2>12. JournalFirst'
      BY <2>1, <2>2, <2>8, <2>9 DEF JournalFirst, Undoable
    <2>13. live'.on => fl.long
      BY <2>1 DEF IInv, InFlush, Appending
    <2>14. mode = "input" => ~live'.on
      BY <2>1 DEF IInv, InputMode
    <2> QED BY <2>1, <2>10, <2>11, <2>12, <2>13, <2>14, JournalStepKeeps DEF Appending
  <1>3. CASE CertifySync
    <2>1. /\ pc = "jcertsync" /\ pc' = "page"
          /\ UNCHANGED <<disk, jrn, mode, copied, hdr, dirty, undo, inTx, live, logical, committed, fl>>
      BY <1>3 DEF CertifySync
    <2>2. JournalIsOld' /\ Covered'
      BY <2>1, SameFiles
    <2>3. LiveIsJournal' /\ JournalFirst'
      BY <2>1 DEF IInv, LiveIsJournal, JournalFirst, Undoable, Written, Readable, Ids
    <2>4. (live'.on => fl.long) /\ (mode = "input" => ~live'.on)
      BY <2>1 DEF IInv, InFlush, InputMode, Appending
    <2> QED BY <2>1, <2>2, <2>3, <2>4, JournalStepKeeps DEF Appending
  <1> QED BY <1>1, <1>2, <1>3

LEMMA WritePageKeeps ==
  ASSUME IInv, TypeInv', NEW p \in Pages, WritePage(p)
  PROVE  IInv'
  <1> USE NoneOf DEF memory, ghosts
  <1>1. /\ pc = "page" /\ pc' = pc /\ mode = "io" /\ fl.dirty[p] # None
        /\ Written /\ Undoable(fl.dirty, NoPages, Ids(jrn)) /\ AtRest
        /\ UNCHANGED <<jrn, mode, copied, hdr, dirty, undo, inTx, live, logical, committed>>
    BY DEF WritePage, NextPage, IInv, JournalFirst, InFlush, Appending
  <1>2. /\ fl'.spill = fl.spill /\ fl'.after = fl.after /\ fl'.long = fl.long
        /\ \A q \in Pages : fl'.dirty[q] = IF q = p THEN None ELSE fl.dirty[q]
    BY DEF WritePage, IInv, TypeInv, TypeOK, FlushLocals, WriteSet
  <1>3. p \in Nat /\ disk.len \in Nat /\ logical.len \in Nat /\ committed.len \in Nat
    BY PagesAssumption DEF Pages, IInv, TypeInv, TypeOK, Container
  <1>4. p < logical.len
    BY <1>1 DEF IInv, Lengths
  <1>5. /\ disk'.len = IF p < disk.len THEN disk.len ELSE p + 1
        /\ \A q \in Pages : disk'.page[q] = IF q = p THEN fl.dirty[p] ELSE disk.page[q]
    BY DEF WritePage, Put, IInv, TypeInv, TypeOK, Container
  <1>6. ZeroPast(disk)'
    <2> SUFFICES ASSUME NEW q \in Pages, disk'.len <= q PROVE disk'.page[q] = Zero
      BY DEF ZeroPast
    <2>1. q \in Nat
      BY PagesAssumption DEF Pages
    <2>2. q # p /\ disk.len <= q
      BY <1>3, <1>5, <2>1
    <2> QED BY <1>5, <2>2 DEF IInv, ZeroPast
  <1>7. Whole(committed)' /\ ZeroPast(logical)' /\ JournalIsOld'
    BY <1>1 DEF IInv, Whole, ZeroPast, JournalIsOld
  <1>8. Covered'
    <2>1. committed.len <= disk.len /\ committed.len <= disk'.len
      BY <1>1, <1>3, <1>5 DEF IInv, Covered
    <2>2. p < committed.len => p \in Ids(jrn)
      BY <1>1 DEF Undoable
    <2> QED BY <1>1, <1>5, <2>1, <2>2 DEF IInv, Covered, Written, Readable, Ids
  <1>9. LiveIsJournal' /\ BetweenVerbs' /\ Recovering' /\ InFlush' /\ Ended' /\ ClosedMode'
    BY <1>1, <1>2 DEF IInv, LiveIsJournal, Written, Readable, Ids, BetweenVerbs, Recovering,
                      InFlush, AtRest, Appending, Ending, Ended, ClosedMode
  <1>10. JournalFirst'
    BY <1>1, <1>2 DEF IInv, JournalFirst, Undoable, Written, Readable, Ids
  <1>11. InputMode'
    BY <1>1 DEF InputMode
  <1>12. IoMode'
    <2>1. 0 \in Pages /\ \A q \in Pages : dirty[q] = None
      BY <1>1, PagesAssumption DEF Pages, AtRest
    <2>2. View' = View
      BY <1>1, <1>2, <1>5, <2>1 DEF View
    <2>3. ~live.on /\ pc' \in {"idle", "spill"} => jrn = None
      BY <1>1
    <2>4. disk'.page[0] = hdr \/ fl'.dirty[0] # None \/ inTx'
      BY <1>1, <1>2, <1>5, <2>1 DEF IInv, IoMode
    <2>5. fl'.dirty[0] # None => fl'.dirty[0] = hdr
      BY <1>1, <1>2, <2>1 DEF IInv, IoMode
    <2> QED BY <1>1, <2>2, <2>3, <2>4, <2>5 DEF IInv, IoMode, AtRest
  <1>13. Lengths'
    <2>1. disk'.len <= logical.len
      BY <1>1, <1>3, <1>4, <1>5 DEF IInv, Lengths
    <2>2. \A q \in Pages : dirty[q] # None \/ fl'.dirty[q] # None => q < logical.len
      BY <1>1, <1>2 DEF IInv, Lengths
    <2>3. CASE disk.len = logical.len
      BY <1>1, <1>3, <1>4, <1>5, <2>1, <2>2, <2>3 DEF Lengths
    <2>4. CASE disk.len # logical.len
      <3>1. PICK q \in Pages : q + 1 = logical.len /\ (dirty[q] # None \/ fl.dirty[q] # None)
        BY <1>1, <2>4 DEF IInv, Lengths
      <3>2. CASE q = p
        <4>1. disk.len <= logical.len
          BY <1>1 DEF IInv, Lengths
        <4>2. disk'.len = logical.len
          BY <1>3, <1>5, <2>4, <3>1, <3>2, <4>1
        <4> QED BY <1>1, <2>1, <2>2, <4>2 DEF Lengths
      <3>3. CASE q # p
        BY <1>1, <1>2, <2>1, <2>2, <3>1, <3>3 DEF Lengths
      <3> QED BY <3>2, <3>3
    <2> QED BY <2>3, <2>4
  <1> QED BY <1>6, <1>7, <1>8, <1>9, <1>10, <1>11, <1>12, <1>13 DEF IInv

(* Once every page is written and synced the container is what the program  *)
(* reads: removing the journal commits exactly that.                        *)
LEMMA FlushedIsLogical ==
  ASSUME IInv, pc = "finish"
  PROVE  disk = logical /\ Whole(logical)
  <1> USE NoneOf
  <1>1. mode = "io" /\ fl.dirty = NoPages /\ AtRest
    BY DEF IInv, Ended, Ending, InFlush
  <1>2. disk \in Container /\ logical \in Container /\ 0 \in Pages
    BY PagesAssumption DEF IInv, TypeInv, TypeOK, Pages
  <1>3. disk.len = logical.len
    BY <1>1 DEF IInv, Lengths, AtRest
  <1>4. disk.page[0] = hdr /\ View = logical.page /\ hdr.next = logical.len
    BY <1>1, <1>2 DEF IInv, IoMode, AtRest
  <1>5. \A p \in Pages : View[p] = disk.page[p]
    BY <1>1, <1>4 DEF View, AtRest
  <1>6. disk = logical
    BY <1>2, <1>3, <1>4, <1>5, SameContainer
  <1>7. 0 < logical.len
    <2>1. committed.len <= disk.len /\ 0 < committed.len
      BY PagesAssumption DEF IInv, Covered, Whole, TypeInv, TypeOK, Container
    <2> QED BY <1>2, <1>3, <2>1, PagesAssumption DEF IInv, TypeInv, TypeOK, Container
  <1> QED BY <1>4, <1>6, <1>7 DEF IInv, Whole

LEMMA FinishKeeps ==
  ASSUME IInv, TypeInv', JournalFinish
  PROVE  IInv'
  <1> USE NoneOf DEF ghosts
  <1>1. /\ pc = "finish" /\ jrn' = None /\ ~live'.on /\ committed' = logical
        /\ UNCHANGED <<disk, mode, copied, hdr, dirty, undo, inTx, logical>>
        /\ \/ live.on /\ pc' = "fdir" /\ UNCHANGED fl
           \/ Return(fl.after, TRUE)
    BY DEF JournalFinish, NotLive
  <1>2. mode = "io" /\ fl.dirty = NoPages /\ AtRest
    BY <1>1 DEF IInv, Ended, Ending, InFlush
  <1>3. disk = logical /\ Whole(logical)
    BY <1>1, FlushedIsLogical
  <1>4. /\ pc' \in {"fdir", "idle", "hsync", "header"} /\ fl'.dirty = NoPages
        /\ pc' # "idle" => (fl'.spill => fl'.after = "verb" /\ fl'.long)
        /\ pc' # "idle" => (fl'.after = "verb" => fl'.spill)
    <2>1. CASE Return(fl.after, TRUE)
      <3>1. pc' \in {"idle", "hsync", "header"} /\ (pc' = "idle" <=> fl.after = "verb")
        BY <2>1 DEF Return
      <3>2. fl'.dirty = NoPages /\ ~fl'.spill /\ (pc' # "idle" => fl'.after # "verb")
        BY <2>1 DEF Return, NoFlush
      <3> QED BY <3>1, <3>2
    <2>2. CASE pc' = "fdir" /\ UNCHANGED fl
      BY <1>1, <1>2, <2>2 DEF IInv, InFlush, Ending
    <2> QED BY <1>1, <2>1, <2>2
  <1>5. ZeroPast(disk)' /\ Whole(committed)' /\ ZeroPast(logical)' /\ JournalIsOld' /\ Covered'
    BY <1>1, <1>3 DEF IInv, ZeroPast, Whole, JournalIsOld, Covered, Written
  <1>6. LiveIsJournal' /\ BetweenVerbs' /\ Recovering' /\ InFlush' /\ JournalFirst' /\ Ended'
    BY <1>1, <1>2, <1>4
    DEF LiveIsJournal, BetweenVerbs, Undoable, AtRest, Recovering, InFlush, Appending, Ending,
        JournalFirst, Ended
  <1>7. ClosedMode' /\ InputMode'
    BY <1>1, <1>2 DEF ClosedMode, InputMode
  <1>8. IoMode' /\ Lengths'
    BY <1>1, <1>2, <1>4 DEF IInv, IoMode, View, AtRest, Lengths
  <1> QED BY <1>5, <1>6, <1>7, <1>8 DEF IInv

LEMMA LastSyncKeeps ==
  ASSUME IInv, TypeInv', NEW ok, LastSync(ok), pc = "hsync",
         UNCHANGED <<disk, jrn, logical, committed>>
  PROVE  IInv'
  <1> USE NoneOf
  <1>1. CASE fl.after = "close"
    BY <1>1, ForgetKeeps DEF LastSync, IInv, ZeroPast
  <1>2. CASE fl.after # "close"
    <2>1. /\ pc' = "idle" /\ fl' = NoFlush
          /\ UNCHANGED <<mode, copied, hdr, dirty, undo, inTx, live>>
      BY <1>2 DEF LastSync
    <2>2. AtRest /\ ~live.on /\ fl.dirty = NoPages /\ (mode = "io" => jrn = None)
      BY DEF IInv, InFlush, Ended, Ending
    <2>3. NoFlush.dirty = NoPages /\ NoFlush.long = FALSE
      BY DEF NoFlush
    <2>4. ZeroPast(disk)' /\ Whole(committed)' /\ ZeroPast(logical)' /\ JournalIsOld' /\ Covered'
      BY SameFiles DEF IInv, ZeroPast
    <2>5. LiveIsJournal' /\ BetweenVerbs' /\ Recovering' /\ InFlush' /\ JournalFirst' /\ Ended'
      BY <2>1, <2>2, <2>3
      DEF LiveIsJournal, BetweenVerbs, Undoable, AtRest, Recovering, InFlush, Appending, Ending,
          JournalFirst, Ended
    <2>6. ClosedMode' /\ InputMode' /\ IoMode' /\ Lengths'
      BY <2>1, <2>2, <2>3
      DEF IInv, ClosedMode, InputMode, Appending, IoMode, View, AtRest, Lengths
    <2> QED BY <2>4, <2>5, <2>6 DEF IInv
  <1> QED BY <1>1, <1>2

LEMMA CommitKeeps ==
  ASSUME IInv, TypeInv', PagesSync \/ FinishDir \/ Header \/ HeaderSync
  PROVE  IInv'
  <1> USE NoneOf DEF files, memory, ghosts
  <1>0. pc \in Appending \cup Ending => mode # "closed" /\ AtRest /\ (mode = "input" => ~copied)
    BY DEF IInv, TypeInv, JournalThere, InFlush, InputMode, Appending, Ending
  <1>1. CASE PagesSync
    <2>1. /\ pc = "page" /\ In(fl.dirty) = {} /\ Written
          /\ UNCHANGED <<disk, jrn, mode, copied, hdr, dirty, undo, inTx, live, logical, committed>>
      BY <1>1 DEF PagesSync, IInv, JournalFirst
    <2>2. fl.dirty = NoPages
      <3>1. \A p \in Pages : fl.dirty[p] = None
        BY <2>1 DEF In
      <3> QED BY <3>1 DEF IInv, TypeInv, TypeOK, FlushLocals, WriteSet, NoPages
    <2>3. mode = "io"
      BY <1>0, <2>1, <2>2, PagesAssumption
      DEF IInv, InputMode, Appending, Pages, TypeInv, TypeOK
    <2>4. CASE fl.spill
      <3>1. fl.after = "verb" /\ live.on
        BY <2>1, <2>4 DEF IInv, InFlush, Appending, JournalFirst
      <3> QED BY <1>0, <1>1, <2>1, <2>2, <2>3, <2>4, <3>1, ReturnKeeps
              DEF PagesSync, AtRest, Appending
    <2>5. CASE ~fl.spill
      <3>1. pc' = "finish" /\ UNCHANGED fl
        BY <1>1, <2>5 DEF PagesSync
      <3>2. ZeroPast(disk)' /\ Whole(committed)' /\ ZeroPast(logical)' /\ JournalIsOld' /\ Covered'
        BY <2>1, SameFiles DEF IInv, ZeroPast
      <3>3. LiveIsJournal' /\ BetweenVerbs' /\ Recovering' /\ InFlush' /\ JournalFirst' /\ Ended'
        BY <2>1, <2>2, <2>3, <3>1
        DEF IInv, LiveIsJournal, Written, Readable, Ids, BetweenVerbs, Recovering, InFlush, AtRest,
            Appending, Ending, JournalFirst, Ended
      <3>4. ClosedMode' /\ InputMode' /\ IoMode' /\ Lengths'
        BY <2>1, <2>3, <3>1 DEF IInv, ClosedMode, InputMode, IoMode, View, AtRest, Lengths
      <3> QED BY <3>2, <3>3, <3>4 DEF IInv
    <2> QED BY <2>4, <2>5
  <1>2. CASE FinishDir
    <2>1. fl.after = "verb" => mode # "input"
      BY <1>2 DEF FinishDir, IInv, InFlush, InputMode, Ending
    <2> QED BY <1>0, <1>2, <2>1, ReturnKeeps
            DEF FinishDir, AtRest, Ending, IInv, Ended, TypeInv, TypeOK
  <1>3. CASE Header
    <2>1. pc = "header" /\ pc' = "hsync" /\ mode = "io"
          /\ UNCHANGED <<jrn, mode, copied, hdr, dirty, undo, inTx, live, logical, committed, fl>>
      BY <1>3 DEF Header
    <2>2. disk.page[0] = hdr /\ 0 < disk.len
      <3>1. fl.dirty = NoPages /\ ~inTx /\ jrn = None
        BY <2>1 DEF IInv, Ended, Ending, InFlush, AtRest
      <3>2. disk.page[0] = hdr
        BY <2>1, <3>1, PagesAssumption DEF IInv, IoMode, Pages
      <3> QED BY <3>1, <3>2 DEF IInv, Covered, Written, Whole
    <2>3. disk' = disk
      <3>1. [disk.page EXCEPT ![0] = hdr] = disk.page
        BY <2>2 DEF IInv, TypeInv, TypeOK, Container
      <3>2. disk = [len |-> disk.len, page |-> disk.page]
        BY DEF IInv, TypeInv, TypeOK, Container
      <3> QED BY <1>3, <2>2, <3>1, <3>2 DEF Header, Put
    <2>4. ZeroPast(disk)' /\ Whole(committed)' /\ ZeroPast(logical)' /\ JournalIsOld' /\ Covered'
      BY <2>1, <2>3, SameFiles DEF IInv, ZeroPast
    <2>5. LiveIsJournal' /\ BetweenVerbs' /\ Recovering' /\ InFlush' /\ JournalFirst' /\ Ended'
      BY <2>1 DEF IInv, LiveIsJournal, Written, Readable, Ids, BetweenVerbs, Recovering,
                  InFlush, AtRest, Appending, Ending, JournalFirst, Ended
    <2>6. ClosedMode' /\ InputMode' /\ IoMode' /\ Lengths'
      BY <2>1, <2>3 DEF IInv, ClosedMode, InputMode, IoMode, View, AtRest, Lengths
    <2> QED BY <2>4, <2>5, <2>6 DEF IInv
  <1>4. CASE HeaderSync
    BY <1>4, LastSyncKeeps DEF HeaderSync
  <1> QED BY <1>1, <1>2, <1>3, <1>4

LEMMA FailuresKeep ==
  ASSUME NoDiskErrors, IInv, TypeInv', FlushFails \/ HeaderFails \/ LastSyncFails \/ Kill
  PROVE  IInv'
  <1> USE NoneOf DEF files, memory, ghosts
  <1>1. CASE FlushFails
    <2>1. /\ pc = "page" /\ mode = "input" /\ Return(fl.after, FALSE)
          /\ UNCHANGED <<disk, jrn, mode, copied, hdr, dirty, undo, inTx, live, logical, committed>>
      BY <1>1 DEF FlushFails, IoError, NoDiskErrors
    <2>2. AtRest /\ ~live.on /\ ~copied /\ fl.after # "verb"
      BY <2>1 DEF IInv, InFlush, InputMode, Appending
    <2> QED BY <2>1, <2>2, ReturnKeeps DEF AtRest
  <1>2. CASE HeaderFails
    <2>1. /\ pc = "header" /\ mode = "input" /\ pc' = "hsync" /\ fl' = [fl EXCEPT !.bad = TRUE]
          /\ UNCHANGED <<disk, jrn, mode, copied, hdr, dirty, undo, inTx, live, logical, committed>>
      BY <1>2 DEF HeaderFails, IoError, NoDiskErrors
    <2>2. /\ fl'.dirty = fl.dirty /\ fl'.spill = fl.spill /\ fl'.after = fl.after
          /\ fl'.long = fl.long
      BY <2>1 DEF IInv, TypeInv, TypeOK, FlushLocals
    <2>3. ZeroPast(disk)' /\ Whole(committed)' /\ ZeroPast(logical)' /\ JournalIsOld' /\ Covered'
      BY <2>1, SameFiles DEF IInv, ZeroPast
    <2>4. LiveIsJournal' /\ BetweenVerbs' /\ Recovering' /\ InFlush' /\ JournalFirst' /\ Ended'
      BY <2>1, <2>2 DEF IInv, LiveIsJournal, Written, Readable, Ids, BetweenVerbs, Recovering,
                        InFlush, AtRest, Appending, Ending, JournalFirst, Ended
    <2>5. ClosedMode' /\ InputMode' /\ IoMode' /\ Lengths'
      BY <2>1, <2>2 DEF IInv, ClosedMode, InputMode, Appending, IoMode, Lengths
    <2> QED BY <2>3, <2>4, <2>5 DEF IInv
  <1>3. CASE LastSyncFails
    BY <1>3 DEF LastSyncFails, IoError, NoDiskErrors
  <1>4. CASE Kill
    BY <1>4, ForgetKeeps DEF Kill, Crash, IInv, Whole, ZeroPast
  <1> QED BY <1>1, <1>2, <1>3, <1>4

LEMMA RecoveryStep ==
  ASSUME NoDiskErrors, IInv, [Next]_vars, ~PowerLoss
  PROVE  IInv'
  <1>0. TypeInv'
    BY TypeNext DEF IInv
  <1>1. CASE Calls
    <2>1. ASSUME NEW S \in SUBSET (Pages \ {0}), NEW n \in 1 .. MaxPages, Verb(S, n)
          PROVE  IInv'
      BY <1>0, <2>1, VerbKeeps
    <2> QED BY <1>0, <1>1, <2>1, OpenKeeps, CallsKeep DEF Calls
  <1>2. CASE Recovery
    BY <1>0, <1>2, RecoveryKeeps
  <1>3. CASE Flush
    <2>1. ASSUME NEW p \in Pages, JournalRecord(p) \/ WritePage(p)
          PROVE  IInv'
      BY <1>0, <2>1, RecordKeeps, WritePageKeeps
    <2>2. CASE Spill \/ JournalOpen \/ JournalHead \/ JournalSync \/ JournalCertify \/ CertifySync
      BY <1>0, <2>2, CallsKeep, StartKeeps, CertifyKeeps
    <2>3. CASE PagesSync \/ JournalFinish \/ FinishDir \/ Header \/ HeaderSync
      BY <1>0, <2>3, CommitKeeps, FinishKeeps
    <2>4. CASE FlushFails \/ HeaderFails \/ LastSyncFails
      BY <1>0, <2>4, FailuresKeep
    <2> QED BY <1>3, <2>1, <2>2, <2>3, <2>4 DEF Flush
  <1>4. CASE Kill
    BY <1>0, <1>4, FailuresKeep
  <1>5. CASE UNCHANGED vars
    <2> USE <1>5 DEF vars, files, memory, ghosts
    <2>1. ZeroPast(disk)' /\ Whole(committed)' /\ ZeroPast(logical)' /\ JournalIsOld' /\ Covered'
      BY SameFiles DEF IInv, ZeroPast
    <2>2. LiveIsJournal' /\ BetweenVerbs' /\ Recovering' /\ InFlush' /\ JournalFirst' /\ Ended'
      BY DEF IInv, LiveIsJournal, Written, Readable, Ids, BetweenVerbs, Undoable, Inside,
             JournalIds, Recovering, InFlush, AtRest, JournalFirst, Ended
    <2>3. ClosedMode' /\ InputMode' /\ IoMode' /\ Lengths'
      BY DEF IInv, ClosedMode, AtRest, InputMode, IoMode, View, Lengths
    <2> QED BY <1>0, <2>1, <2>2, <2>3 DEF IInv
  <1> QED BY <1>1, <1>2, <1>3, <1>4, <1>5 DEF Next

LEMMA RecoveryNext ==
  ASSUME OnlyKills, IInv, [Next]_vars
  PROVE  IInv'
  <1>1. ~PowerLoss
    BY DEF PowerLoss, OnlyKills
  <1> QED BY <1>1, RecoveryStep DEF OnlyKills

-----------------------------------------------------------------------------
(* The refinement: what recovery would find is committed, what the program  *)
(* reads is logical, so that each step of Store shows.                      *)
Seen == IF mode = "io" THEN logical.page ELSE committed.page

StoreIs == /\ Recovered(disk, jrn).page = committed.page
           /\ (IF mode = "io" THEN View ELSE Recovered(disk, jrn).page) = Seen

LEMMA StoreVariables == IInv => StoreIs
  BY RecoveredIsCommitted DEF IInv, IoMode, Seen, StoreIs

LEMMA StoreVariablesNext == IInv' => StoreIs'
  BY StoreVariables, PTL

LEMMA StoreStep ==
  ASSUME OnlyKills, IInv, IInv', [Next]_vars
  PROVE  \/ UNCHANGED <<mode = "io", Seen, committed.page, faults>>
         \/ /\ mode # "io" /\ mode' = "io"
            /\ UNCHANGED <<Seen, committed.page, faults>>
         \/ /\ mode = "io" /\ Seen' \in [Pages -> Image]
            /\ UNCHANGED <<mode, committed.page, faults>>
         \/ /\ mode = "io" /\ committed'.page = Seen
            /\ UNCHANGED <<mode, Seen, faults>>
         \/ /\ mode = "io" /\ mode' # "io" /\ Seen = committed.page
            /\ UNCHANGED <<Seen, committed.page, faults>>
         \/ /\ mode' # "io" /\ Seen' = committed.page /\ faults' = faults + 1
            /\ UNCHANGED committed.page
  <1> USE DEF files, memory, ghosts
  <1>1. CASE OpenInput \/ CloseInput
    BY <1>1 DEF OpenInput, CanOpen, Opened, CloseInput, Forget, Seen
  <1>2. CASE OpenIo \/ RecoverDone
    <2>1. CASE Opened("io", disk) /\ mode = "closed" /\ disk' = disk /\ UNCHANGED faults
      <3>1. mode' = "io" /\ logical' = disk /\ committed' = committed
        BY <2>1 DEF Opened
      <3>2. disk = committed
        <4>1. jrn = None \/ NotWritten(jrn) \/ pc = "rdir"
          BY <1>2, <2>1 DEF OpenIo, RecoverDone, Opened, CanOpen
        <4> QED BY <4>1 DEF IInv, Covered, Written, NotWritten, Readable, Recovering
      <3> QED BY <2>1, <3>1, <3>2 DEF Seen
    <2>2. CASE UNCHANGED <<mode, logical, committed, faults>>
      BY <2>2 DEF Seen
    <2>3. pc = "rdir" => mode = "closed"
      BY DEF IInv, TypeInv, JournalThere
    <2> QED BY <1>2, <2>1, <2>2, <2>3 DEF OpenIo, RecoverDone, CanOpen
  <1>3. CASE \E S \in SUBSET (Pages \ {0}), n \in 1 .. MaxPages : Verb(S, n)
    <2>1. mode = "io" /\ UNCHANGED <<mode, committed, faults>>
      BY <1>3 DEF Verb
    <2>2. Seen' \in [Pages -> Image]
      BY <2>1 DEF Seen, IInv, TypeInv, TypeOK, Container
    <2> QED BY <2>1, <2>2
  <1>4. CASE JournalFinish
    <2>1. mode = "io"
      BY <1>4 DEF JournalFinish, IInv, Ended
    <2>2. UNCHANGED <<mode, logical, faults>> /\ committed' = logical
      BY <1>4 DEF JournalFinish
    <2> QED BY <2>1, <2>2 DEF Seen
  <1>5. CASE HeaderSync
    <2>1. CASE fl.after = "close" /\ mode = "io"
      <3>1. mode' = "closed" /\ UNCHANGED <<logical, committed, faults>>
        BY <1>5, <2>1 DEF HeaderSync, LastSync, Forget
      <3>2. fl.dirty = NoPages /\ AtRest /\ disk = committed
        BY <1>5, <2>1 DEF HeaderSync, IInv, Ended, Ending, InFlush, Covered, Written
      <3>3. View = committed.page
        <4>1. 0 \in Pages
          BY PagesAssumption DEF Pages
        <4>2. disk.page[0] = hdr
          BY <2>1, <3>2, <4>1, NoneOf DEF IInv, IoMode, AtRest
        <4>3. View = [p \in Pages |-> disk.page[p]]
          BY <3>2, <4>1, <4>2, NoneOf DEF View, AtRest
        <4> QED BY <3>2, <4>3 DEF IInv, TypeInv, TypeOK, Container
      <3>4. Seen = committed.page
        BY <2>1, <3>3 DEF Seen, IInv, IoMode
      <3> QED BY <2>1, <3>1, <3>4 DEF Seen
    <2>2. CASE fl.after # "close"
      BY <1>5, <2>2 DEF HeaderSync, LastSync, Seen
    <2>3. CASE fl.after = "close" /\ mode # "io"
      BY <1>5, <2>3 DEF HeaderSync, LastSync, Forget, Seen
    <2> QED BY <2>1, <2>2, <2>3
  <1>6. CASE Kill
    BY <1>6 DEF Kill, Crash, Fault, Forget, Seen
  <1>7. CASE UNCHANGED <<mode, logical, committed, faults>>
    BY <1>7 DEF Seen
  <1>8. CASE PowerLoss \/ LastSyncFails
    BY <1>8 DEF PowerLoss, LastSyncFails, IoError, OnlyKills, NoDiskErrors
  <1>9. CASE \/ Rejected \/ Commit \/ Close \/ Spill
             \/ RestorePage \/ CutContainer \/ RecoverSync \/ RecoverRemove
    BY <1>7, <1>9
    DEF Rejected, Commit, Close, Spill, RestorePage, CutContainer, RecoverSync, RecoverRemove
  <1>10. CASE \/ JournalOpen \/ JournalHead \/ JournalSync \/ JournalCertify \/ CertifySync
              \/ \E p \in Pages : JournalRecord(p) \/ WritePage(p)
    BY <1>7, <1>10
    DEF JournalOpen, JournalHead, JournalSync, JournalCertify, CertifySync, JournalRecord, WritePage
  <1>11. CASE PagesSync \/ FinishDir \/ Header \/ FlushFails \/ HeaderFails
    BY <1>7, <1>11 DEF PagesSync, FinishDir, Header, FlushFails, HeaderFails, IoError, OnlyKills, NoDiskErrors
  <1>12. CASE UNCHANGED vars
    BY <1>7, <1>12 DEF vars
  <1> QED BY <1>1, <1>2, <1>3, <1>4, <1>5, <1>6, <1>8, <1>9, <1>10, <1>11, <1>12
          DEF Next, Calls, Recovery, Flush

(* The disk engine, with every file operation a step of its own, implements *)
(* the transactional store: TxStore's variables change only as it allows.   *)
THEOREM JournalImplementsTxStore ==
  ASSUME OnlyKills
  PROVE  Spec => ImplementsTxStore
  <1>1. Init => Store!Init
    <2> SUFFICES ASSUME Init PROVE Store!Init
      OBVIOUS
    <2>1. IInv
      BY RecoveryInit
    <2>2. Recovered(disk, jrn).page = committed.page
      BY <2>1, StoreVariables DEF StoreIs
    <2>3. committed.page \in [Pages -> Image] /\ mode = "closed" /\ faults = 0
      BY <2>1 DEF IInv, TypeInv, TypeOK, Container, Init
    <2> QED BY <2>2, <2>3 DEF Store!Init
  <1>2. IInv /\ IInv' /\ [Next]_vars => [Store!Next]_(Store!vars)
    <2> SUFFICES ASSUME IInv, IInv', [Next]_vars PROVE [Store!Next]_(Store!vars)
      OBVIOUS
    <2>1. StoreIs /\ StoreIs'
      BY StoreVariables, StoreVariablesNext
    <2> DEFINE w == IF mode = "io" THEN View ELSE Recovered(disk, jrn).page
    <2>2. /\ w = Seen /\ w' = Seen'
          /\ Recovered(disk, jrn).page = committed.page
          /\ Recovered(disk, jrn).page' = committed'.page
      BY <2>1 DEF StoreIs
    <2> HIDE DEF w
    <2> QED BY <2>2, StoreStep
            DEF w, Store!Next, Store!vars, Store!Open, Store!Update, Store!Commit, Store!Close,
                Store!Crash
  <1>3. IInv /\ [Next]_vars => IInv'
    BY RecoveryNext
  <1> QED BY <1>1, <1>2, <1>3, RecoveryInit, PTL DEF Spec, Store!Spec, ImplementsTxStore
=============================================================================
