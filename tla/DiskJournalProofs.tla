------------------------- MODULE DiskJournalProofs -------------------------
(***************************************************************************)
(* Lemmas about containers and journals, and the type correctness of       *)
(* DiskJournal, for every number of pages, of verbs and of faults.         *)
(***************************************************************************)
EXTENDS DiskJournal, WellFoundedInduction, TLAPS

-----------------------------------------------------------------------------
(* Lemmas about containers.                                                 *)

LEMMA PutType ==
  ASSUME NEW c \in Container, NEW p \in Pages, NEW img \in Image
  PROVE  Put(c, p, img) \in Container
  BY PagesAssumption DEF Put, Container, Pages

LEMMA CutType ==
  ASSUME NEW c \in Container, NEW n \in 0 .. MaxPages
  PROVE  Cut(c, n) \in Container
  <1>1. Zero \in Image
    BY TagsAssumption, PagesAssumption DEF Zero, Image
  <1> QED BY <1>1 DEF Cut, Container, Pages

LEMMA SettledType == Settled \in Container /\ Fresh \in Image
  <1>1. Zero \in Image /\ Data(1) \in Image /\ Fresh \in Image
    BY TagsAssumption, PagesAssumption, InitAssumption DEF Zero, Data, Fresh, Image
  <1> QED BY <1>1, InitAssumption DEF Settled, Container, Pages

(* The slot recovery believes is one of the readable ones.                  *)
LEMMA NewestReadable ==
  ASSUME NEW j \in Journal, Readable(j) # {}
  PROVE  \E i \in 0 .. 1 : /\ i \in Readable(j)
                           /\ Newest(j) = j.slots[i] /\ j.slots[i] \in Slot
  <1> DEFINE Best(i) == \A k \in Readable(j) : j.slots[k].seq <= j.slots[i].seq
  <1>1. \A i \in Readable(j) : i \in 0 .. 1 /\ j.slots[i] \in Slot /\ j.slots[i].seq \in Nat
    BY DEF Readable, Journal, Slot
  <1>2. \E i \in Readable(j) : Best(i)
    <2>1. PICK a \in Readable(j) : TRUE
      OBVIOUS
    <2>2. CASE Best(a)
      BY <2>2
    <2>3. CASE ~Best(a)
      <3>1. PICK b \in Readable(j) : ~(j.slots[b].seq <= j.slots[a].seq)
        BY <2>3
      <3>2. \A k \in Readable(j) : k = a \/ k = b
        BY <3>1, <1>1, <2>1
      <3>3. Best(b)
        BY <3>1, <3>2, <1>1
      <3> QED BY <3>3
    <2> QED BY <2>2, <2>3
  <1>3. (CHOOSE i \in Readable(j) : Best(i)) \in Readable(j)
    BY <1>2
  <1> QED BY <1>1, <1>3 DEF Newest
-----------------------------------------------------------------------------
(* Type correctness.                                                        *)

LEMMA TypeInit == Init => TypeOK
  <1> SUFFICES ASSUME Init PROVE TypeOK
    OBVIOUS
  <1>1. NoPages \in WriteSet
    BY DEF NoPages, WriteSet
  <1>2. NotLive \in LiveFields /\ NoFlush \in FlushLocals
    BY <1>1, PagesAssumption DEF NotLive, LiveFields, NoFlush, FlushLocals
  <1>3. pc \in Steps /\ mode \in {"closed", "io", "input"} /\ faults \in 0 .. MaxFaults
    BY FaultsAssumption DEF Init, Steps
  <1> QED BY <1>1, <1>2, <1>3, SettledType, FaultsAssumption DEF Init, TypeOK

LEMMA ForgetType ==
  ASSUME TypeOK, Forget
  PROVE  /\ mode' \in {"closed", "io", "input"} /\ copied' \in BOOLEAN
         /\ hdr' \in Image /\ dirty' \in WriteSet /\ undo' \in WriteSet /\ inTx' \in BOOLEAN
         /\ live' \in LiveFields /\ ioFailed' \in BOOLEAN
         /\ pc' \in Steps /\ fl' \in FlushLocals
  <1>1. NoPages \in WriteSet
    BY DEF NoPages, WriteSet
  <1>2. NotLive \in LiveFields /\ NoFlush \in FlushLocals
    BY <1>1, PagesAssumption DEF NotLive, LiveFields, NoFlush, FlushLocals
  <1> QED BY <1>1, <1>2, SettledType DEF Forget, Steps

LEMMA ReturnType ==
  ASSUME TypeOK, NEW after \in {"none", "verb", "persist", "close"}, NEW ok \in BOOLEAN,
         Return(after, ok)
  PROVE  ioFailed' \in BOOLEAN /\ fl' \in FlushLocals /\ pc' \in Steps
  <1>1. NoPages \in WriteSet
    BY DEF NoPages, WriteSet
  <1>2. NoFlush \in FlushLocals
    BY <1>1 DEF NoFlush, FlushLocals
  <1>3. [NoFlush EXCEPT !.after = after, !.bad = ~ok] \in FlushLocals
    BY <1>2 DEF FlushLocals
  <1>4. fl' \in FlushLocals
    BY <1>2, <1>3 DEF Return
  <1>5. pc' \in Steps
    BY DEF Return, Steps
  <1>6. ioFailed' \in BOOLEAN
    BY DEF Return, TypeOK
  <1> QED BY <1>4, <1>5, <1>6

LEMMA TxFlushType ==
  ASSUME TypeOK, NEW spill \in BOOLEAN, NEW after \in {"verb", "persist", "close"},
         TxFlush(spill, after)
  PROVE  /\ ioFailed' \in BOOLEAN /\ fl' \in FlushLocals /\ pc' \in Steps
         /\ dirty' \in WriteSet /\ undo' \in WriteSet /\ inTx' \in BOOLEAN
  <1>1. CASE ~inTx /\ ~live.on
    <2>1. Return(after, TRUE) /\ UNCHANGED <<dirty, undo, inTx>>
      BY <1>1 DEF TxFlush
    <2> QED BY <2>1, ReturnType DEF TypeOK
  <1>2. CASE ~(~inTx /\ ~live.on)
    <2> DEFINE d == IF inTx THEN [dirty EXCEPT ![0] = hdr] ELSE dirty
               u == IF inTx /\ NeedsUndoImage(0)
                    THEN [undo EXCEPT ![0] = disk.page[0]] ELSE undo
               f == [NoFlush EXCEPT !.spill = spill, !.after = after,
                                    !.dirty = d, !.undo = u, !.long = live.on \/ spill]
    <2>1. /\ dirty' = NoPages /\ undo' = NoPages /\ inTx' = FALSE
          /\ fl' = f /\ UNCHANGED ioFailed
      BY <1>2 DEF TxFlush
    <2>2. pc' \in {"finish", "jopen", "jrecs", "page"}
      BY <1>2 DEF TxFlush
    <2>3. NoPages \in WriteSet
      BY DEF NoPages, WriteSet
    <2>4. d \in WriteSet /\ u \in WriteSet
      <3>1. disk.page[0] \in Image
        BY PagesAssumption DEF TypeOK, Container, Pages
      <3> QED BY <3>1 DEF TypeOK, WriteSet
    <2>5. live.on \in BOOLEAN
      BY DEF TypeOK, LiveFields
    <2>6. f \in FlushLocals
      <3> HIDE DEF d, u
      <3> QED BY <2>3, <2>4, <2>5 DEF NoFlush, FlushLocals
    <2>7. pc' \in Steps
      BY <2>2 DEF Steps
    <2> QED BY <2>1, <2>3, <2>6, <2>7 DEF TypeOK
  <1> QED BY <1>1, <1>2

LEMMA LastSyncType ==
  ASSUME TypeOK, NEW ok \in BOOLEAN, LastSync(ok)
  PROVE  /\ mode' \in {"closed", "io", "input"} /\ copied' \in BOOLEAN
         /\ hdr' \in Image /\ dirty' \in WriteSet /\ undo' \in WriteSet /\ inTx' \in BOOLEAN
         /\ live' \in LiveFields /\ ioFailed' \in BOOLEAN
         /\ pc' \in Steps /\ fl' \in FlushLocals /\ closeOk' \in BOOLEAN
  <1>1. fl.bad \in BOOLEAN
    BY DEF TypeOK, FlushLocals
  <1>2. CASE fl.after = "close"
    BY <1>2, <1>1, ForgetType DEF LastSync, TypeOK
  <1>3. CASE fl.after # "close"
    <2>1. NoFlush \in FlushLocals
      BY DEF NoFlush, FlushLocals, NoPages, WriteSet
    <2> QED BY <1>1, <1>3, <2>1 DEF LastSync, TypeOK, Steps
  <1> QED BY <1>2, <1>3

(* A set of naturals that is not empty has a least member.                  *)
LEMMA SmallestIn ==
  ASSUME NEW S, S \subseteq Nat, S # {}
  PROVE  \E i \in S : \A k \in S : i <= k
  <1>1. IsWellFoundedOn(OpToRel(<, Nat), Nat)
    BY NatLessThanWellFounded
  <1>2. PICK i \in S : \A k \in S : ~(<<k, i>> \in OpToRel(<, Nat))
    BY <1>1, WFMin
  <1>3. \A k \in S : ~(k < i)
    BY <1>2 DEF OpToRel
  <1> QED BY <1>3

LEMMA RecordType ==
  ASSUME NEW j \in Journal, NEW i \in 1 .. Len(j.recs)
  PROVE  j.recs[i].id \in Pages /\ j.recs[i].img \in Image /\ i \in DOMAIN j.recs
  <1>1. j.recs \in Seq(Record)
    BY DEF Journal
  <1>2. DOMAIN j.recs = 1 .. Len(j.recs) /\ j.recs[i] \in Record
    BY <1>1
  <1> QED BY <1>2 DEF Record

LEMMA RestoreType ==
  ASSUME NEW c \in Container, NEW j \in Journal
  PROVE  Restore(c, j.recs) \in Container
  <1>1. \A p \in Pages : (\E i \in DOMAIN j.recs : j.recs[i].id = p)
                           => FirstOf(j.recs, p) \in DOMAIN j.recs
    <2> TAKE p \in Pages
    <2> HAVE \E i \in DOMAIN j.recs : j.recs[i].id = p
    <2> DEFINE S == {i \in DOMAIN j.recs : j.recs[i].id = p}
    <2>1. S \subseteq Nat /\ S # {}
      BY DEF Journal
    <2>2. \E i \in S : \A k \in S : i <= k
      BY <2>1, SmallestIn
    <2> QED BY <2>2 DEF FirstOf
  <1>2. \A i \in DOMAIN j.recs : j.recs[i].img \in Image
    <2>1. DOMAIN j.recs = 1 .. Len(j.recs)
      BY DEF Journal
    <2> QED BY <2>1, RecordType
  <1> QED BY <1>1, <1>2 DEF Restore, Container

LEMMA RecoveredType ==
  ASSUME NEW c \in Container, NEW j \in Journal \cup {None}
  PROVE  Recovered(c, j) \in Container
  <1>1. CASE j = None \/ Readable(j) = {}
    BY <1>1 DEF Recovered
  <1>2. CASE ~(j = None \/ Readable(j) = {})
    <2>1. j \in Journal /\ Newest(j).pages \in 0 .. MaxPages
      BY <1>2, NewestReadable DEF Slot
    <2> QED BY <1>2, <2>1, RestoreType, CutType DEF Recovered
  <1> QED BY <1>1, <1>2

LEMMA SurvivingType ==
  ASSUME NEW old \in Container, NEW new \in Container, NEW d \in Surviving(old, new)
  PROVE  d \in Container
  <1>1. PICK n \in (old.len .. new.len) \cup (new.len .. old.len), S \in SUBSET Pages :
          d = [len |-> n, page |-> [p \in Pages |-> IF n <= p THEN Zero
                                     ELSE IF p \in S THEN new.page[p] ELSE old.page[p]]]
    BY DEF Surviving
  <1>2. n \in 0 .. MaxPages
    BY PagesAssumption DEF Container
  <1>3. Zero \in Image
    BY TagsAssumption, PagesAssumption DEF Zero, Image
  <1> QED BY <1>1, <1>2, <1>3 DEF Container

LEMMA EmptyType == EmptyJournal \in Journal /\ Torn \in Slot
  BY PagesAssumption DEF EmptyJournal, Journal, Torn, Slot

(* The types are kept because a step that reads the journal finds one.      *)
JournalThere ==
  /\ mode = "closed" => ~live.on
  /\ pc \in {"restore", "rsync", "rremove", "rdir"} => mode = "closed"
  /\ mode = "closed" => pc \in {"idle", "restore", "rsync", "rremove", "rdir"}
  /\ live.on => jrn # None
  /\ pc = "restore" => jrn # None /\ Readable(jrn) # {} /\ fl.left <= Len(jrn.recs)
  /\ pc \in {"jhead", "jrecs", "jcert"} => jrn # None /\ fl.left <= MaxPages

TypeInv == TypeOK /\ JournalThere

LEMMA OpenTyped ==
  ASSUME TypeInv, OpenInput \/ OpenIo
  PROVE  TypeInv'
  <1> USE DEF files, memory, ghosts
  <1>1. NoFlush \in FlushLocals
    BY DEF NoFlush, FlushLocals, NoPages, WriteSet
  <1>2. \A c \in Container : c.page[0] \in Image
    BY PagesAssumption DEF Container, Pages
  <1>3. CASE OpenInput
    <2>1. Recovered(disk, jrn) \in Container
      BY RecoveredType DEF TypeInv, TypeOK
    <2> QED BY <1>1, <1>2, <1>3, <2>1
            DEF OpenInput, Opened, CanOpen, TypeInv, TypeOK, JournalThere, Steps
  <1>4. CASE OpenIo
    <2>1. CASE jrn = None
      BY <1>1, <1>2, <1>4, <2>1
      DEF OpenIo, Opened, CanOpen, TypeInv, TypeOK, JournalThere, Steps
    <2>2. CASE jrn # None /\ NotWritten(jrn)
      BY <1>1, <1>2, <1>4, <2>2
      DEF OpenIo, Opened, CanOpen, TypeInv, TypeOK, JournalThere, Steps
    <2>3. CASE jrn # None /\ ~NotWritten(jrn)
      <3>1. /\ pc' = "restore" /\ fl' = [fl EXCEPT !.left = Len(jrn.recs)]
            /\ UNCHANGED <<files, mode, hdr, dirty, undo, inTx, live, ioFailed, ghosts>>
            /\ UNCHANGED <<copied, faults>>
        BY <1>4, <2>3 DEF OpenIo
      <3>2. Len(jrn.recs) \in Nat
        BY <2>3 DEF TypeInv, TypeOK, Journal
      <3>3. fl' \in FlushLocals /\ fl'.left = Len(jrn.recs)
        BY <3>1, <3>2 DEF TypeInv, TypeOK, FlushLocals
      <3>4. mode = "closed" /\ Readable(jrn) # {}
        BY <1>4, <2>3 DEF OpenIo, CanOpen, Refused
      <3> QED BY <2>3, <3>1, <3>2, <3>3, <3>4 DEF TypeInv, TypeOK, JournalThere, Steps, Readable
    <2> QED BY <2>1, <2>2, <2>3
  <1> QED BY <1>3, <1>4

LEMMA RecoveryTyped ==
  ASSUME TypeInv, Recovery
  PROVE  TypeInv'
  <1> USE DEF files, memory, ghosts
  <1>1. CASE RestorePage
    <2>1. jrn \in Journal /\ fl.left \in 1 .. Len(jrn.recs) /\ fl.left - 1 \in Nat
      BY <1>1 DEF RestorePage, TypeInv, TypeOK, JournalThere, FlushLocals, Journal
    <2>2. disk' \in Container
      BY <1>1, <2>1, RecordType, PutType DEF RestorePage, TypeInv, TypeOK
    <2>3. fl' \in FlushLocals /\ fl'.left <= Len(jrn.recs)
      BY <1>1, <2>1 DEF RestorePage, TypeInv, TypeOK, FlushLocals, Journal
    <2> QED BY <1>1, <2>2, <2>3 DEF RestorePage, TypeInv, TypeOK, JournalThere, Readable
  <1>2. CASE CutContainer
    <2>1. Newest(jrn).pages \in 0 .. MaxPages
      BY <1>2, NewestReadable DEF CutContainer, TypeInv, TypeOK, JournalThere, Slot
    <2>2. disk' \in Container
      BY <1>2, <2>1, CutType DEF CutContainer, TypeInv, TypeOK
    <2> QED BY <1>2, <2>2 DEF CutContainer, TypeInv, TypeOK, JournalThere, Steps
  <1>3. CASE RecoverSync
    BY <1>3 DEF RecoverSync, TypeInv, TypeOK, JournalThere, Steps
  <1>4. CASE RecoverRemove
    BY <1>4 DEF RecoverRemove, TypeInv, TypeOK, JournalThere, Steps
  <1>5. CASE RecoverDone
    <2>1. disk.page[0] \in Image
      BY PagesAssumption DEF TypeInv, TypeOK, Container, Pages
    <2>2. NoFlush \in FlushLocals
      BY DEF NoFlush, FlushLocals, NoPages, WriteSet
    <2> QED BY <1>5, <2>1, <2>2 DEF RecoverDone, Opened, TypeInv, TypeOK, JournalThere, Steps
  <1> QED BY <1>1, <1>2, <1>3, <1>4, <1>5 DEF Recovery

LEMMA VerbTyped ==
  ASSUME TypeInv, NEW S \in SUBSET (Pages \ {0}), NEW n \in 1 .. MaxPages, Verb(S, n)
  PROVE  TypeInv'
  <1> USE DEF files, memory, ghosts, TypeInv
  <1>1. hdr' \in Image /\ Data(hdr'.tag) \in Image
    BY PagesAssumption, TagsAssumption DEF Verb, TypeOK, Image, Data
  <1>2. undo' \in WriteSet
    BY DEF Verb, TypeOK, WriteSet, Container
  <1>3. dirty' \in WriteSet
    BY <1>1 DEF Verb, TypeOK, WriteSet
  <1>4. logical' \in Container
    BY <1>1, PagesAssumption DEF Verb, TypeOK, Container
  <1>5. pc' \in Steps
    BY DEF Verb, Steps
  <1>6. TypeOK'
    BY <1>1, <1>2, <1>3, <1>4, <1>5 DEF Verb, TypeOK
  <1>7. pc' \in {"spill", "idle"} /\ mode' = "io" /\ UNCHANGED <<jrn, live>>
    BY DEF Verb
  <1> QED BY <1>6, <1>7 DEF JournalThere, Verb

(* Where tx_flush goes next, and what it leaves of the journal.             *)
LEMMA FlushGoes ==
  ASSUME TypeInv, NEW spill \in BOOLEAN, NEW after \in {"verb", "persist", "close"},
         mode # "closed", TxFlush(spill, after), UNCHANGED <<mode, live, jrn>>
  PROVE  JournalThere'
  <1>1. CASE ~inTx /\ ~live.on
    <2>1. pc' \in {"idle", "hsync", "header"}
      BY <1>1 DEF TxFlush, Return
    <2> QED BY <2>1, <1>1 DEF TypeInv, JournalThere
  <1>2. CASE ~(~inTx /\ ~live.on)
    <2>1. pc' \in {"finish", "jopen", "jrecs", "page"} /\ (pc' = "jrecs" => live.on)
      BY <1>2 DEF TxFlush
    <2>2. fl'.left = 0
      BY <1>2 DEF TxFlush, NoFlush
    <2> QED BY <2>1, <2>2, PagesAssumption DEF TypeInv, JournalThere
  <1> QED BY <1>1, <1>2

LEMMA CallsTyped ==
  ASSUME TypeInv, Rejected \/ Commit \/ Close \/ CloseInput \/ Spill
  PROVE  TypeInv'
  <1> USE DEF files, memory, ghosts
  <1>1. CASE Rejected
    BY <1>1 DEF Rejected, TypeInv, TypeOK, JournalThere
  <1>2. CASE Commit
    <2>1. CASE copied
      BY <1>2, <2>1 DEF Commit, TypeInv, TypeOK, JournalThere
    <2>2. CASE ~copied
      <3>1. TxFlush(FALSE, "persist") /\ mode # "closed" /\ UNCHANGED <<mode, live, jrn>>
        BY <1>2, <2>2 DEF Commit
      <3>2. JournalThere'
        BY <3>1, FlushGoes
      <3> QED BY <1>2, <3>1, <3>2, TxFlushType DEF Commit, TypeInv, TypeOK
    <2> QED BY <2>1, <2>2
  <1>3. CASE Close
    <2>1. TxFlush(FALSE, "close") /\ mode # "closed" /\ UNCHANGED <<mode, live, jrn>>
      BY <1>3 DEF Close
    <2>2. JournalThere'
      BY <2>1, FlushGoes
    <2> QED BY <1>3, <2>1, <2>2, TxFlushType DEF Close, TypeInv, TypeOK
  <1>4. CASE CloseInput
    <2>1. JournalThere'
      BY <1>4 DEF CloseInput, Forget, NotLive, JournalThere
    <2> QED BY <1>4, <2>1, ForgetType DEF CloseInput, TypeInv, TypeOK
  <1>5. CASE Spill
    <2>1. TxFlush(TRUE, "verb") /\ mode # "closed" /\ UNCHANGED <<mode, live, jrn>>
      BY <1>5 DEF Spill, TypeInv, JournalThere
    <2>2. JournalThere'
      BY <2>1, FlushGoes
    <2> QED BY <1>5, <2>1, <2>2, TxFlushType DEF Spill, TypeInv, TypeOK
  <1> QED BY <1>1, <1>2, <1>3, <1>4, <1>5

LEMMA JournalTyped ==
  ASSUME TypeInv,
         \/ JournalOpen \/ JournalHead \/ JournalSync \/ JournalCertify \/ CertifySync
         \/ \E p \in Pages : JournalRecord(p)
  PROVE  TypeInv'
  <1> USE DEF files, memory, ghosts
  <1>1. CASE JournalOpen
    <2>1. fl' \in FlushLocals /\ fl'.left = disk.len
      <3> DEFINE w == [p \in Pages |-> IF p < disk.len THEN fl.undo[p] ELSE None]
      <3>1. w \in WriteSet
        BY DEF TypeInv, TypeOK, FlushLocals, WriteSet
      <3>2. fl' = [fl EXCEPT !.left = disk.len, !.undo = w] /\ disk.len \in Nat
        BY <1>1, PagesAssumption DEF JournalOpen, TypeInv, TypeOK, Container
      <3> HIDE DEF w
      <3> QED BY <3>1, <3>2 DEF TypeInv, TypeOK, FlushLocals
    <2>2. jrn' \in Journal /\ jrn' # None /\ jrnAfter' = jrnAfter \cup {jrn'}
      BY <1>1, EmptyType, NoneAssumption DEF JournalOpen
    <2> QED BY <1>1, <2>1, <2>2, PagesAssumption
            DEF JournalOpen, TypeInv, TypeOK, JournalThere, Steps, Container
  <1>2. CASE JournalHead
    <2>1. [seq |-> 2, pages |-> fl.left, certified |-> 0] \in Slot
      BY <1>2 DEF JournalHead, TypeInv, TypeOK, JournalThere, FlushLocals, Slot
    <2>2. jrn' \in Journal /\ jrn' # None
      BY <1>2, <2>1, NoneAssumption DEF JournalHead, TypeInv, TypeOK, JournalThere, Journal
    <2> QED BY <1>2, <2>2 DEF JournalHead, TypeInv, TypeOK, JournalThere, Steps
  <1>3. CASE JournalSync
    <2>1. jrn \in Journal /\ fl.left \in 0 .. MaxPages /\ mode # "closed"
      BY <1>3 DEF JournalSync, TypeInv, TypeOK, JournalThere, FlushLocals
    <2>2. {jrn.recs[i].id : i \in DOMAIN jrn.recs} \in SUBSET Pages /\ Len(jrn.recs) \in Nat
      <3>1. DOMAIN jrn.recs = 1 .. Len(jrn.recs) /\ Len(jrn.recs) \in Nat
        BY <2>1 DEF Journal
      <3> QED BY <2>1, <3>1, RecordType
    <2>3. live' \in LiveFields
      BY <1>3, <2>1, <2>2 DEF JournalSync, TypeInv, TypeOK, LiveFields
    <2>4. jrnAfter' \subseteq Journal \cup {None}
      BY <1>3, <2>1 DEF JournalSync, FsyncJournal
    <2> QED BY <1>3, <2>1, <2>3, <2>4 DEF JournalSync, TypeInv, TypeOK, JournalThere, Steps
  <1>4. CASE JournalCertify
    <2>1. /\ jrn \in Journal /\ live' \in LiveFields
          /\ live'.on = live.on /\ live'.seq \in Nat
      BY <1>4 DEF JournalCertify, TypeInv, TypeOK, JournalThere, LiveFields
    <2> DEFINE i == SlotOf(live'.seq)
               s == [seq |-> live'.seq, pages |-> live.orig, certified |-> live.recs]
    <2>2. i \in 0 .. 1
      BY <2>1 DEF SlotOf
    <2>3. s \in Slot /\ Torn \in Slot
      BY <2>1, EmptyType DEF TypeInv, TypeOK, LiveFields, Slot
    <2>4. [jrn EXCEPT !.slots[i] = s] \in Journal /\ [jrn EXCEPT !.slots[i] = Torn] \in Journal
      <3> HIDE DEF i, s
      <3> QED BY <2>1, <2>2, <2>3 DEF Journal
    <2>5. /\ jrn' = [jrn EXCEPT !.slots[i] = s]
          /\ jrnAfter' = jrnAfter \cup {jrn', [jrn EXCEPT !.slots[i] = Torn]}
      BY <1>4 DEF JournalCertify
    <2> HIDE DEF i, s
    <2>6. jrn' \in Journal /\ jrn' # None
      BY <2>4, <2>5, NoneAssumption
    <2> QED BY <1>4, <2>1, <2>4, <2>5, <2>6
            DEF JournalCertify, TypeInv, TypeOK, JournalThere, Steps
  <1>5. CASE CertifySync
    BY <1>5 DEF CertifySync, FsyncJournal, TypeInv, TypeOK, JournalThere, Steps
  <1>6. ASSUME NEW p \in Pages, JournalRecord(p)
        PROVE  TypeInv'
    <2>1. [id |-> p, img |-> fl.undo[p]] \in Record /\ jrn \in Journal
      BY <1>6 DEF JournalRecord, TypeInv, TypeOK, JournalThere, FlushLocals, WriteSet, Record
    <2>2. jrn' \in Journal
      <3> DEFINE r == [id |-> p, img |-> fl.undo[p]]
      <3>1. Append(jrn.recs, r) \in Seq(Record)
        BY <2>1 DEF Journal
      <3>2. jrn' = [jrn EXCEPT !.recs = Append(jrn.recs, r)]
        BY <1>6 DEF JournalRecord
      <3> QED BY <2>1, <3>1, <3>2 DEF Journal
    <2>3. jrn' # None
      BY <2>2, NoneAssumption
    <2>4. fl' \in FlushLocals /\ fl'.left = fl.left
      BY <1>6 DEF JournalRecord, TypeInv, TypeOK, FlushLocals, WriteSet
    <2> QED BY <1>6, <2>2, <2>3, <2>4 DEF JournalRecord, TypeInv, TypeOK, JournalThere
  <1> QED BY <1>1, <1>2, <1>3, <1>4, <1>5, <1>6

(* What Return and LastSync leave of the journal.                           *)
LEMMA ReturnGoes ==
  ASSUME TypeInv, NEW ok \in BOOLEAN, Return(fl.after, ok), mode # "closed", mode' = mode,
         live'.on => jrn' # None
  PROVE  JournalThere'
  <1>1. pc' \in {"idle", "hsync", "header"}
    BY DEF Return
  <1> QED BY <1>1 DEF JournalThere

LEMMA LastSyncGoes ==
  ASSUME TypeInv, NEW ok \in BOOLEAN, LastSync(ok), jrn' = jrn, pc = "hsync"
  PROVE  JournalThere'
  <1>1. CASE fl.after = "close"
    BY <1>1 DEF LastSync, Forget, NotLive, JournalThere
  <1>2. CASE fl.after # "close"
    BY <1>2 DEF LastSync, TypeInv, JournalThere
  <1> QED BY <1>1, <1>2

LEMMA CommitTyped ==
  ASSUME TypeInv,
         \/ PagesSync \/ JournalFinish \/ FinishDir \/ Header \/ HeaderSync
         \/ \E p \in Pages : WritePage(p)
  PROVE  TypeInv'
  <1> USE DEF files, memory, ghosts
  <1>a. fl.after \in {"none", "verb", "persist", "close"} /\ (pc \in Steps)
    BY DEF TypeInv, TypeOK, FlushLocals
  <1>n. NotLive \in LiveFields /\ NotLive.on = FALSE
    BY PagesAssumption DEF NotLive, LiveFields
  <1>1. CASE PagesSync
    <2>1. CASE fl.spill
      <3>1. Return(fl.after, TRUE) /\ mode # "closed"
        BY <1>1, <2>1 DEF PagesSync, TypeInv, JournalThere
      <3>2. JournalThere'
        BY <1>1, <3>1, ReturnGoes DEF PagesSync, TypeInv, JournalThere
      <3> QED BY <1>1, <1>a, <3>1, <3>2, ReturnType DEF PagesSync, TypeInv, TypeOK
    <2>2. CASE ~fl.spill
      BY <1>1, <2>2 DEF PagesSync, TypeInv, TypeOK, JournalThere, Steps
    <2> QED BY <2>1, <2>2
  <1>2. CASE JournalFinish
    <2>1. CASE live.on
      BY <1>2, <1>n, <2>1 DEF JournalFinish, TypeInv, TypeOK, JournalThere, Steps
    <2>2. CASE ~live.on
      <3>1. Return(fl.after, TRUE) /\ mode # "closed" /\ mode' = mode /\ ~live'.on
        BY <1>2, <1>n, <2>2 DEF JournalFinish, TypeInv, JournalThere
      <3>2. JournalThere'
        BY <3>1, ReturnGoes
      <3> QED BY <1>2, <1>n, <1>a, <3>1, <3>2, ReturnType DEF JournalFinish, TypeInv, TypeOK
    <2> QED BY <2>1, <2>2
  <1>3. CASE FinishDir
    <2>1. Return(fl.after, TRUE) /\ mode # "closed" /\ mode' = mode /\ (live'.on => jrn' # None)
      BY <1>3 DEF FinishDir, TypeInv, JournalThere
    <2>2. JournalThere'
      BY <2>1, ReturnGoes
    <2> QED BY <1>3, <1>a, <2>1, <2>2, ReturnType DEF FinishDir, TypeInv, TypeOK
  <1>4. CASE Header
    <2>1. disk' \in Container
      BY <1>4, PutType, PagesAssumption DEF Header, TypeInv, TypeOK, Pages
    <2> QED BY <1>4, <2>1 DEF Header, TypeInv, TypeOK, JournalThere, Steps
  <1>5. CASE HeaderSync
    <2>1. JournalThere'
      BY <1>5, LastSyncGoes DEF HeaderSync
    <2> QED BY <1>5, <2>1, LastSyncType DEF HeaderSync, TypeInv, TypeOK
  <1>6. ASSUME NEW p \in Pages, WritePage(p)
        PROVE  TypeInv'
    <2>1. fl.dirty[p] \in Image
      BY <1>6 DEF WritePage, NextPage, TypeInv, TypeOK, FlushLocals, WriteSet
    <2>2. disk' \in Container
      BY <1>6, <2>1, PutType DEF WritePage, TypeInv, TypeOK
    <2>3. fl' \in FlushLocals /\ fl'.left = fl.left
      BY <1>6 DEF WritePage, TypeInv, TypeOK, FlushLocals, WriteSet
    <2> QED BY <1>6, <2>2, <2>3 DEF WritePage, TypeInv, TypeOK, JournalThere
  <1> QED BY <1>1, <1>2, <1>3, <1>4, <1>5, <1>6

LEMMA FailuresTyped ==
  ASSUME TypeInv, FlushFails \/ HeaderFails \/ LastSyncFails \/ Kill \/ PowerLoss
  PROVE  TypeInv'
  <1> USE DEF files, memory, ghosts
  <1>a. fl.after \in {"none", "verb", "persist", "close"}
    BY DEF TypeInv, TypeOK, FlushLocals
  <1>f. Fault \/ UNCHANGED faults => faults' \in 0 .. MaxFaults
    BY FaultsAssumption DEF TypeInv, TypeOK, Fault
  <1>n. NotLive \in LiveFields /\ NotLive.on = FALSE
    BY PagesAssumption DEF NotLive, LiveFields
  <1>1. CASE FlushFails
    <2>1. faults' \in 0 .. MaxFaults
      BY <1>1, <1>f DEF FlushFails, IoError
    <2>2. /\ Return(fl.after, FALSE) /\ mode # "closed" /\ mode' = mode
          /\ (live'.on => jrn' # None) /\ live' \in LiveFields
      BY <1>1, <1>n DEF FlushFails, TypeInv, TypeOK, JournalThere
    <2>3. JournalThere'
      BY <2>2, ReturnGoes
    <2> QED BY <1>1, <1>a, <2>1, <2>2, <2>3, ReturnType DEF FlushFails, TypeInv, TypeOK
  <1>2. CASE HeaderFails
    <2>1. faults' \in 0 .. MaxFaults
      BY <1>2, <1>f DEF HeaderFails, IoError
    <2>2. fl' \in FlushLocals
      BY <1>2 DEF HeaderFails, TypeInv, TypeOK, FlushLocals
    <2> QED BY <1>2, <2>1, <2>2 DEF HeaderFails, TypeInv, TypeOK, JournalThere, Steps
  <1>3. CASE LastSyncFails
    <2>1. faults' \in 0 .. MaxFaults
      BY <1>3, <1>f DEF LastSyncFails, IoError
    <2>2. JournalThere'
      BY <1>3, LastSyncGoes DEF LastSyncFails
    <2> QED BY <1>3, <2>1, <2>2, LastSyncType DEF LastSyncFails, TypeInv, TypeOK
  <1>4. CASE Kill
    <2>1. Forget /\ faults' \in 0 .. MaxFaults
      BY <1>4, <1>f DEF Kill, Crash
    <2>2. JournalThere'
      BY <2>1, <1>n DEF Forget, JournalThere
    <2> QED BY <1>4, <2>1, <2>2, ForgetType DEF Kill, TypeInv, TypeOK
  <1>5. CASE PowerLoss
    <2>1. Forget /\ faults' \in 0 .. MaxFaults
      BY <1>5, <1>f DEF PowerLoss, Crash
    <2>2. JournalThere'
      BY <2>1, <1>n DEF Forget, JournalThere
    <2>3. disk' \in Container /\ stable' \in Container
      BY <1>5, SurvivingType DEF PowerLoss, TypeInv, TypeOK
    <2>4. jrn' \in Journal \cup {None} /\ jrnAfter' \subseteq Journal \cup {None}
      BY <1>5 DEF PowerLoss, TypeInv, TypeOK
    <2>5. committed' \in Container /\ logical' \in Container /\ previous' \in Container
      BY <1>5 DEF PowerLoss, TypeInv, TypeOK
    <2> QED BY <1>5, <2>1, <2>2, <2>3, <2>4, <2>5, ForgetType DEF PowerLoss, TypeInv, TypeOK
  <1> QED BY <1>1, <1>2, <1>3, <1>4, <1>5

LEMMA TypeNext == TypeInv /\ [Next]_vars => TypeInv'
  <1> SUFFICES ASSUME TypeInv, [Next]_vars PROVE TypeInv'
    OBVIOUS
  <1>1. CASE Calls
    <2>1. ASSUME NEW S \in SUBSET (Pages \ {0}), NEW n \in 1 .. MaxPages, Verb(S, n)
          PROVE  TypeInv'
      BY <2>1, VerbTyped
    <2> QED BY <1>1, <2>1, OpenTyped, CallsTyped DEF Calls
  <1>2. CASE Recovery
    BY <1>2, RecoveryTyped
  <1>3. CASE Flush
    BY <1>3, CallsTyped, JournalTyped, CommitTyped, FailuresTyped DEF Flush
  <1>4. CASE Kill \/ PowerLoss
    BY <1>4, FailuresTyped
  <1>5. CASE UNCHANGED vars
    BY <1>5 DEF vars, files, memory, ghosts, TypeInv, TypeOK, JournalThere, Readable
  <1> QED BY <1>1, <1>2, <1>3, <1>4, <1>5 DEF Next

(* Every variable keeps its type in every behaviour, whatever goes wrong:   *)
(* kills, power losses and I/O errors included.                             *)
THEOREM TypeCorrect == Spec => []TypeOK
  <1>1. Init => TypeInv
    BY TypeInit DEF Init, NotLive, TypeInv, JournalThere
  <1>2. TypeInv => TypeOK
    BY DEF TypeInv
  <1> QED BY <1>1, <1>2, TypeNext, PTL DEF Spec
=============================================================================
