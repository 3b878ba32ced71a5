----------------------------- MODULE KeyedFile -----------------------------
(***************************************************************************)
(* The keyed access of the DISK engine of INDEXED files                    *)
(* (crates/cobolt-runtime/src/indexed_disk.rs), above the pages that       *)
(* DiskJournal models: the directory of records, one B+tree of the RECORD  *)
(* KEY and one of each ALTERNATE KEY, the verbs, the sequential cursor and *)
(* the log of inverse verbs ROLLBACK replays; with the file status rules   *)
(* of the interpreter around them (interpreter.rs).                        *)
(*                                                                         *)
(* A tree is the chain of its leaves, in order.  The separators above a    *)
(* leaf, which no DELETE moves, are its lower bound.  A key is <<value,    *)
(* join sequence>>, the sequence 0 where duplicates are not allowed; a     *)
(* bare value <<v, 0>> sorts before every entry of its duplicate set.      *)
(* Keys are numbers, a generic START and I/O errors are left out.          *)
(***************************************************************************)
EXTENDS Integers, FiniteSets, SequencesExt

CONSTANTS Record, Duplicates, None,
          Loads,        \* the records a file holds when it is first opened, in the order written
          Access,       \* the ACCESS MODEs of the program: "sequential", "dynamic"
          Sought,       \* what the program READs by: <<number of the key, value>>
          Starts,       \* what it STARTs at: <<relation, number of the key, value>>
          LeafCap,      \* entries that fit a leaf
          LastVerb      \* bound: WRITEs, REWRITEs and DELETEs executed

VARIABLES
  db,           \* the trees, the directory and the counters of HeaderState
  undo,         \* undo: what the inverse verbs need, oldest first
  open,         \* open: "closed", "input" or "io"
  access,       \* the ACCESS MODE
  scan,         \* kor, cursor, current, resume_key
  atEnd,        \* at_end_files
  established,  \* read_established
  verbs,        \* verbs executed, for LastVerb
  base,         \* ghost: the content at the last COMMIT or OPEN
  reached,      \* ghost: the key the position of the file stands for
  shifted,      \* ghost: the verbs after which the scan may not stand where it did
  reply         \* ghost: what the verb executed last answered

program == <<atEnd, established, verbs>>
ghosts  == <<base, reached, shifted>>
vars    == <<db, undo, open, access, scan, program, ghosts, reply>>
State   == <<db, undo, open, access, scan, program, ghosts>>

Free    == None
LiveIn(d) == {n \in DOMAIN d.recs : d.recs[n] # Free}
Content(d) == {d.recs[n] : n \in LiveIn(d)}

Store == INSTANCE KeyedStore WITH
           content <- Content(db),
           just    <- IF established /\ scan.current # 0 THEN db.recs[scan.current] ELSE None

\* None is no record, no RecordId and no slot of a tree.
ASSUME NoneAssumption == None \notin Record /\ None \notin Nat /\ None \notin Nat \X Nat
ASSUME RecordAssumption == /\ Duplicates \in Seq(BOOLEAN)
                           /\ Record \subseteq [key : Nat, alt : [DOMAIN Duplicates -> Nat]]
ASSUME LeafAssumption == LeafCap \in Nat \ {0, 1} /\ LastVerb \in Nat
ASSUME LoadsAssumption == Loads \subseteq Seq(Record) /\ Sought \subseteq Store!Addresses
                          /\ \A s \in Starts : s[1] \in Store!Relations /\ <<s[2], s[3]>> \in Store!Addresses

KeyNo   == 0 .. Len(Duplicates)
Dup(k)  == k # 0 /\ Duplicates[k]
Value(r, k) == Store!Value(r, k)

---------------------------------------------------------------------------
(* The trees.                                                              *)

Less(a, b) == a[1] < b[1] \/ (a[1] = b[1] /\ a[2] < b[2])
Bare(v)    == <<v, 0>>

Leaf(page, low, entries) == [page |-> page, low |-> low, entries |-> entries]

Slots(t)   == UNION {{<<j, n>> : n \in DOMAIN t[j].entries} : j \in DOMAIN t}
EntryAt(t, p) == t[p[1]].entries[p[2]]
KeyAt(t, p)   == EntryAt(t, p).key
FirstOf(S) == IF S = {} THEN None ELSE CHOOSE p \in S : \A q \in S : ~Less(q, p)
LastOf(S)  == IF S = {} THEN None ELSE CHOOSE p \in S : \A q \in S : ~Less(p, q)

FindGe(t, key)  == FirstOf({p \in Slots(t) : ~Less(KeyAt(t, p), key)})
Search(t, key)  == {EntryAt(t, p).id : p \in {q \in Slots(t) : KeyAt(t, q) = key}}

(* step_forward and step_back: a slot that is no longer there has          *)
(* neighbours too, and the one before it may not be there either.          *)
StepForward(t, p) == FirstOf({q \in Slots(t) : Less(p, q)})
StepBack(t, p)    == IF p[2] > 1 THEN <<p[1], p[2] - 1>>
                     ELSE LastOf({q \in Slots(t) : q[1] < p[1]})

LeafFor(t, key) == CHOOSE j \in DOMAIN t : /\ ~Less(key, t[j].low)
                                           /\ \/ j = Len(t)
                                              \/ Less(key, t[j + 1].low)

(* binary_search: the place of a key among the entries of a leaf.          *)
Place(es, key)  == CHOOSE n \in 1 .. Len(es) + 1 : \A i \in DOMAIN es : i < n <=> Less(es[i].key, key)
Has(es, n, key) == n \in DOMAIN es /\ es[n].key = key

With(es, key, id) ==
  LET n == Place(es, key)
      e == [key |-> key, id |-> id]
  IN IF Has(es, n, key) THEN [es EXCEPT ![n] = e] ELSE InsertAt(es, n, e)

(* insert_rec: a leaf that is too full gives its upper half to a new page. *)
Insert(t, key, id, page) ==
  LET j   == LeafFor(t, key)
      es  == With(t[j].entries, key, id)
      mid == Len(es) \div 2
  IN IF Len(es) <= LeafCap THEN [t EXCEPT ![j].entries = es]
     ELSE InsertAt([t EXCEPT ![j].entries = SubSeq(es, 1, mid)], j + 1,
                   Leaf(page, es[mid + 1].key, SubSeq(es, mid + 1, Len(es))))

Without(t, key) ==
  LET j == LeafFor(t, key)
      n == Place(t[j].entries, key)
  IN IF Has(t[j].entries, n, key) THEN [t EXCEPT ![j].entries = RemoveAt(@, n)] ELSE t

(* find_alt_key: the entry of record id in the duplicate set of value v.   *)
JoinedAs(t, v, id) == {KeyAt(t, p) : p \in {q \in Slots(t) : KeyAt(t, q)[1] = v /\ EntryAt(t, q).id = id}}

---------------------------------------------------------------------------
(* The changes a verb makes.                                               *)

RestartedNextSeq(d) == d.seq
NextSeq(d) == IF d.seq >= Len(d.recs) THEN d.seq ELSE Len(d.recs)

(* The entries of record id join the trees of the keys in K, in the order  *)
(* of the keys: those with duplicates take one join sequence after         *)
(* another, a leaf that is split one page after another.                   *)
Join(d, K, r, id) ==
  LET seq(k)  == NextSeq(d) + Cardinality({j \in K : j < k /\ Dup(j)})
      key(k)  == <<Value(r, k), IF Dup(k) THEN seq(k) ELSE 0>>
      full(k) == Len(Insert(d.trees[k], key(k), id, 0)) > Len(d.trees[k])
      page(k) == d.page + Cardinality({j \in K : j < k /\ full(j)})
  IN [d EXCEPT !.trees = [k \in KeyNo |-> IF k \in K THEN Insert(@[k], key(k), id, page(k)) ELSE @[k]],
               !.seq   = IF \E k \in K : Dup(k) THEN seq(Len(Duplicates) + 1) ELSE @,
               !.page  = page(Len(Duplicates) + 1)]

(* They leave them; where there are duplicates they are found by the id.   *)
Leave(d, K, r, id) ==
  LET keys(k) == IF Dup(k) THEN JoinedAs(d.trees[k], Value(r, k), id) ELSE {Bare(Value(r, k))}
  IN [d EXCEPT !.trees = [k \in KeyNo |-> IF k \in K /\ keys(k) # {}
                                          THEN Without(@[k], CHOOSE key \in keys(k) : TRUE) ELSE @[k]]]

IndexInsert(d, r, id) == Join(d, KeyNo, r, id)
IndexRemove(d, r, id) == Leave(d, KeyNo, r, id)

Unique(d, r) == \A k \in KeyNo : Dup(k) \/ Search(d.trees[k], Bare(Value(r, k))) = {}

Find(d, key) == LET found == Search(d.trees[0], Bare(key))
                IN IF found = {} THEN None ELSE CHOOSE n \in found : TRUE

(* write_inner: the record gets the next RecordId and joins every index.   *)
Written(d, r) ==
  IF ~Unique(d, r) THEN [st |-> "22", db |-> d]
  ELSE [st |-> "00", db |-> IndexInsert([d EXCEPT !.recs = Append(@, r)], r, Len(d.recs) + 1)]

(* rewrite_inner: the alternates whose value changes, one after another;   *)
(* a value that is taken fails the verb after earlier ones were moved, and *)
(* op_finish then drops them all.                                          *)
FinishedWithoutAbort(a, d) == a
Finished(a, d) == IF a.st = "00" THEN a ELSE [a EXCEPT !.db = d]

Rewritten(d, id, r) ==
  LET old    == d.recs[id]
      moving == {k \in DOMAIN Duplicates : Value(old, k) # Value(r, k)}
      taken  == {k \in moving : ~Dup(k) /\ Search(d.trees[k], Bare(Value(r, k))) # {}}
      moved  == {k \in moving : \A j \in taken : k < j}
  IN Finished([st |-> IF taken = {} THEN "00" ELSE "22",
               db |-> [Join(Leave(d, moved, old, id), moved, r, id) EXCEPT !.recs[id] = r]], d)

(* delete_inner.                                                           *)
Deleted(d, id) == [st |-> "00", db |-> [IndexRemove(d, d.recs[id], id) EXCEPT !.recs[id] = Free]]

(* rollback: one inverse verb of the replay, its status ignored.           *)
Undone(d, u) ==
  LET id == Find(d, u.rec.key)
  IN CASE u.verb = "delete"  -> Written(d, u.rec).db
       [] u.verb = "write"   -> IF id = None THEN d ELSE Deleted(d, id).db
       [] u.verb = "rewrite" -> IF id = None THEN d ELSE Rewritten(d, id, u.rec).db

ReplayedOldestFirst(d, log) ==
  LET after[n \in 0 .. Len(log)] == IF n = 0 THEN d ELSE Undone(after[n - 1], log[n])
  IN after[Len(log)]
Replayed(d, log) ==
  LET after[n \in 0 .. Len(log)] == IF n = 0 THEN d ELSE Undone(after[n - 1], log[Len(log) + 1 - n])
  IN after[Len(log)]

Empty == [trees |-> [k \in KeyNo |-> <<Leaf(k + 1, Bare(0), <<>>)>>],
          recs |-> <<>>, seq |-> 0, page |-> Len(Duplicates) + 2]

(* The file after the records of a load were written to it.                *)
Loaded(load) ==
  LET after[n \in 0 .. Len(load)] == IF n = 0 THEN Empty ELSE Written(after[n - 1], load[n]).db
  IN after[Len(load)]

---------------------------------------------------------------------------
(* The cursor: the page of a leaf and an index in it.                      *)

AtStart == [kor |-> 0, cursor |-> None, current |-> 0, resume |-> None]

Tree(k)   == db.trees[k]
Active    == Tree(scan.kor)
CursorOf(t, p) == IF p = None THEN None ELSE <<t[p[1]].page, p[2]>>

(* A cursor is followed by its page, whatever tree the page belongs to.    *)
TreeAt(c) == CHOOSE t \in {Tree(k) : k \in KeyNo} : \E j \in DOMAIN t : t[j].page = c[1]
SlotAt(c) == <<CHOOSE j \in DOMAIN TreeAt(c) : TreeAt(c)[j].page = c[1], c[2]>>

(* Pin the scan to the key of the entry it stands on, before that entry    *)
(* leaves its slot.                                                        *)
PinnedWhenSequential(id) ==
  IF access = "sequential" /\ scan.current = id /\ scan.cursor # None
  THEN KeyAt(TreeAt(scan.cursor), SlotAt(scan.cursor))
  ELSE scan.resume
Pinned(id) ==
  IF /\ scan.current = id /\ scan.resume = None /\ scan.cursor # None
     /\ SlotAt(scan.cursor) \in Slots(TreeAt(scan.cursor))
  THEN KeyAt(TreeAt(scan.cursor), SlotAt(scan.cursor))
  ELSE scan.resume

(* deliver_at: from slot p on, in the direction of the scan, the first     *)
(* entry whose record is live.                                             *)
Deliver(t, p, dir) ==
  LET alive == {q \in Slots(t) : EntryAt(t, q).id \in LiveIn(db)}
  IN IF p \notin Slots(t) THEN None
     ELSE IF dir = "next" THEN FirstOf({q \in alive : ~Less(q, p)})
     ELSE LastOf({q \in alive : ~Less(p, q)})

(* Where READ NEXT and READ PREVIOUS look: the tree and the slot in it.    *)
SeqTree == IF scan.resume = None /\ scan.cursor # None THEN TreeAt(scan.cursor) ELSE Active
SeqSlot(dir) ==
  LET t  == SeqTree
      ge == FindGe(t, scan.resume)
  IN CASE scan.resume # None ->
            IF dir = "next" \/ ge = None THEN ge ELSE StepBack(t, ge)
       [] scan.resume = None /\ scan.cursor = None ->
            IF dir = "next" THEN FirstOf(Slots(t)) ELSE LastOf(Slots(t))
       [] OTHER ->
            IF dir = "next" THEN StepForward(t, SlotAt(scan.cursor))
            ELSE StepBack(t, SlotAt(scan.cursor))

(* START: the entry in the relation op with value v.                       *)
Matched(op, t, v) ==
  LET at(rel(_)) == {p \in Slots(t) : rel(KeyAt(t, p)[1])}
  IN CASE op = "eq" -> FirstOf(at(LAMBDA w : w = v))
       [] op = "ge" -> FirstOf(at(LAMBDA w : w >= v))
       [] op = "gt" -> FirstOf(at(LAMBDA w : w > v))
       [] op = "le" -> LastOf(at(LAMBDA w : w <= v))
       [] op = "lt" -> LastOf(at(LAMBDA w : w < v))

---------------------------------------------------------------------------
(* The ghosts.                                                             *)

Nowhere == [is |-> "nowhere", key |-> Bare(0)]
Beginning  == [is |-> "start", key |-> Bare(0)]
After(key) == [is |-> "after", key |-> key]
From(key)  == [is |-> "from", key |-> key]

Stands(where) == reached' = where /\ shifted' = {}

(* The tree of the scan is as it was, or the entry the scan stood on was   *)
(* taken from under it and is not back.                                    *)
Steady == \/ reached.is \in {"start", "nowhere"}
          \/ db'.trees[scan.kor] = Active
          \/ reached.is = "after" /\ Search(db'.trees[scan.kor], reached.key) = {}

Changes(verb, st) ==
  /\ shifted' = IF Steady /\ ~(verb = "rewrite" /\ st = "22") THEN shifted ELSE shifted \cup {verb}
  /\ UNCHANGED <<reached, base>>

---------------------------------------------------------------------------
(* The verbs.                                                              *)

Init == /\ \E load \in Loads : db = Loaded(load)
        /\ undo = <<>> /\ open = "closed" /\ access \in Access /\ scan = AtStart
        /\ atEnd = FALSE /\ established = FALSE /\ verbs = 0
        /\ base = Content(db) /\ reached = Beginning /\ shifted = {}
        /\ reply = Store!Said("open", None, "00", None)

Open == /\ open = "closed"
        /\ open' \in {"input", "io"}
        /\ undo' = <<>> /\ scan' = AtStart
        /\ atEnd' = FALSE /\ established' = FALSE
        /\ Stands(Beginning)
        /\ Store!Says("open", None, "00", None)
        /\ UNCHANGED <<db, access, verbs, base>>

Close == /\ open # "closed"
         /\ open' = "closed" /\ scan' = AtStart
         /\ base' = Content(db) /\ Stands(Nowhere)
         /\ Store!Says("close", None, "00", None)
         /\ established' = FALSE
         /\ UNCHANGED <<db, undo, access, atEnd, verbs>>

(* In the sequential access mode a REWRITE or DELETE of an open file wants  *)
(* a record just read before it asks for the open mode.                    *)
NotOpenIo == IF open = "input" /\ access = "sequential" /\ ~established THEN "43" ELSE "49"

(* A verb in an open mode that does not allow it.                          *)
Refused ==
  /\ \/ /\ open # "io"
        /\ \E r \in Record :
             \/ Store!Says("write", r, "48", None)
             \/ Store!Says("rewrite", r, NotOpenIo, None)
             \/ Store!Says("delete", IF access = "sequential" THEN None ELSE r.key, NotOpenIo, None)
     \/ open = "closed" /\ \E dir \in {"next", "previous"} :
                              Store!Says(dir, None, IF atEnd THEN "46" ELSE "47", None)
  /\ established' = FALSE
  /\ UNCHANGED <<db, undo, open, access, scan, atEnd, verbs, ghosts>>

(* What a verb that was executed leaves, its status being a.st.            *)
Executed(verb, arg, a, entry) ==
  /\ db' = a.db
  /\ undo' = IF a.st = "00" THEN Append(undo, entry) ELSE undo
  /\ verbs' = IF a.st = "00" THEN verbs + 1 ELSE verbs
  /\ established' = FALSE
  /\ Changes(verb, a.st)
  /\ Store!Says(verb, arg, a.st, None)
  /\ UNCHANGED <<open, access, atEnd>>

Failed(verb, arg, st) == /\ established' = FALSE
                         /\ Store!Says(verb, arg, st, None)
                         /\ UNCHANGED <<db, undo, open, access, scan, atEnd, verbs, ghosts>>

Write(r) == /\ open = "io" /\ access = "dynamic" /\ verbs < LastVerb
            /\ UNCHANGED scan
            /\ Executed("write", r, Written(db, r), [verb |-> "write", rec |-> r])

KorMoves(old, r) == scan.kor # 0 /\ Value(old, scan.kor) # Value(r, scan.kor)

RewriteOf(id, r) ==
  LET old == db.recs[id]
  IN IF old.key # r.key THEN Failed("rewrite", r, "21")
     ELSE /\ scan' = IF KorMoves(old, r) THEN [scan EXCEPT !.resume = Pinned(id)] ELSE scan
          /\ Executed("rewrite", r, Rewritten(db, id, r), [verb |-> "rewrite", rec |-> old])

Rewrite(r) ==
  /\ open = "io" /\ verbs < LastVerb
  /\ LET id == IF access = "dynamic" THEN Find(db, r.key) ELSE scan.current
     IN IF access = "sequential" /\ ~established THEN Failed("rewrite", r, "43")
        ELSE IF id = None THEN Failed("rewrite", r, "23")
        ELSE IF id = 0 THEN Failed("rewrite", r, "46")
        ELSE RewriteOf(id, r)

DeleteOf(id, arg) ==
  /\ scan' = [scan EXCEPT !.resume = Pinned(id), !.current = 0]
  /\ Executed("delete", arg, Deleted(db, id), [verb |-> "delete", rec |-> db.recs[id]])

(* DELETE of the record with a key (dynamic), or of the one just read.     *)
Delete(key) ==
  /\ open = "io" /\ verbs < LastVerb
  /\ IF access = "sequential"
     THEN /\ key = None
          /\ IF ~established THEN Failed("delete", None, "43")
             ELSE IF scan.current = 0 THEN Failed("delete", None, "46")
             ELSE DeleteOf(scan.current, None)
     ELSE /\ key # None
          /\ IF Find(db, key) = None THEN Failed("delete", key, "23") ELSE DeleteOf(Find(db, key), key)

---------------------------------------------------------------------------
Found(verb, arg, t, p, k, where) ==
  LET e == EntryAt(t, p)
  IN /\ scan' = [kor |-> k, cursor |-> CursorOf(t, p), current |-> e.id, resume |-> None]
     /\ atEnd' = FALSE /\ established' = TRUE
     /\ Stands(where)
     /\ Store!Says(verb, arg, "00", db.recs[e.id])

(* READ KEY IS: the first entry with the value.                            *)
ReadKey(k, v) ==
  /\ open # "closed" /\ access = "dynamic"
  /\ LET p == Matched("eq", Tree(k), v)
     IN IF p # None THEN Found("read", <<k, v>>, Tree(k), p, k, After(KeyAt(Tree(k), p)))
        ELSE /\ scan' = [scan EXCEPT !.kor = k]
             /\ established' = FALSE /\ Stands(Nowhere)
             /\ Store!Says("read", <<k, v>>, "23", None)
             /\ UNCHANGED atEnd
  /\ UNCHANGED <<db, undo, open, access, verbs, base>>

(* READ NEXT and READ PREVIOUS.  Once AT END was reached the interpreter   *)
(* answers 46 without asking the engine.                                   *)
ReadSeq(dir) ==
  /\ open # "closed" /\ ~atEnd
  /\ LET t == SeqTree
         p == SeqSlot(dir)
         q == IF p = None THEN None ELSE Deliver(t, p, dir)
         there == IF reached.is = "nowhere" THEN Nowhere ELSE After(KeyAt(t, q))
     IN IF q # None THEN Found(dir, None, t, q, scan.kor, there)
        ELSE /\ scan' = [scan EXCEPT !.resume = None]
             /\ atEnd' = TRUE /\ established' = FALSE /\ Stands(Nowhere)
             /\ Store!Says(dir, None, "10", None)
  /\ UNCHANGED <<db, undo, open, access, verbs, base>>

PastEnd(dir) == open # "closed" /\ atEnd /\ Failed(dir, None, "46")

(* START: the next READ NEXT is to deliver the entry found.                *)
Start(op, k, v) ==
  /\ open # "closed"
  /\ LET t == Tree(k)
         p == Matched(op, t, v)
     IN IF p # None
        THEN /\ scan' = [kor |-> k, cursor |-> CursorOf(t, StepBack(t, p)), current |-> 0, resume |-> None]
             /\ atEnd' = FALSE /\ Stands(From(KeyAt(t, p)))
             /\ Store!Says("start", <<op, k, v>>, "00", None)
        ELSE /\ scan' = [scan EXCEPT !.kor = k]
             /\ Stands(Nowhere)
             /\ Store!Says("start", <<op, k, v>>, "23", None)
             /\ UNCHANGED atEnd
  /\ established' = FALSE
  /\ UNCHANGED <<db, undo, open, access, verbs, base>>

Commit == /\ open # "closed"
          /\ undo' = <<>> /\ base' = Content(db)
          /\ Store!Says("commit", None, "00", None)
          /\ UNCHANGED <<db, open, access, scan, program, reached, shifted>>

Rollback == /\ open # "closed"
            /\ db' = Replayed(db, undo) /\ undo' = <<>>
            /\ scan' = [AtStart EXCEPT !.kor = scan.kor]
            /\ Stands(Beginning)
            /\ Store!Says("rollback", None, "00", None)
            /\ UNCHANGED <<open, access, program, base>>

Next == \/ Open \/ Close \/ Refused \/ Commit \/ Rollback
        \/ \E r \in Record : Write(r) \/ Rewrite(r)
        \/ \E key \in Store!Keys \cup {None} : Delete(key)
        \/ \E a \in Sought : ReadKey(a[1], a[2])
        \/ \E s \in Starts : Start(s[1], s[2], s[3])
        \/ \E dir \in {"next", "previous"} : ReadSeq(dir) \/ PastEnd(dir)

Spec == Init /\ [][Next]_vars

---------------------------------------------------------------------------
(* Types; the pages of the trees are distinct, and a join sequence is one  *)
(* that NextSeq gave and will not give again.                              *)
Leaves == UNION {{<<k, j>> : j \in DOMAIN Tree(k)} : k \in KeyNo}

TypeOK ==
  /\ db.recs \in Seq(Record \cup {Free}) /\ db.seq \in Nat /\ db.page \in Nat
  /\ \A a, b \in Leaves : Tree(a[1])[a[2]].page = Tree(b[1])[b[2]].page => a = b
  /\ \A k \in KeyNo : \A p \in Slots(Tree(k)) :
        KeyAt(Tree(k), p)[2] \in IF Dup(k) THEN 1 .. NextSeq(db) - 1 ELSE {0}
  /\ open \in {"closed", "input", "io"} /\ access \in Access
  /\ scan.kor \in KeyNo /\ scan.current \in 0 .. Len(db.recs)
  /\ \A n \in DOMAIN undo : undo[n].verb \in {"write", "rewrite", "delete"} /\ undo[n].rec \in Record
  /\ atEnd \in BOOLEAN /\ established \in BOOLEAN /\ verbs \in 0 .. LastVerb

(* After every verb, failed or not, every index holds exactly one entry of *)
(* every record, under its own value, and nothing else; and its entries    *)
(* are in order and in the leaf a search for them goes to (write_inner,    *)
(* rewrite_inner, delete_inner, op_abort, rollback).                       *)
IndexesDescribeRecords ==
  \A k \in KeyNo :
    LET t == Tree(k)
    IN /\ \A n \in LiveIn(db) : \E p \in Slots(t) :
            {q \in Slots(t) : EntryAt(t, q).id = n} = {p} /\ KeyAt(t, p)[1] = Value(db.recs[n], k)
       /\ \A p \in Slots(t) : /\ EntryAt(t, p).id \in LiveIn(db)
                              /\ LeafFor(t, KeyAt(t, p)) = p[1]
                              /\ \A q \in Slots(t) : Less(p, q) <=> Less(KeyAt(t, p), KeyAt(t, q))

(* Every step is a step of the abstract store: a verb changes the records  *)
(* all at once or not at all, its FILE STATUS says which, a keyed READ     *)
(* delivers a record with the key, START finds one exactly when there is   *)
(* one, and ROLLBACK brings back the last COMMIT, though it only replays   *)
(* inverse verbs and looks at the status of none (rollback).               *)
ImplementsKeyedStore == Store!Spec

(* What READ NEXT and READ PREVIOUS owe a program that stands at a place.  *)
Due(dir) ==
  LET t == Active
      beyond == {p \in Slots(t) :
                   CASE reached.is = "start" -> TRUE
                     [] reached.is = "from"  -> ~Less(KeyAt(t, p), reached.key)
                     [] reached.is = "after" -> IF dir = "next" THEN Less(reached.key, KeyAt(t, p))
                                                ELSE Less(KeyAt(t, p), reached.key)}
  IN IF dir = "next" THEN FirstOf(beyond) ELSE LastOf(beyond)

Delivers(dir) == LET p == Due(dir)
                 IN reply' = IF p = None THEN Store!Said(dir, None, "10", None)
                             ELSE Store!Said(dir, None, "00", db.recs[EntryAt(Active, p).id])

(* A scan in either direction neither skips nor repeats a record, whatever *)
(* the program deleted or rewrote where it stood, by key or not, through   *)
(* splits and emptied leaves, as long as no other verb moved an entry of   *)
(* the tree it walks (read_seq, delete_inner, rewrite_inner: resume_key).  *)
(* Not after a REWRITE refused with 22, which leaves resume_key behind; nor*)
(* for READ PREVIOUS after START, nor after a DELETE of the last record:   *)
(* find_ge finds nothing to step back from.                                *)
ScanIsExact ==
  [][ \A dir \in {"next", "previous"} :
        ReadSeq(dir) /\ reached.is # "nowhere" /\ shifted = {}
          /\ (dir = "previous" => /\ reached.is # "from"
                                  /\ reached.is = "after" => FindGe(Active, reached.key) # None)
        => Delivers(dir) ]_vars

(* READ NEXT is exact whatever other records the program deleted by key:   *)
(* "A keyed DELETE of some *other* record leaves the cursor's own entry in *)
(* place, and stepping from its slot is still right" (delete_inner).       *)
KeyedDeleteLeavesTheCursor ==
  [][ ReadSeq("next") /\ reached.is # "nowhere" /\ shifted \subseteq {"delete"} => Delivers("next") ]_vars
=============================================================================
