--------------------------- MODULE FormHostProofs ---------------------------
(***************************************************************************)
(* The host and the programs, for every number of forms and of handles:    *)
(* no blocked call is lost, no windowHandler variable names a closed form  *)
(* unawares, the screen shows what the supervisor knows, and a form that   *)
(* waits stays open.  Two of these hold under a hypothesis, without which  *)
(* the code breaks them: that no window is a shell, whose panes drop the   *)
(* actions of a retired form, and that only the root's program guards its  *)
(* form, as no other FormState reaches the supervisor.                     *)
(***************************************************************************)
EXTENDS FormHost, FiniteSetTheorems, SequenceTheorems, TLAPS

Items(s) == {s[i] : i \in DOMAIN s}

LEMMA ItemsOfConcat ==
  ASSUME NEW T, NEW s \in Seq(T), NEW t \in Seq(T)
  PROVE  s \o t \in Seq(T) /\ Items(s \o t) = Items(s) \cup Items(t)
<1>1. /\ s \o t \in Seq(T) /\ Len(s \o t) = Len(s) + Len(t)
      /\ \A i \in 1 .. Len(s) + Len(t) : (s \o t)[i] = IF i <= Len(s) THEN s[i] ELSE t[i - Len(s)]
      /\ Len(s) \in Nat /\ Len(t) \in Nat
      /\ DOMAIN s = 1 .. Len(s) /\ DOMAIN t = 1 .. Len(t)
      /\ DOMAIN (s \o t) = 1 .. Len(s) + Len(t)
  BY ConcatProperties, LenProperties
<1>2. Items(s \o t) \subseteq Items(s) \cup Items(t)
  <2> SUFFICES ASSUME NEW i \in 1 .. Len(s) + Len(t)
               PROVE  (s \o t)[i] \in Items(s) \cup Items(t)
    BY <1>1 DEF Items
  <2>1. CASE i <= Len(s)
    BY <1>1, <2>1 DEF Items
  <2>2. CASE ~(i <= Len(s))
    <3>1. i - Len(s) \in 1 .. Len(t)
      BY <1>1, <2>2
    <3> QED
      BY <1>1, <2>2, <3>1 DEF Items
  <2> QED
    BY <2>1, <2>2
<1>3. Items(s) \subseteq Items(s \o t)
  <2> SUFFICES ASSUME NEW i \in 1 .. Len(s) PROVE s[i] \in Items(s \o t)
    BY <1>1 DEF Items
  <2>1. i \in 1 .. Len(s) + Len(t) /\ (s \o t)[i] = s[i]
    BY <1>1
  <2> QED
    BY <1>1, <2>1 DEF Items
<1>4. Items(t) \subseteq Items(s \o t)
  <2> SUFFICES ASSUME NEW i \in 1 .. Len(t) PROVE t[i] \in Items(s \o t)
    BY <1>1 DEF Items
  <2>1. i + Len(s) \in 1 .. Len(s) + Len(t) /\ ~(i + Len(s) <= Len(s)) /\ (i + Len(s)) - Len(s) = i
    BY <1>1
  <2>2. (s \o t)[i + Len(s)] = t[i]
    BY <1>1, <2>1
  <2> QED
    BY <1>1, <2>1, <2>2 DEF Items
<1> QED
  BY <1>1, <1>2, <1>3, <1>4

LEMMA ItemsOfTail ==
  ASSUME NEW T, NEW s \in Seq(T), s # <<>>
  PROVE  /\ Head(s) \in T /\ Tail(s) \in Seq(T)
         /\ Items(s) = {Head(s)} \cup Items(Tail(s))
         /\ \A x : s = <<x>> => Head(s) = x /\ Tail(s) = <<>>
<1>1. /\ Head(s) \in T /\ Tail(s) \in Seq(T) /\ Len(Tail(s)) = Len(s) - 1
      /\ \A i \in 1 .. Len(Tail(s)) : Tail(s)[i] = s[i + 1]
      /\ Len(s) \in Nat \ {0} /\ DOMAIN s = 1 .. Len(s) /\ Head(s) = s[1]
      /\ DOMAIN Tail(s) = 1 .. Len(s) - 1
  BY HeadTailProperties, LenProperties, EmptySeq
<1>2. Items(Tail(s)) \subseteq Items(s) /\ Head(s) \in Items(s)
  BY <1>1 DEF Items
<1>3. Items(s) \subseteq {Head(s)} \cup Items(Tail(s))
  <2> SUFFICES ASSUME NEW i \in 1 .. Len(s), i # 1 PROVE s[i] \in Items(Tail(s))
    BY <1>1 DEF Items
  <2>1. i - 1 \in 1 .. Len(s) - 1 /\ (i - 1) + 1 = i
    BY <1>1
  <2> QED
    BY <1>1, <2>1 DEF Items
<1>4. ASSUME NEW x, s = <<x>>
      PROVE  Head(s) = x /\ Tail(s) = <<>>
  BY <1>4
<1> QED
  BY <1>1, <1>2, <1>3, <1>4

LEMMA ItemsOfFew ==
  /\ Items(<<>>) = {}
  /\ \A x : Items(<<x>>) = {x}
BY DEF Items
-----------------------------------------------------------------------------
(* What the types of the host say.                                         *)

Issued == 0 .. next - 1

TableTypes ==
  /\ next \in 1 .. LastHandle + 1
  /\ DOMAIN handles \subseteq Issued
  /\ \A h \in DOMAIN handles : handles[h] \in HandleInfo

QueueTypes ==
  /\ work \in Seq(Item)
  /\ requests \in Seq(Request)
  /\ mirror \in Seq(BOOLEAN)

ScreenTypes ==
  /\ DOMAIN bodies \subseteq Issued
  /\ \A h \in DOMAIN bodies : bodies[h] \in [form : Form, pane : Handle \cup {None}]
  /\ top \in [Handle -> Form \cup {None}]
  /\ closing \in BOOLEAN

Value == Handle \cup {None, Error, Done}

ProgramTypes ==
  /\ prog \in [Handle -> {"none", "running", "asking", "ended"}]
  /\ answer \in [Handle -> SUBSET Value]
  /\ quits \subseteq Handle
  /\ state \in [Handle -> BOOLEAN]
  /\ var \in [Handle -> Handle \cup {None}]
  /\ super \in [Handle -> Handle \cup {None}]
  /\ inbox \in [Handle -> SUBSET Handle]

HostTypes == TableTypes /\ QueueTypes /\ ScreenTypes /\ ProgramTypes

LEMMA HandleNumbers ==
  /\ Handle \subseteq Nat /\ Root \in Handle /\ None \notin Handle
  /\ Asker = Handle /\ IsFiniteSet(Handle)
<1>1. LastHandle \in Nat
  BY HandleAssumption
<1>2. IsFiniteSet(Handle)
  BY <1>1, FS_Interval DEF Handle
<1> QED
  BY <1>1, <1>2, NobodyAssumption, AskersAssumption DEF Handle, Root

LEMMA IssuedHandles ==
  ASSUME next \in 1 .. LastHandle + 1
  PROVE  Issued \subseteq Handle
BY HandleAssumption DEF Issued, Handle

LEMMA OrderCovers ==
  ASSUME NEW S, IsFiniteSet(S), NEW s \in Orders(S)
  PROVE  s \in Seq(S) /\ Items(s) = S
<1> DEFINE n == Cardinality(S)
<1>1. n \in Nat /\ IsFiniteSet(1 .. n) /\ Cardinality(1 .. n) = n
  BY FS_CardinalityType, FS_Interval
<1>2. s \in [1 .. n -> S] /\ \A i, j \in 1 .. n : i < j => s[i] # s[j]
  BY DEF Orders
<1>3. s \in Seq(S)
  BY <1>1, <1>2
<1>4. \A i, j \in 1 .. n : s[i] = s[j] => i = j
  <2> TAKE i, j \in 1 .. n
  <2>1. i < j \/ j < i \/ i = j
    BY <1>1
  <2> QED
    BY <1>2, <2>1
<1>5. s \in Injection(1 .. n, S)
  BY <1>2, <1>4 DEF Injection, IsInjective
<1> HIDE DEF n
<1>6. s \in Surjection(1 .. n, S)
  BY <1>1, <1>5, FS_Injection DEF n
<1>7. \A x \in S : \E i \in 1 .. n : s[i] = x
  BY <1>6 DEF Surjection
<1> QED
  BY <1>2, <1>3, <1>7 DEF Items

(* Every handle that goes has its window closed and its programs told.     *)
LEMMA ItemsOfClosings ==
  ASSUME NEW closed \in Seq(Handle)
  PROVE  /\ Closings(closed) \in Seq(Item)
         /\ \A x \in Items(Closings(closed)) :
               \E h \in Items(closed) : x = Do("CloseWindow", h) \/ x = Do("Closed", h)
         /\ \A h \in Items(closed) : {Do("CloseWindow", h), Do("Closed", h)} \subseteq Items(Closings(closed))
<1> DEFINE n == Len(closed)
           c == Closings(closed)
<1>1. n \in Nat /\ DOMAIN closed = 1 .. n /\ \A k \in 1 .. n : closed[k] \in Handle
  BY LenProperties, ElementOfSeq
<1>2. \A i \in 1 .. 2 * n : (i + 1) \div 2 \in 1 .. n
  BY <1>1
<1>3. /\ DOMAIN c = 1 .. 2 * n
      /\ \A i \in 1 .. 2 * n :
            c[i] = Do(IF i % 2 = 1 THEN "CloseWindow" ELSE "Closed", closed[(i + 1) \div 2])
  BY DEF Closings
<1>4. c = [i \in 1 .. 2 * n |-> c[i]]
  BY DEF Closings
<1> HIDE DEF c
<1>5. \A i \in 1 .. 2 * n : c[i] \in Item
  BY <1>1, <1>2, <1>3 DEF Do, Item
<1>6. c \in [1 .. 2 * n -> Item] /\ 2 * n \in Nat
  BY <1>1, <1>4, <1>5
<1>7. c \in Seq(Item)
  BY <1>6
<1>8. \A x \in Items(c) : \E h \in Items(closed) : x = Do("CloseWindow", h) \/ x = Do("Closed", h)
  <2> SUFFICES ASSUME NEW i \in 1 .. 2 * n
               PROVE  \E h \in Items(closed) : c[i] = Do("CloseWindow", h) \/ c[i] = Do("Closed", h)
    BY <1>3 DEF Items
  <2>1. closed[(i + 1) \div 2] \in Items(closed)
    BY <1>1, <1>2 DEF Items
  <2> QED
    BY <1>3, <2>1
<1>9. \A h \in Items(closed) : {Do("CloseWindow", h), Do("Closed", h)} \subseteq Items(c)
  <2> SUFFICES ASSUME NEW k \in 1 .. n
               PROVE  Do("CloseWindow", closed[k]) \in Items(c) /\ Do("Closed", closed[k]) \in Items(c)
    BY <1>1 DEF Items
  <2>1. /\ 2 * k - 1 \in 1 .. 2 * n /\ (2 * k - 1) % 2 = 1 /\ ((2 * k - 1) + 1) \div 2 = k
        /\ 2 * k \in 1 .. 2 * n /\ (2 * k) % 2 = 0 /\ (2 * k + 1) \div 2 = k
    BY <1>1
  <2>2. c[2 * k - 1] = Do("CloseWindow", closed[k]) /\ c[2 * k] = Do("Closed", closed[k])
    BY <1>3, <2>1
  <2> QED
    BY <1>3, <2>1, <2>2 DEF Items
<1> QED
  BY <1>7, <1>8, <1>9 DEF c
-----------------------------------------------------------------------------
(* What a call of the supervisor does to the host and the programs.        *)

(* No window comes or goes.                                                *)
Silent == /\ UNCHANGED <<handles, next>>
          /\ out'.spawn = None /\ out'.closed = <<>> /\ out'.exit = FALSE

(* The handles S go, with what they held back and what they leave to do.   *)
Gone(S) ==
  /\ S \subseteq DOMAIN handles /\ next' = next
  /\ DOMAIN handles' = DOMAIN handles \ S
  /\ \A h \in DOMAIN handles' : /\ handles'[h] \in HandleInfo
                                /\ handles'[h].kind = handles[h].kind
                                /\ handles'[h].waiting = handles[h].waiting
                                /\ handles'[h].asker = handles[h].asker
  /\ \A h \in Handle : Answered[h] = answer[h] \cup (IF Holding(h) \cap S = {} THEN {} ELSE {None})
  /\ Returned \in Seq(Item)
  /\ \A x \in Items(Returned) :
        x.do = "Exit" \/ \E h \in S : x = Do("CloseWindow", h) \/ x = Do("Closed", h)
  /\ \A h \in S : {Do("CloseWindow", h), Do("Closed", h)} \subseteq Items(Returned)
  /\ {out'.closed[i] : i \in DOMAIN out'.closed} = S

(* A window comes.                                                         *)
Came(info) ==
  /\ next <= LastHandle /\ next' = next + 1
  /\ info \in HandleInfo /\ ~info.waiting /\ info.kind # "Root"
  /\ DOMAIN handles' = DOMAIN handles \cup {next}
  /\ handles'[next] = info
  /\ \A h \in DOMAIN handles : handles'[h] = handles[h]

LEMMA WithoutKeeps ==
  ASSUME TableTypes, NEW S, handles' = Without(S)
  PROVE  /\ DOMAIN handles' = DOMAIN handles \ S
         /\ \A h \in DOMAIN handles' : /\ handles'[h] \in HandleInfo
                                       /\ handles'[h].kind = handles[h].kind
                                       /\ handles'[h].waiting = handles[h].waiting
                                       /\ handles'[h].asker = handles[h].asker
<1>1. DOMAIN handles' = DOMAIN handles \ S
  BY DEF Without
<1>2. ASSUME NEW h \in DOMAIN handles'
      PROVE  /\ handles'[h] \in HandleInfo
             /\ handles'[h].kind = handles[h].kind
             /\ handles'[h].waiting = handles[h].waiting
             /\ handles'[h].asker = handles[h].asker
  <2>1. handles[h] \in HandleInfo
    BY <1>1 DEF TableTypes
  <2>2. handles'[h] = IF handles[h].caller \in S THEN [handles[h] EXCEPT !.caller = None]
                                                 ELSE handles[h]
    BY <1>1 DEF Without
  <2> QED
    BY <2>1, <2>2 DEF HandleInfo
<1> QED
  BY <1>1, <1>2

LEMMA WithAdds ==
  ASSUME TableTypes, next <= LastHandle, next' = next + 1,
         NEW info \in HandleInfo, ~info.waiting, info.kind # "Root", handles' = With(next, info)
  PROVE  Came(info)
<1>1. next \notin DOMAIN handles
  BY HandleAssumption DEF TableTypes, Issued
<1> QED
  BY <1>1 DEF Came, With

(* The answers that a call sends join those that wait.                     *)
LEMMA NoAnswers ==
  ASSUME out'.answers = {} PROVE \A h \in Handle : Answered[h] = answer[h]
BY DEF Answered

LEMMA OneAnswer ==
  ASSUME NEW a \in Handle \cup {None}, NEW v, out'.answers = Answer(a, v)
  PROVE  \A h \in Handle : Answered[h] = answer[h] \cup (IF h = a THEN {v} ELSE {})
<1> TAKE h \in Handle
<1>1. {x[2] : x \in {b \in out'.answers : b[1] = h}} = IF h = a THEN {v} ELSE {}
  <2>1. CASE a = None
    BY <2>1, HandleNumbers DEF Answer
  <2>2. CASE a # None
    <3>1. out'.answers = {<<a, v>>}
      BY <2>2 DEF Answer
    <3>2. {b \in out'.answers : b[1] = h} = IF h = a THEN {<<a, v>>} ELSE {}
      BY <3>1
    <3>3. \A x \in {<<a, v>>} : x[2] = v
      OBVIOUS
    <3> QED
      BY <3>2, <3>3
  <2> QED
    BY <2>1, <2>2
<1> QED
  BY <1>1 DEF Answered

LEMMA AnswersHeld ==
  ASSUME TableTypes, NEW S, S \subseteq DOMAIN handles, out'.answers = HeldAnswers(S)
  PROVE  \A h \in Handle : Answered[h] = answer[h] \cup (IF Holding(h) \cap S = {} THEN {} ELSE {None})
<1> TAKE h \in Handle
<1>0. h # None
  BY HandleNumbers
<1>1. \A b \in out'.answers : \E c \in S : b = <<handles[c].asker, None>> /\ handles[c].asker # None
  BY DEF HeldAnswers, Answer
<1>2. \A c \in S : handles[c].asker # None => <<handles[c].asker, None>> \in out'.answers
  BY DEF HeldAnswers, Answer
<1>3. {x[2] : x \in {b \in out'.answers : b[1] = h}} = IF Holding(h) \cap S = {} THEN {} ELSE {None}
  <2>1. CASE Holding(h) \cap S = {}
    <3>1. \A c \in S : handles[c].asker # h
      BY <2>1 DEF Holding
    <3>2. \A b \in out'.answers : b[1] # h
      BY <1>1, <3>1
    <3> QED
      BY <2>1, <3>2
  <2>2. CASE Holding(h) \cap S # {}
    <3>1. PICK c \in S : handles[c].asker = h
      BY <2>2 DEF Holding
    <3>2. <<h, None>> \in out'.answers
      BY <1>0, <1>2, <3>1
    <3>3. \A b \in out'.answers : b[2] = None
      BY <1>1
    <3> QED
      BY <2>2, <3>2, <3>3
  <2> QED
    BY <2>1, <2>2
<1> QED
  BY <1>3 DEF Answered

LEMMA ReturnedGone ==
  ASSUME NEW S, out'.spawn = None, out'.closed \in Seq(Handle), Items(out'.closed) = S
  PROVE  /\ Returned \in Seq(Item)
         /\ \A x \in Items(Returned) :
               x.do = "Exit" \/ \E h \in S : x = Do("CloseWindow", h) \/ x = Do("Closed", h)
         /\ \A h \in S : {Do("CloseWindow", h), Do("Closed", h)} \subseteq Items(Returned)
<1> DEFINE c == Closings(out'.closed)
           e == IF out'.exit THEN <<[do |-> "Exit"]>> ELSE <<>>
<1>1. Returned = (<<>> \o c) \o e
  BY DEF Returned
<1>2. c \in Seq(Item) /\ e \in Seq(Item) /\ <<>> \in Seq(Item)
  <2>1. [do |-> "Exit"] \in Item
    BY DEF Item
  <2>2. <<[do |-> "Exit"]>> \in Seq(Item) /\ <<>> \in Seq(Item)
    BY <2>1
  <2> QED
    BY <2>2, ItemsOfClosings
<1>3. \A x \in Items(e) : x.do = "Exit"
  BY ItemsOfFew
<1> HIDE DEF c, e
<1>4. Returned \in Seq(Item) /\ Items(Returned) = Items(c) \cup Items(e)
  BY <1>1, <1>2, ItemsOfConcat, ConcatEmptySeq
<1> QED
  BY <1>3, <1>4, ItemsOfClosings DEF c

LEMMA ClosingsOfNone == Closings(<<>>) = <<>>
<1> DEFINE c == Closings(<<>>)
<1>1. <<>> \in Seq(Handle)
  OBVIOUS
<1>2. c \in Seq(Item) /\ \A x \in Items(c) : \E h \in Items(<<>>) : TRUE
  BY <1>1, ItemsOfClosings
<1>3. Items(c) = {}
  BY <1>2, ItemsOfFew
<1> HIDE DEF c
<1>4. DOMAIN c = {} /\ DOMAIN c = 1 .. Len(c)
  <2>1. \A i \in DOMAIN c : c[i] \in Items(c)
    BY DEF Items
  <2>2. DOMAIN c = 1 .. Len(c)
    BY <1>2, LenProperties
  <2> QED
    BY <1>3, <2>1, <2>2
<1>5. c = <<>>
  <2> SUFFICES ASSUME Len(c) \in Nat \ {0} PROVE FALSE
    BY <1>2, EmptySeq
  <2> QED
    BY <1>4
<1> QED
  BY <1>5 DEF c

LEMMA ReturnedSilent ==
  ASSUME out'.spawn = None, out'.closed = <<>>, out'.exit = FALSE
  PROVE  Returned = <<>>
BY ClosingsOfNone DEF Returned

LEMMA ReturnedSpawn ==
  ASSUME next \in Handle, out'.spawn = next, out'.closed = <<>>, out'.exit = FALSE
  PROVE  Returned = <<Do("Spawn", next)>>
<1>1. next # None
  BY HandleNumbers
<1>2. Returned = (<<Do("Spawn", next)>> \o <<>>) \o <<>>
  BY <1>1, ClosingsOfNone DEF Returned
<1>3. Do("Spawn", next) \in Item
  BY DEF Do, Item
<1>4. <<Do("Spawn", next)>> \in Seq(Item)
  BY <1>3
<1> QED
  BY <1>2, <1>4, ConcatEmptySeq

LEMMA GoneIs ==
  ASSUME TableTypes, NEW S, S \subseteq DOMAIN handles, handles' = Without(S), next' = next,
         out'.spawn = None, out'.answers = HeldAnswers(S),
         out'.closed \in Seq(Handle), Items(out'.closed) = S
  PROVE  Gone(S)
<1>1. \A h \in Handle : Answered[h] = answer[h] \cup (IF Holding(h) \cap S = {} THEN {} ELSE {None})
  BY AnswersHeld
<1>2. {out'.closed[i] : i \in DOMAIN out'.closed} = S
  BY DEF Items
<1>3. /\ Returned \in Seq(Item)
      /\ \A x \in Items(Returned) :
            x.do = "Exit" \/ \E h \in S : x = Do("CloseWindow", h) \/ x = Do("Closed", h)
      /\ \A h \in S : {Do("CloseWindow", h), Do("Closed", h)} \subseteq Items(Returned)
  BY ReturnedGone
<1> QED
  BY <1>1, <1>2, <1>3, WithoutKeeps DEF Gone

LEMMA SubtreeOpen == ASSUME NEW h PROVE Subtree(h) \subseteq DOMAIN handles
BY DEF Subtree

LEMMA SubtreeKind ==
  ASSUME NEW h, NEW c \in Subtree(h)
  PROVE  handles[c].kind \in {"Sync", "Async"}
<1> DEFINE S == {x \in DOMAIN handles : handles[x].kind \in {"Sync", "Async"}}
<1>1. S \in SUBSET DOMAIN handles /\ \A p \in S \cup {h} : WindowChildren(p) \subseteq S
  BY DEF WindowChildren
<1>2. \A T \in SUBSET DOMAIN handles : (\A p \in T \cup {h} : WindowChildren(p) \subseteq T) => c \in T
  BY DEF Subtree
<1>3. c \in S
  BY <1>1, <1>2
<1> QED
  BY <1>3

LEMMA CloseEffect ==
  ASSUME TableTypes, NEW h \in Handle, TryClose(h)
  PROVE  \/ Silent /\ \A x \in Handle : Answered[x] = answer[x]
         \/ \E S : Gone(S) /\ WaitingIn(S) = {}
<1>1. CASE ~IsOpen(h) /\ out' = Quiet /\ UNCHANGED <<handles, next>>
  <2>1. out'.answers = {}
    BY <1>1 DEF Quiet
  <2> QED
    BY <1>1, <2>1, NoAnswers DEF Quiet, Silent
<1>2. CASE IsOpen(h) /\ Veto(h)
  <2>1. PICK w \in Blocking(h) : out' = [Quiet EXCEPT !.call = "close", !.rejected = {w, h}]
    BY <1>2 DEF Veto
  <2>2. out'.spawn = None /\ out'.closed = <<>> /\ out'.exit = FALSE /\ out'.answers = {}
    BY <2>1 DEF Quiet
  <2> QED
    BY <1>2, <2>2, NoAnswers DEF Silent, Veto
<1>3. CASE IsOpen(h) /\ CloseAll(h)
  <2> DEFINE S == Victims(h)
  <2>1. /\ S \subseteq DOMAIN handles /\ IsFiniteSet(S) /\ S \subseteq Handle
    <3>1. S \subseteq DOMAIN handles
      BY <1>3, SubtreeOpen DEF Victims, IsOpen
    <3>2. DOMAIN handles \subseteq Handle
      BY IssuedHandles DEF TableTypes
    <3> QED
      BY <3>1, <3>2, HandleNumbers, FS_Subset
  <2>2. PICK order \in DeepestFirst(S) :
           out' = [Quiet EXCEPT !.call = "close",
                                !.closed = order,
                                !.answers = HeldAnswers(S),
                                !.exit = Empties(S)]
    BY <1>3 DEF CloseAll
  <2>3. order \in Seq(S) /\ Items(order) = S
    BY <2>1, OrderCovers DEF DeepestFirst
  <2>4. /\ out'.spawn = None /\ out'.closed = order /\ out'.answers = HeldAnswers(S)
    BY <2>2 DEF Quiet
  <2>5. handles' = Without(S) /\ next' = next /\ WaitingIn(S) = {}
    BY <1>3 DEF CloseAll, Blocking
  <2> HIDE DEF S
  <2>6. order \in Seq(Handle)
    BY <2>1, <2>3, SeqMonotonic
  <2>7. Gone(S)
    BY <2>1, <2>3, <2>4, <2>5, <2>6, GoneIs
  <2> QED
    BY <2>5, <2>7
<1> QED
  BY <1>1, <1>2, <1>3 DEF TryClose

LEMMA FinishEffect ==
  ASSUME TableTypes, NEW h \in Handle, FormFinished(h)
  PROVE  /\ h \notin DOMAIN handles'
         /\ \/ Silent /\ out' = Quiet /\ \A x \in Handle : Answered[x] = answer[x]
            \/ \E S : Gone(S) /\ \A c \in S \ {h} : handles[c].kind \in {"Sync", "Async"}
<1>1. CASE ~IsOpen(h)
  <2>1. out' = Quiet /\ UNCHANGED <<handles, next>>
    BY <1>1 DEF FormFinished
  <2>2. out'.answers = {}
    BY <2>1 DEF Quiet
  <2> QED
    BY <1>1, <2>1, <2>2, NoAnswers DEF Quiet, Silent, IsOpen
<1>2. CASE IsOpen(h)
  <2> DEFINE T == Taken(h)
             S == T \cup {h}
  <2>1. PICK order \in ChildrenFirst(T) :
           out' = [Quiet EXCEPT !.call = "finished",
                                !.closed = <<h>> \o order,
                                !.rejected = Subtree(h) \ T,
                                !.answers = HeldAnswers(S),
                                !.exit = Empties(S)]
    BY <1>2 DEF FormFinished
  <2>2. handles' = Without(S) /\ next' = next
    BY <1>2 DEF FormFinished
  <2>3. T \subseteq Subtree(h)
    BY DEF Taken
  <2> HIDE DEF T
  <2>4. /\ S \subseteq DOMAIN handles /\ T \subseteq Handle /\ IsFiniteSet(T)
    <3>1. S \subseteq DOMAIN handles
      BY <1>2, <2>3, SubtreeOpen DEF IsOpen
    <3>2. DOMAIN handles \subseteq Handle
      BY IssuedHandles DEF TableTypes
    <3> QED
      BY <3>1, <3>2, HandleNumbers, FS_Subset
  <2>5. order \in Seq(T) /\ Items(order) = T
    BY <2>4, OrderCovers DEF ChildrenFirst
  <2>6. order \in Seq(Handle) /\ <<h>> \in Seq(Handle)
    BY <2>4, <2>5, SeqMonotonic
  <2>7. <<h>> \o order \in Seq(Handle) /\ Items(<<h>> \o order) = S
    <3>1. Items(<<h>>) = {h}
      BY ItemsOfFew
    <3>2. <<h>> \o order \in Seq(Handle) /\ Items(<<h>> \o order) = Items(<<h>>) \cup Items(order)
      BY <2>6, ItemsOfConcat
    <3> QED
      BY <2>5, <3>1, <3>2
  <2>8. out'.spawn = None /\ out'.closed = <<h>> \o order /\ out'.answers = HeldAnswers(S)
    BY <2>1 DEF Quiet
  <2> HIDE DEF S
  <2>9. Gone(S)
    BY <2>2, <2>4, <2>7, <2>8, GoneIs
  <2>10. h \notin DOMAIN handles'
    BY <2>9 DEF Gone, S
  <2>11. \A c \in S \ {h} : handles[c].kind \in {"Sync", "Async"}
    BY <2>3, SubtreeKind DEF S
  <2> QED
    BY <2>9, <2>10, <2>11
<1> QED
  BY <1>1, <1>2

LEMMA OpenEffect ==
  ASSUME TableTypes, NEW caller \in Handle, NEW f \in Form, NEW sync \in BOOLEAN,
         NEW modal \in BOOLEAN, NEW a \in Handle \cup {None}, OpenForm(caller, f, sync, modal, a)
  PROVE  \/ /\ Silent
            /\ \E v \in DOMAIN handles : \A h \in Handle :
                  Answered[h] = answer[h] \cup (IF h = a THEN {v} ELSE {})
         \/ /\ Returned = <<Do("Spawn", next)>>
            /\ \E info : /\ Came(info)
                         /\ \/ info.asker = a /\ \A h \in Handle : Answered[h] = answer[h]
                            \/ /\ info.asker = None
                               /\ \A h \in Handle :
                                    Answered[h] = answer[h] \cup (IF h = a THEN {next} ELSE {})
<1>1. CASE /\ \E h \in RunningMain(f) : out' = [Quiet EXCEPT !.answers = Answer(a, h)]
           /\ UNCHANGED <<handles, next>>
  <2>1. PICK v \in RunningMain(f) : out' = [Quiet EXCEPT !.answers = Answer(a, v)]
    BY <1>1
  <2>2. /\ out'.answers = Answer(a, v) /\ v \in DOMAIN handles
        /\ out'.spawn = None /\ out'.closed = <<>> /\ out'.exit = FALSE
    BY <2>1 DEF Quiet, RunningMain
  <2> QED
    BY <1>1, <2>2, OneAnswer DEF Silent
<1>2. CASE /\ next <= LastHandle
           /\ handles' = With(next, Fresh(f, IF sync THEN "Sync" ELSE "Async", caller, Held(sync, modal),
                                          IF Held(sync, modal) THEN a ELSE None))
           /\ out' = [Quiet EXCEPT !.spawn = next,
                                   !.answers = IF Held(sync, modal) THEN {} ELSE Answer(a, next)]
           /\ next' = next + 1
  <2> DEFINE kind == IF sync THEN "Sync" ELSE "Async"
             held == Held(sync, modal)
             info == Fresh(f, kind, caller, held, IF held THEN a ELSE None)
  <2>1. /\ info \in HandleInfo /\ ~info.waiting /\ info.kind # "Root"
        /\ info.asker = IF held THEN a ELSE None
    BY HandleNumbers DEF Fresh, HandleInfo, Kind, Held
  <2>2. handles' = With(next, info)
    BY <1>2
  <2>3. /\ out'.spawn = next /\ out'.closed = <<>> /\ out'.exit = FALSE
        /\ out'.answers = IF held THEN {} ELSE Answer(a, next)
    BY <1>2 DEF Quiet
  <2> HIDE DEF info, held, kind
  <2>4. Came(info)
    BY <1>2, <2>1, <2>2, WithAdds
  <2>5. next \in Handle
    BY <1>2 DEF TableTypes, Handle
  <2>6. Returned = <<Do("Spawn", next)>>
    BY <2>3, <2>5, ReturnedSpawn
  <2>7. CASE held
    BY <2>1, <2>3, <2>4, <2>6, <2>7, NoAnswers
  <2>8. CASE ~held
    <3>1. out'.answers = Answer(a, next) /\ info.asker = None
      BY <2>1, <2>3, <2>8
    <3>2. \A h \in Handle : Answered[h] = answer[h] \cup (IF h = a THEN {next} ELSE {})
      BY <3>1, OneAnswer
    <3> QED
      BY <2>4, <2>6, <3>1, <3>2
  <2> QED
    BY <2>7, <2>8
<1> QED
  BY <1>1, <1>2 DEF OpenForm

LEMMA EmbedEffect ==
  ASSUME TableTypes, NEW caller \in Handle, NEW f \in Form, OpenEmbedded(caller, f)
  PROVE  /\ out' = Quiet
         /\ \E info : Came(info) /\ info.asker = None
<1> DEFINE info == Fresh(f, "Embedded", caller, FALSE, None)
<1>1. /\ info \in HandleInfo /\ ~info.waiting /\ info.kind # "Root" /\ info.asker = None
  BY HandleNumbers DEF Fresh, HandleInfo, Kind
<1>2. handles' = With(next, info) /\ next <= LastHandle /\ next' = next + 1 /\ out' = Quiet
  BY DEF OpenEmbedded
<1> HIDE DEF info
<1> QED
  BY <1>1, <1>2, WithAdds
-----------------------------------------------------------------------------
(* The shape of the worklist: a window that opens is the only thing to do, *)
(* and nothing is done to a handle that was not given out.                 *)
ItemsIssued == \A x \in Items(work) : x.do # "Exit" => x.handle \in Issued

SpawnAlone ==
  \A h \in Handle :
     Do("Spawn", h) \in Items(work) =>
        /\ work = <<Do("Spawn", h)>>
        /\ h \in DOMAIN handles /\ h # Root /\ prog[h] = "none"

NotYet == \A h \in Handle : h >= next => prog[h] = "none"

Shape == HostTypes /\ ItemsIssued /\ SpawnAlone /\ NotYet

(* The same windows, but for what the supervisor knows of their FormState. *)
Same == /\ DOMAIN handles' = DOMAIN handles /\ next' = next
        /\ \A h \in DOMAIN handles : /\ handles'[h] \in HandleInfo
                                     /\ handles'[h].kind = handles[h].kind
                                     /\ handles'[h].asker = handles[h].asker

LEMMA UnchangedIsSame == ASSUME TableTypes, UNCHANGED <<handles, next>> PROVE Same
BY DEF Same, TableTypes

LEMMA NotedIsSame ==
  ASSUME TableTypes, NEW h \in Handle, NEW w \in BOOLEAN, NoteFormState(h, w)
  PROVE  /\ Same /\ out' = Quiet
         /\ \A x \in DOMAIN handles : handles'[x].waiting = IF x = h THEN w ELSE handles[x].waiting
<1>1. /\ handles' = IF IsOpen(h) THEN [handles EXCEPT ![h].waiting = w] ELSE handles
      /\ out' = Quiet /\ next' = next
  BY DEF NoteFormState
<1>2. ASSUME NEW x \in DOMAIN handles
      PROVE  /\ handles'[x] \in HandleInfo
             /\ handles'[x].kind = handles[x].kind
             /\ handles'[x].asker = handles[x].asker
             /\ handles'[x].waiting = IF x = h THEN w ELSE handles[x].waiting
  <2>1. handles[x] \in HandleInfo
    BY DEF TableTypes
  <2>2. CASE IsOpen(h) /\ x = h
    <3>1. handles'[x] = [handles[x] EXCEPT !.waiting = w]
      BY <1>1, <2>2
    <3> QED
      BY <2>1, <2>2, <3>1 DEF HandleInfo
  <2>3. CASE ~(IsOpen(h) /\ x = h)
    BY <1>1, <2>1, <2>3 DEF IsOpen
  <2> QED
    BY <2>2, <2>3
<1>3. DOMAIN handles' = DOMAIN handles
  BY <1>1
<1> QED
  BY <1>1, <1>2, <1>3 DEF Same

LEMMA QuietIs ==
  ASSUME out' = Quiet
  PROVE  /\ out'.spawn = None /\ out'.closed = <<>> /\ out'.exit = FALSE /\ out'.answers = {}
         /\ Returned = <<>> /\ \A h \in Handle : Answered[h] = answer[h]
<1>1. out'.spawn = None /\ out'.closed = <<>> /\ out'.exit = FALSE /\ out'.answers = {}
  BY DEF Quiet
<1> QED
  BY <1>1, ReturnedSilent, NoAnswers

LEMMA TableSame == ASSUME TableTypes, Same PROVE TableTypes' /\ Issued' = Issued
BY DEF TableTypes, Same, Issued

LEMMA TableGone == ASSUME TableTypes, NEW S, Gone(S) PROVE TableTypes' /\ Issued' = Issued /\ S \subseteq Issued
BY DEF TableTypes, Gone, Issued

LEMMA TableCame ==
  ASSUME TableTypes, NEW info, Came(info)
  PROVE  /\ TableTypes' /\ Issued \subseteq Issued' /\ next \in Issued'
         /\ next \in Handle /\ next # Root /\ next \notin DOMAIN handles
<1>1. next \in 1 .. LastHandle /\ next' = next + 1 /\ LastHandle \in Nat
  BY HandleAssumption DEF TableTypes, Came
<1>2. Issued' = Issued \cup {next} /\ next \notin Issued
  BY <1>1 DEF Issued
<1>3. next' \in 1 .. LastHandle + 1
  BY <1>1
<1>4. next \in Handle /\ next # Root
  BY <1>1 DEF Handle, Root
<1> QED
  BY <1>2, <1>3, <1>4 DEF TableTypes, Came

LEMMA NoSpawnBehind ==
  ASSUME Shape, work # <<>>
  PROVE  /\ Head(work) \in Item /\ Tail(work) \in Seq(Item) /\ Head(work) \in Items(work)
         /\ Items(Tail(work)) \subseteq Items(work)
         /\ Items(work) = {Head(work)} \cup Items(Tail(work))
         /\ \A h \in Handle : Do("Spawn", h) \notin Items(Tail(work))
<1>1. work \in Seq(Item)
  BY DEF Shape, HostTypes, QueueTypes
<1>2. ASSUME NEW h \in Handle, Do("Spawn", h) \in Items(Tail(work))
      PROVE  FALSE
  <2>1. work = <<Do("Spawn", h)>>
    BY <1>1, <1>2, ItemsOfTail DEF Shape, SpawnAlone
  <2>2. Tail(work) = <<>>
    BY <1>1, <2>1, ItemsOfTail
  <2> QED
    BY <1>2, <2>2, ItemsOfFew
<1> QED
  BY <1>1, <1>2, ItemsOfTail

(* One thing to do for each of a set of handles, in some order.            *)
LEMMA DoEach ==
  ASSUME NEW S, S \subseteq Handle, NEW what \in {"Release", "Retire"}, NEW order \in Orders(S)
  PROVE  /\ [i \in DOMAIN order |-> Do(what, order[i])] \in Seq(Item)
         /\ Items([i \in DOMAIN order |-> Do(what, order[i])]) = {Do(what, h) : h \in S}
<1>1. IsFiniteSet(S)
  BY HandleNumbers, FS_Subset
<1>2. order \in Seq(S) /\ Items(order) = S
  BY <1>1, OrderCovers
<1>3. DOMAIN order = 1 .. Len(order) /\ Len(order) \in Nat /\ \A i \in DOMAIN order : order[i] \in S
  BY <1>2, LenProperties, ElementOfSeq
<1> DEFINE w == [i \in DOMAIN order |-> Do(what, order[i])]
<1>4. \A i \in DOMAIN order : w[i] = Do(what, order[i]) /\ w[i] \in Item
  BY <1>3 DEF Do, Item
<1>5. w \in [1 .. Len(order) -> Item]
  BY <1>3, <1>4
<1>6. w \in Seq(Item) /\ DOMAIN w = DOMAIN order
  BY <1>3, <1>5
<1> HIDE DEF w
<1>7. Items(w) = {Do(what, h) : h \in S}
  BY <1>2, <1>4, <1>6 DEF Items
<1> QED
  BY <1>6, <1>7 DEF w

LEMMA RetiringIs ==
  ASSUME NEW S, S \subseteq Handle, NEW w \in Retiring(S)
  PROVE  w \in Seq(Item) /\ Items(w) = {Do("Retire", h) : h \in S}
<1>1. PICK order \in Orders(S) : w = [i \in DOMAIN order |-> Do("Retire", order[i])]
  BY DEF Retiring
<1> QED
  BY <1>1, DoEach
-----------------------------------------------------------------------------
(* The steps of the host keep the shape.                                   *)

LEMMA AnsweredTyped ==
  ASSUME \A h \in Handle : Answered[h] \subseteq Value
  PROVE  Answered \in [Handle -> SUBSET Value]
BY DEF Answered

LEMMA RequestIs ==
  ASSUME NEW r \in Request
  PROVE  /\ r.type \in {"Open", "Close", "CloseSelf"}
         /\ r.type = "Open" => /\ r.caller \in Handle /\ r.form \in Form /\ r.sync \in BOOLEAN
                               /\ r.modal \in BOOLEAN /\ r.asker \in Handle \cup {None}
         /\ r.type = "Close" => r.asker \in Handle /\ r.target \in Handle
         /\ r.type = "CloseSelf" => r.target \in Handle
BY DEF Request

LEMMA GoneAnswers ==
  ASSUME ProgramTypes, NEW S, Gone(S)
  PROVE  /\ \A h \in Handle : Answered[h] \subseteq answer[h] \cup {None}
         /\ Answered \in [Handle -> SUBSET Value]
<1>1. \A h \in Handle : Answered[h] \subseteq answer[h] \cup {None}
  BY DEF Gone
<1>2. \A h \in Handle : Answered[h] \subseteq Value
  BY <1>1 DEF ProgramTypes, Value
<1> QED
  BY <1>1, <1>2, AnsweredTyped

(* A call of the supervisor between two worklists.                         *)
CallEffect ==
  /\ work = <<>> /\ work' = Returned
  /\ UNCHANGED <<bodies, top, closing, programs>>
  /\ requests' \in Seq(Request) /\ mirror' \in Seq(BOOLEAN)
  /\ answer' \in [Handle -> SUBSET Value]
  /\ \/ /\ Same /\ Returned = <<>>
        /\ \A h \in Handle : answer'[h] \cap Handle \subseteq answer[h] \cup DOMAIN handles
     \/ /\ \E S : Gone(S)
        /\ \A h \in Handle : answer'[h] \cap Handle \subseteq answer[h]
     \/ /\ \E info : Came(info)
        /\ Returned = <<Do("Spawn", next)>>
        /\ \A h \in Handle : answer'[h] \cap Handle \subseteq answer[h] \cup {next}

LEMMA CloseIsCall ==
  ASSUME HostTypes, NEW h \in Handle, Calls(TryClose(h)) \/ Calls(FormFinished(h)),
         answer' = Answered,
         requests' \in Seq(Request), mirror' \in Seq(BOOLEAN)
  PROVE  CallEffect
<1>1. /\ work = <<>> /\ work' = Returned /\ UNCHANGED <<bodies, top, closing, programs>>
      /\ TryClose(h) \/ FormFinished(h)
  BY DEF Calls
<1>2. CASE Silent /\ \A x \in Handle : Answered[x] = answer[x]
  <2>1. Same /\ Returned = <<>>
    BY <1>2, UnchangedIsSame, ReturnedSilent DEF Silent, HostTypes
  <2>2. Answered \in [Handle -> SUBSET Value]
    BY <1>2, AnsweredTyped DEF HostTypes, ProgramTypes
  <2> QED
    BY <1>1, <1>2, <2>1, <2>2 DEF CallEffect
<1>3. CASE \E S : Gone(S)
  <2>1. \A x \in Handle : Answered[x] \cap Handle \subseteq answer[x]
    BY <1>3, GoneAnswers, HandleNumbers DEF HostTypes
  <2>2. Answered \in [Handle -> SUBSET Value]
    BY <1>3, GoneAnswers DEF HostTypes
  <2> QED
    BY <1>1, <1>3, <2>1, <2>2 DEF CallEffect
<1> QED
  BY <1>1, <1>2, <1>3, CloseEffect, FinishEffect DEF HostTypes

LEMMA TakeIsCall ==
  ASSUME HostTypes, TakeRequest \/ TakeMirror
  PROVE  CallEffect
<1> USE DEF HostTypes, QueueTypes
<1>1. CASE TakeMirror
  <2>1. /\ Head(mirror) \in BOOLEAN /\ Tail(mirror) \in Seq(BOOLEAN)
        /\ mirror' = Tail(mirror) /\ UNCHANGED <<requests, answer>>
        /\ Calls(NoteFormState(Root, Head(mirror)))
    BY <1>1, ItemsOfTail DEF TakeMirror
  <2>2. Same /\ out' = Quiet
    BY <2>1, NotedIsSame, HandleNumbers DEF Calls
  <2>3. Returned = <<>>
    BY <2>2, QuietIs
  <2> QED
    BY <2>1, <2>2, <2>3 DEF CallEffect, Calls, ProgramTypes
<1>2. CASE TakeRequest
  <2> DEFINE r == Head(requests)
  <2>1. /\ r \in Request /\ Tail(requests) \in Seq(Request)
        /\ requests' = Tail(requests) /\ mirror' = mirror
    BY <1>2, ItemsOfTail DEF TakeRequest
  <2>2. \/ /\ r.type = "Open"
           /\ Calls(OpenForm(r.caller, r.form, r.sync, r.modal, r.asker))
           /\ answer' = Answered
        \/ /\ r.type = "Close"
           /\ Calls(TryClose(r.target))
           /\ answer' = [Answered EXCEPT ![r.asker] = @ \cup CloseReply(r.target)]
        \/ /\ r.type = "CloseSelf"
           /\ Calls(TryClose(r.target))
           /\ answer' = Answered
    BY <1>2 DEF TakeRequest
  <2> HIDE DEF r
  <2>3. CASE r.type = "CloseSelf" /\ Calls(TryClose(r.target)) /\ answer' = Answered
    BY <2>1, <2>3, RequestIs, CloseIsCall
  <2>4. CASE r.type = "Close" /\ Calls(TryClose(r.target))
             /\ answer' = [Answered EXCEPT ![r.asker] = @ \cup CloseReply(r.target)]
    <3>1. r.asker \in Handle /\ r.target \in Handle
      BY <2>1, <2>4, RequestIs
    <3>2. \A h \in Handle : /\ answer'[h] \subseteq Answered[h] \cup {Done, Error}
                            /\ answer'[h] \cap Handle \subseteq Answered[h]
      <4>1. CloseReply(r.target) \subseteq {Done, Error} /\ Done \notin Handle /\ Error \notin Handle
        BY AnswersAssumption DEF CloseReply
      <4> QED
        BY <2>4, <4>1 DEF Answered
    <3>3. CASE Silent /\ \A x \in Handle : Answered[x] = answer[x]
      <4>1. Same /\ Returned = <<>>
        BY <3>3, UnchangedIsSame, ReturnedSilent DEF Silent
      <4>2. answer' \in [Handle -> SUBSET Value]
        BY <2>4, <3>2, <3>3 DEF Answered, ProgramTypes, Value
      <4> QED
        BY <2>1, <2>4, <3>2, <3>3, <4>1, <4>2 DEF CallEffect, Calls
    <3>4. CASE \E S : Gone(S)
      <4>1. \A h \in Handle : answer'[h] \subseteq Value /\ answer'[h] \cap Handle \subseteq answer[h]
        <5>1. \A h \in Handle : Answered[h] \subseteq answer[h] \cup {None} /\ answer[h] \subseteq Value
          BY <3>4, GoneAnswers DEF ProgramTypes
        <5> QED
          BY <3>2, <5>1, HandleNumbers DEF Value
      <4>2. answer' \in [Handle -> SUBSET Value]
        BY <2>4, <4>1 DEF Answered
      <4> QED
        BY <2>1, <2>4, <3>4, <4>1, <4>2 DEF CallEffect, Calls
    <3> QED
      BY <2>4, <3>1, <3>3, <3>4, CloseEffect DEF Calls
  <2>5. CASE r.type = "Open" /\ Calls(OpenForm(r.caller, r.form, r.sync, r.modal, r.asker))
             /\ answer' = Answered
    <3>1. /\ r.caller \in Handle /\ r.form \in Form /\ r.sync \in BOOLEAN
          /\ r.modal \in BOOLEAN /\ r.asker \in Handle \cup {None}
      BY <2>1, <2>5, RequestIs
    <3>2. ASSUME Silent,
                 NEW v \in DOMAIN handles,
                 \A h \in Handle : Answered[h] = answer[h] \cup (IF h = r.asker THEN {v} ELSE {})
          PROVE  CallEffect
      <4>1. Same /\ Returned = <<>>
        BY <3>2, UnchangedIsSame, ReturnedSilent DEF Silent
      <4>2. \A h \in Handle : Answered[h] \subseteq Value
        BY <3>2, IssuedHandles DEF ProgramTypes, TableTypes, Value
      <4>3. \A h \in Handle : Answered[h] \cap Handle \subseteq answer[h] \cup DOMAIN handles
        BY <3>2
      <4> QED
        BY <2>1, <2>5, <4>1, <4>2, <4>3, AnsweredTyped DEF CallEffect, Calls
    <3>3. ASSUME Returned = <<Do("Spawn", next)>>, NEW info, Came(info),
                 \A h \in Handle : Answered[h] \subseteq answer[h] \cup {next}
          PROVE  CallEffect
      <4>1. next \in Handle
        BY <3>3, TableCame
      <4>2. \A h \in Handle : Answered[h] \subseteq Value
        BY <3>3, <4>1 DEF ProgramTypes, Value
      <4> QED
        BY <2>1, <2>5, <3>3, <4>2, AnsweredTyped DEF CallEffect, Calls
    <3>4. \/ /\ Silent
             /\ \E v \in DOMAIN handles : \A h \in Handle :
                   Answered[h] = answer[h] \cup (IF h = r.asker THEN {v} ELSE {})
          \/ /\ Returned = <<Do("Spawn", next)>>
             /\ \E info : Came(info) /\ \A h \in Handle : Answered[h] \subseteq answer[h] \cup {next}
      BY <2>5, <3>1, OpenEffect DEF Calls
    <3> QED
      BY <3>2, <3>3, <3>4
  <2> QED
    BY <2>2, <2>3, <2>4, <2>5 DEF r
<1> QED
  BY <1>1, <1>2

LEMMA CallShape ==
  ASSUME Shape, CallEffect
  PROVE  Shape'
<1> USE DEF CallEffect, programs
<1>0. /\ TableTypes /\ QueueTypes /\ ScreenTypes /\ ProgramTypes /\ Items(work) = {}
  BY ItemsOfFew DEF Shape, HostTypes
<1>1. ProgramTypes'
  BY <1>0 DEF ProgramTypes
<1>2. CASE Same /\ Returned = <<>>
  <2>1. TableTypes' /\ Issued' = Issued /\ next' = next
    BY <1>0, <1>2, TableSame DEF Same
  <2>2. Items(work') = {} /\ work' \in Seq(Item)
    BY <1>2, ItemsOfFew
  <2> QED
    BY <1>0, <1>1, <2>1, <2>2
    DEF Shape, HostTypes, QueueTypes, ScreenTypes, ItemsIssued, SpawnAlone, NotYet
<1>3. CASE \E S : Gone(S)
  <2>1. PICK S : Gone(S)
    BY <1>3
  <2>2. TableTypes' /\ Issued' = Issued /\ S \subseteq Issued /\ next' = next
    BY <1>0, <2>1, TableGone DEF Gone
  <2>3. /\ work' \in Seq(Item)
        /\ \A x \in Items(work') :
              x.do = "Exit" \/ \E h \in S : x = Do("CloseWindow", h) \/ x = Do("Closed", h)
    BY <2>1 DEF Gone
  <2>4. \A x \in Items(work') : x.do # "Spawn" /\ (x.do # "Exit" => x.handle \in Issued)
    BY <2>2, <2>3 DEF Do
  <2>5. \A h \in Handle : Do("Spawn", h) \notin Items(work')
    BY <2>4 DEF Do
  <2>6. HostTypes'
    BY <1>0, <1>1, <2>2, <2>3 DEF HostTypes, QueueTypes, ScreenTypes
  <2>7. ItemsIssued' /\ SpawnAlone' /\ NotYet'
    BY <2>2, <2>4, <2>5 DEF ItemsIssued, SpawnAlone, NotYet, Shape
  <2> QED
    BY <2>6, <2>7 DEF Shape
<1>4. CASE (\E info : Came(info)) /\ Returned = <<Do("Spawn", next)>>
  <2>1. PICK info : Came(info)
    BY <1>4
  <2>2. /\ TableTypes' /\ Issued \subseteq Issued' /\ next \in Issued'
        /\ next \in Handle /\ next # Root /\ next \in DOMAIN handles' /\ next' = next + 1
    BY <1>0, <2>1, TableCame DEF Came
  <2>3. Items(work') = {Do("Spawn", next)} /\ work' = <<Do("Spawn", next)>>
    BY <1>4, ItemsOfFew
  <2>4. Do("Spawn", next) \in Item
    BY <2>2 DEF Do, Item
  <2>5. work' \in Seq(Item)
    BY <2>3, <2>4
  <2>6. HostTypes'
    BY <1>0, <1>1, <2>2, <2>5 DEF HostTypes, QueueTypes, ScreenTypes
  <2>7. ItemsIssued'
    BY <2>2, <2>3 DEF ItemsIssued, Do
  <2>8. prog[next] = "none" /\ prog' = prog
    BY <1>0, <2>2, HandleNumbers DEF Shape, NotYet
  <2>9. SpawnAlone'
    <3> SUFFICES ASSUME NEW h \in Handle, Do("Spawn", h) \in Items(work')
                 PROVE  h = next
      BY <2>2, <2>3, <2>8 DEF SpawnAlone
    <3> QED
      BY <2>3 DEF Do
  <2>10. NotYet'
    <3>1. \A h \in Handle : h >= next + 1 => h >= next
      BY <1>0, HandleNumbers, HandleAssumption DEF TableTypes
    <3> QED
      BY <2>2, <2>8, <3>1 DEF Shape, NotYet
  <2> QED
    BY <2>6, <2>7, <2>9, <2>10 DEF Shape
<1> QED
  BY <1>2, <1>3, <1>4

(* The first thing on the worklist.                                        *)
LEMMA HeadIs ==
  ASSUME Shape, NEW d \in {"Spawn", "CloseWindow", "Closed", "Release", "Retire"}, Now(d)
  PROVE  /\ work # <<>> /\ Head(work).handle \in Handle /\ Head(work).handle \in Issued
         /\ Head(work) = Do(d, Head(work).handle) /\ Head(work) \in Items(work)
<1>1. work # <<>> /\ Head(work) \in Item /\ Head(work) \in Items(work) /\ Head(work).do = d
  BY NoSpawnBehind DEF Now
<1>2. Head(work) \in [do : {"Spawn", "CloseWindow", "Closed", "Release", "Retire"}, handle : Handle]
  BY <1>1 DEF Item
<1>3. Head(work) = [do |-> Head(work).do, handle |-> Head(work).handle]
  BY <1>2
<1>4. Head(work).handle \in Issued
  BY <1>1 DEF Shape, ItemsIssued
<1> QED
  BY <1>1, <1>2, <1>3, <1>4 DEF Do

LEMMA PopShape ==
  ASSUME Shape, work # <<>>, work' \in Seq(Item),
         \A x \in Items(work') : \/ x \in Items(Tail(work))
                                 \/ x.do = "Exit"
                                 \/ (x.do # "Spawn" /\ x.handle \in Issued'),
         TableTypes', Issued \subseteq Issued', next' = next,
         ScreenTypes', ProgramTypes', UNCHANGED <<requests, mirror>>,
         \A h \in Handle : h >= next => prog'[h] = "none"
  PROVE  Shape'
<1>1. HostTypes'
  BY DEF Shape, HostTypes, QueueTypes
<1>2. ItemsIssued'
  BY NoSpawnBehind DEF Shape, ItemsIssued
<1>3. \A h \in Handle : Do("Spawn", h) \notin Items(work')
  <2>1. \A h \in Handle : Do("Spawn", h).do = "Spawn"
    BY DEF Do
  <2> QED
    BY <2>1, NoSpawnBehind
<1> QED
  BY <1>1, <1>2, <1>3 DEF Shape, SpawnAlone, NotYet

(* What a call of the supervisor returns joins the rest of the worklist.   *)
LEMMA AppendedShape ==
  ASSUME Shape, work # <<>>, NEW h \in Handle, FormFinished(h),
         work' = Tail(work) \o Returned \/ work' = Tail(work)
  PROVE  /\ work' \in Seq(Item)
         /\ \A x \in Items(work') : \/ x \in Items(Tail(work))
                                    \/ x.do = "Exit"
                                    \/ (x.do # "Spawn" /\ x.handle \in Issued')
         /\ TableTypes' /\ Issued \subseteq Issued' /\ next' = next
         /\ Answered \in [Handle -> SUBSET Value]
<1>0. TableTypes /\ ProgramTypes
  BY DEF Shape, HostTypes
<1>1. Tail(work) \in Seq(Item)
  BY NoSpawnBehind
<1>2. CASE Silent /\ out' = Quiet /\ \A x \in Handle : Answered[x] = answer[x]
  <2>1. Returned = <<>> /\ <<>> \in Seq(Item)
    BY <1>2, QuietIs
  <2>2. work' = Tail(work)
    BY <1>1, <2>1, ConcatEmptySeq
  <2>3. Same
    BY <1>0, <1>2, UnchangedIsSame DEF Silent
  <2>4. Answered \in [Handle -> SUBSET Value]
    BY <1>0, <1>2, AnsweredTyped DEF ProgramTypes
  <2>5. TableTypes' /\ Issued' = Issued /\ next' = next
    BY <1>0, <2>3, TableSame DEF Same
  <2> QED
    BY <1>1, <2>2, <2>4, <2>5
<1>3. CASE \E S : Gone(S)
  <2>1. PICK S : Gone(S)
    BY <1>3
  <2>2. /\ TableTypes' /\ Issued' = Issued /\ S \subseteq Issued /\ next' = next
        /\ Answered \in [Handle -> SUBSET Value]
    BY <1>0, <2>1, TableGone, GoneAnswers DEF Gone
  <2>3. Returned \in Seq(Item)
    BY <2>1 DEF Gone
  <2>4. \A x \in Items(Returned) : x.do = "Exit" \/ (x.do # "Spawn" /\ x.handle \in Issued')
    BY <2>1, <2>2 DEF Gone, Do
  <2>5. work' \in Seq(Item) /\ Items(work') \subseteq Items(Tail(work)) \cup Items(Returned)
    <3>1. CASE work' = Tail(work)
      BY <1>1, <3>1
    <3>2. CASE work' = Tail(work) \o Returned
      <4> DEFINE rest == Tail(work)
                 more == Returned
      <4>0. rest \in Seq(Item) /\ more \in Seq(Item) /\ work' = rest \o more
        BY <1>1, <2>3, <3>2
      <4> HIDE DEF rest, more
      <4>1. /\ rest \o more \in Seq(Item)
            /\ Items(rest \o more) = Items(rest) \cup Items(more)
        BY <4>0, ItemsOfConcat
      <4>2. work' \in Seq(Item) /\ Items(work') = Items(rest) \cup Items(more)
        BY <4>0, <4>1
      <4> QED
        BY <4>2 DEF rest, more
    <3> QED
      BY <2>3, <3>1, <3>2
  <2> QED
    BY <2>2, <2>4, <2>5
<1> QED
  BY <1>0, <1>2, <1>3, FinishEffect

LEMMA SpawnShape ==
  ASSUME Shape, PerformSpawn
  PROVE  Shape'
<1> DEFINE h == Head(work).handle
<1>1. /\ work # <<>> /\ h \in Handle /\ Head(work) = Do("Spawn", h) /\ Head(work) \in Items(work)
  BY HeadIs DEF PerformSpawn
<1>2. /\ h \in DOMAIN handles /\ h # Root /\ prog[h] = "none" /\ Tail(work) \in Seq(Item)
  BY <1>1, NoSpawnBehind DEF Shape, SpawnAlone
<1>3. /\ UNCHANGED <<closing, requests, mirror>>
      /\ IF handles[h].form \in BrokenForm
           THEN SpawnFailed(h) /\ UNCHANGED <<bodies, top, programs>>
           ELSE /\ bodies' = Body(h, [form |-> handles[h].form, pane |-> None])
                /\ prog' = [prog EXCEPT ![h] = "running"]
                /\ super' = [super EXCEPT ![h] = handles[h].caller]
                /\ out' = Quiet
                /\ work' = Tail(work)
                /\ UNCHANGED <<handles, next, top, answer, quits, state, var, inbox>>
  BY DEF PerformSpawn
<1> HIDE DEF h
<1>4. CASE handles[h].form \in BrokenForm
  <2>1. FormFinished(h) /\ work' = Tail(work) \o Returned /\ answer' = Answered
        /\ UNCHANGED <<bodies, top, programs, closing>>
    BY <1>3, <1>4 DEF SpawnFailed
  <2>2. ScreenTypes' /\ ProgramTypes'
    BY <1>1, <2>1, AppendedShape DEF Shape, HostTypes, ScreenTypes, ProgramTypes, programs
  <2> QED
    BY <1>1, <1>3, <2>1, <2>2, AppendedShape, PopShape DEF Shape, NotYet, programs
<1>5. CASE handles[h].form \notin BrokenForm
  <2>1. handles[h] \in HandleInfo /\ h \in Issued
    BY <1>2 DEF Shape, HostTypes, TableTypes
  <2>2. ScreenTypes'
    <3>1. [form |-> handles[h].form, pane |-> None] \in [form : Form, pane : Handle \cup {None}]
      BY <2>1 DEF HandleInfo
    <3>2. DOMAIN bodies' = DOMAIN bodies \cup {h}
          /\ \A x \in DOMAIN bodies' : bodies'[x] = IF x = h THEN [form |-> handles[h].form, pane |-> None]
                                                    ELSE bodies[x]
      BY <1>3, <1>5 DEF Body
    <3> QED
      BY <1>3, <1>5, <2>1, <3>1, <3>2 DEF Shape, HostTypes, ScreenTypes, Issued
  <2>3. ProgramTypes'
    BY <1>1, <1>3, <1>5, <2>1 DEF Shape, HostTypes, ProgramTypes, HandleInfo
  <2>4. TableTypes' /\ Issued' = Issued /\ next' = next
    BY <1>3, <1>5 DEF Shape, HostTypes, TableTypes, Issued
  <2>5. \A x \in Handle : x >= next => prog'[x] = "none"
    <3>1. ~(h >= next)
      BY <2>1, HandleAssumption DEF Issued, Shape, HostTypes, TableTypes
    <3> QED
      BY <1>3, <1>5, <3>1 DEF Shape, NotYet, HostTypes, ProgramTypes
  <2> QED
    BY <1>1, <1>2, <1>3, <1>5, <2>2, <2>3, <2>4, <2>5, PopShape
<1> QED
  BY <1>4, <1>5

LEMMA CloseWindowShape ==
  ASSUME Shape, PerformCloseWindow
  PROVE  /\ Shape'
         /\ LET h     == Head(work).handle
                panes == IF h # Root THEN OccupantsOf(h) ELSE {}
            IN  /\ h \in Handle /\ Head(work) = Do("CloseWindow", h)
                /\ panes \subseteq DOMAIN bodies /\ panes \subseteq Handle
                /\ Items(work') = {Do("Release", x) : x \in panes} \cup Items(Tail(work))
                /\ DOMAIN bodies' = DOMAIN bodies \ ({h} \cup panes)
                /\ \A x \in DOMAIN bodies' : bodies'[x] = bodies[x]
<1> DEFINE h     == Head(work).handle
           panes == IF h # Root THEN OccupantsOf(h) ELSE {}
           there == {h} \cap DOMAIN bodies
<1>1. /\ work # <<>> /\ h \in Handle /\ Head(work) = Do("CloseWindow", h) /\ Tail(work) \in Seq(Item)
  BY HeadIs, NoSpawnBehind DEF PerformCloseWindow
<1>2. panes \subseteq DOMAIN bodies /\ panes \subseteq Handle /\ panes \subseteq Issued
  BY IssuedHandles DEF Shape, HostTypes, TableTypes, ScreenTypes, OccupantsOf
<1>3. /\ bodies' = NoBody(there \cup panes)
      /\ quits' = quits \cup QuitTo(there \cup panes)
      /\ closing' = (closing \/ h = Root)
      /\ UNCHANGED <<handles, next, top, requests, mirror, answer, prog, state, var, super, inbox>>
  BY DEF PerformCloseWindow
<1>4. PICK order \in Orders(panes) :
        work' = [i \in DOMAIN order |-> Do("Release", order[i])] \o Tail(work)
  BY DEF PerformCloseWindow
<1> HIDE DEF h, panes
<1>5. /\ work' \in Seq(Item)
      /\ Items(work') = {Do("Release", x) : x \in panes} \cup Items(Tail(work))
  <2> DEFINE first == [i \in DOMAIN order |-> Do("Release", order[i])]
  <2>1. first \in Seq(Item) /\ Items(first) = {Do("Release", x) : x \in panes}
    BY <1>2, DoEach
  <2>2. work' = first \o Tail(work) /\ Tail(work) \in Seq(Item)
    BY <1>1, <1>4
  <2> HIDE DEF first
  <2>3. /\ first \o Tail(work) \in Seq(Item)
        /\ Items(first \o Tail(work)) = Items(first) \cup Items(Tail(work))
    BY <2>1, <2>2, ItemsOfConcat
  <2> QED
    BY <2>1, <2>2, <2>3
<1>6. /\ DOMAIN bodies' = DOMAIN bodies \ ({h} \cup panes)
      /\ \A x \in DOMAIN bodies' : bodies'[x] = bodies[x]
  BY <1>3 DEF NoBody
<1>7. ScreenTypes' /\ TableTypes' /\ Issued' = Issued
  BY <1>3, <1>6 DEF Shape, HostTypes, ScreenTypes, TableTypes, Issued
<1>8. ProgramTypes'
  <2>1. quits' \subseteq Handle
    BY <1>3 DEF QuitTo, Running, Shape, HostTypes, ProgramTypes
  <2> QED
    BY <1>3, <2>1 DEF Shape, HostTypes, ProgramTypes
<1>9. \A x \in Items(work') : x \in Items(Tail(work)) \/ (x.do # "Spawn" /\ x.handle \in Issued')
  BY <1>2, <1>5, <1>7 DEF Do
<1>10. \A x \in Handle : x >= next => prog'[x] = "none"
  BY <1>3 DEF Shape, NotYet
<1>11. Shape'
  BY <1>1, <1>3, <1>5, <1>7, <1>8, <1>9, <1>10, PopShape
<1> QED
  BY <1>1, <1>2, <1>5, <1>6, <1>11 DEF h, panes

LEMMA OtherPerformShape ==
  ASSUME Shape, PerformRelease \/ PerformRetire \/ PerformClosed \/ PerformExit
  PROVE  Shape'
<1> DEFINE h == Head(work).handle
<1>0. /\ work # <<>> /\ Tail(work) \in Seq(Item)
      /\ UNCHANGED <<requests, mirror, top, prog, state, var, super>>
  BY NoSpawnBehind DEF PerformRelease, PerformRetire, PerformClosed, PerformExit, Now, programs
<1>1. \A x \in Handle : x >= next => prog'[x] = "none"
  BY <1>0 DEF Shape, NotYet
<1>2. \A T, answers : \A x \in Handle : Broadcast(T, answers)[x] \subseteq inbox[x] \cup T
  BY DEF Broadcast
<1>3. CASE PerformRelease
  <2>1. h \in Handle
    BY <1>3, HeadIs DEF PerformRelease
  <2>2. /\ FormFinished(h) /\ work' = Tail(work) \o Returned /\ answer' = Answered
        /\ UNCHANGED <<bodies, top, closing, programs>>
    BY <1>3 DEF PerformRelease
  <2>3. ScreenTypes' /\ ProgramTypes'
    BY <1>0, <2>1, <2>2, AppendedShape DEF Shape, HostTypes, ScreenTypes, ProgramTypes, programs
  <2> QED
    BY <1>0, <1>1, <2>1, <2>2, <2>3, AppendedShape, PopShape
<1>4. CASE PerformRetire
  <2>1. h \in Handle
    BY <1>4, HeadIs DEF PerformRetire
  <2>2. /\ FormFinished(h) /\ work' = Tail(work) /\ answer' = Answered
        /\ inbox' = Broadcast({out'.closed[i] : i \in DOMAIN out'.closed}, Answered)
        /\ bodies' = NoBody({h}) /\ quits' = quits \cup QuitTo({h}) /\ closing' = closing
    BY <1>4 DEF PerformRetire
  <2> HIDE DEF h
  <2>3. {out'.closed[i] : i \in DOMAIN out'.closed} \subseteq Handle
    <3>1. CASE out' = Quiet
      BY <3>1 DEF Quiet
    <3>2. CASE \E S : Gone(S)
      <4>1. PICK S : Gone(S)
        BY <3>2
      <4>2. S \subseteq Handle
        BY <4>1, TableGone, IssuedHandles DEF Shape, HostTypes, TableTypes
      <4> QED
        BY <4>1, <4>2 DEF Gone
    <3> QED
      BY <2>1, <2>2, <3>1, <3>2, FinishEffect DEF Shape, HostTypes
  <2>4. inbox' \in [Handle -> SUBSET Handle]
    BY <2>2, <2>3 DEF Broadcast, Shape, HostTypes, ProgramTypes
  <2>5. quits' \subseteq Handle
    BY <2>2 DEF QuitTo, Running, Shape, HostTypes, ProgramTypes
  <2>6. ProgramTypes'
    BY <1>0, <2>1, <2>2, <2>4, <2>5, AppendedShape DEF Shape, HostTypes, ProgramTypes
  <2>7. TableTypes' /\ next' = next /\ Issued \subseteq Issued'
    BY <1>0, <2>1, <2>2, AppendedShape
  <2>8. ScreenTypes'
    BY <1>0, <2>2, <2>7 DEF Shape, HostTypes, ScreenTypes, NoBody
  <2> QED
    BY <1>0, <1>1, <2>1, <2>2, <2>6, <2>7, <2>8, AppendedShape, PopShape
<1>5. CASE PerformClosed
  <2>1. h \in Handle
    BY <1>5, HeadIs DEF PerformClosed
  <2>2. /\ inbox' = Broadcast({h}, answer) /\ work' = Tail(work)
        /\ UNCHANGED <<handles, next, bodies, closing, answer, quits>>
    BY <1>5 DEF PerformClosed
  <2>3. inbox' \in [Handle -> SUBSET Handle]
    BY <2>1, <2>2 DEF Broadcast, Shape, HostTypes, ProgramTypes
  <2>4. ScreenTypes' /\ ProgramTypes' /\ TableTypes' /\ Issued' = Issued
    BY <1>0, <2>2, <2>3 DEF Shape, HostTypes, ScreenTypes, ProgramTypes, TableTypes, Issued
  <2> QED
    BY <1>0, <1>1, <2>2, <2>4, PopShape
<1>6. CASE PerformExit
  <2>1. /\ quits' = quits \cup QuitTo({Root}) /\ closing' = TRUE /\ work' = Tail(work)
        /\ UNCHANGED <<handles, next, bodies, answer, inbox>>
    BY <1>6 DEF PerformExit
  <2>2. quits' \subseteq Handle
    BY <2>1 DEF QuitTo, Running, Shape, HostTypes, ProgramTypes
  <2>3. ScreenTypes' /\ ProgramTypes' /\ TableTypes' /\ Issued' = Issued
    BY <1>0, <2>1, <2>2 DEF Shape, HostTypes, ScreenTypes, ProgramTypes, TableTypes, Issued
  <2> QED
    BY <1>0, <1>1, <2>1, <2>3, PopShape
<1> QED
  BY <1>3, <1>4, <1>5, <1>6
-----------------------------------------------------------------------------
(* The steps of the shell and of the programs keep the shape.              *)

(* The menu of the window o: a form comes on its pane, or none does, and   *)
(* forms of its pane retire.                                               *)
ShellEffect(o) ==
  /\ work = <<>> /\ work' \in Seq(Item)
  /\ o \in Handle /\ o \in DOMAIN bodies /\ bodies[o].form \in ShellForm
  /\ top' \in [Handle -> Form \cup {None}]
  /\ UNCHANGED <<closing, requests, mirror, answer, quits, state, var, inbox>>
  /\ \/ /\ UNCHANGED <<handles, next, bodies, prog, super>>
        /\ Items(work') \subseteq {Do("Retire", h) : h \in OccupantsOf(o)}
     \/ /\ \E info : Came(info) /\ info.asker = None
        /\ \/ /\ UNCHANGED <<bodies, prog, super>>
              /\ Items(work') = {Do("Retire", next)}
           \/ /\ \E f \in Form : bodies' = Body(next, [form |-> f, pane |-> o])
              /\ prog' = [prog EXCEPT ![next] = "running"]
              /\ super' = [super EXCEPT ![next] = o]
              /\ Items(work') \subseteq {Do("Retire", h) : h \in OccupantsOf(o)}

LEMMA RetiringOccupants ==
  ASSUME HostTypes, NEW o, NEW S, S = {} \/ S = Displayed(o), NEW w \in Retiring(S)
  PROVE  w \in Seq(Item) /\ Items(w) \subseteq {Do("Retire", h) : h \in OccupantsOf(o)}
<1>1. S \subseteq OccupantsOf(o) /\ OccupantsOf(o) \subseteq Handle
  BY IssuedHandles DEF Displayed, Occupant, OccupantsOf, HostTypes, ScreenTypes, TableTypes
<1>2. w \in Seq(Item) /\ Items(w) = {Do("Retire", h) : h \in S}
  BY <1>1, RetiringIs
<1> QED
  BY <1>1, <1>2

LEMMA NewOccupantIs ==
  ASSUME HostTypes, NEW o \in Handle, NEW f \in Form, NewOccupant(o, f)
  PROVE  /\ \E info : Came(info) /\ info.asker = None
         /\ bodies' = Body(next, [form |-> f, pane |-> o])
         /\ prog' = [prog EXCEPT ![next] = "running"]
         /\ super' = [super EXCEPT ![next] = o]
BY EmbedEffect DEF NewOccupant, HostTypes

LEMMA ShellIs ==
  ASSUME HostTypes, NEW o \in Handle,
         \/ \E f \in Form, preserve \in BOOLEAN : LoadForm(o, f, preserve)
         \/ \E retire \in BOOLEAN : ShowOwnForm(o, retire)
         \/ ResetForm(o)
  PROVE  ShellEffect(o)
<1>0. TableTypes /\ top \in [Handle -> Form \cup {None}]
  BY DEF HostTypes, ScreenTypes
<1>1. CASE ResetForm(o)
  <2>1. /\ work = <<>> /\ o \in DOMAIN bodies /\ bodies[o].form \in ShellForm
        /\ top[o] \in Form /\ NewOccupant(o, top[o]) /\ work' \in Retiring(Displayed(o))
        /\ UNCHANGED <<top, closing, requests, mirror, answer, quits, state, var, inbox>>
    BY <1>0, <1>1 DEF ResetForm, Shell, IsWindow
  <2>2. work' \in Seq(Item) /\ Items(work') \subseteq {Do("Retire", h) : h \in OccupantsOf(o)}
    BY <2>1, RetiringOccupants
  <2> QED
    BY <1>0, <2>1, <2>2, NewOccupantIs DEF ShellEffect
<1>2. CASE \E retire \in BOOLEAN : ShowOwnForm(o, retire)
  <2>1. PICK retire \in BOOLEAN : ShowOwnForm(o, retire)
    BY <1>2
  <2>2. /\ work = <<>> /\ o \in DOMAIN bodies /\ bodies[o].form \in ShellForm
        /\ top' = [top EXCEPT ![o] = None]
        /\ work' \in Retiring(IF retire THEN Displayed(o) ELSE {})
        /\ UNCHANGED <<handles, next, bodies, closing, requests, mirror, answer, programs>>
    BY <2>1 DEF ShowOwnForm, Shell, IsWindow
  <2>3. work' \in Seq(Item) /\ Items(work') \subseteq {Do("Retire", h) : h \in OccupantsOf(o)}
    BY <2>2, RetiringOccupants
  <2>4. top' \in [Handle -> Form \cup {None}]
    BY <1>0, <2>2
  <2> QED
    BY <2>2, <2>3, <2>4 DEF ShellEffect, programs
<1>3. CASE \E f \in Form, preserve \in BOOLEAN : LoadForm(o, f, preserve)
  <2>1. PICK f \in Form, preserve \in BOOLEAN : LoadForm(o, f, preserve)
    BY <1>3
  <2>2. /\ work = <<>> /\ o \in DOMAIN bodies /\ bodies[o].form \in ShellForm
        /\ UNCHANGED <<closing, requests, mirror, answer, quits, state, var, inbox>>
    BY <2>1 DEF LoadForm, Shell, IsWindow
  <2>3. CASE f \in BrokenForm
    <3>1. /\ OpenEmbedded(o, f) /\ work' = <<Do("Retire", next)>>
          /\ UNCHANGED <<bodies, top, prog, super>>
      BY <2>1, <2>3 DEF LoadForm
    <3>2. \E info : Came(info) /\ info.asker = None
      BY <1>0, <3>1, EmbedEffect
    <3>3. next \in Handle
      BY <1>0, <3>2, TableCame
    <3>4. Do("Retire", next) \in Item
      BY <3>3 DEF Do, Item
    <3>5. work' \in Seq(Item) /\ Items(work') = {Do("Retire", next)}
      BY <3>1, <3>4, ItemsOfFew
    <3> QED
      BY <1>0, <2>2, <3>1, <3>2, <3>5 DEF ShellEffect
  <2>4. CASE f \notin BrokenForm
    <3>1. /\ IF Occupant(o, f) = {}
               THEN NewOccupant(o, f)
               ELSE out' = Quiet /\ UNCHANGED <<handles, next, bodies, prog, super>>
          /\ top' = [top EXCEPT ![o] = f]
          /\ work' \in Retiring(IF preserve THEN {} ELSE Displayed(o))
      BY <2>1, <2>4 DEF LoadForm
    <3>2. work' \in Seq(Item) /\ Items(work') \subseteq {Do("Retire", h) : h \in OccupantsOf(o)}
      BY <3>1, RetiringOccupants
    <3>3. top' \in [Handle -> Form \cup {None}]
      BY <1>0, <3>1
    <3>4. CASE Occupant(o, f) = {}
      BY <2>2, <3>1, <3>2, <3>3, <3>4, NewOccupantIs DEF ShellEffect
    <3>5. CASE Occupant(o, f) # {}
      BY <2>2, <3>1, <3>2, <3>3, <3>5 DEF ShellEffect
    <3> QED
      BY <3>4, <3>5
  <2> QED
    BY <2>3, <2>4
<1> QED
  BY <1>1, <1>2, <1>3

LEMMA ShellShape ==
  ASSUME Shape, NEW o \in Handle, ShellEffect(o)
  PROVE  Shape'
<1>0. /\ TableTypes /\ QueueTypes /\ ScreenTypes /\ ProgramTypes
      /\ work' \in Seq(Item) /\ UNCHANGED <<closing, requests, mirror, answer, quits, state, var, inbox>>
      /\ top' \in [Handle -> Form \cup {None}]
  BY DEF Shape, HostTypes, ShellEffect
<1>1. QueueTypes'
  BY <1>0 DEF QueueTypes
<1>2. OccupantsOf(o) \subseteq Issued
  BY <1>0 DEF OccupantsOf, ScreenTypes
<1>3. SpawnAlone'
  <2>1. \A h \in Handle : Do("Spawn", h) \notin Items(work')
    <3>1. \A x \in Items(work') : x.do = "Retire"
      BY DEF ShellEffect, Do
    <3> QED
      BY <3>1 DEF Do
  <2> QED
    BY <2>1 DEF SpawnAlone
<1>4. CASE /\ UNCHANGED <<handles, next, bodies, prog, super>>
           /\ Items(work') \subseteq {Do("Retire", h) : h \in OccupantsOf(o)}
  <2>1. TableTypes' /\ ScreenTypes' /\ ProgramTypes' /\ Issued' = Issued
    BY <1>0, <1>4 DEF TableTypes, ScreenTypes, ProgramTypes, Issued
  <2>2. ItemsIssued' /\ NotYet'
    BY <1>2, <1>4, <2>1 DEF ItemsIssued, Do, NotYet, Shape
  <2> QED
    BY <1>1, <1>3, <2>1, <2>2 DEF Shape, HostTypes
<1>5. ASSUME NEW info, Came(info), info.asker = None
      PROVE  Shape'
  <2>1. /\ TableTypes' /\ Issued \subseteq Issued' /\ next \in Issued'
        /\ next \in Handle /\ next # Root /\ next' = next + 1
    BY <1>0, <1>5, TableCame DEF Came
  <2>2. \A h \in Handle : h >= next + 1 => h >= next /\ h # next
    BY <2>1, HandleNumbers
  <2>3. CASE UNCHANGED <<bodies, prog, super>> /\ Items(work') = {Do("Retire", next)}
    <3>1. ScreenTypes' /\ ProgramTypes'
      BY <1>0, <2>1, <2>3 DEF ScreenTypes, ProgramTypes
    <3>2. ItemsIssued' /\ NotYet'
      BY <2>1, <2>2, <2>3 DEF ItemsIssued, Do, NotYet, Shape
    <3> QED
      BY <1>1, <1>3, <2>1, <3>1, <3>2 DEF Shape, HostTypes
  <2>4. CASE /\ \E f \in Form : bodies' = Body(next, [form |-> f, pane |-> o])
             /\ prog' = [prog EXCEPT ![next] = "running"]
             /\ super' = [super EXCEPT ![next] = o]
             /\ Items(work') \subseteq {Do("Retire", h) : h \in OccupantsOf(o)}
    <3>1. ProgramTypes'
      BY <1>0, <2>4 DEF ProgramTypes
    <3>2. ScreenTypes'
      <4>1. PICK f \in Form : bodies' = Body(next, [form |-> f, pane |-> o])
        BY <2>4
      <4>2. /\ DOMAIN bodies' = DOMAIN bodies \cup {next}
            /\ \A x \in DOMAIN bodies' : bodies'[x] = IF x = next THEN [form |-> f, pane |-> o] ELSE bodies[x]
        BY <4>1 DEF Body
      <4> QED
        BY <1>0, <2>1, <4>2 DEF ScreenTypes
    <3>3. ItemsIssued' /\ NotYet'
      BY <1>0, <1>2, <2>1, <2>2, <2>4 DEF ItemsIssued, Do, NotYet, Shape, ProgramTypes
    <3> QED
      BY <1>1, <1>3, <2>1, <3>1, <3>2, <3>3 DEF Shape, HostTypes
  <2>5. next' # next
    BY <2>1, HandleNumbers
  <2> QED
    BY <2>3, <2>4, <2>5 DEF ShellEffect
<1> QED
  BY <1>4, <1>5 DEF ShellEffect

(* A program that asks the host drains its closed handles first.           *)
LEMMA SendsIs ==
  ASSUME HostTypes, NEW h \in Handle, NEW r, Sends(h, r)
  PROVE  /\ prog[h] = "running" /\ requests' = Append(requests, r)
         /\ UNCHANGED <<handles, next, host, mirror, answer, quits, state>>
         /\ var' = [var EXCEPT ![h] = Known(h, @)] /\ super' = [super EXCEPT ![h] = Known(h, @)]
         /\ inbox' = [inbox EXCEPT ![h] = {}]
         /\ Known(h, var[h]) \in Handle \cup {None} /\ Known(h, super[h]) \in Handle \cup {None}
         /\ r \in Request => QueueTypes'
         /\ \A s \in {"running", "asking"} : prog' = [prog EXCEPT ![h] = s] => ProgramTypes'
<1>1. /\ prog[h] = "running" /\ requests' = Append(requests, r)
      /\ UNCHANGED <<handles, next, host, mirror, answer, quits, state>>
      /\ var' = [var EXCEPT ![h] = Known(h, @)] /\ super' = [super EXCEPT ![h] = Known(h, @)]
      /\ inbox' = [inbox EXCEPT ![h] = {}]
  BY DEF Sends, Drain
<1>2. Known(h, var[h]) \in Handle \cup {None} /\ Known(h, super[h]) \in Handle \cup {None}
  BY DEF Known, HostTypes, ProgramTypes
<1>3. ASSUME r \in Request PROVE QueueTypes'
  BY <1>1, <1>3 DEF HostTypes, QueueTypes, host
<1>4. var' \in [Handle -> Handle \cup {None}] /\ super' \in [Handle -> Handle \cup {None}]
      /\ inbox' \in [Handle -> SUBSET Handle]
  BY <1>1, <1>2 DEF HostTypes, ProgramTypes
<1>5. ASSUME NEW s \in {"running", "asking"}, prog' = [prog EXCEPT ![h] = s]
      PROVE  ProgramTypes'
  BY <1>1, <1>4, <1>5 DEF HostTypes, ProgramTypes
<1> QED
  BY <1>1, <1>2, <1>3, <1>5

(* What a program asks: a window, a close through one of its handles, or   *)
(* its own close.                                                          *)
Asks(h, r) == r.type \in {"Open", "Close"} /\ r.asker = h

LEMMA AskIs ==
  ASSUME HostTypes, NEW h \in Handle,
         \/ \E f \in Form, sync, modal \in BOOLEAN : AskOpen(h, f, sync, modal)
         \/ AskClose(h)
  PROVE  \E r \in Request : /\ Sends(h, r) /\ Asks(h, r)
                            /\ prog' = [prog EXCEPT ![h] = "asking"]
<1>1. ASSUME NEW f \in Form, NEW sync \in BOOLEAN, NEW modal \in BOOLEAN, AskOpen(h, f, sync, modal)
      PROVE  \E r \in Request : /\ Sends(h, r) /\ Asks(h, r)
                                /\ prog' = [prog EXCEPT ![h] = "asking"]
  <2>1. PICK caller \in {h, Root} :
          Sends(h, [type |-> "Open", asker |-> h, caller |-> caller, form |-> f,
                    sync |-> sync, modal |-> modal])
    BY <1>1 DEF AskOpen
  <2> DEFINE r == [type |-> "Open", asker |-> h, caller |-> caller, form |-> f,
                   sync |-> sync, modal |-> modal]
  <2>2. r \in Request /\ Asks(h, r)
    BY HandleNumbers DEF Request, Asks
  <2>3. prog' = [prog EXCEPT ![h] = "asking"]
    BY <1>1 DEF AskOpen
  <2> QED
    BY <2>1, <2>2, <2>3
<1>2. ASSUME AskClose(h)
      PROVE  \E r \in Request : /\ Sends(h, r) /\ Asks(h, r)
                                /\ prog' = [prog EXCEPT ![h] = "asking"]
  <2>1. PICK target \in {Known(h, var[h]), Known(h, super[h])} \ {None} :
          Sends(h, [type |-> "Close", asker |-> h, target |-> target])
    BY <1>2 DEF AskClose
  <2> DEFINE r == [type |-> "Close", asker |-> h, target |-> target]
  <2>2. target \in Handle
    BY DEF Known, HostTypes, ProgramTypes
  <2>3. r \in Request /\ Asks(h, r)
    BY <2>2 DEF Request, Asks
  <2>4. prog' = [prog EXCEPT ![h] = "asking"]
    BY <1>2 DEF AskClose
  <2> QED
    BY <2>1, <2>3, <2>4
<1> QED
  BY <1>1, <1>2

LEMMA SetStateIs ==
  ASSUME HostTypes, NEW h \in Handle, SetFormState(h)
  PROVE  /\ h \in Guarded /\ prog[h] = "running" /\ state' = [state EXCEPT ![h] = ~@]
         /\ mirror' = IF h = Root THEN Append(mirror, ~state[h]) ELSE mirror
         /\ UNCHANGED <<handles, next, host, requests, answer, prog, quits, var, super, inbox>>
         /\ QueueTypes' /\ ProgramTypes'
<1>1. /\ h \in Guarded /\ prog[h] = "running" /\ state' = [state EXCEPT ![h] = ~@]
      /\ UNCHANGED <<handles, next, host, requests, answer, prog, quits, var, super, inbox>>
      /\ IF h = Root
           THEN Len(mirror) < MaxRequests /\ mirror' = Append(mirror, state'[h])
           ELSE UNCHANGED mirror
  BY DEF SetFormState
<1>2. state' \in [Handle -> BOOLEAN] /\ state'[h] = ~state[h]
  BY <1>1, Zenon DEF HostTypes, ProgramTypes
<1>3. mirror' = IF h = Root THEN Append(mirror, ~state[h]) ELSE mirror
  BY <1>1, <1>2
<1>4. (~state[h]) \in BOOLEAN
  OBVIOUS
<1>5. QueueTypes'
  <2> DEFINE b == ~state[h]
  <2>1. b \in BOOLEAN /\ mirror' = IF h = Root THEN Append(mirror, b) ELSE mirror
    BY <1>3, <1>4
  <2> HIDE DEF b
  <2>2. mirror' \in Seq(BOOLEAN)
    BY <2>1, AppendProperties DEF HostTypes, QueueTypes
  <2> QED
    BY <1>1, <2>2 DEF HostTypes, QueueTypes, host
<1>6. ProgramTypes'
  BY <1>1, <1>2 DEF HostTypes, ProgramTypes
<1> QED
  BY <1>1, <1>3, <1>5, <1>6

LEMMA OverTyped ==
  ASSUME ProgramTypes, NEW h \in Handle, Over(h), answer' \in [Handle -> SUBSET Value]
  PROVE  ProgramTypes'
<1>1. /\ prog' = [prog EXCEPT ![h] = "ended"] /\ quits' = quits \ {h}
      /\ state' = [state EXCEPT ![h] = FALSE]
      /\ var' = [var EXCEPT ![h] = None] /\ super' = [super EXCEPT ![h] = None]
      /\ inbox' = [inbox EXCEPT ![h] = {}]
  BY DEF Over
<1> QED
  BY <1>1 DEF ProgramTypes

(* A blocked call that returns gives its program a handle, or nothing, or  *)
(* an error that ends it.                                                  *)
LEMMA ResumeIs ==
  ASSUME HostTypes, NEW h \in Handle, Resume(h)
  PROVE  /\ prog[h] = "asking" /\ answer[h] # {}
         /\ answer' = [answer EXCEPT ![h] = {}]
         /\ UNCHANGED <<handles, next, host, requests, mirror>>
         /\ \/ Over(h)
            \/ /\ Error \notin answer[h]
               /\ prog' = [prog EXCEPT ![h] = "running"]
               /\ Done \notin answer[h] => var'[h] \in answer[h]
               /\ Done \in answer[h] => var'[h] = var[h]
               /\ \A x \in Handle \ {h} : var'[x] = var[x]
               /\ inbox' = [inbox EXCEPT ![h] = @ \cap {var'[h], super[h]}]
               /\ UNCHANGED <<quits, state, super>>
         /\ ProgramTypes'
<1>1. /\ prog[h] = "asking" /\ answer[h] # {}
      /\ answer' = [answer EXCEPT ![h] = {}]
      /\ UNCHANGED <<handles, next, host, requests, mirror>>
      /\ IF Error \in answer[h]
           THEN Over(h)
           ELSE /\ prog' = [prog EXCEPT ![h] = "running"]
                /\ var' = [var EXCEPT ![h] = IF Done \in answer[h] THEN @ ELSE CHOOSE a \in answer[h] : TRUE]
                /\ inbox' = [inbox EXCEPT ![h] = @ \cap {var'[h], super[h]}]
                /\ UNCHANGED <<quits, state, super>>
  BY DEF Resume
<1>2. answer' \in [Handle -> SUBSET Value]
  BY <1>1 DEF HostTypes, ProgramTypes
<1>3. CASE Error \in answer[h]
  BY <1>1, <1>2, <1>3, OverTyped DEF HostTypes
<1>4. CASE Error \notin answer[h]
  <2> DEFINE v == CHOOSE a \in answer[h] : TRUE
  <2>1. v \in answer[h]
    BY <1>1
  <2>2. var' = [var EXCEPT ![h] = IF Done \in answer[h] THEN @ ELSE v]
    BY <1>1, <1>4
  <2> HIDE DEF v
  <2>3. Done \notin answer[h] => v \in Handle \cup {None}
    BY <1>4, <2>1 DEF HostTypes, ProgramTypes, Value
  <2>4. var' \in [Handle -> Handle \cup {None}]
    BY <2>2, <2>3 DEF HostTypes, ProgramTypes
  <2>5. /\ Done \notin answer[h] => var'[h] \in answer[h]
        /\ Done \in answer[h] => var'[h] = var[h]
        /\ \A x \in Handle \ {h} : var'[x] = var[x]
    BY <2>1, <2>2 DEF HostTypes, ProgramTypes
  <2>6. ProgramTypes'
    BY <1>1, <1>2, <1>4, <2>4 DEF HostTypes, ProgramTypes
  <2> QED
    BY <1>1, <1>4, <2>5, <2>6
<1> QED
  BY <1>3, <1>4

LEMMA EndsIs ==
  ASSUME HostTypes, NEW h \in Handle, Ends(h)
  PROVE  /\ prog[h] = "running" /\ Over(h)
         /\ UNCHANGED <<handles, next, host, requests, mirror, answer>>
         /\ ProgramTypes'
<1>1. prog[h] = "running" /\ Over(h) /\ UNCHANGED <<handles, next, host, requests, mirror, answer>>
  BY DEF Ends
<1> QED
  BY <1>1, OverTyped DEF HostTypes, ProgramTypes

(* The steps that leave the windows and the worklist alone.                *)
Apart == /\ UNCHANGED <<handles, next, work, bodies, top>>
         /\ closing' \in BOOLEAN /\ QueueTypes' /\ ProgramTypes'
         /\ \A h \in Handle : prog[h] = "none" => prog'[h] = "none"

LEMMA ProgramIsApart ==
  ASSUME HostTypes, NEW h \in Handle, Program(h)
  PROVE  Apart
<1> USE DEF HostTypes, QueueTypes, ScreenTypes, ProgramTypes, host
<1>1. CASE (\E f \in Form, sync, modal \in BOOLEAN : AskOpen(h, f, sync, modal)) \/ AskClose(h)
  <2>1. PICK r \in Request : Sends(h, r) /\ Asks(h, r) /\ prog' = [prog EXCEPT ![h] = "asking"]
    BY <1>1, AskIs
  <2> QED
    BY <2>1, SendsIs DEF Apart
<1>2. CASE CloseSelf(h)
  <2> DEFINE r == [type |-> "CloseSelf", target |-> h]
  <2>1. Sends(h, r) /\ prog' = prog
    BY <1>2 DEF CloseSelf
  <2>2. r \in Request
    BY DEF Request
  <2>3. prog[h] = "running"
    BY <2>1, SendsIs
  <2>4. prog' = [prog EXCEPT ![h] = "running"]
    BY <2>1, <2>3
  <2> QED
    BY <2>1, <2>2, <2>4, SendsIs DEF Apart
<1>3. CASE SetFormState(h)
  BY <1>3, SetStateIs DEF Apart
<1>4. CASE Resume(h)
  BY <1>4, ResumeIs DEF Apart, Over
<1>5. CASE Stop(h) \/ Quit(h)
  BY <1>5, EndsIs DEF Apart, Over, Stop, Quit
<1> QED
  BY <1>1, <1>2, <1>3, <1>4, <1>5 DEF Program

LEMMA OtherIsApart ==
  ASSUME HostTypes, NEW o \in Handle,
         \/ RootEnds
         \/ CloseApplication(o)
         \/ \E f \in Form, sync \in BOOLEAN : OpenFromMenu(o, f, sync)
  PROVE  /\ Apart /\ UNCHANGED <<mirror, answer, prog, state, var, super, inbox>>
         /\ \/ requests' = requests
            \/ \E r \in Request : requests' = Append(requests, r) /\ \A h \in Handle : ~Asks(h, r)
<1> USE DEF HostTypes, QueueTypes, ScreenTypes, ProgramTypes, host, programs
<1>1. CASE RootEnds
  BY <1>1 DEF RootEnds, Apart
<1>2. CASE CloseApplication(o)
  <2>1. quits' \subseteq Handle
    BY <1>2 DEF CloseApplication, QuitTo, Running
  <2> QED
    BY <1>2, <2>1 DEF CloseApplication, Apart
<1>3. ASSUME NEW f \in Form, NEW sync \in BOOLEAN, OpenFromMenu(o, f, sync)
      PROVE  /\ Apart /\ UNCHANGED <<mirror, answer, prog, state, var, super, inbox>>
             /\ \E r \in Request : requests' = Append(requests, r) /\ \A h \in Handle : ~Asks(h, r)
  <2> DEFINE r == [type |-> "Open", asker |-> None, caller |-> o, form |-> f,
                   sync |-> sync, modal |-> sync]
  <2>1. r \in Request /\ \A h \in Handle : ~Asks(h, r)
    BY HandleNumbers DEF Request, Asks
  <2>2. requests' = Append(requests, r) /\ UNCHANGED <<handles, next, host, mirror, answer, programs>>
    BY <1>3 DEF OpenFromMenu
  <2> HIDE DEF r
  <2>3. requests' \in Seq(Request)
    BY <2>1, <2>2
  <2> QED
    BY <2>1, <2>2, <2>3 DEF Apart
<1> QED
  BY <1>1, <1>2, <1>3

LEMMA ApartShape ==
  ASSUME Shape, Apart
  PROVE  Shape'
<1>1. TableTypes' /\ ScreenTypes' /\ QueueTypes' /\ ProgramTypes' /\ Issued' = Issued
  BY DEF Shape, HostTypes, Apart, TableTypes, ScreenTypes, Issued
<1>2. ItemsIssued' /\ SpawnAlone' /\ NotYet'
  BY <1>1 DEF Shape, Apart, ItemsIssued, SpawnAlone, NotYet
<1> QED
  BY <1>1, <1>2 DEF Shape, HostTypes

(* Every step is one of these.                                             *)
LEMMA StepIs ==
  ASSUME Shape, Next
  PROVE  \/ PerformSpawn \/ PerformCloseWindow \/ PerformRelease
         \/ PerformRetire \/ PerformClosed \/ PerformExit
         \/ CallEffect /\ (\/ TakeRequest \/ TakeMirror
                           \/ \E h \in Handle : NoticeFinished(h) \/ ClickClose(h))
         \/ \E o \in Handle : ShellEffect(o)
         \/ Apart /\ \/ \E h \in Handle : Program(h)
                     \/ /\ UNCHANGED <<mirror, answer, prog, state, var, super, inbox>>
                        /\ \/ requests' = requests
                           \/ \E r \in Request : /\ requests' = Append(requests, r)
                                                 /\ \A h \in Handle : ~Asks(h, r)
<1>0. HostTypes
  BY DEF Shape
<1>1. CASE Perform
  BY <1>1 DEF Perform
<1>2. CASE Frame
  <2>1. CASE TakeRequest \/ TakeMirror
    BY <1>0, <2>1, TakeIsCall
  <2>2. CASE RootEnds
    BY <1>0, <2>2, HandleNumbers, OtherIsApart
  <2>3. CASE \E h \in Handle : NoticeFinished(h)
    <3>1. PICK h \in Handle : NoticeFinished(h)
      BY <2>3
    <3>2. CallEffect
      BY <1>0, <3>1, CloseIsCall DEF NoticeFinished, HostTypes, QueueTypes
    <3> QED
      BY <3>1, <3>2
  <2> QED
    BY <1>2, <2>1, <2>2, <2>3 DEF Frame
<1>3. ASSUME NEW h \in Handle, User(h)
      PROVE  \/ CallEffect /\ ClickClose(h)
             \/ ShellEffect(h)
             \/ Apart /\ /\ UNCHANGED <<mirror, answer, prog, state, var, super, inbox>>
                         /\ \/ requests' = requests
                            \/ \E r \in Request : /\ requests' = Append(requests, r)
                                                  /\ \A x \in Handle : ~Asks(x, r)
  <2>1. CASE ClickClose(h)
    <3>1. CallEffect
      BY <1>0, <2>1, CloseIsCall DEF ClickClose, HostTypes, QueueTypes
    <3> QED
      BY <2>1, <3>1
  <2>2. CASE \/ \E f \in Form, preserve \in BOOLEAN : LoadForm(h, f, preserve)
             \/ \E retire \in BOOLEAN : ShowOwnForm(h, retire)
             \/ ResetForm(h)
    BY <1>0, <2>2, ShellIs
  <2>3. CASE CloseApplication(h) \/ \E f \in Form, sync \in BOOLEAN : OpenFromMenu(h, f, sync)
    BY <1>0, <2>3, OtherIsApart
  <2> QED
    BY <1>3, <2>1, <2>2, <2>3 DEF User
<1>4. ASSUME NEW h \in Handle, Program(h)
      PROVE  Apart
  BY <1>0, <1>4, ProgramIsApart
<1> QED
  BY <1>1, <1>2, <1>3, <1>4 DEF Next

LEMMA InitShape ==
  ASSUME Init PROVE Shape
<1>1. PICK f \in StartForms : handles = [h \in {Root} |-> Fresh(f, "Root", None, FALSE, None)]
  BY DEF Init, SupervisorInit
<1>2. next = 1 /\ Issued = {Root} /\ Root \in Handle /\ f \in Form
  BY <1>1, HandleNumbers, FormAssumption DEF Init, SupervisorInit, Issued, Root
<1>3. handles[Root] \in HandleInfo /\ DOMAIN handles = {Root} /\ handles[Root].form = f
  BY <1>1, <1>2 DEF Fresh, HandleInfo, Kind
<1>4. TableTypes
  BY <1>2, <1>3, HandleAssumption DEF TableTypes
<1>5. QueueTypes /\ work = <<>>
  BY DEF Init, QueueTypes
<1>6. ScreenTypes
  BY <1>2, <1>3 DEF Init, ScreenTypes
<1>7. ProgramTypes
  BY DEF Init, ProgramTypes
<1>8. ItemsIssued /\ SpawnAlone
  BY <1>5, ItemsOfFew DEF ItemsIssued, SpawnAlone
<1>9. NotYet
  <2>1. \A h \in Handle : h >= 1 => h # Root
    BY HandleNumbers DEF Root
  <2> QED
    BY <1>2, <2>1 DEF NotYet, Init
<1> QED
  BY <1>4, <1>5, <1>6, <1>7, <1>8, <1>9 DEF Shape, HostTypes

LEMMA NextShape ==
  ASSUME Shape, [Next]_vars PROVE Shape'
<1>1. CASE UNCHANGED vars
  BY <1>1 DEF vars, supervisor, host, programs, Shape, HostTypes, TableTypes, QueueTypes, ScreenTypes,
              ProgramTypes, Issued, ItemsIssued, SpawnAlone, NotYet, Items
<1>2. CASE Next
  BY <1>2, StepIs, SpawnShape, CloseWindowShape, OtherPerformShape, CallShape, ShellShape, ApartShape
<1> QED
  BY <1>1, <1>2

(* What the host keeps of windows, requests and programs is well typed, a  *)
(* window that opens is the only thing to do until it is there, nothing is *)
(* done to a handle that was never given out, and no program runs for one. *)
THEOREM WorklistIsWellFormed == Spec => []Shape
<1>1. Init => Shape
  BY InitShape
<1>2. Shape /\ [Next]_vars => Shape'
  BY NextShape
<1> QED
  BY <1>1, <1>2, PTL DEF Spec
-----------------------------------------------------------------------------
(* A program that blocked in a window call has one thing to wait for: the  *)
(* request in the queue, a live modal window, or the answer.               *)
One(S) == \E x : S = {x}

Waits(queued, holding, answers) ==
  \/ One(queued) /\ holding = {} /\ answers = {}
  \/ queued = {} /\ One(holding) /\ answers = {}
  \/ queued = {} /\ holding = {} /\ One(answers)

Pending ==
  \A h \in Handle : IF prog[h] = "asking" THEN Waits(Queued(h), Holding(h), answer[h])
                                          ELSE Queued(h) = {} /\ Holding(h) = {} /\ answer[h] = {}

LEMMA QueuedAfterTake ==
  ASSUME QueueTypes, requests # <<>>, requests' = Tail(requests), NEW h
  PROVE  IF Asks(h, Head(requests))
           THEN Queued(h) # {} /\ (One(Queued(h)) => Queued(h)' = {})
           ELSE (Queued(h) = {} => Queued(h)' = {}) /\ (One(Queued(h)) => One(Queued(h)'))
<1> DEFINE n == Len(requests)
<1>1. /\ n \in Nat \ {0} /\ DOMAIN requests = 1 .. n /\ Head(requests) = requests[1]
      /\ DOMAIN requests' = 1 .. n - 1
      /\ \A i \in 1 .. n - 1 : requests'[i] = requests[i + 1]
  BY HeadTailProperties, LenProperties, EmptySeq DEF QueueTypes
<1>2. \A i \in 1 .. n : i \in Queued(h) <=> Asks(h, requests[i])
  BY <1>1 DEF Queued, Asks
<1>3. \A i : i \in Queued(h)' <=> i \in 1 .. n - 1 /\ i + 1 \in Queued(h)
  BY <1>1 DEF Queued
<1>4. Queued(h) \subseteq 1 .. n
  BY <1>1 DEF Queued
<1>5. CASE Asks(h, Head(requests))
  <2>1. 1 \in Queued(h)
    BY <1>1, <1>2, <1>5
  <2>2. ASSUME One(Queued(h)) PROVE Queued(h)' = {}
    <3>1. \A i \in 1 .. n - 1 : i + 1 # 1
      BY <1>1
    <3> QED
      BY <1>3, <2>1, <2>2, <3>1 DEF One
  <2> QED
    BY <1>5, <2>1, <2>2
<1>6. CASE ~Asks(h, Head(requests))
  <2>1. 1 \notin Queued(h)
    BY <1>1, <1>2, <1>6
  <2>2. ASSUME One(Queued(h)) PROVE One(Queued(h)')
    <3>1. PICK i : Queued(h) = {i}
      BY <2>2 DEF One
    <3>2. i \in 1 .. n /\ i # 1
      BY <1>4, <2>1, <3>1
    <3>3. i - 1 \in 1 .. n - 1 /\ (i - 1) + 1 = i /\ \A j \in 1 .. n - 1 : j + 1 = i => j = i - 1
      BY <1>1, <3>2
    <3>4. Queued(h)' = {i - 1}
      BY <1>3, <3>1, <3>3
    <3> QED
      BY <3>4 DEF One
  <2>3. Queued(h) = {} => Queued(h)' = {}
    BY <1>3
  <2> QED
    BY <1>6, <2>2, <2>3
<1> QED
  BY <1>5, <1>6

LEMMA QueuedAfterAppend ==
  ASSUME QueueTypes, NEW r, requests' = Append(requests, r), NEW h
  PROVE  IF Asks(h, r) THEN (Queued(h) = {} => One(Queued(h)')) ELSE Queued(h)' = Queued(h)
<1> DEFINE n == Len(requests)
<1>1. /\ n \in Nat /\ DOMAIN requests = 1 .. n /\ DOMAIN requests' = 1 .. n + 1
      /\ \A i \in 1 .. n : requests'[i] = requests[i]
      /\ requests'[n + 1] = r
  BY AppendProperties, LenProperties DEF QueueTypes
<1>2. \A i : i \in Queued(h)' <=> i \in Queued(h) \/ (i = n + 1 /\ Asks(h, r))
  BY <1>1 DEF Queued, Asks
<1>3. Asks(h, r) /\ Queued(h) = {} => Queued(h)' = {n + 1}
  BY <1>2
<1>4. ~Asks(h, r) => Queued(h)' = Queued(h)
  BY <1>2
<1> QED
  BY <1>3, <1>4 DEF One

LEMMA HoldingAfter ==
  ASSUME TableTypes
  PROVE  /\ Same => \A h \in Handle : Holding(h)' = Holding(h)
         /\ \A S : Gone(S) => \A h \in Handle : Holding(h)' = Holding(h) \ S
         /\ \A info : Came(info) => \A h \in Handle :
               Holding(h)' = Holding(h) \cup (IF info.asker = h THEN {next} ELSE {})
<1>1. Same => \A h \in Handle : Holding(h)' = Holding(h)
  BY DEF Same, Holding
<1>2. \A S : Gone(S) => \A h \in Handle : Holding(h)' = Holding(h) \ S
  BY DEF Gone, Holding
<1>3. ASSUME NEW info, Came(info), NEW h \in Handle
      PROVE  Holding(h)' = Holding(h) \cup (IF info.asker = h THEN {next} ELSE {})
  <2>1. next \notin DOMAIN handles
    BY <1>3, TableCame
  <2> QED
    BY <1>3, <2>1 DEF Came, Holding
<1> QED
  BY <1>1, <1>2, <1>3

LEMMA PendingKeeps ==
  ASSUME Pending,
         \A h \in Handle : /\ (prog'[h] = "asking") <=> (prog[h] = "asking")
                           /\ Queued(h)' = Queued(h) /\ Holding(h)' = Holding(h)
                           /\ answer'[h] = answer[h]
  PROVE  Pending'
BY DEF Pending

(* A modal window that goes answers whoever it held.                       *)
LEMMA GoneWaits ==
  ASSUME NEW q, NEW k, NEW a, NEW S
  PROVE  LET more == IF k \cap S = {} THEN {} ELSE {None}
         IN  /\ Waits(q, k, a) => Waits(q, k \ S, a \cup more)
             /\ k = {} => k \ S = {} /\ more = {}
<1> DEFINE more == IF k \cap S = {} THEN {} ELSE {None}
<1>1. ASSUME q = {}, One(k), a = {}
      PROVE  Waits(q, k \ S, a \cup more)
  <2>1. PICK c : k = {c}
    BY <1>1 DEF One
  <2>2. CASE c \in S
    BY <1>1, <2>1, <2>2 DEF Waits, One
  <2>3. CASE c \notin S
    BY <1>1, <2>1, <2>3 DEF Waits, One
  <2> QED
    BY <2>2, <2>3
<1>2. ASSUME k = {} PROVE k \ S = {} /\ more = {}
  BY <1>2
<1> QED
  BY <1>1, <1>2 DEF Waits

LEMMA PendingClosed ==
  ASSUME HostTypes, Pending, NEW h \in Handle, TryClose(h) \/ FormFinished(h),
         answer' = Answered, requests' = requests, prog' = prog
  PROVE  Pending'
<1>0. TableTypes
  BY DEF HostTypes
<1>1. \A x \in Handle : Queued(x)' = Queued(x)
  BY DEF Queued
<1>2. CASE Silent /\ \A x \in Handle : Answered[x] = answer[x]
  <2>1. Same
    BY <1>0, <1>2, UnchangedIsSame DEF Silent
  <2> QED
    BY <1>0, <1>1, <1>2, <2>1, HoldingAfter, PendingKeeps
<1>3. CASE \E S : Gone(S)
  <2>1. PICK S : Gone(S)
    BY <1>3
  <2>2. \A x \in Handle : /\ Holding(x)' = Holding(x) \ S
                          /\ answer'[x] = answer[x] \cup (IF Holding(x) \cap S = {} THEN {} ELSE {None})
    BY <1>0, <2>1, HoldingAfter DEF Gone
  <2> QED
    BY <1>1, <2>2, GoneWaits DEF Pending
<1> QED
  BY <1>0, <1>2, <1>3, CloseEffect, FinishEffect

(* The host takes a request: its asker waits for a window or has its       *)
(* answer.                                                                 *)
LEMMA PendingTake ==
  ASSUME HostTypes, Pending, TakeRequest
  PROVE  Pending'
<1> DEFINE r == Head(requests)
           mine(h) == Asks(h, r)
<1>0. TableTypes /\ QueueTypes
  BY DEF HostTypes
<1>1. requests # <<>> /\ requests' = Tail(requests) /\ r \in Request /\ prog' = prog
  BY <1>0, ItemsOfTail DEF TakeRequest, QueueTypes, Calls, programs
<1>2. \A h \in Handle :
        IF mine(h) THEN /\ prog[h] = "asking" /\ Queued(h)' = {} /\ Holding(h) = {} /\ answer[h] = {}
                   ELSE (Queued(h) = {} => Queued(h)' = {}) /\ (One(Queued(h)) => One(Queued(h)'))
  BY <1>0, <1>1, QueuedAfterTake DEF Pending, Waits
<1>3. \/ /\ r.type = "Open"
         /\ OpenForm(r.caller, r.form, r.sync, r.modal, r.asker)
         /\ answer' = Answered
      \/ /\ r.type = "Close"
         /\ TryClose(r.target)
         /\ answer' = [Answered EXCEPT ![r.asker] = @ \cup CloseReply(r.target)]
      \/ /\ r.type = "CloseSelf"
         /\ TryClose(r.target)
         /\ answer' = Answered
  BY DEF TakeRequest, Calls
<1> HIDE DEF r
(* Whatever else happens, it is enough that the asker waits for one thing. *)
<1>4. ASSUME \A h \in Handle :
               \/ mine(h) /\ Waits({}, Holding(h)', answer'[h])
               \/ /\ ~mine(h)
                  /\ \E S : /\ Holding(h)' = Holding(h) \ S
                            /\ answer'[h] = answer[h] \cup (IF Holding(h) \cap S = {} THEN {} ELSE {None})
      PROVE  Pending'
  <2>1. ASSUME NEW h \in Handle, mine(h), Waits({}, Holding(h)', answer'[h])
        PROVE  prog'[h] = "asking" /\ Waits(Queued(h)', Holding(h)', answer'[h])
    BY <1>1, <1>2, <2>1
  <2>2. ASSUME NEW h \in Handle, ~mine(h), NEW S, Holding(h)' = Holding(h) \ S,
               answer'[h] = answer[h] \cup (IF Holding(h) \cap S = {} THEN {} ELSE {None})
        PROVE  IF prog'[h] = "asking" THEN Waits(Queued(h)', Holding(h)', answer'[h])
               ELSE Queued(h)' = {} /\ Holding(h)' = {} /\ answer'[h] = {}
    <3>1. CASE prog[h] = "asking"
      <4>1. Waits(Queued(h), Holding(h), answer[h])
        BY <3>1 DEF Pending
      <4>2. Waits(Queued(h), Holding(h)', answer'[h])
        BY <2>2, <4>1, GoneWaits
      <4> QED
        BY <1>1, <1>2, <2>2, <3>1, <4>2 DEF Waits
    <3>2. CASE prog[h] # "asking"
      BY <1>1, <1>2, <2>2, <3>2, GoneWaits DEF Pending
    <3> QED
      BY <3>1, <3>2
  <2> QED
    BY <1>4, <2>1, <2>2 DEF Pending
<1>5. CASE r.type = "Open" /\ OpenForm(r.caller, r.form, r.sync, r.modal, r.asker) /\ answer' = Answered
  <2>1. /\ r.caller \in Handle /\ r.form \in Form /\ r.sync \in BOOLEAN
        /\ r.modal \in BOOLEAN /\ r.asker \in Handle \cup {None}
    BY <1>1, <1>5, RequestIs
  <2>2. \A h : mine(h) <=> r.asker = h
    BY <1>5 DEF Asks
  <2>3. ASSUME Silent,
               NEW v,
               \A h \in Handle : Answered[h] = answer[h] \cup (IF h = r.asker THEN {v} ELSE {})
        PROVE  Pending'
    <3>1. \A h \in Handle : Holding(h)' = Holding(h)
      BY <1>0, <2>3, UnchangedIsSame, HoldingAfter DEF Silent
    <3>2. ASSUME NEW h \in Handle, mine(h) PROVE Waits({}, Holding(h)', answer'[h])
      <4>1. Holding(h)' = {} /\ answer'[h] = {v}
        BY <1>2, <1>5, <2>2, <2>3, <3>1, <3>2
      <4> QED
        BY <4>1 DEF Waits, One
    <3>3. \A h \in Handle : ~mine(h) => Holding(h)' = Holding(h) \ {} /\ answer'[h] = answer[h]
      BY <1>5, <2>2, <2>3, <3>1
    <3> QED
      BY <1>4, <3>2, <3>3
  <2>4. ASSUME NEW info, Came(info),
               \/ info.asker = r.asker /\ \A h \in Handle : Answered[h] = answer[h]
               \/ /\ info.asker = None
                  /\ \A h \in Handle : Answered[h] = answer[h] \cup (IF h = r.asker THEN {next} ELSE {})
        PROVE  Pending'
    <3>1. \A h \in Handle : Holding(h)' = Holding(h) \cup (IF info.asker = h THEN {next} ELSE {})
      BY <1>0, <2>4, HoldingAfter
    <3>2. ASSUME NEW h \in Handle, mine(h) PROVE Waits({}, Holding(h)', answer'[h])
      <4>1. Holding(h) = {} /\ answer[h] = {} /\ r.asker = h /\ h # None
        BY <1>2, <2>2, <3>2, HandleNumbers
      <4>2. \/ Holding(h)' = {next} /\ answer'[h] = {}
            \/ Holding(h)' = {} /\ answer'[h] = {next}
        BY <1>5, <2>4, <3>1, <4>1
      <4> QED
        BY <4>2 DEF Waits, One
    <3>3. \A h \in Handle : ~mine(h) => Holding(h)' = Holding(h) \ {} /\ answer'[h] = answer[h]
      BY <1>5, <2>2, <2>4, <3>1, HandleNumbers
    <3> QED
      BY <1>4, <3>2, <3>3
  <2>5. \/ /\ Silent
           /\ \E v \in DOMAIN handles : \A h \in Handle :
                 Answered[h] = answer[h] \cup (IF h = r.asker THEN {v} ELSE {})
        \/ \E info : /\ Came(info)
                     /\ \/ info.asker = r.asker /\ \A h \in Handle : Answered[h] = answer[h]
                        \/ /\ info.asker = None
                           /\ \A h \in Handle :
                                Answered[h] = answer[h] \cup (IF h = r.asker THEN {next} ELSE {})
    BY <1>0, <1>5, <2>1, OpenEffect
  <2> QED
    BY <2>3, <2>4, <2>5
<1>6. CASE TryClose(r.target) /\ (\/ r.type = "CloseSelf" /\ answer' = Answered
                                  \/ /\ r.type = "Close"
                                     /\ answer' = [Answered EXCEPT ![r.asker] = @ \cup CloseReply(r.target)])
  <2>1. r.target \in Handle /\ (r.type = "Close" => r.asker \in Handle)
    BY <1>1, <1>6, RequestIs
  <2>2. One(CloseReply(r.target))
    BY DEF CloseReply, One
  <2>3. \A h \in Handle : answer'[h] = Answered[h] \cup (IF mine(h) THEN CloseReply(r.target) ELSE {})
    BY <1>6, <2>1 DEF Asks, Answered
  <2>4. \E S : \A h \in Handle : /\ Holding(h)' = Holding(h) \ S
                                 /\ Answered[h] = answer[h] \cup (IF Holding(h) \cap S = {} THEN {} ELSE {None})
    <3>1. CASE Silent /\ \A h \in Handle : Answered[h] = answer[h]
      <4>1. \A h \in Handle : Holding(h)' = Holding(h) \ {} /\ Holding(h) \cap {} = {}
        BY <1>0, <3>1, UnchangedIsSame, HoldingAfter DEF Silent
      <4> QED
        BY <3>1, <4>1
    <3>2. CASE \E S : Gone(S)
      BY <1>0, <3>2, HoldingAfter DEF Gone
    <3> QED
      BY <1>0, <1>6, <2>1, <3>1, <3>2, CloseEffect
  <2>5. PICK S : \A h \in Handle : /\ Holding(h)' = Holding(h) \ S
                                   /\ Answered[h] = answer[h] \cup (IF Holding(h) \cap S = {} THEN {} ELSE {None})
    BY <2>4
  <2>6. ASSUME NEW h \in Handle, mine(h) PROVE Waits({}, Holding(h)', answer'[h])
    <3>1. Holding(h)' = {} /\ answer'[h] = CloseReply(r.target)
      BY <1>2, <2>3, <2>5, <2>6
    <3> QED
      BY <2>2, <3>1 DEF Waits
  <2>7. ASSUME NEW h \in Handle, ~mine(h) PROVE answer'[h] = Answered[h]
    BY <2>3, <2>7
  <2> QED
    BY <1>4, <2>5, <2>6, <2>7
<1> QED
  BY <1>3, <1>5, <1>6

LEMMA PendingPerform ==
  ASSUME Shape, Pending, Perform
  PROVE  Pending'
<1>0. HostTypes
  BY DEF Shape
<1>1. UNCHANGED requests
  BY DEF Perform, PerformSpawn, PerformCloseWindow, PerformRelease, PerformRetire, PerformClosed, PerformExit
<1>2. CASE UNCHANGED <<handles, answer, prog>>
  BY <1>1, <1>2, PendingKeeps DEF Queued, Holding
<1>3. CASE PerformRelease \/ PerformRetire
  <2>1. PICK h \in Handle : FormFinished(h)
    BY <1>3, HeadIs DEF PerformRelease, PerformRetire
  <2>2. answer' = Answered /\ prog' = prog
    BY <1>3 DEF PerformRelease, PerformRetire, programs
  <2> QED
    BY <1>0, <1>1, <2>1, <2>2, PendingClosed
<1>4. CASE PerformSpawn
  <2> DEFINE h == Head(work).handle
  <2>1. h \in Handle /\ prog[h] = "none"
    BY <1>4, HeadIs DEF PerformSpawn, Shape, SpawnAlone
  <2>2. \/ SpawnFailed(h) /\ UNCHANGED programs
        \/ UNCHANGED <<handles, answer>> /\ prog' = [prog EXCEPT ![h] = "running"]
    BY <1>4 DEF PerformSpawn
  <2> HIDE DEF h
  <2>3. CASE SpawnFailed(h) /\ UNCHANGED programs
    BY <1>0, <1>1, <2>1, <2>3, PendingClosed DEF SpawnFailed, programs
  <2>4. CASE UNCHANGED <<handles, answer>> /\ prog' = [prog EXCEPT ![h] = "running"]
    <3>1. \A x \in Handle : (prog'[x] = "asking") <=> (prog[x] = "asking")
      BY <1>0, <2>1, <2>4 DEF HostTypes, ProgramTypes
    <3> QED
      BY <1>1, <2>4, <3>1, PendingKeeps DEF Queued, Holding
  <2> QED
    BY <2>2, <2>3, <2>4
<1>5. CASE PerformCloseWindow \/ PerformClosed \/ PerformExit
  BY <1>2, <1>5 DEF PerformCloseWindow, PerformClosed, PerformExit
<1> QED
  BY <1>3, <1>4, <1>5 DEF Perform

LEMMA PendingProgram ==
  ASSUME HostTypes, Pending, NEW h \in Handle, Program(h)
  PROVE  Pending'
<1>0. QueueTypes /\ prog \in [Handle -> {"none", "running", "asking", "ended"}]
      /\ answer \in [Handle -> SUBSET Value]
  BY DEF HostTypes, ProgramTypes
<1>1. CASE (\E f \in Form, sync, modal \in BOOLEAN : AskOpen(h, f, sync, modal)) \/ AskClose(h)
  <2>1. PICK r \in Request : Sends(h, r) /\ Asks(h, r) /\ prog' = [prog EXCEPT ![h] = "asking"]
    BY <1>1, AskIs
  <2>2. prog[h] = "running" /\ requests' = Append(requests, r) /\ UNCHANGED <<handles, answer>>
    BY <2>1, SendsIs
  <2>3. \A x \in Handle : Holding(x)' = Holding(x) /\ answer'[x] = answer[x]
    BY <2>2 DEF Holding
  <2>4. ASSUME NEW x \in Handle, x # h
        PROVE  Queued(x)' = Queued(x) /\ prog'[x] = prog[x]
    <3>1. ~Asks(x, r)
      BY <2>1, <2>4 DEF Asks
    <3> QED
      BY <1>0, <2>1, <2>2, <2>4, <3>1, QueuedAfterAppend
  <2>5. Queued(h) = {} /\ Holding(h) = {} /\ answer[h] = {}
    BY <2>2 DEF Pending
  <2>6. One(Queued(h)') /\ prog'[h] = "asking"
    BY <1>0, <2>1, <2>2, <2>5, QueuedAfterAppend
  <2> QED
    BY <2>3, <2>4, <2>5, <2>6 DEF Pending, Waits
<1>2. CASE CloseSelf(h)
  <2> DEFINE r == [type |-> "CloseSelf", target |-> h]
  <2>1. Sends(h, r) /\ prog' = prog /\ \A x : ~Asks(x, r)
    BY <1>2 DEF CloseSelf, Asks
  <2>2. requests' = Append(requests, r) /\ UNCHANGED <<handles, answer>>
    BY <2>1, SendsIs
  <2> HIDE DEF r
  <2>3. \A x \in Handle : Queued(x)' = Queued(x)
    BY <1>0, <2>1, <2>2, QueuedAfterAppend
  <2> QED
    BY <2>1, <2>2, <2>3, PendingKeeps DEF Holding
<1>3. CASE SetFormState(h)
  <2>1. UNCHANGED <<handles, requests, prog, answer>>
    BY <1>3, SetStateIs
  <2> QED
    BY <2>1, PendingKeeps DEF Holding, Queued
<1>4. CASE Resume(h)
  <2>1. /\ prog[h] = "asking" /\ answer[h] # {}
        /\ answer' = [answer EXCEPT ![h] = {}] /\ UNCHANGED <<handles, requests>>
        /\ prog' = [prog EXCEPT ![h] = "ended"] \/ prog' = [prog EXCEPT ![h] = "running"]
    BY <1>4, ResumeIs DEF Over
  <2>2. \A x \in Handle : Queued(x)' = Queued(x) /\ Holding(x)' = Holding(x)
    BY <2>1 DEF Queued, Holding
  <2>3. Queued(h) = {} /\ Holding(h) = {} /\ answer'[h] = {} /\ prog'[h] # "asking"
    BY <1>0, <2>1 DEF Pending, Waits
  <2>4. \A x \in Handle \ {h} : answer'[x] = answer[x] /\ prog'[x] = prog[x]
    BY <1>0, <2>1
  <2> QED
    BY <2>2, <2>3, <2>4 DEF Pending
<1>5. CASE Stop(h) \/ Quit(h)
  <2>1. prog[h] = "running" /\ prog' = [prog EXCEPT ![h] = "ended"]
        /\ UNCHANGED <<handles, requests, answer>>
    BY <1>5, EndsIs DEF Stop, Quit, Over
  <2>2. \A x \in Handle : (prog'[x] = "asking") <=> (prog[x] = "asking")
    BY <1>0, <2>1
  <2> QED
    BY <2>1, <2>2, PendingKeeps DEF Queued, Holding
<1> QED
  BY <1>1, <1>2, <1>3, <1>4, <1>5 DEF Program

LEMMA PendingShell ==
  ASSUME Shape, Pending, NEW o \in Handle, ShellEffect(o)
  PROVE  Pending'
<1>0. TableTypes /\ requests' = requests /\ answer' = answer
      /\ prog \in [Handle -> {"none", "running", "asking", "ended"}]
  BY DEF Shape, HostTypes, ProgramTypes, ShellEffect
<1>1. CASE UNCHANGED <<handles, prog>>
  BY <1>0, <1>1, PendingKeeps DEF Queued, Holding
<1>2. CASE /\ \E info : Came(info) /\ info.asker = None
           /\ prog' = prog \/ prog' = [prog EXCEPT ![next] = "running"]
  <2>1. PICK info : Came(info) /\ info.asker = None
    BY <1>2
  <2>2. \A h \in Handle : Holding(h)' = Holding(h)
    <3>1. \A h \in Handle : Holding(h)' = Holding(h) \cup (IF info.asker = h THEN {next} ELSE {})
      BY <1>0, <2>1, HoldingAfter
    <3> QED
      BY <2>1, <3>1, HandleNumbers
  <2>3. next \in Handle /\ prog[next] = "none"
    <3>1. next \in Handle
      BY <1>0, <2>1, TableCame
    <3>2. next >= next
      BY <3>1, HandleNumbers
    <3> QED
      BY <3>1, <3>2 DEF Shape, NotYet
  <2>4. \A h \in Handle : (prog'[h] = "asking") <=> (prog[h] = "asking")
    BY <1>0, <1>2, <2>3
  <2> QED
    BY <1>0, <2>2, <2>4, PendingKeeps DEF Queued
<1> QED
  BY <1>1, <1>2 DEF ShellEffect

LEMMA NextPending ==
  ASSUME Shape, Pending, [Next]_vars
  PROVE  Pending'
<1>0. HostTypes
  BY DEF Shape
<1>1. CASE UNCHANGED vars
  <2>1. UNCHANGED <<handles, requests, prog, answer>>
    BY <1>1 DEF vars, supervisor, programs
  <2> QED
    BY <2>1, PendingKeeps DEF Queued, Holding
<1>2. CASE Perform
  BY <1>2, PendingPerform
<1>3. CASE TakeRequest
  BY <1>0, <1>3, PendingTake
<1>4. CASE TakeMirror
  <2>1. Head(mirror) \in BOOLEAN
    BY <1>0, <1>4, ItemsOfTail DEF TakeMirror, HostTypes, QueueTypes
  <2>2. Same
    BY <1>0, <1>4, <2>1, NotedIsSame, HandleNumbers DEF TakeMirror, Calls, HostTypes
  <2>3. \A h \in Handle : Holding(h)' = Holding(h)
    BY <1>0, <2>2, HoldingAfter DEF HostTypes
  <2> QED
    BY <1>4, <2>3, PendingKeeps DEF TakeMirror, Calls, programs, Queued
<1>5. CASE \E h \in Handle : NoticeFinished(h) \/ ClickClose(h)
  BY <1>0, <1>5, PendingClosed DEF NoticeFinished, ClickClose, Calls, programs
<1>6. CASE \E o \in Handle : ShellEffect(o)
  BY <1>6, PendingShell
<1>7. CASE \E h \in Handle : Program(h)
  BY <1>0, <1>7, PendingProgram
<1>8. CASE /\ Apart /\ UNCHANGED <<mirror, answer, prog, state, var, super, inbox>>
           /\ \/ requests' = requests
              \/ \E r \in Request : requests' = Append(requests, r) /\ \A h \in Handle : ~Asks(h, r)
  <2>1. \A h \in Handle : Queued(h)' = Queued(h)
    <3>1. CASE requests' = requests
      BY <3>1 DEF Queued
    <3>2. CASE \E r \in Request : requests' = Append(requests, r) /\ \A h \in Handle : ~Asks(h, r)
      BY <1>0, <3>2, QueuedAfterAppend DEF HostTypes
    <3> QED
      BY <1>8, <3>1, <3>2
  <2> QED
    BY <1>8, <2>1, PendingKeeps DEF Apart, Holding
<1>9. CASE Next
  BY <1>2, <1>3, <1>4, <1>5, <1>6, <1>7, <1>8, <1>9, StepIs DEF Perform
<1> QED
  BY <1>1, <1>9

LEMMA InitPending ==
  ASSUME Init PROVE Pending
<1>1. \A h \in Handle : prog[h] # "asking" /\ Queued(h) = {} /\ answer[h] = {}
  BY DEF Init, Queued
<1>2. \A h \in Handle : Holding(h) = {}
  BY HandleNumbers DEF Init, SupervisorInit, Fresh, Holding
<1> QED
  BY <1>1, <1>2 DEF Pending

LEMMA CountOfOne == Cardinality({}) = 0 /\ \A S : One(S) => Cardinality(S) = 1
BY FS_EmptySet, FS_Singleton DEF One

LEMMA PendingCounts ==
  ASSUME Pending PROVE BlockedCallIsPending
<1> SUFFICES ASSUME NEW h \in Handle
             PROVE  Cardinality(Queued(h)) + Cardinality(Holding(h)) + Cardinality(answer[h])
                      = IF prog[h] = "asking" THEN 1 ELSE 0
  BY DEF BlockedCallIsPending
<1>1. CASE prog[h] = "asking"
  <2>1. Waits(Queued(h), Holding(h), answer[h])
    BY <1>1 DEF Pending
  <2>2. \/ Cardinality(Queued(h)) = 1 /\ Cardinality(Holding(h)) = 0 /\ Cardinality(answer[h]) = 0
        \/ Cardinality(Queued(h)) = 0 /\ Cardinality(Holding(h)) = 1 /\ Cardinality(answer[h]) = 0
        \/ Cardinality(Queued(h)) = 0 /\ Cardinality(Holding(h)) = 0 /\ Cardinality(answer[h]) = 1
    BY <2>1, CountOfOne, Zenon DEF Waits
  <2> QED
    BY <1>1, <2>2
<1>2. CASE prog[h] # "asking"
  BY <1>2, CountOfOne DEF Pending
<1> QED
  BY <1>1, <1>2

(* A program blocked in a window call is never forgotten and never waits   *)
(* for two things: its request is in the queue, or one live modal window   *)
(* holds its answer back, or its answer is there.                          *)
THEOREM CallsArePending == Spec => []BlockedCallIsPending
<1>1. Init => Shape /\ Pending
  BY InitShape, InitPending
<1>2. Shape /\ Pending /\ [Next]_vars => (Shape /\ Pending)'
  BY NextShape, NextPending
<1>3. Shape /\ Pending => BlockedCallIsPending
  BY PendingCounts
<1> QED
  BY <1>1, <1>2, <1>3, PTL DEF Spec
-----------------------------------------------------------------------------
(* A windowHandler variable names an open form, or its program was told or *)
(* is to be told that the form closed; and so does the handle in an answer *)
(* that was not read yet.                                                  *)
Live(h, v) == v \in DOMAIN handles \/ v \in inbox[h] \/ Do("Closed", v) \in Items(work)

Cared ==
  \A h \in Handle :
     /\ prog[h] = "none" => var[h] = None
     /\ h \in Running => /\ var[h] # None => Live(h, var[h])
                         /\ \A a \in answer[h] \cap Handle : Live(h, a)

(* What the end of a form's program, or of its window, does.               *)
LEMMA FinishGone ==
  ASSUME HostTypes, NEW h \in Handle, FormFinished(h)
  PROVE  /\ h \notin DOMAIN handles' /\ DOMAIN handles' \subseteq DOMAIN handles
         /\ Returned \in Seq(Item)
         /\ \A v \in DOMAIN handles \ DOMAIN handles' :
               /\ {Do("CloseWindow", v), Do("Closed", v)} \subseteq Items(Returned)
               /\ v \in {out'.closed[i] : i \in DOMAIN out'.closed}
         /\ \A x \in Items(Returned) :
               x.do = "Exit" \/ \E v \in Handle \ DOMAIN handles' :
                                   x = Do("CloseWindow", v) \/ x = Do("Closed", v)
         /\ \A x \in Handle : Answered[x] \cap Handle \subseteq answer[x]
<1>0. TableTypes
  BY DEF HostTypes
<1>1. h \notin DOMAIN handles'
  BY <1>0, FinishEffect
<1>2. CASE Silent /\ out' = Quiet /\ \A x \in Handle : Answered[x] = answer[x]
  <2>1. Returned = <<>>
    BY <1>2, QuietIs
  <2>2. Returned \in Seq(Item) /\ Items(Returned) = {}
    BY <2>1, ItemsOfFew
  <2> QED
    BY <1>1, <1>2, <2>2 DEF Silent
<1>3. ASSUME NEW S, Gone(S)
      PROVE  /\ DOMAIN handles' = DOMAIN handles \ S /\ S \subseteq Handle
             /\ Returned \in Seq(Item)
             /\ \A v \in S : /\ {Do("CloseWindow", v), Do("Closed", v)} \subseteq Items(Returned)
                             /\ v \in {out'.closed[i] : i \in DOMAIN out'.closed}
             /\ \A x \in Items(Returned) :
                   x.do = "Exit" \/ \E v \in S : x = Do("CloseWindow", v) \/ x = Do("Closed", v)
             /\ \A x \in Handle : Answered[x] \cap Handle \subseteq answer[x]
  <2>1. S \subseteq Handle
    BY <1>0, <1>3, TableGone, IssuedHandles DEF TableTypes
  <2>2. \A x \in Handle : Answered[x] \cap Handle \subseteq answer[x]
    BY <1>3, HandleNumbers DEF Gone
  <2> QED
    BY <1>3, <2>1, <2>2 DEF Gone
<1>4. CASE \E S : Gone(S)
  <2>1. PICK S : Gone(S)
    BY <1>4
  <2> QED
    BY <1>1, <1>3, <2>1
<1> QED
  BY <1>0, <1>2, <1>4, FinishEffect

LEMMA ReturnedJoins ==
  ASSUME Shape, work # <<>>, Returned \in Seq(Item), work' = Tail(work) \o Returned
  PROVE  Items(work') = Items(Tail(work)) \cup Items(Returned)
<1> DEFINE rest == Tail(work)
           more == Returned
<1>1. rest \in Seq(Item) /\ more \in Seq(Item) /\ work' = rest \o more
  BY NoSpawnBehind
<1> HIDE DEF rest, more
<1>2. Items(rest \o more) = Items(rest) \cup Items(more)
  BY <1>1, ItemsOfConcat
<1> QED
  BY <1>1, <1>2 DEF rest, more

LEMMA CaredKeeps ==
  ASSUME HostTypes, Cared, var' = var,
         \A h \in Handle :
            /\ prog'[h] = "none" => prog[h] = "none"
            /\ h \in Running' => h \in Running \/ (var[h] = None /\ answer'[h] \cap Handle = {})
            /\ h \in Running => answer'[h] \cap Handle \subseteq answer[h] \cup DOMAIN handles',
         \A h \in Running, v \in Handle : (v = var[h] \/ v \in answer'[h]) /\ Live(h, v) => Live(h, v)'
  PROVE  Cared'
<1> SUFFICES ASSUME NEW h \in Handle
             PROVE  /\ prog'[h] = "none" => var'[h] = None
                    /\ h \in Running' => /\ var'[h] # None => Live(h, var[h])'
                                         /\ \A a \in answer'[h] \cap Handle : Live(h, a)'
  BY DEF Cared
<1>1. prog'[h] = "none" => var'[h] = None
  BY DEF Cared
<1>2. ASSUME h \in Running', var'[h] # None
      PROVE  Live(h, var[h])'
  <2>1. h \in Running /\ var[h] \in Handle
    BY <1>2 DEF HostTypes, ProgramTypes
  <2>2. Live(h, var[h])
    BY <1>2, <2>1 DEF Cared
  <2>3. \A v \in Handle : v = var[h] /\ Live(h, v) => Live(h, v)'
    BY <2>1
  <2> QED
    BY <2>1, <2>2, <2>3 DEF Live
<1>3. ASSUME h \in Running', NEW a \in answer'[h] \cap Handle
      PROVE  Live(h, a)'
  <2>1. h \in Running
    BY <1>3
  <2>2. CASE a \in DOMAIN handles'
    BY <2>2 DEF Live
  <2>3. CASE a \in answer[h]
    BY <2>1, <2>3 DEF Cared
  <2> QED
    BY <2>1, <2>2, <2>3
<1> QED
  BY <1>1, <1>2, <1>3

LEMMA CaredCall ==
  ASSUME Shape, Cared, CallEffect
  PROVE  Cared'
<1>0. HostTypes /\ TableTypes /\ work = <<>> /\ work' = Returned
      /\ UNCHANGED <<prog, var, inbox>> /\ Running' = Running
  BY DEF Shape, HostTypes, CallEffect, programs, Running
<1>1. \A h, v : Live(h, v) => v \in DOMAIN handles \/ v \in inbox[h]
  BY <1>0, ItemsOfFew DEF Live
<1>2. CASE DOMAIN handles \subseteq DOMAIN handles'
           /\ \A h \in Handle : answer'[h] \cap Handle \subseteq answer[h] \cup DOMAIN handles'
  BY <1>0, <1>1, <1>2, CaredKeeps DEF Live
<1>3. CASE Same /\ \A h \in Handle : answer'[h] \cap Handle \subseteq answer[h] \cup DOMAIN handles
  BY <1>2, <1>3 DEF Same
<1>4. CASE /\ \E info : Came(info)
           /\ \A h \in Handle : answer'[h] \cap Handle \subseteq answer[h] \cup {next}
  BY <1>2, <1>4 DEF Came
<1>5. CASE /\ \E S : Gone(S)
           /\ \A h \in Handle : answer'[h] \cap Handle \subseteq answer[h]
  <2>1. PICK S : Gone(S)
    BY <1>5
  <2>2. \A h, v : Live(h, v) => Live(h, v)'
    <3> TAKE h, v
    <3>1. CASE v \in S
      BY <1>0, <2>1, <3>1 DEF Gone, Live
    <3>2. CASE v \notin S
      BY <1>0, <1>1, <2>1, <3>2 DEF Gone, Live
    <3> QED
      BY <3>1, <3>2
  <2> QED
    BY <1>0, <1>5, <2>2, CaredKeeps
<1> QED
  BY <1>3, <1>4, <1>5 DEF CallEffect

LEMMA CaredPerform ==
  ASSUME Shape, Pending, Cared, Perform
  PROVE  Cared'
<1> DEFINE h == Head(work).handle
<1>0. HostTypes /\ work # <<>> /\ var' = var
      /\ Items(work) = {Head(work)} \cup Items(Tail(work))
  BY NoSpawnBehind DEF Shape, Perform, PerformSpawn, PerformCloseWindow, PerformRelease,
                       PerformRetire, PerformClosed, PerformExit, Now, programs
(* A handle whose programs are to be told, but by the step itself.         *)
<1>1. ASSUME Head(work).do # "Closed", NEW v, Do("Closed", v) \in Items(work)
      PROVE  Do("Closed", v) \in Items(Tail(work))
  BY <1>0, <1>1 DEF Do
<1>2. CASE PerformSpawn
  <2>1. h \in Handle /\ prog[h] = "none" /\ Head(work).do = "Spawn" /\ Items(Tail(work)) \subseteq Items(work)
    BY <1>2, HeadIs, NoSpawnBehind DEF PerformSpawn, Now, Shape, SpawnAlone
  <2>2. \/ SpawnFailed(h) /\ UNCHANGED programs
        \/ /\ UNCHANGED <<handles, answer, inbox>> /\ prog' = [prog EXCEPT ![h] = "running"]
           /\ work' = Tail(work)
    BY <1>2 DEF PerformSpawn
  <2> HIDE DEF h
  <2>3. CASE SpawnFailed(h) /\ UNCHANGED programs
    <3>1. /\ FormFinished(h) /\ work' = Tail(work) \o Returned /\ answer' = Answered
          /\ UNCHANGED <<prog, inbox>> /\ Running' = Running
      BY <2>3 DEF SpawnFailed, programs, Running
    <3>2. /\ Items(work') = Items(Tail(work)) \cup Items(Returned)
          /\ \A v \in DOMAIN handles \ DOMAIN handles' : Do("Closed", v) \in Items(Returned)
          /\ \A x \in Handle : answer'[x] \cap Handle \subseteq answer[x]
      BY <1>0, <2>1, <3>1, FinishGone, ReturnedJoins
    <3>3. \A x, v : Live(x, v) => Live(x, v)'
      BY <1>1, <2>1, <3>1, <3>2 DEF Live
    <3> QED
      BY <1>0, <3>1, <3>2, <3>3, CaredKeeps
  <2>4. CASE /\ UNCHANGED <<handles, answer, inbox>> /\ prog' = [prog EXCEPT ![h] = "running"]
             /\ work' = Tail(work)
    <3>1. \A x, v : Live(x, v) => Live(x, v)'
      BY <1>1, <2>1, <2>4 DEF Live
    <3>2. var[h] = None /\ answer[h] = {}
      BY <2>1 DEF Cared, Pending
    <3>3. \A x \in Handle : /\ prog'[x] = "none" => prog[x] = "none"
                            /\ x \in Running' => x \in Running \/ x = h
      BY <1>0, <2>1, <2>4 DEF Running, HostTypes, ProgramTypes
    <3> QED
      BY <1>0, <2>4, <3>1, <3>2, <3>3, CaredKeeps
  <2> QED
    BY <2>2, <2>3, <2>4
<1>3. CASE PerformRelease
  <2>1. /\ h \in Handle /\ Head(work).do = "Release"
        /\ FormFinished(h) /\ work' = Tail(work) \o Returned /\ answer' = Answered
        /\ UNCHANGED <<prog, inbox>> /\ Running' = Running
    BY <1>3, HeadIs DEF PerformRelease, Now, programs, Running
  <2> HIDE DEF h
  <2>2. /\ Items(work') = Items(Tail(work)) \cup Items(Returned)
        /\ \A v \in DOMAIN handles \ DOMAIN handles' : Do("Closed", v) \in Items(Returned)
        /\ \A x \in Handle : answer'[x] \cap Handle \subseteq answer[x]
    BY <1>0, <2>1, FinishGone, ReturnedJoins
  <2>3. \A x, v : Live(x, v) => Live(x, v)'
    BY <1>1, <2>1, <2>2 DEF Live
  <2> QED
    BY <1>0, <2>1, <2>2, <2>3, CaredKeeps
<1>4. CASE PerformRetire
  <2> DEFINE gone == {out'.closed[i] : i \in DOMAIN out'.closed}
  <2>1. /\ h \in Handle /\ Head(work).do = "Retire"
        /\ FormFinished(h) /\ work' = Tail(work) /\ answer' = Answered
        /\ prog' = prog /\ Running' = Running
        /\ inbox' = Broadcast(gone, Answered)
    BY <1>4, HeadIs DEF PerformRetire, Now, Running
  <2> HIDE DEF h, gone
  <2>2. /\ \A v \in DOMAIN handles \ DOMAIN handles' : v \in gone
        /\ \A x \in Handle : answer'[x] \cap Handle \subseteq answer[x]
    BY <1>0, <2>1, FinishGone DEF gone
  <2>3. ASSUME NEW x \in Running, NEW v \in Handle, v = var[x] \/ v \in answer'[x], Live(x, v)
        PROVE  Live(x, v)'
    <3>1. x \in Handle /\ inbox'[x] = inbox[x] \cup (gone \cap Holds(x, Answered))
      BY <2>1, <2>3 DEF Broadcast, Running
    <3>2. v \in Holds(x, Answered)
      BY <2>1, <2>3 DEF Holds
    <3> QED
      BY <1>1, <2>1, <2>2, <2>3, <3>1, <3>2 DEF Live
  <2> QED
    BY <1>0, <2>1, <2>2, <2>3, CaredKeeps
<1>5. CASE PerformClosed
  <2>1. /\ h \in Handle /\ Head(work) = Do("Closed", h)
        /\ inbox' = Broadcast({h}, answer) /\ work' = Tail(work)
        /\ UNCHANGED <<handles, prog, answer>> /\ Running' = Running
    BY <1>5, HeadIs DEF PerformClosed, Running
  <2> HIDE DEF h
  <2>2. ASSUME NEW x \in Running, NEW v \in Handle, v = var[x] \/ v \in answer'[x], Live(x, v)
        PROVE  Live(x, v)'
    <3>1. x \in Handle /\ inbox'[x] = inbox[x] \cup ({h} \cap Holds(x, answer))
      BY <2>1, <2>2 DEF Broadcast, Running
    <3>2. v \in Holds(x, answer)
      BY <2>1, <2>2 DEF Holds
    <3>3. Do("Closed", v) \in Items(work) => v = h \/ Do("Closed", v) \in Items(Tail(work))
      BY <1>0, <2>1 DEF Do
    <3> QED
      BY <2>1, <2>2, <3>1, <3>2, <3>3 DEF Live
  <2> QED
    BY <1>0, <2>1, <2>2, CaredKeeps
<1>6. CASE PerformCloseWindow \/ PerformExit
  <2>1. /\ UNCHANGED <<handles, answer, prog, inbox>> /\ Running' = Running
        /\ Head(work).do # "Closed"
    BY <1>6 DEF PerformCloseWindow, PerformExit, Now, Running
  <2>2. Items(Tail(work)) \subseteq Items(work')
    BY <1>6, CloseWindowShape DEF PerformExit
  <2>3. \A x, v : Live(x, v) => Live(x, v)'
    BY <1>1, <2>1, <2>2 DEF Live
  <2> QED
    BY <1>0, <2>1, <2>3, CaredKeeps
<1> QED
  BY <1>2, <1>3, <1>4, <1>5, <1>6 DEF Perform

LEMMA CaredShell ==
  ASSUME Shape, Pending, Cared, NEW o \in Handle, ShellEffect(o)
  PROVE  Cared'
<1>0. /\ HostTypes /\ TableTypes /\ work = <<>> /\ Items(work) = {}
      /\ UNCHANGED <<answer, var, inbox>>
  BY ItemsOfFew DEF Shape, HostTypes, ShellEffect
<1>1. DOMAIN handles \subseteq DOMAIN handles'
  BY DEF ShellEffect, Came
<1>2. \A h, v : Live(h, v) => Live(h, v)'
  BY <1>0, <1>1 DEF Live
<1>3. CASE prog' = prog
  <2>1. Running' = Running
    BY <1>3 DEF Running
  <2> QED
    BY <1>0, <1>2, <1>3, <2>1, CaredKeeps
<1>4. CASE /\ \E info : Came(info)
           /\ prog' = [prog EXCEPT ![next] = "running"]
  <2>0. next \in Handle
    BY <1>0, <1>4, TableCame
  <2>1. next \in Handle /\ next >= next
    BY <2>0, HandleNumbers
  <2>2. prog[next] = "none"
    BY <2>1 DEF Shape, NotYet
  <2>3. var[next] = None /\ answer[next] = {}
    BY <2>1, <2>2 DEF Cared, Pending
  <2>4. \A h \in Handle : /\ prog'[h] = "none" => prog[h] = "none"
                          /\ h \in Running' => h \in Running \/ h = next
    BY <1>0, <1>4, <2>1 DEF Running, HostTypes, ProgramTypes
  <2> QED
    BY <1>0, <1>2, <2>3, <2>4, CaredKeeps
<1> QED
  BY <1>3, <1>4 DEF ShellEffect

(* A program that asks has drained what it was told; one that ends, or     *)
(* reads its answer, keeps no handle it was not told of.                   *)
LEMMA CaredProgram ==
  ASSUME Shape, Pending, Cared, NEW h \in Handle, Program(h)
  PROVE  Cared'
<1>0. /\ HostTypes /\ ProgramTypes /\ UNCHANGED <<handles, work>>
      /\ prog[h] \in {"running", "asking"}
  <2>1. HostTypes
    BY DEF Shape
  <2>2. UNCHANGED <<handles, work>>
    BY <2>1, ProgramIsApart DEF Apart
  <2>3. prog[h] \in {"running", "asking"}
    <3>1. CASE (\E f \in Form, sync, modal \in BOOLEAN : AskOpen(h, f, sync, modal)) \/ AskClose(h)
      BY <2>1, <3>1, AskIs, SendsIs
    <3>2. CASE CloseSelf(h)
      BY <3>2 DEF CloseSelf, Sends
    <3>3. CASE SetFormState(h) \/ Resume(h) \/ Stop(h) \/ Quit(h)
      BY <3>3 DEF SetFormState, Resume, Stop, Quit, Ends
    <3> QED
      BY <3>1, <3>2, <3>3 DEF Program
  <2> QED
    BY <2>1, <2>2, <2>3 DEF HostTypes
(* The other programs are as before.                                       *)
<1>1. ASSUME \A x \in Handle \ {h} : /\ prog'[x] = prog[x] /\ var'[x] = var[x]
                                     /\ inbox'[x] = inbox[x] /\ answer'[x] = answer[x],
             prog'[h] # "none",
             h \in Running' => /\ var'[h] # None => Live(h, var[h])'
                               /\ \A a \in answer'[h] \cap Handle : Live(h, a)'
      PROVE  Cared'
  <2>1. ASSUME NEW x \in Handle, x # h
        PROVE  /\ prog'[x] = "none" => var'[x] = None
               /\ x \in Running' => /\ var'[x] # None => Live(x, var[x])'
                                    /\ \A a \in answer'[x] \cap Handle : Live(x, a)'
    <3>1. prog'[x] = prog[x] /\ var'[x] = var[x] /\ inbox'[x] = inbox[x] /\ answer'[x] = answer[x]
      BY <1>1, <2>1
    <3>2. x \in Running' <=> x \in Running
      BY <3>1 DEF Running
    <3>3. \A v : Live(x, v) => v \in DOMAIN handles' \/ v \in inbox'[x] \/ Do("Closed", v) \in Items(work')
      BY <1>0, <3>1 DEF Live
    <3>4. (x \in Running /\ var[x] # None => Live(x, var[x])) /\ (prog[x] = "none" => var[x] = None)
          /\ (x \in Running => \A a \in answer[x] \cap Handle : Live(x, a))
      BY <2>1 DEF Cared
    <3> QED
      BY <3>1, <3>2, <3>3, <3>4 DEF Live
  <2> QED
    BY <1>1, <2>1 DEF Cared
<1>2. h \in Running /\ (var[h] # None => Live(h, var[h]))
      /\ \A a \in answer[h] \cap Handle : Live(h, a)
  BY <1>0 DEF Running, Cared
<1>3. ASSUME NEW r, Sends(h, r), prog' = prog \/ prog' = [prog EXCEPT ![h] = "asking"]
      PROVE  Cared'
  <2>1. /\ prog[h] = "running" /\ answer' = answer
        /\ var' = [var EXCEPT ![h] = Known(h, @)] /\ inbox' = [inbox EXCEPT ![h] = {}]
    BY <1>0, <1>3, SendsIs
  <2>2. answer[h] = {}
    BY <2>1 DEF Pending
  <2>3. var'[h] = Known(h, var[h])
    BY <1>0, <2>1 DEF ProgramTypes
  <2>4. var'[h] # None => var'[h] = var[h] /\ var[h] \notin inbox[h]
    BY <2>3 DEF Known
  <2>5. var'[h] # None => Live(h, var[h])'
    BY <1>0, <1>2, <2>4 DEF Live
  <2>6. prog'[h] # "none"
    BY <1>0, <1>3, <2>1 DEF ProgramTypes
  <2> QED
    BY <1>0, <1>1, <1>3, <2>1, <2>2, <2>5, <2>6 DEF ProgramTypes
<1>4. CASE (\E f \in Form, sync, modal \in BOOLEAN : AskOpen(h, f, sync, modal)) \/ AskClose(h)
  BY <1>0, <1>3, <1>4, AskIs
<1>5. CASE CloseSelf(h)
  BY <1>3, <1>5 DEF CloseSelf
<1>6. CASE SetFormState(h)
  <2>1. UNCHANGED <<prog, var, inbox, answer>>
    BY <1>0, <1>6, SetStateIs
  <2>2. Running' = Running /\ \A x, v : Live(x, v) => Live(x, v)'
    BY <1>0, <2>1 DEF Running, Live
  <2> QED
    BY <1>0, <2>1, <2>2, CaredKeeps
<1>7. CASE Resume(h)
  <2>1. /\ prog[h] = "asking" /\ answer' = [answer EXCEPT ![h] = {}]
        /\ \/ Over(h)
           \/ /\ prog' = [prog EXCEPT ![h] = "running"]
              /\ Done \notin answer[h] => var'[h] \in answer[h]
              /\ Done \in answer[h] => var'[h] = var[h]
              /\ \A x \in Handle \ {h} : var'[x] = var[x]
              /\ inbox' = [inbox EXCEPT ![h] = @ \cap {var'[h], super[h]}]
        /\ var' \in [Handle -> Handle \cup {None}]
    BY <1>0, <1>7, ResumeIs DEF ProgramTypes
  <2>2. CASE Over(h)
    <3>1. prog'[h] = "ended" /\ h \notin Running'
      BY <1>0, <2>2 DEF Over, ProgramTypes, Running
    <3> QED
      BY <1>0, <1>1, <2>1, <2>2, <3>1 DEF Over, ProgramTypes
  <2>3. CASE /\ prog' = [prog EXCEPT ![h] = "running"]
             /\ Done \notin answer[h] => var'[h] \in answer[h]
             /\ Done \in answer[h] => var'[h] = var[h]
             /\ \A x \in Handle \ {h} : var'[x] = var[x]
             /\ inbox' = [inbox EXCEPT ![h] = @ \cap {var'[h], super[h]}]
    <3>1. answer'[h] = {} /\ prog'[h] = "running" /\ inbox'[h] = inbox[h] \cap {var'[h], super[h]}
      BY <1>0, <2>1, <2>3 DEF ProgramTypes
    <3>2. ASSUME var'[h] # None PROVE Live(h, var[h])'
      <4>1. Live(h, var'[h])
        BY <1>2, <2>1, <2>3, <3>2
      <4> QED
        BY <1>0, <3>1, <4>1 DEF Live
    <3> QED
      BY <1>0, <1>1, <2>1, <2>3, <3>1, <3>2 DEF ProgramTypes
  <2> QED
    BY <2>1, <2>2, <2>3
<1>8. CASE Stop(h) \/ Quit(h)
  <2>1. Over(h) /\ answer' = answer
    BY <1>0, <1>8, EndsIs DEF Stop, Quit
  <2>2. prog'[h] = "ended" /\ h \notin Running'
    BY <1>0, <2>1 DEF Over, ProgramTypes, Running
  <2> QED
    BY <1>0, <1>1, <2>1, <2>2 DEF Over, ProgramTypes
<1> QED
  BY <1>4, <1>5, <1>6, <1>7, <1>8 DEF Program

LEMMA NextCared ==
  ASSUME Shape, Pending, Cared, [Next]_vars
  PROVE  Cared'
<1>0. HostTypes
  BY DEF Shape
<1>1. ASSUME UNCHANGED <<handles, work, answer, prog, var, inbox>>
      PROVE  Cared'
  <2>1. Running' = Running /\ \A x, v : Live(x, v) => Live(x, v)'
    BY <1>1 DEF Running, Live
  <2> QED
    BY <1>0, <1>1, <2>1, CaredKeeps
<1>2. CASE UNCHANGED vars
  BY <1>1, <1>2 DEF vars, supervisor, host, programs
<1>3. CASE Apart /\ UNCHANGED <<answer, prog, var, inbox>>
  BY <1>1, <1>3 DEF Apart
<1>4. CASE Next
  BY <1>3, <1>4, StepIs, CaredPerform, CaredCall, CaredShell, CaredProgram DEF Perform
<1> QED
  BY <1>2, <1>4

LEMMA CaredIsLive ==
  ASSUME HostTypes, Cared PROVE HandleVariablesAreLive
<1> SUFFICES ASSUME NEW h \in Handle, h \in Running, var[h] # None
             PROVE  IsOpen(var[h]) \/ Told(h, var[h])
  BY DEF HandleVariablesAreLive
<1>1. Live(h, var[h])
  BY DEF Cared
<1> QED
  BY <1>1 DEF Live, IsOpen, Told, Items

(* A windowHandler variable of a program that runs names an open form, or  *)
(* the program was told that the form closed, or the host is about to tell *)
(* it; and the program drains that before it next uses the variable.       *)
THEOREM HandlesAreLive == Spec => []HandleVariablesAreLive
<1>1. Init => Shape /\ Pending /\ Cared
  <2>1. Init => Cared
    BY DEF Init, Cared
  <2> QED
    BY <2>1, InitShape, InitPending
<1>2. Shape /\ Pending /\ Cared /\ [Next]_vars => (Shape /\ Pending /\ Cared)'
  BY NextShape, NextPending, NextCared
<1>3. Shape /\ Pending /\ Cared => HandleVariablesAreLive
  BY CaredIsLive DEF Shape
<1> QED
  BY <1>1, <1>2, <1>3, PTL DEF Spec
-----------------------------------------------------------------------------
(* Every handle has its window, or the host is about to open it or to give *)
(* the handle up; and a window is closed only after its handle went.       *)
OnTheWay(h) == \E d \in {"Spawn", "Release", "Retire"} : Do(d, h) \in Items(work)

Shown ==
  /\ \A h \in DOMAIN handles : h \in DOMAIN bodies \/ OnTheWay(h)
  /\ \A h \in Handle : Do("CloseWindow", h) \in Items(work) => h \notin DOMAIN handles

LEMMA ShownCall ==
  ASSUME Shape, Shown, CallEffect
  PROVE  Shown'
<1>0. /\ TableTypes /\ Items(work) = {} /\ work' = Returned /\ bodies' = bodies
      /\ DOMAIN handles \subseteq Handle
  BY ItemsOfFew, IssuedHandles DEF Shape, HostTypes, CallEffect, TableTypes
<1>1. \A h \in DOMAIN handles : h \in DOMAIN bodies
  BY <1>0 DEF Shown, OnTheWay
<1>2. CASE Same /\ Returned = <<>>
  BY <1>0, <1>1, <1>2, ItemsOfFew DEF Same, Shown
<1>3. CASE \E S : Gone(S)
  <2>1. PICK S : Gone(S)
    BY <1>3
  <2>2. ASSUME NEW h \in Handle, Do("CloseWindow", h) \in Items(work')
        PROVE  h \in S
    <3>1. PICK v \in S : Do("CloseWindow", h) = Do("CloseWindow", v) \/ Do("CloseWindow", h) = Do("Closed", v)
      BY <1>0, <2>1, <2>2 DEF Gone, Do
    <3> QED
      BY <3>1 DEF Do
  <2> QED
    BY <1>0, <1>1, <2>1, <2>2 DEF Gone, Shown
<1>4. CASE (\E info : Came(info)) /\ Returned = <<Do("Spawn", next)>>
  <2>1. Items(work') = {Do("Spawn", next)}
    BY <1>0, <1>4, ItemsOfFew
  <2>2. \A h \in Handle : Do("CloseWindow", h) \notin Items(work')
    BY <2>1 DEF Do
  <2>3. DOMAIN handles' = DOMAIN handles \cup {next}
    BY <1>4 DEF Came
  <2> QED
    BY <1>0, <1>1, <2>1, <2>2, <2>3 DEF Shown, OnTheWay
<1> QED
  BY <1>2, <1>3, <1>4 DEF CallEffect

LEMMA ShownPerform ==
  ASSUME Shape, Shown, Perform
  PROVE  Shown'
<1> DEFINE h == Head(work).handle
<1>0. /\ HostTypes /\ work # <<>> /\ DOMAIN handles \subseteq Handle
      /\ Items(work) = {Head(work)} \cup Items(Tail(work))
  BY NoSpawnBehind, IssuedHandles DEF Shape, HostTypes, TableTypes, Perform, PerformSpawn,
     PerformCloseWindow, PerformRelease, PerformRetire, PerformClosed, PerformExit, Now
(* The form of the handle h finishes, and with it others.                  *)
<1>1. ASSUME h \in Handle, FormFinished(h), Head(work).do # "CloseWindow",
             \A d \in {"Spawn", "Release", "Retire"}, v \in Handle \ {h} : Head(work) # Do(d, v),
             Items(Tail(work)) \subseteq Items(work'),
             \A x \in Items(work') : x \in Items(Tail(work)) \/ x \in Items(Returned),
             DOMAIN bodies \ {h} \subseteq DOMAIN bodies'
      PROVE  Shown'
  <2> HIDE DEF h
  <2>1. /\ h \notin DOMAIN handles' /\ DOMAIN handles' \subseteq DOMAIN handles
        /\ \A x \in Items(Returned) :
              x.do = "Exit" \/ \E v \in Handle \ DOMAIN handles' :
                                  x = Do("CloseWindow", v) \/ x = Do("Closed", v)
    BY <1>0, <1>1, FinishGone
  <2>2. ASSUME NEW v \in DOMAIN handles' PROVE v \in DOMAIN bodies' \/ OnTheWay(v)'
    <3>1. v \in DOMAIN handles /\ v # h /\ v \in Handle
      BY <1>0, <2>1, <2>2
    <3>2. v \in DOMAIN bodies \/ OnTheWay(v)
      BY <3>1 DEF Shown
    <3> QED
      BY <1>0, <1>1, <3>1, <3>2 DEF OnTheWay
  <2>3. ASSUME NEW v \in Handle, Do("CloseWindow", v) \in Items(work') PROVE v \notin DOMAIN handles'
    <3>1. CASE Do("CloseWindow", v) \in Items(Tail(work))
      BY <1>0, <2>1, <2>3, <3>1 DEF Shown
    <3>2. CASE Do("CloseWindow", v) \in Items(Returned)
      <4>1. PICK w \in Handle \ DOMAIN handles' :
              Do("CloseWindow", v) = Do("CloseWindow", w) \/ Do("CloseWindow", v) = Do("Closed", w)
        BY <2>1, <3>2 DEF Do
      <4> QED
        BY <4>1 DEF Do
    <3> QED
      BY <1>1, <2>3, <3>1, <3>2
  <2> QED
    BY <2>2, <2>3 DEF Shown
<1>2. CASE PerformSpawn
  <2>1. /\ h \in Handle /\ Head(work) = Do("Spawn", h) /\ Items(Tail(work)) \subseteq Items(work)
    BY <1>2, HeadIs, NoSpawnBehind DEF PerformSpawn
  <2>2. \/ SpawnFailed(h) /\ bodies' = bodies
        \/ /\ UNCHANGED handles /\ DOMAIN bodies' = DOMAIN bodies \cup {h} /\ work' = Tail(work)
    BY <1>2 DEF PerformSpawn, Body
  <2> HIDE DEF h
  <2>3. CASE SpawnFailed(h) /\ bodies' = bodies
    <3>1. FormFinished(h) /\ work' = Tail(work) \o Returned
      BY <2>3 DEF SpawnFailed
    <3>2. Items(work') = Items(Tail(work)) \cup Items(Returned)
      BY <1>0, <2>1, <3>1, FinishGone, ReturnedJoins
    <3> QED
      BY <1>1, <2>1, <2>3, <3>1, <3>2 DEF Do, h
  <2>4. CASE UNCHANGED handles /\ DOMAIN bodies' = DOMAIN bodies \cup {h} /\ work' = Tail(work)
    BY <1>0, <2>1, <2>4 DEF Shown, OnTheWay, Do
  <2> QED
    BY <2>2, <2>3, <2>4
<1>3. CASE PerformRelease
  <2>1. /\ h \in Handle /\ Head(work) = Do("Release", h)
        /\ FormFinished(h) /\ work' = Tail(work) \o Returned /\ bodies' = bodies
    BY <1>3, HeadIs DEF PerformRelease
  <2> HIDE DEF h
  <2>2. Items(work') = Items(Tail(work)) \cup Items(Returned)
    BY <1>0, <2>1, FinishGone, ReturnedJoins
  <2> QED
    BY <1>1, <2>1, <2>2 DEF Do, h
<1>4. CASE PerformRetire
  <2>1. /\ h \in Handle /\ Head(work) = Do("Retire", h)
        /\ FormFinished(h) /\ work' = Tail(work) /\ bodies' = NoBody({h})
    BY <1>4, HeadIs DEF PerformRetire
  <2>2. DOMAIN bodies' = DOMAIN bodies \ {h}
    BY <2>1 DEF NoBody
  <2> HIDE DEF h
  <2> QED
    BY <1>1, <2>1, <2>2 DEF Do, h
<1>5. CASE PerformClosed \/ PerformExit
  <2>1. /\ UNCHANGED <<handles, bodies>> /\ work' = Tail(work)
        /\ Head(work).do \in {"Closed", "Exit"}
    BY <1>5 DEF PerformClosed, PerformExit, Now
  <2> QED
    BY <1>0, <2>1 DEF Shown, OnTheWay, Do
<1>6. CASE PerformCloseWindow
  <2> DEFINE panes == IF h # Root THEN OccupantsOf(h) ELSE {}
  <2>1. /\ h \in Handle /\ Head(work) = Do("CloseWindow", h) /\ handles' = handles
        /\ Items(work') = {Do("Release", x) : x \in panes} \cup Items(Tail(work))
        /\ DOMAIN bodies' = DOMAIN bodies \ ({h} \cup panes)
    BY <1>6, CloseWindowShape DEF PerformCloseWindow
  <2> HIDE DEF h, panes
  <2>2. h \notin DOMAIN handles
    BY <1>0, <2>1 DEF Shown
  <2>3. ASSUME NEW v \in DOMAIN handles' PROVE v \in DOMAIN bodies' \/ OnTheWay(v)'
    <3>1. CASE v \in panes
      BY <2>1, <3>1 DEF OnTheWay
    <3>2. CASE v \notin panes
      <4>1. v \in DOMAIN bodies \/ OnTheWay(v)
        BY <2>1, <2>3 DEF Shown
      <4>2. OnTheWay(v) => OnTheWay(v)'
        BY <1>0, <2>1 DEF OnTheWay, Do
      <4> QED
        BY <2>1, <2>2, <2>3, <3>2, <4>1, <4>2
    <3> QED
      BY <3>1, <3>2
  <2>4. \A v \in Handle : Do("CloseWindow", v) \in Items(work') => v \notin DOMAIN handles'
    BY <1>0, <2>1 DEF Shown, Do
  <2> QED
    BY <2>3, <2>4 DEF Shown
<1> QED
  BY <1>2, <1>3, <1>4, <1>5, <1>6 DEF Perform

LEMMA ShownShell ==
  ASSUME Shape, Shown, NEW o \in Handle, ShellEffect(o)
  PROVE  Shown'
<1>0. Items(work) = {} /\ TableTypes
  BY ItemsOfFew DEF ShellEffect, Shape, HostTypes
<1>1. \A h \in DOMAIN handles : h \in DOMAIN bodies
  BY <1>0 DEF Shown, OnTheWay
<1>2. \A h \in Handle : Do("CloseWindow", h) \notin Items(work')
  BY DEF ShellEffect, Do
<1>3. CASE UNCHANGED <<handles, bodies>>
  BY <1>1, <1>2, <1>3 DEF Shown
<1>4. CASE /\ DOMAIN handles' = DOMAIN handles \cup {next}
           /\ \/ bodies' = bodies /\ Items(work') = {Do("Retire", next)}
              \/ \E f \in Form : bodies' = Body(next, [form |-> f, pane |-> o])
  BY <1>1, <1>2, <1>4 DEF Shown, OnTheWay, Body
<1> QED
  BY <1>3, <1>4 DEF ShellEffect, Came

LEMMA NextShown ==
  ASSUME Shape, Shown, [Next]_vars
  PROVE  Shown'
<1>1. CASE UNCHANGED <<handles, work, bodies>>
  BY <1>1 DEF Shown, OnTheWay
<1>2. CASE UNCHANGED vars
  BY <1>1, <1>2 DEF vars, supervisor, host
<1>3. CASE Next
  BY <1>1, <1>3, StepIs, ShownPerform, ShownCall, ShownShell DEF Perform, Apart
<1> QED
  BY <1>2, <1>3

(* Between two worklists no form is open without its window, or its place  *)
(* on a pane.                                                              *)
THEOREM HandlesHaveWindows == Spec => []EveryHandleHasItsWindow
<1>1. Init => Shape /\ Shown
  <2>1. Init => Shown
    BY ItemsOfFew DEF Init, SupervisorInit, Shown
  <2> QED
    BY <2>1, InitShape
<1>2. Shape /\ Shown /\ [Next]_vars => (Shape /\ Shown)'
  BY NextShape, NextShown
<1>3. Shape /\ Shown => EveryHandleHasItsWindow
  BY ItemsOfFew DEF Shown, OnTheWay, EveryHandleHasItsWindow
<1> QED
  BY <1>1, <1>2, <1>3, PTL DEF Spec
-----------------------------------------------------------------------------
(* Without a shell every window of the screen is a form that is open, or   *)
(* that the host is about to close.                                        *)
Plain ==
  /\ \A h \in DOMAIN bodies : /\ bodies[h].pane = None
                              /\ h \in DOMAIN handles \/ Do("CloseWindow", h) \in Items(work)
  /\ \A x \in Items(work) : x.do \in {"Spawn", "CloseWindow", "Closed", "Exit"}

LEMMA PlainCall ==
  ASSUME Shape, Plain, CallEffect
  PROVE  Plain'
<1>0. Items(work) = {} /\ work' = Returned /\ bodies' = bodies /\ TableTypes
  BY ItemsOfFew DEF CallEffect, Shape, HostTypes
<1>1. \A h \in DOMAIN bodies : h \in DOMAIN handles /\ bodies[h].pane = None
  BY <1>0 DEF Plain
<1>2. CASE Same /\ Returned = <<>>
  BY <1>0, <1>1, <1>2, ItemsOfFew DEF Same, Plain
<1>3. CASE \E S : Gone(S)
  <2>1. PICK S : Gone(S)
    BY <1>3
  <2>2. \A x \in Items(work') : x.do \in {"Spawn", "CloseWindow", "Closed", "Exit"}
    BY <1>0, <2>1 DEF Gone, Do
  <2>3. \A h \in DOMAIN bodies : h \in DOMAIN handles' \/ Do("CloseWindow", h) \in Items(work')
    BY <1>0, <1>1, <2>1 DEF Gone
  <2> QED
    BY <1>0, <1>1, <2>2, <2>3 DEF Plain
<1>4. CASE (\E info : Came(info)) /\ Returned = <<Do("Spawn", next)>>
  BY <1>0, <1>1, <1>4, ItemsOfFew DEF Came, Plain, Do
<1> QED
  BY <1>2, <1>3, <1>4 DEF CallEffect

LEMMA PlainPerform ==
  ASSUME Shape, Plain, Perform
  PROVE  Plain'
<1> DEFINE h == Head(work).handle
<1>0. /\ HostTypes /\ work # <<>> /\ DOMAIN handles \subseteq Handle
      /\ Items(work) = {Head(work)} \cup Items(Tail(work))
      /\ Head(work).do \in {"Spawn", "CloseWindow", "Closed", "Exit"}
  BY NoSpawnBehind, IssuedHandles DEF Shape, HostTypes, TableTypes, Perform, PerformSpawn,
     PerformCloseWindow, PerformRelease, PerformRetire, PerformClosed, PerformExit, Now, Plain
<1>1. CASE PerformSpawn
  <2>1. /\ h \in Handle /\ Head(work) = Do("Spawn", h) /\ h \in DOMAIN handles
    BY <1>1, HeadIs DEF PerformSpawn, Shape, SpawnAlone
  <2>2. \/ SpawnFailed(h) /\ bodies' = bodies
        \/ /\ UNCHANGED handles /\ work' = Tail(work)
           /\ bodies' = Body(h, [form |-> handles[h].form, pane |-> None])
    BY <1>1 DEF PerformSpawn
  <2> HIDE DEF h
  <2>3. CASE SpawnFailed(h) /\ bodies' = bodies
    <3>1. FormFinished(h) /\ work' = Tail(work) \o Returned
      BY <2>3 DEF SpawnFailed
    <3>2. /\ Items(work') = Items(Tail(work)) \cup Items(Returned)
          /\ DOMAIN handles' \subseteq DOMAIN handles
          /\ \A v \in DOMAIN handles \ DOMAIN handles' : Do("CloseWindow", v) \in Items(Returned)
          /\ \A x \in Items(Returned) : x.do \in {"CloseWindow", "Closed", "Exit"}
      <4>1. Items(work') = Items(Tail(work)) \cup Items(Returned)
        BY <1>0, <2>1, <3>1, FinishGone, ReturnedJoins
      <4>2. /\ DOMAIN handles' \subseteq DOMAIN handles
            /\ \A v \in DOMAIN handles \ DOMAIN handles' : Do("CloseWindow", v) \in Items(Returned)
            /\ \A x \in Items(Returned) :
                  x.do = "Exit" \/ \E v : x = Do("CloseWindow", v) \/ x = Do("Closed", v)
        BY <1>0, <2>1, <3>1, FinishGone
      <4> QED
        BY <4>1, <4>2 DEF Do
    <3> QED
      BY <1>0, <2>1, <2>3, <3>2 DEF Plain, Do
  <2>4. CASE /\ UNCHANGED handles /\ work' = Tail(work)
             /\ bodies' = Body(h, [form |-> handles[h].form, pane |-> None])
    <3>1. /\ DOMAIN bodies' = DOMAIN bodies \cup {h}
          /\ \A x \in DOMAIN bodies' : bodies'[x].pane = IF x = h THEN None ELSE bodies[x].pane
      BY <2>4 DEF Body
    <3> QED
      BY <1>0, <2>1, <2>4, <3>1 DEF Plain, Do
  <2> QED
    BY <2>2, <2>3, <2>4
<1>2. CASE PerformCloseWindow
  <2> DEFINE panes == IF h # Root THEN OccupantsOf(h) ELSE {}
  <2>1. /\ h \in Handle /\ Head(work) = Do("CloseWindow", h) /\ handles' = handles
        /\ Items(work') = {Do("Release", x) : x \in panes} \cup Items(Tail(work))
        /\ DOMAIN bodies' = DOMAIN bodies \ ({h} \cup panes)
        /\ \A x \in DOMAIN bodies' : bodies'[x] = bodies[x]
    BY <1>2, CloseWindowShape DEF PerformCloseWindow
  <2>2. panes = {}
    BY <2>1, HandleNumbers DEF Plain, OccupantsOf
  <2> HIDE DEF h, panes
  <2> QED
    BY <1>0, <2>1, <2>2 DEF Plain, Do
<1>3. CASE PerformClosed \/ PerformExit
  <2>1. UNCHANGED <<handles, bodies>> /\ work' = Tail(work) /\ Head(work).do \in {"Closed", "Exit"}
    BY <1>3 DEF PerformClosed, PerformExit, Now
  <2> QED
    BY <1>0, <2>1 DEF Plain, Do
<1>4. CASE PerformRelease \/ PerformRetire
  BY <1>0, <1>4 DEF PerformRelease, PerformRetire, Now
<1> QED
  BY <1>1, <1>2, <1>3, <1>4 DEF Perform

LEMMA NextPlain ==
  ASSUME ShellForm = {}, Shape, Plain, [Next]_vars
  PROVE  Plain'
<1>1. CASE UNCHANGED <<handles, work, bodies>>
  BY <1>1 DEF Plain
<1>2. CASE UNCHANGED vars
  BY <1>1, <1>2 DEF vars, supervisor, host
<1>3. CASE Next
  BY <1>1, <1>3, StepIs, PlainPerform, PlainCall DEF Perform, Apart, ShellEffect
<1> QED
  BY <1>2, <1>3

(* In a process whose windows run as no shell, no window stays on the      *)
(* screen once the supervisor gave up its handle.  The run pane_child      *)
(* shows that a shell breaks this.                                         *)
THEOREM WindowsHaveHandles == ShellForm = {} => (Spec => []EveryWindowHasItsHandle)
<1> SUFFICES ASSUME ShellForm = {} PROVE Spec => []EveryWindowHasItsHandle
  OBVIOUS
<1>1. Init => Shape /\ Plain
  <2>1. Init => Plain
    BY ItemsOfFew DEF Init, SupervisorInit, Plain
  <2> QED
    BY <2>1, InitShape
<1>2. Shape /\ Plain /\ [Next]_vars => (Shape /\ Plain)'
  BY NextShape, NextPlain
<1>3. Shape /\ Plain => EveryWindowHasItsHandle
  BY ItemsOfFew DEF Plain, EveryWindowHasItsHandle
<1> QED
  BY <1>1, <1>2, <1>3, PTL DEF Spec
-----------------------------------------------------------------------------
(* The root window is the one whose FormState the host mirrors.  No window *)
(* opens under its handle, and it is on no pane: what ends the form of     *)
(* another handle does not end it.                                         *)
RootStays ==
  /\ Root \in DOMAIN handles => handles[Root].kind = "Root"
  /\ \A x \in Items(work) : x.do \in {"Spawn", "Release", "Retire"} => x.handle # Root
  /\ \A h \in DOMAIN bodies : bodies[h].pane # None => h # Root

(* The root's row of the table, if it is still there.                      *)
SameRow == Root \in DOMAIN handles' => /\ Root \in DOMAIN handles
                                       /\ handles'[Root].kind = handles[Root].kind
                                       /\ handles'[Root].waiting = handles[Root].waiting

LEMMA RowOf ==
  ASSUME TableTypes, \/ UNCHANGED handles
                     \/ \E S : Gone(S)
                     \/ \E info : Came(info)
  PROVE  SameRow
<1>1. CASE UNCHANGED handles
  BY <1>1 DEF SameRow
<1>2. CASE \E S : Gone(S)
  BY <1>2 DEF Gone, SameRow
<1>3. CASE \E info : Came(info)
  <2>1. PICK info : Came(info)
    BY <1>3
  <2>2. next # Root
    BY <2>1, TableCame
  <2> QED
    BY <2>1, <2>2 DEF Came, SameRow
<1> QED
  BY <1>1, <1>2, <1>3

(* A step of the host that closes a form, and which one.                   *)
LEMMA FinishRow ==
  ASSUME HostTypes, NEW h \in Handle, FormFinished(h)
  PROVE  /\ SameRow
         /\ RootStays /\ h # Root /\ Root \in DOMAIN handles => Root \in DOMAIN handles'
<1>0. TableTypes
  BY DEF HostTypes
<1>1. CASE Silent
  BY <1>0, <1>1, RowOf DEF Silent
<1>2. ASSUME NEW S, Gone(S), \A c \in S \ {h} : handles[c].kind \in {"Sync", "Async"}
      PROVE  /\ SameRow
             /\ RootStays /\ h # Root /\ Root \in DOMAIN handles => Root \in DOMAIN handles'
  BY <1>0, <1>2, RowOf DEF Gone, RootStays
<1> QED
  BY <1>0, <1>1, <1>2, FinishEffect

LEMMA CloseRow ==
  ASSUME HostTypes, NEW h \in Handle, TryClose(h)
  PROVE  /\ SameRow
         /\ Root \in DOMAIN handles /\ handles[Root].waiting => Root \in DOMAIN handles'
<1>0. TableTypes
  BY DEF HostTypes
<1>1. CASE Silent
  BY <1>0, <1>1, RowOf DEF Silent
<1>2. ASSUME NEW S, Gone(S), WaitingIn(S) = {}
      PROVE  /\ SameRow
             /\ Root \in DOMAIN handles /\ handles[Root].waiting => Root \in DOMAIN handles'
  <2>1. ASSUME Root \in DOMAIN handles, handles[Root].waiting PROVE Root \notin S
    BY <1>2, <2>1 DEF WaitingIn
  <2> QED
    BY <1>0, <1>2, <2>1, RowOf DEF Gone
<1> QED
  BY <1>0, <1>1, <1>2, CloseEffect

LEMMA TakeRow ==
  ASSUME HostTypes, TakeRequest
  PROVE  /\ SameRow /\ mirror' = mirror
         /\ Root \in DOMAIN handles /\ handles[Root].waiting => Root \in DOMAIN handles'
<1> DEFINE r == Head(requests)
<1>0. TableTypes /\ r \in Request /\ mirror' = mirror
  BY ItemsOfTail DEF HostTypes, QueueTypes, TakeRequest
<1>1. \/ r.type = "Open" /\ OpenForm(r.caller, r.form, r.sync, r.modal, r.asker)
      \/ r.type \in {"Close", "CloseSelf"} /\ TryClose(r.target)
  BY DEF TakeRequest, Calls
<1> HIDE DEF r
<1>2. CASE r.type = "Open" /\ OpenForm(r.caller, r.form, r.sync, r.modal, r.asker)
  <2>1. Silent \/ \E info : Came(info)
    BY <1>0, <1>2, RequestIs, OpenEffect
  <2>2. SameRow
    BY <1>0, <2>1, RowOf DEF Silent
  <2> QED
    BY <1>0, <2>1, <2>2 DEF Silent, Came
<1>3. CASE r.type \in {"Close", "CloseSelf"} /\ TryClose(r.target)
  BY <1>0, <1>3, RequestIs, CloseRow
<1> QED
  BY <1>1, <1>2, <1>3

LEMMA StaysCall ==
  ASSUME Shape, RootStays, CallEffect
  PROVE  RootStays'
<1>0. TableTypes /\ work' = Returned /\ bodies' = bodies
  BY DEF CallEffect, Shape, HostTypes
<1>1. CASE Same /\ Returned = <<>>
  BY <1>0, <1>1, ItemsOfFew DEF Same, RootStays
<1>2. CASE \E S : Gone(S)
  <2>1. SameRow
    BY <1>0, <1>2, RowOf
  <2>2. \A x \in Items(work') : x.do \in {"CloseWindow", "Closed", "Exit"}
    BY <1>0, <1>2 DEF Gone, Do
  <2> QED
    BY <1>0, <2>1, <2>2 DEF RootStays, SameRow
<1>3. CASE (\E info : Came(info)) /\ Returned = <<Do("Spawn", next)>>
  <2>1. SameRow
    BY <1>0, <1>3, RowOf
  <2>2. next # Root
    BY <1>0, <1>3, TableCame
  <2>3. \A x \in Items(work') : x = Do("Spawn", next)
    BY <1>0, <1>3, ItemsOfFew
  <2> QED
    BY <1>0, <2>1, <2>2, <2>3 DEF RootStays, SameRow, Do
<1> QED
  BY <1>1, <1>2, <1>3 DEF CallEffect

LEMMA StaysPerform ==
  ASSUME Shape, RootStays, Perform
  PROVE  /\ RootStays' /\ SameRow /\ UNCHANGED <<mirror, state>>
         /\ Root \in DOMAIN handles => Root \in DOMAIN handles'
         /\ prog'[Root] = prog[Root]
<1> DEFINE h == Head(work).handle
<1>0. /\ HostTypes /\ work # <<>> /\ TableTypes
      /\ Items(work) = {Head(work)} \cup Items(Tail(work))
      /\ UNCHANGED <<mirror, state>> /\ Root \in Handle
  BY NoSpawnBehind, HandleNumbers DEF Shape, HostTypes, TableTypes, Perform, PerformSpawn,
     PerformCloseWindow, PerformRelease, PerformRetire, PerformClosed, PerformExit, Now, programs
<1>1. ASSUME h \in Handle, FormFinished(h), Head(work).do \in {"Spawn", "Release", "Retire"},
             \A x \in Items(work') : x \in Items(Tail(work)) \/ x \in Items(Returned),
             bodies' = bodies \/ bodies' = NoBody({h})
      PROVE  RootStays' /\ SameRow /\ (Root \in DOMAIN handles => Root \in DOMAIN handles')
  <2>1. h # Root
    BY <1>0, <1>1 DEF RootStays
  <2> HIDE DEF h
  <2>2. SameRow /\ (Root \in DOMAIN handles => Root \in DOMAIN handles')
    BY <1>0, <1>1, <2>1, FinishRow
  <2>3. \A x \in Items(Returned) : x.do \in {"CloseWindow", "Closed", "Exit"}
    <3>1. \A x \in Items(Returned) :
             x.do = "Exit" \/ \E v : x = Do("CloseWindow", v) \/ x = Do("Closed", v)
      BY <1>0, <1>1, FinishGone
    <3> QED
      BY <3>1 DEF Do
  <2>4. \A x \in DOMAIN bodies' : x \in DOMAIN bodies /\ bodies'[x] = bodies[x]
    BY <1>1 DEF NoBody
  <2>5. RootStays'
    BY <1>0, <1>1, <2>2, <2>3, <2>4 DEF RootStays, SameRow
  <2> QED
    BY <2>2, <2>5
<1>2. CASE PerformSpawn
  <2>1. /\ h \in Handle /\ Head(work) = Do("Spawn", h) /\ Head(work).do = "Spawn" /\ h # Root
    BY <1>2, HeadIs DEF PerformSpawn, Shape, SpawnAlone, Now
  <2>2. \/ SpawnFailed(h) /\ bodies' = bodies /\ prog' = prog
        \/ /\ UNCHANGED handles /\ work' = Tail(work)
           /\ bodies' = Body(h, [form |-> handles[h].form, pane |-> None])
           /\ prog' = [prog EXCEPT ![h] = "running"]
    BY <1>2 DEF PerformSpawn, programs
  <2>3. CASE SpawnFailed(h) /\ bodies' = bodies /\ prog' = prog
    <3>1. FormFinished(h) /\ work' = Tail(work) \o Returned
      BY <2>3 DEF SpawnFailed
    <3>2. Items(work') = Items(Tail(work)) \cup Items(Returned)
      BY <1>0, <2>1, <3>1, FinishGone, ReturnedJoins
    <3> QED
      BY <1>0, <1>1, <2>1, <2>3, <3>1, <3>2
  <2>4. CASE /\ UNCHANGED handles /\ work' = Tail(work)
             /\ bodies' = Body(h, [form |-> handles[h].form, pane |-> None])
             /\ prog' = [prog EXCEPT ![h] = "running"]
    <3>1. /\ DOMAIN bodies' = DOMAIN bodies \cup {h}
          /\ \A x \in DOMAIN bodies' : bodies'[x].pane = IF x = h THEN None ELSE bodies[x].pane
      BY <2>4 DEF Body
    <3>2. RootStays'
      BY <1>0, <2>1, <2>4, <3>1 DEF RootStays
    <3>3. prog'[Root] = prog[Root]
      BY <1>0, <2>1, <2>4 DEF HostTypes, ProgramTypes
    <3> QED
      BY <1>0, <2>4, <3>2, <3>3, RowOf
  <2> QED
    BY <2>2, <2>3, <2>4
<1>3. CASE PerformRelease
  <2>1. /\ h \in Handle /\ Head(work).do = "Release" /\ prog' = prog
        /\ FormFinished(h) /\ work' = Tail(work) \o Returned /\ bodies' = bodies
    BY <1>3, HeadIs DEF PerformRelease, Now, programs
  <2>2. Items(work') = Items(Tail(work)) \cup Items(Returned)
    BY <1>0, <2>1, FinishGone, ReturnedJoins
  <2> QED
    BY <1>0, <1>1, <2>1, <2>2
<1>4. CASE PerformRetire
  <2>1. /\ h \in Handle /\ Head(work).do = "Retire" /\ prog' = prog
        /\ FormFinished(h) /\ work' = Tail(work) /\ bodies' = NoBody({h})
    BY <1>4, HeadIs DEF PerformRetire, Now
  <2> QED
    BY <1>0, <1>1, <2>1
<1>5. CASE PerformClosed \/ PerformExit
  <2>1. UNCHANGED <<handles, bodies, prog>> /\ work' = Tail(work)
    BY <1>5 DEF PerformClosed, PerformExit
  <2>2. RootStays'
    BY <1>0, <2>1 DEF RootStays
  <2> QED
    BY <1>0, <2>1, <2>2, RowOf
<1>6. CASE PerformCloseWindow
  <2> DEFINE panes == IF h # Root THEN OccupantsOf(h) ELSE {}
  <2>1. /\ h \in Handle /\ UNCHANGED <<handles, prog>>
        /\ Items(work') = {Do("Release", x) : x \in panes} \cup Items(Tail(work))
        /\ DOMAIN bodies' = DOMAIN bodies \ ({h} \cup panes)
        /\ \A x \in DOMAIN bodies' : bodies'[x] = bodies[x]
    BY <1>6, CloseWindowShape DEF PerformCloseWindow
  <2>2. Root \notin panes
    BY <2>1, HandleNumbers DEF RootStays, OccupantsOf
  <2> HIDE DEF h, panes
  <2>3. RootStays'
    BY <1>0, <2>1, <2>2 DEF RootStays, Do
  <2> QED
    BY <1>0, <2>1, <2>3, RowOf
<1> QED
  BY <1>0, <1>2, <1>3, <1>4, <1>5, <1>6 DEF Perform

LEMMA StaysShell ==
  ASSUME Shape, RootStays, NEW o \in Handle, ShellEffect(o)
  PROVE  /\ RootStays' /\ SameRow /\ UNCHANGED <<mirror, state>>
         /\ Root \in DOMAIN handles => Root \in DOMAIN handles'
         /\ prog'[Root] = prog[Root]
<1>0. TableTypes /\ UNCHANGED <<mirror, state>> /\ Root \in Handle /\ None \notin Handle
      /\ prog \in [Handle -> {"none", "running", "asking", "ended"}]
  BY HandleNumbers DEF Shape, HostTypes, ProgramTypes, ShellEffect
<1>1. Root \notin OccupantsOf(o)
  BY <1>0 DEF RootStays, OccupantsOf
<1>2. CASE /\ UNCHANGED <<handles, next, bodies, prog, super>>
           /\ Items(work') \subseteq {Do("Retire", h) : h \in OccupantsOf(o)}
  <2>1. RootStays'
    BY <1>1, <1>2 DEF RootStays, Do
  <2> QED
    BY <1>0, <1>2, <2>1, RowOf
<1>3. ASSUME NEW info, Came(info)
      PROVE  /\ SameRow /\ next # Root
             /\ Root \in DOMAIN handles => Root \in DOMAIN handles'
  <2>1. SameRow /\ next # Root
    BY <1>0, <1>3, RowOf, TableCame
  <2> QED
    BY <1>3, <2>1 DEF Came
<1>4. CASE /\ \E info : Came(info)
           /\ UNCHANGED <<bodies, prog>> /\ Items(work') = {Do("Retire", next)}
  <2>1. RootStays'
    BY <1>3, <1>4 DEF RootStays, Do, SameRow
  <2> QED
    BY <1>0, <1>3, <1>4, <2>1
<1>5. CASE /\ \E info : Came(info)
           /\ \E f \in Form : bodies' = Body(next, [form |-> f, pane |-> o])
           /\ prog' = [prog EXCEPT ![next] = "running"]
           /\ Items(work') \subseteq {Do("Retire", h) : h \in OccupantsOf(o)}
  <2>1. \A x \in DOMAIN bodies' : x = next \/ (x \in DOMAIN bodies /\ bodies'[x] = bodies[x])
    BY <1>5 DEF Body
  <2>2. RootStays'
    BY <1>1, <1>3, <1>5, <2>1 DEF RootStays, Do, SameRow
  <2>3. prog'[Root] = prog[Root]
    BY <1>0, <1>3, <1>5
  <2> QED
    BY <1>0, <1>3, <1>5, <2>2, <2>3
<1> QED
  BY <1>2, <1>4, <1>5 DEF ShellEffect

LEMMA NextStays ==
  ASSUME Shape, RootStays, [Next]_vars
  PROVE  RootStays'
<1>1. CASE UNCHANGED <<handles, work, bodies>>
  BY <1>1 DEF RootStays
<1>2. CASE UNCHANGED vars
  BY <1>1, <1>2 DEF vars, supervisor, host
<1>3. CASE Next
  BY <1>1, <1>3, StepIs, StaysPerform, StaysCall, StaysShell DEF Perform, Apart
<1> QED
  BY <1>2, <1>3

(* While the root's program runs, its FormState is the last write the host *)
(* has to drain, or what the host noted; and no other form has one.        *)
Noted ==
  /\ \A h \in Handle \ {Root} : ~state[h]
  /\ (Root \in DOMAIN handles /\ prog[Root] \in {"running", "asking"}) =>
       IF mirror = <<>> THEN state[Root] = handles[Root].waiting
                        ELSE state[Root] = mirror[Len(mirror)]

LEMMA NotedKeeps ==
  ASSUME Noted, SameRow, UNCHANGED <<mirror, state>>,
         prog'[Root] \in {"running", "asking"} => prog[Root] \in {"running", "asking"}
  PROVE  Noted'
BY DEF Noted, SameRow

LEMMA NotedMirror ==
  ASSUME HostTypes, Noted, TakeMirror
  PROVE  Noted'
<1> DEFINE n == Len(mirror)
<1>1. /\ mirror # <<>> /\ mirror' = Tail(mirror) /\ UNCHANGED <<prog, state>>
      /\ NoteFormState(Root, Head(mirror)) /\ Head(mirror) \in BOOLEAN
  BY ItemsOfTail DEF TakeMirror, Calls, programs, HostTypes, QueueTypes
<1>2. /\ n \in Nat \ {0} /\ Head(mirror) = mirror[1]
      /\ Tail(mirror) \in Seq(BOOLEAN) /\ Len(Tail(mirror)) = n - 1
      /\ \A i \in 1 .. n - 1 : Tail(mirror)[i] = mirror[i + 1]
  BY <1>1, HeadTailProperties, LenProperties, EmptySeq DEF HostTypes, QueueTypes
<1>3. /\ DOMAIN handles' = DOMAIN handles
      /\ \A x \in DOMAIN handles : handles'[x].waiting = IF x = Root THEN Head(mirror) ELSE handles[x].waiting
  BY <1>1, NotedIsSame, HandleNumbers DEF HostTypes, Same
<1>4. IF mirror' = <<>> THEN n = 1 ELSE mirror'[Len(mirror')] = mirror[n]
  <2>1. CASE n = 1
    BY <1>1, <1>2, <2>1, EmptySeq
  <2>2. CASE n # 1
    <3>1. n - 1 \in 1 .. n - 1 /\ (n - 1) + 1 = n
      BY <1>2, <2>2
    <3>2. mirror'[n - 1] = mirror[n] /\ Len(mirror') = n - 1
      BY <1>1, <1>2, <3>1
    <3>3. mirror' # <<>>
      BY <1>2, <2>2, <3>2
    <3> QED
      BY <3>2, <3>3
  <2> QED
    BY <2>1, <2>2
<1> HIDE DEF n
<1>5. ASSUME Root \in DOMAIN handles', prog'[Root] \in {"running", "asking"}
      PROVE  IF mirror' = <<>> THEN state'[Root] = handles'[Root].waiting
                               ELSE state'[Root] = mirror'[Len(mirror')]
  <2>1. state[Root] = mirror[n]
    BY <1>1, <1>3, <1>5 DEF Noted, n
  <2>2. handles'[Root].waiting = mirror[1]
    BY <1>2, <1>3, <1>5
  <2> QED
    BY <1>1, <1>4, <2>1, <2>2
<1> QED
  BY <1>1, <1>5 DEF Noted

LEMMA NotedProgram ==
  ASSUME Guarded \subseteq {Root}, HostTypes, Noted, NEW h \in Handle, Program(h)
  PROVE  Noted'
<1>0. /\ HostTypes /\ ProgramTypes /\ UNCHANGED handles /\ SameRow /\ Root \in Handle
  BY ProgramIsApart, RowOf, HandleNumbers DEF Apart, HostTypes
<1>1. CASE \E r : Sends(h, r) /\ (prog' = prog \/ prog' = [prog EXCEPT ![h] = "asking"])
  <2>1. prog[h] = "running" /\ UNCHANGED <<mirror, state>>
    BY <1>0, <1>1, SendsIs
  <2>2. prog'[Root] \in {"running", "asking"} => prog[Root] \in {"running", "asking"}
    BY <1>0, <1>1, <2>1 DEF ProgramTypes
  <2> QED
    BY <1>0, <2>1, <2>2, NotedKeeps
<1>2. CASE (\E f \in Form, sync, modal \in BOOLEAN : AskOpen(h, f, sync, modal)) \/ AskClose(h)
  BY <1>0, <1>1, <1>2, AskIs
<1>3. CASE CloseSelf(h)
  BY <1>1, <1>3 DEF CloseSelf
<1>4. CASE SetFormState(h)
  <2>1. /\ h = Root /\ state' = [state EXCEPT ![h] = ~@]
        /\ mirror' = Append(mirror, ~state[h])
    BY <1>0, <1>4, SetStateIs
  <2> DEFINE b == ~state[h]
  <2>2. b \in BOOLEAN /\ mirror' = Append(mirror, b) /\ mirror \in Seq(BOOLEAN)
    BY <1>0, <2>1 DEF HostTypes, QueueTypes
  <2>3. /\ state'[Root] = b /\ \A x \in Handle \ {Root} : state'[x] = state[x]
    BY <1>0, <2>1, Zenon DEF ProgramTypes
  <2> HIDE DEF b
  <2>4. mirror' # <<>> /\ mirror'[Len(mirror')] = b
    BY <2>2, AppendProperties
  <2> QED
    BY <2>3, <2>4 DEF Noted
<1>5. ASSUME Over(h), mirror' = mirror
      PROVE  Noted'
  <2>1. state' = [state EXCEPT ![h] = FALSE] /\ prog' = [prog EXCEPT ![h] = "ended"]
    BY <1>5 DEF Over
  <2>2. \A x \in Handle \ {Root} : ~state'[x]
    BY <1>0, <2>1 DEF Noted, ProgramTypes
  <2>3. h # Root => state'[Root] = state[Root] /\ prog'[Root] = prog[Root]
    BY <1>0, <2>1 DEF ProgramTypes
  <2>4. h = Root => prog'[Root] = "ended"
    BY <1>0, <2>1 DEF ProgramTypes
  <2> QED
    BY <1>0, <1>5, <2>2, <2>3, <2>4 DEF Noted
<1>6. CASE Resume(h)
  <2>1. /\ prog[h] = "asking" /\ mirror' = mirror
        /\ Over(h) \/ (prog' = [prog EXCEPT ![h] = "running"] /\ state' = state)
    BY <1>0, <1>6, ResumeIs
  <2>2. CASE prog' = [prog EXCEPT ![h] = "running"] /\ state' = state
    <3>1. prog'[Root] \in {"running", "asking"} => prog[Root] \in {"running", "asking"}
      BY <1>0, <2>1, <2>2 DEF ProgramTypes
    <3> QED
      BY <1>0, <2>1, <2>2, <3>1, NotedKeeps
  <2> QED
    BY <1>5, <2>1, <2>2
<1>7. CASE Stop(h) \/ Quit(h)
  BY <1>0, <1>5, <1>7, EndsIs DEF Stop, Quit
<1> QED
  BY <1>2, <1>3, <1>4, <1>6, <1>7 DEF Program

LEMMA NextNoted ==
  ASSUME Guarded \subseteq {Root}, Shape, RootStays, Noted, [Next]_vars
  PROVE  Noted'
<1>0. HostTypes /\ TableTypes
  BY DEF Shape, HostTypes
<1>1. CASE UNCHANGED <<handles, mirror, state, prog>>
  BY <1>0, <1>1, RowOf, NotedKeeps
<1>2. CASE UNCHANGED vars
  BY <1>1, <1>2 DEF vars, supervisor, programs
<1>3. CASE Perform
  BY <1>3, StaysPerform, NotedKeeps
<1>4. CASE TakeRequest
  <2>1. SameRow /\ mirror' = mirror
    BY <1>0, <1>4, TakeRow
  <2>2. UNCHANGED <<state, prog>>
    BY <1>4 DEF TakeRequest, Calls, programs
  <2> QED
    BY <2>1, <2>2, NotedKeeps
<1>5. CASE TakeMirror
  BY <1>0, <1>5, NotedMirror
<1>6. CASE \E h \in Handle : NoticeFinished(h) \/ ClickClose(h)
  <2>1. PICK h \in Handle : FormFinished(h) \/ TryClose(h)
    BY <1>6 DEF NoticeFinished, ClickClose, Calls
  <2>2. SameRow
    BY <1>0, <2>1, FinishRow, CloseRow
  <2>3. UNCHANGED <<state, prog, mirror>>
    BY <1>6 DEF NoticeFinished, ClickClose, Calls, programs
  <2> QED
    BY <2>2, <2>3, NotedKeeps
<1>7. CASE \E o \in Handle : ShellEffect(o)
  BY <1>7, StaysShell, NotedKeeps
<1>8. CASE \E h \in Handle : Program(h)
  BY <1>0, <1>8, NotedProgram
<1>9. CASE Apart /\ UNCHANGED <<mirror, prog, state>>
  BY <1>1, <1>9 DEF Apart
<1>10. CASE Next
  BY <1>3, <1>4, <1>5, <1>6, <1>7, <1>8, <1>9, <1>10, StepIs DEF Perform
<1> QED
  BY <1>2, <1>10

LEMMA OnlyARefusableClose ==
  ASSUME Guarded \subseteq {Root}, Shape, RootStays, Noted, [Next]_vars,
         NEW h \in DOMAIN handles \ DOMAIN handles'
  PROVE  ~(state[h] /\ mirror = <<>> /\ prog[h] = "running")
<1>0. HostTypes /\ TableTypes /\ h \in Handle
  BY IssuedHandles DEF Shape, HostTypes, TableTypes
<1>1. CASE h # Root
  BY <1>0, <1>1 DEF Noted
<1>2. CASE h = Root
  <2> SUFFICES ASSUME state[h], mirror = <<>>, prog[h] = "running"
               PROVE  FALSE
    OBVIOUS
  <2>1. handles[Root].waiting
    BY <1>2 DEF Noted
  <2>2. ~UNCHANGED handles
    BY <1>2
  <2>3. Next
    BY <2>2 DEF vars, supervisor
  <2>4. ~Perform
    BY <1>2, StaysPerform
  <2>5. ~TakeRequest
    BY <1>0, <1>2, <2>1, TakeRow
  <2>6. ~TakeMirror
    BY <2>1 DEF TakeMirror
  <2>7. ~(\E x \in Handle : ClickClose(x))
    BY <1>0, <1>2, <2>1, CloseRow DEF ClickClose, Calls
  <2>8. ~(\E x \in Handle : NoticeFinished(x))
    BY <1>0, <1>2, FinishRow DEF NoticeFinished, Calls
  <2>9. ~(\E o \in Handle : ShellEffect(o))
    BY <1>2, StaysShell
  <2>10. ~Apart
    BY <2>2 DEF Apart
  <2> QED
    BY <2>3, <2>4, <2>5, <2>6, <2>7, <2>8, <2>9, <2>10, StepIs DEF Perform
<1> QED
  BY <1>1, <1>2

(* "While a form is Waiting it cannot be closed by ANY path", as far as    *)
(* the host can know it: where only the root's program sets FormState, and *)
(* its writes are drained, no path closes it while its program goes on.    *)
(* The run child_waiting shows that the guard of another form fails.       *)
THEOREM WaitingRootStays == Guarded \subseteq {Root} => (Spec => WaitingFormStaysOpen)
<1> SUFFICES ASSUME Guarded \subseteq {Root} PROVE Spec => WaitingFormStaysOpen
  OBVIOUS
<1>1. Init => Shape /\ RootStays /\ Noted
  <2>1. Init => RootStays
    BY ItemsOfFew DEF Init, SupervisorInit, Fresh, RootStays
  <2>2. Init => Noted
    <3> SUFFICES ASSUME Init PROVE Noted
      OBVIOUS
    <3>1. (\A h \in Handle : state[h] = FALSE) /\ mirror = <<>> /\ Root \in Handle
      BY HandleNumbers DEF Init
    <3>2. handles[Root].waiting = FALSE
      BY DEF Init, SupervisorInit, Fresh
    <3> QED
      BY <3>1, <3>2 DEF Noted
  <2> QED
    BY <2>1, <2>2, InitShape
<1>2. Shape /\ RootStays /\ Noted /\ [Next]_vars => (Shape /\ RootStays /\ Noted)'
  BY NextShape, NextStays, NextNoted
<1>3. Shape /\ RootStays /\ Noted /\ [Next]_vars =>
        [\A h \in DOMAIN handles \ DOMAIN handles' :
            ~(state[h] /\ mirror = <<>> /\ prog[h] = "running")]_vars
  BY OnlyARefusableClose
<1> QED
  BY <1>1, <1>2, <1>3, PTL DEF Spec, WaitingFormStaysOpen
=============================================================================
