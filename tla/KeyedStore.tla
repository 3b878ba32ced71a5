----------------------------- MODULE KeyedStore -----------------------------
(***************************************************************************)
(* What an INDEXED file promises the program that has it open, with no     *)
(* index in sight: a set of records in which no two clash, verbs that      *)
(* change it all at once or not at all and say which, and a ROLLBACK that  *)
(* brings back what the last COMMIT or OPEN left.  The promise is the one  *)
(* of the IndexedStore trait (crates/cobolt-runtime/src/indexed.rs).       *)
(***************************************************************************)
EXTENDS Naturals, Sequences

CONSTANTS Record,       \* [key, alt]: the value of the RECORD KEY, those of the ALTERNATE KEYs
          Duplicates,   \* for each ALTERNATE KEY: WITH DUPLICATES
          None

VARIABLES content,      \* the records of the file
          base,         \* what the last COMMIT or OPEN left
          just,         \* the record the verb just executed delivered
          reply         \* the verb executed last, what it was addressed to, its FILE
                        \* STATUS and the record it delivered

vars == <<content, base, just, reply>>

Value(r, k) == IF k = 0 THEN r.key ELSE r.alt[k]

(* Two records that may not be in the file together.                       *)
Clash(r, s) == \/ r.key = s.key
               \/ \E k \in DOMAIN Duplicates : ~Duplicates[k] /\ r.alt[k] = s.alt[k]

Clashes(r, S) == \E s \in S : Clash(r, s)

Said(verb, arg, st, r) == [verb |-> verb, arg |-> arg, st |-> st, rec |-> r]
Says(verb, arg, st, r) == reply' = Said(verb, arg, st, r)
Answer(verb, arg, st, r) == Says(verb, arg, st, r) /\ just' = r

Init == /\ content \in SUBSET Record
        /\ \A r, s \in content : Clash(r, s) => r = s
        /\ base = content
        /\ just = None
        /\ reply = Said("open", None, "00", None)

(* WRITE: refused exactly when the record clashes with one in the file.    *)
Write(r) == /\ \/ /\ Answer("write", r, "00", None)
                  /\ ~Clashes(r, content)
                  /\ content' = content \cup {r}
               \/ /\ Answer("write", r, "22", None)
                  /\ Clashes(r, content)
                  /\ UNCHANGED content
            /\ UNCHANGED base

(* REWRITE of a record of the file: the one with the key of r, or the one  *)
(* the READ just before delivered.                                         *)
Rewrite(old, r) ==
  /\ old \in content /\ old.key = r.key
  /\ \/ /\ Answer("rewrite", r, "00", None)
        /\ ~Clashes(r, content \ {old})
        /\ content' = (content \ {old}) \cup {r}
     \/ /\ Answer("rewrite", r, "22", None)
        /\ Clashes(r, content \ {old})
        /\ UNCHANGED content
  /\ UNCHANGED base

Delete(r, key) == /\ Answer("delete", key, "00", None)
                  /\ r \in content
                  /\ content' = content \ {r}
                  /\ UNCHANGED base

(* A verb addressed to a key the file does not have.                       *)
Missing(verb, arg, key) == /\ Answer(verb, arg, "23", None)
                           /\ \A r \in content : r.key # key
                           /\ UNCHANGED <<content, base>>

(* A verb the open mode, the access mode or the verb before it forbids.    *)
Refuse(verb, arg) == /\ \E st \in {"21", "43", "46", "47", "48", "49"} : Answer(verb, arg, st, None)
                     /\ UNCHANGED <<content, base>>

(* READ by a key: some record with that value, or 23 when there is none.   *)
Read(k, v) == LET found == {r \in content : Value(r, k) = v}
              IN /\ \/ \E r \in found : Answer("read", <<k, v>>, "00", r)
                    \/ found = {} /\ Answer("read", <<k, v>>, "23", None)
                 /\ UNCHANGED <<content, base>>

(* READ NEXT and PREVIOUS deliver records of the file.                     *)
Scan(verb) == /\ \/ \E r \in content : Answer(verb, None, "00", r)
                 \/ Answer(verb, None, "10", None)
              /\ UNCHANGED <<content, base>>

Related(op, v, w) == CASE op = "eq" -> v = w [] op = "ge" -> v >= w [] op = "gt" -> v > w
                       [] op = "le" -> v <= w [] op = "lt" -> v < w

(* START delivers nothing, and fails when no record is in the relation.    *)
Start(op, k, v) ==
  /\ \E st \in {"00", "23"} :
       /\ Answer("start", <<op, k, v>>, st, None)
       /\ (st = "00") <=> \E r \in content : Related(op, Value(r, k), v)
  /\ UNCHANGED <<content, base>>

Commit == Says("commit", None, "00", None) /\ base' = content /\ UNCHANGED <<content, just>>

Rollback == Answer("rollback", None, "00", None) /\ content' = base /\ UNCHANGED base

(* CLOSE keeps the changes; an OPEN starts from what it finds.             *)
Close == Answer("close", None, "00", None) /\ base' = content /\ UNCHANGED content
Open  == Answer("open", None, "00", None) /\ UNCHANGED <<content, base>>

Relations == {"eq", "ge", "gt", "le", "lt"}
Keys      == {r.key : r \in Record}
Addresses == {<<k, Value(r, k)>> : k \in 0 .. Len(Duplicates), r \in Record}

(* The steps that answer a verb.                                           *)
Answers(verb) ==
  CASE verb = "write"    -> \E r \in Record : Write(r) \/ Refuse(verb, r)
    [] verb = "rewrite"  -> \E r \in Record : \/ \E old \in content : Rewrite(old, r)
                                              \/ Missing(verb, r, r.key) \/ Refuse(verb, r)
    [] verb = "delete"   -> \/ \E key \in Keys : \/ \E r \in content : r.key = key /\ Delete(r, key)
                                                 \/ Missing(verb, key, key) \/ Refuse(verb, key)
                            \/ just # None /\ Delete(just, None)
                            \/ Refuse(verb, None)
    [] verb = "read"     -> \E a \in Addresses : Read(a[1], a[2]) \/ Refuse(verb, a)
    [] verb \in {"next", "previous"} -> Scan(verb) \/ Refuse(verb, None)
    [] verb = "start"    -> \E a \in Addresses, op \in Relations : Start(op, a[1], a[2])
    [] verb = "commit"   -> Commit
    [] verb = "rollback" -> Rollback
    [] verb = "close"    -> Close
    [] verb = "open"     -> Open

Next == \E verb \in {"write", "rewrite", "delete", "read", "next", "previous", "start",
                     "commit", "rollback", "close", "open"} :
          reply'.verb = verb /\ Answers(verb)

Spec == Init /\ [][Next]_vars
=============================================================================
