------------------------ MODULE HistoricalStoreProofs ------------------------
(***************************************************************************)
(* Proofs about HistoricalStore: what is committed has no row of a later   *)
(* block, a save collides with its own block only, the mode is kept, and   *)
(* the store implements VersionedStore.                                    *)
(***************************************************************************)
EXTENDS HistoricalStore, TLAPS

(* The invariant: what a save in progress may count on.                      *)

\* Heights and well-formed ranges up to h
Sane(S, h) == \A r \in S : r.lo <= h /\ r.hi <= h /\ (r.hi = Open \/ r.lo <= r.hi)

\* At any height an entity has one version.
Single(S) ==
  \A r, s \in S, h \in Nat : r.id = s.id /\ Contains(r, h) /\ Contains(s, h) => r = s

Operation == [at : {"idle", "close", "create"}, id : Ids \cup {Absent},
              val : Values \cup {Absent}]

Types ==
  /\ tables \in {"none", "plain", "ranged"} /\ modeStored \in {"absent", "historical", "plain"}
  /\ lastProcessedHeight \in Nat /\ stored \subseteq Row
  /\ phase \in {"down", "sync", "record", "idle", "block"} /\ historical \in BOOLEAN
  /\ blockHeight \in Nat /\ rows \subseteq Row
  /\ op \in [Writers -> Operation]
  /\ draft \in [Ids -> Values \cup {Absent}]

\* What each phase has seen to
PhaseInv ==
  /\ ~ InBlock => op = NoOps /\ draft = Nothing
  /\ tables = "none" => modeStored = "absent" /\ lastProcessedHeight = 0 /\ stored = NoRows
  /\ phase \in {"record", "idle", "block"} => tables # "none"
  /\ phase # "down" /\ modeStored # "absent" => modeStored = ModeOf(historical)

TableInv ==
  /\ Sane(stored, lastProcessedHeight) /\ Single(stored)
  /\ InBlock => blockHeight > lastProcessedHeight /\ Sane(rows, blockHeight) /\ Single(rows)

\* A save has three statements only with history, and once it has closed the
\* live version only a version of this block can be live.
SaveInv ==
  \A w \in Writers :
    /\ op[w].at # "idle" => historical /\ tables = "ranged" /\ op[w].id \in Ids /\ op[w].val \in Values
    /\ op[w].at = "idle" => op[w] = Idle
    /\ op[w].at = "create" =>
         \A r \in rows : r.id = op[w].id /\ Contains(r, blockHeight) => r.lo = blockHeight

Replacing(id) == \E w \in Writers : op[w].at = "create" /\ op[w].id = id

\* The open transaction has the past as it was committed; at its own height it
\* has the draft, but for the entities whose next version is still to come.
ViewInv ==
  InBlock =>
    /\ tables = "ranged" => \A k \in Nat : k < blockHeight => AsOf(rows, k) = AsOf(stored, k)
    /\ \A id \in Ids : ~ Replacing(id) => draft[id] = AsOf(rows, blockHeight)[id]

StoreInv == Types /\ PhaseInv /\ TableInv /\ SaveInv /\ ViewInv

-----------------------------------------------------------------------------
(* What a reader sees of a set of rows.                                      *)

LEMMA ViewOfRow ==
  ASSUME NEW S, NEW h \in Nat, Single(S), NEW r \in S, r.id \in Ids, Contains(r, h)
  PROVE  AsOf(S, h)[r.id] = r.val
<1> DEFINE live(s) == s.id = r.id /\ Contains(s, h)
           c == CHOOSE s \in S : live(s)
<1>1. c \in S /\ live(c)
  OBVIOUS
<1>2. c = r
  BY <1>1 DEF Single
<1> QED BY <1>1, <1>2 DEF AsOf

LEMMA ViewOfNone ==
  ASSUME NEW S, NEW h, NEW id \in Ids, \A r \in S : ~ (r.id = id /\ Contains(r, h))
  PROVE  AsOf(S, h)[id] = Absent
  BY DEF AsOf

LEMMA ViewShape ==
  ASSUME NEW S, NEW h
  PROVE  AsOf(S, h) = [id \in Ids |-> AsOf(S, h)[id]]
  BY DEF AsOf

\* Two sets of rows read alike when each live row of the one has a live row of
\* the other with its value.
LEMMA SameView ==
  ASSUME NEW S, NEW T, NEW h \in Nat, NEW k \in Nat, NEW id \in Ids, Single(S), Single(T),
         \A r \in S : r.id = id /\ Contains(r, h) =>
           \E t \in T : t.id = id /\ Contains(t, k) /\ t.val = r.val,
         \A t \in T : t.id = id /\ Contains(t, k) =>
           \E r \in S : r.id = id /\ Contains(r, h)
  PROVE  AsOf(S, h)[id] = AsOf(T, k)[id]
<1>1. CASE \E r \in S : r.id = id /\ Contains(r, h)
  <2>1. PICK r \in S : r.id = id /\ Contains(r, h)
    BY <1>1
  <2>2. PICK t \in T : t.id = id /\ Contains(t, k) /\ t.val = r.val
    BY <2>1
  <2> QED BY <2>1, <2>2, ViewOfRow
<1>2. CASE ~ \E r \in S : r.id = id /\ Contains(r, h)
  BY <1>2, ViewOfNone
<1> QED BY <1>1, <1>2

LEMMA ViewValues ==
  ASSUME NEW S \in SUBSET Row, NEW h \in Nat
  PROVE  AsOf(S, h) \in [Ids -> Values \cup {Absent}]
<1>1. ASSUME NEW id \in Ids
      PROVE  (IF \E r \in S : r.id = id /\ Contains(r, h)
              THEN (CHOOSE r \in S : r.id = id /\ Contains(r, h)).val
              ELSE Absent) \in Values \cup {Absent}
  <2> DEFINE c == CHOOSE r \in S : r.id = id /\ Contains(r, h)
  <2>1. CASE \E r \in S : r.id = id /\ Contains(r, h)
    <3>1. c \in S
      BY <2>1
    <3>2. c.val \in Values
      BY <3>1 DEF Row
    <3> QED BY <3>2, <2>1
  <2>2. CASE ~ \E r \in S : r.id = id /\ Contains(r, h)
    BY <2>2
  <2> QED BY <2>1, <2>2
<1> QED BY <1>1 DEF AsOf

\* Above the last height of its rows a table reads the same at every height.
LEMMA ViewAbove ==
  ASSUME NEW S \in SUBSET Row, NEW h \in Nat, NEW k \in Nat, Sane(S, h), Single(S), k >= h
  PROVE  AsOf(S, k) = AsOf(S, h)
<1>1. ASSUME NEW r \in S PROVE Contains(r, k) <=> Contains(r, h)
  BY <1>1 DEF Sane, Row, Contains, Open
<1>2. ASSUME NEW id \in Ids PROVE AsOf(S, k)[id] = AsOf(S, h)[id]
  BY <1>1, SameView
<1> QED BY <1>2, ViewShape

LEMMA NoRowsAreFine ==
  ASSUME NEW h \in Nat
  PROVE  Sane(NoRows, h) /\ Single(NoRows) /\ AsOf(NoRows, h) = Nothing
  BY DEF Sane, Single, NoRows, AsOf, Nothing

-----------------------------------------------------------------------------
(* What a statement of block h does to a table.                              *)

\* The rows are well-formed, the past reads as it did, and no version of an
\* earlier block has become live.
Follows(S, T, h) ==
  /\ T \subseteq Row /\ Sane(T, h) /\ Single(T)
  /\ \A k \in Nat : k < h => AsOf(T, k) = AsOf(S, k)
  /\ \A t \in T : Contains(t, h) /\ t.lo # h => t \in S

\* The update of the versions of this block
UpdatedIn(S, h, id, val) ==
  LET saved == {r \in S : r.id = id /\ r.lo = h /\ r.hi # h}
  IN  (S \ saved) \cup {[r EXCEPT !.val = val] : r \in saved}

LEMMA WithField ==
  ASSUME NEW r \in Row, NEW val \in Values
  PROVE  LET n == [r EXCEPT !.val = val]
         IN  n \in Row /\ n.id = r.id /\ n.lo = r.lo /\ n.hi = r.hi /\ n.val = val
  BY DEF Row

LEMMA UpdateFollows ==
  ASSUME NEW S \in SUBSET Row, NEW h \in Nat, h > 0, Sane(S, h), Single(S),
         NEW id \in Ids, NEW val \in Values
  PROVE  /\ Follows(S, UpdatedIn(S, h, id, val), h)
         /\ \A x \in Ids \ {id} : AsOf(UpdatedIn(S, h, id, val), h)[x] = AsOf(S, h)[x]
         /\ (\E r \in S : r.id = id /\ r.lo = h /\ r.hi # h) =>
              AsOf(UpdatedIn(S, h, id, val), h)[id] = val
<1> DEFINE mine(r) == r.id = id /\ r.lo = h /\ r.hi # h
           new(r) == [r EXCEPT !.val = val]
           T == UpdatedIn(S, h, id, val)
<1>1. ASSUME NEW t \in T
      PROVE  \E r \in S : (mine(r) /\ t = new(r)) \/ (~ mine(r) /\ t = r)
  BY DEF UpdatedIn
<1>2. ASSUME NEW r \in S PROVE IF mine(r) THEN new(r) \in T ELSE r \in T
  BY DEF UpdatedIn
<1>3. ASSUME NEW r \in S
      PROVE  new(r) \in Row /\ new(r).id = r.id /\ new(r).lo = r.lo /\ new(r).hi = r.hi
             /\ new(r).val = val
  BY WithField
<1>4. ASSUME NEW t \in T
      PROVE  \E r \in S : /\ t \in Row /\ t.id = r.id /\ t.lo = r.lo /\ t.hi = r.hi
                          /\ (mine(r) /\ t = new(r)) \/ (~ mine(r) /\ t = r)
  BY <1>1, <1>3
<1> HIDE DEF T, new
<1>5. T \subseteq Row /\ Sane(T, h)
  BY <1>4 DEF Sane
<1>6. Single(T)
  <2> SUFFICES ASSUME NEW t \in T, NEW u \in T, NEW k \in Nat,
                      t.id = u.id, Contains(t, k), Contains(u, k)
               PROVE  t = u
    BY DEF Single
  <2>1. PICK r \in S : /\ t.id = r.id /\ t.lo = r.lo /\ t.hi = r.hi
                       /\ (mine(r) /\ t = new(r)) \/ (~ mine(r) /\ t = r)
    BY <1>4
  <2>2. PICK s \in S : /\ u.id = s.id /\ u.lo = s.lo /\ u.hi = s.hi
                       /\ (mine(s) /\ u = new(s)) \/ (~ mine(s) /\ u = s)
    BY <1>4
  <2>3. Contains(r, k) /\ Contains(s, k) /\ r.id = s.id
    BY <2>1, <2>2 DEF Contains
  <2>4. r = s
    BY <2>3 DEF Single
  <2> QED BY <2>1, <2>2, <2>4
<1>7. ASSUME NEW x \in Ids, NEW k \in Nat, k < h \/ (k = h /\ x # id)
      PROVE  AsOf(T, k)[x] = AsOf(S, k)[x]
  <2>1. ASSUME NEW r \in S, r.id = x, Contains(r, k) PROVE ~ mine(r) /\ r \in T
    BY <2>1, <1>2, <1>7 DEF Contains, Row
  <2>2. ASSUME NEW t \in T, t.id = x, Contains(t, k) PROVE t \in S
    <3>1. PICK r \in S : /\ t.id = r.id /\ t.lo = r.lo /\ t.hi = r.hi
                         /\ (mine(r) /\ t = new(r)) \/ (~ mine(r) /\ t = r)
      BY <1>4
    <3>2. r.id = x /\ Contains(r, k)
      BY <3>1, <2>2 DEF Contains
    <3> QED BY <3>1, <3>2, <2>1
  <2>3. \A r \in T : r.id = x /\ Contains(r, k) =>
          \E t \in S : t.id = x /\ Contains(t, k) /\ t.val = r.val
    BY <2>2
  <2>4. \A t \in S : t.id = x /\ Contains(t, k) => \E r \in T : r.id = x /\ Contains(r, k)
    BY <2>1
  <2> HIDE DEF mine
  <2> QED BY <2>3, <2>4, <1>6, SameView
<1>8. ASSUME NEW k \in Nat, k < h PROVE AsOf(T, k) = AsOf(S, k)
  BY <1>7, <1>8, ViewShape
<1>9. ASSUME NEW t \in T, Contains(t, h), t.lo # h PROVE t \in S
  BY <1>9, <1>4
<1>10. ASSUME NEW r \in S, mine(r) PROVE AsOf(T, h)[id] = val
  <2>1. new(r) \in T /\ new(r).id = id /\ new(r).val = val /\ new(r).lo = h /\ new(r).hi = r.hi
    BY <1>2, <1>3, <1>10
  <2>2. r.hi = Open
    BY <1>10 DEF Sane, Row, Open
  <2>3. Contains(new(r), h)
    BY <2>1, <2>2 DEF Contains
  <2> QED BY <2>1, <2>3, <1>6, ViewOfRow
<1> QED BY <1>5, <1>6, <1>7, <1>8, <1>9, <1>10 DEF Follows, T

\* The end of the live version
ClosedIn(S, h, id) ==
  LET live == {r \in S : r.id = id /\ Contains(r, h)}
  IN  (S \ live) \cup {[r EXCEPT !.hi = h] : r \in live}

LEMMA WithEnd ==
  ASSUME NEW r \in Row, NEW h \in Nat
  PROVE  LET n == [r EXCEPT !.hi = h]
         IN  n \in Row /\ n.id = r.id /\ n.lo = r.lo /\ n.hi = h /\ n.val = r.val
  BY DEF Row

LEMMA CloseFollows ==
  ASSUME NEW S \in SUBSET Row, NEW h \in Nat, h > 0, Sane(S, h), Single(S), NEW id \in Ids
  PROVE  /\ Follows(S, ClosedIn(S, h, id), h)
         /\ \A x \in Ids \ {id} : AsOf(ClosedIn(S, h, id), h)[x] = AsOf(S, h)[x]
         /\ AsOf(ClosedIn(S, h, id), h)[id] = Absent
         /\ \A t \in ClosedIn(S, h, id) : ~ (t.id = id /\ Contains(t, h))
<1> DEFINE live(r) == r.id = id /\ Contains(r, h)
           end(r) == [r EXCEPT !.hi = h]
           T == ClosedIn(S, h, id)
<1>1. ASSUME NEW t \in T
      PROVE  \E r \in S : (live(r) /\ t = end(r)) \/ (~ live(r) /\ t = r)
  BY DEF ClosedIn
<1>2. ASSUME NEW r \in S PROVE IF live(r) THEN end(r) \in T ELSE r \in T
  BY DEF ClosedIn
<1>3. ASSUME NEW r \in S
      PROVE  end(r) \in Row /\ end(r).id = r.id /\ end(r).lo = r.lo /\ end(r).hi = h
             /\ end(r).val = r.val
  BY WithEnd
<1>4. ASSUME NEW r \in S, live(r) PROVE r.hi = Open /\ r.lo <= h
  BY <1>4 DEF Sane, Contains, Row, Open
<1>5. ASSUME NEW t \in T
      PROVE  \E r \in S : /\ t \in Row /\ t.id = r.id /\ t.lo = r.lo /\ t.val = r.val
                          /\ \/ live(r) /\ t = end(r) /\ t.hi = h /\ r.hi = Open /\ r.lo <= h
                             \/ ~ live(r) /\ t = r
  BY <1>1, <1>3, <1>4
<1> HIDE DEF T, end
<1>6. ASSUME NEW t \in T, NEW r \in S, NEW k \in Nat, t.lo = r.lo, t.hi = h, r.hi = Open, k < h
      PROVE  Contains(t, k) <=> Contains(r, k)
  BY <1>6 DEF Contains, Open, Row
<1>7. ASSUME NEW t \in T, NEW k \in Nat, t.hi = h, k >= h PROVE ~ Contains(t, k)
  BY <1>7 DEF Contains, Open
<1>8. T \subseteq Row
  BY <1>5
<1>9. Sane(T, h)
  <2> SUFFICES ASSUME NEW t \in T PROVE t.lo <= h /\ t.hi <= h /\ (t.hi = Open \/ t.lo <= t.hi)
    BY DEF Sane
  <2>1. PICK r \in S : /\ t \in Row /\ t.lo = r.lo
                       /\ \/ t.hi = h /\ r.lo <= h
                          \/ t = r
    BY <1>5
  <2> QED BY <2>1 DEF Sane
<1>10. ASSUME NEW t \in T, NEW k \in Nat, Contains(t, k)
       PROVE  \E r \in S : /\ t.id = r.id /\ t.val = r.val /\ Contains(r, k)
                           /\ (live(r) /\ t = end(r)) \/ (~ live(r) /\ t = r)
  <2>1. PICK r \in S : /\ t.id = r.id /\ t.lo = r.lo /\ t.val = r.val
                       /\ \/ live(r) /\ t = end(r) /\ t.hi = h /\ r.hi = Open
                          \/ ~ live(r) /\ t = r
    BY <1>5
  <2>2. CASE live(r) /\ t = end(r) /\ t.hi = h /\ r.hi = Open
    <3>1. k < h
      BY <2>2, <1>7, <1>10
    <3>2. Contains(r, k)
      BY <3>1, <2>1, <2>2, <1>6, <1>10
    <3> QED BY <3>2, <2>1, <2>2
  <2>3. CASE ~ live(r) /\ t = r
    BY <2>1, <2>3, <1>10
  <2> QED BY <2>1, <2>2, <2>3
<1>11. Single(T)
  <2> SUFFICES ASSUME NEW t \in T, NEW u \in T, NEW k \in Nat,
                      t.id = u.id, Contains(t, k), Contains(u, k)
               PROVE  t = u
    BY DEF Single
  <2>1. PICK r \in S : /\ t.id = r.id /\ Contains(r, k)
                       /\ (live(r) /\ t = end(r)) \/ (~ live(r) /\ t = r)
    BY <1>10
  <2>2. PICK s \in S : /\ u.id = s.id /\ Contains(s, k)
                       /\ (live(s) /\ u = end(s)) \/ (~ live(s) /\ u = s)
    BY <1>10
  <2>3. r = s
    BY <2>1, <2>2 DEF Single
  <2> QED BY <2>1, <2>2, <2>3
<1>12. ASSUME NEW r \in S, NEW k \in Nat, Contains(r, k), k < h \/ (k = h /\ r.id # id)
       PROVE  \E t \in T : t.id = r.id /\ Contains(t, k) /\ t.val = r.val
  <2>1. CASE live(r)
    <3>1. end(r) \in T /\ end(r).id = r.id /\ end(r).val = r.val /\ end(r).lo = r.lo
          /\ end(r).hi = h /\ r.hi = Open
      BY <1>2, <1>3, <1>4, <2>1
    <3>2. k < h
      BY <1>12, <2>1
    <3>3. Contains(end(r), k)
      BY <3>1, <3>2, <1>6, <1>12
    <3> QED BY <3>1, <3>3
  <2>2. CASE ~ live(r)
    BY <2>2, <1>2, <1>12
  <2> QED BY <2>1, <2>2
<1>13. ASSUME NEW x \in Ids, NEW k \in Nat, k < h \/ (k = h /\ x # id)
       PROVE  AsOf(T, k)[x] = AsOf(S, k)[x]
  <2>1. \A r \in S : r.id = x /\ Contains(r, k) =>
          \E t \in T : t.id = x /\ Contains(t, k) /\ t.val = r.val
    BY <1>12, <1>13
  <2>2. \A t \in T : t.id = x /\ Contains(t, k) => \E r \in S : r.id = x /\ Contains(r, k)
    BY <1>10
  <2> HIDE DEF live
  <2>3. AsOf(S, k)[x] = AsOf(T, k)[x]
    BY <2>1, <2>2, <1>11, SameView
  <2> QED BY <2>3
<1>14. ASSUME NEW k \in Nat, k < h PROVE AsOf(T, k) = AsOf(S, k)
  BY <1>13, <1>14, ViewShape
<1>15. ASSUME NEW t \in T PROVE ~ (t.id = id /\ Contains(t, h))
  BY <1>5, <1>7
<1>16. ASSUME NEW t \in T, Contains(t, h) PROVE t \in S
  BY <1>5, <1>7, <1>16
<1>17. AsOf(T, h)[id] = Absent
  BY <1>15, ViewOfNone
<1> QED BY <1>8, <1>9, <1>11, <1>13, <1>14, <1>15, <1>16, <1>17 DEF Follows, T

\* At height h the entities ids read x in T, the others what they read in S.
Reads(S, T, h, ids, x) ==
  /\ \A y \in Ids \ ids : AsOf(T, h)[y] = AsOf(S, h)[y]
  /\ \A y \in ids : AsOf(T, h)[y] = x

\* None of the entities ids has a live version.
Free(S, h, ids) == \A r \in S : ~ (r.id \in ids /\ Contains(r, h))

\* New versions of entities that have no live one
NewVersion(h, id, val) == [id |-> id, val |-> val, lo |-> h, hi |-> Open]
AddedTo(S, h, ids, val) == S \cup {NewVersion(h, id, val) : id \in ids}

LEMMA AddFollows ==
  ASSUME NEW S \in SUBSET Row, NEW h \in Nat, h > 0, Sane(S, h), Single(S),
         NEW ids \in SUBSET Ids, NEW val \in Values,
         Free(S, h, ids)
  PROVE  /\ Follows(S, AddedTo(S, h, ids, val), h)
         /\ Reads(S, AddedTo(S, h, ids, val), h, ids, val)
<1> DEFINE T == AddedTo(S, h, ids, val)
           new(x) == NewVersion(h, x, val)
<1>1. ASSUME NEW x \in Ids
      PROVE  new(x) \in Row /\ new(x).id = x /\ new(x).val = val /\ new(x).lo = h
             /\ new(x).hi = Open
  BY DEF NewVersion, Row, Open
<1>2. ASSUME NEW t \in T PROVE t \in S \/ \E x \in ids : t = new(x)
  BY DEF AddedTo
<1>3. S \subseteq T /\ \A x \in ids : new(x) \in T
  BY DEF AddedTo
<1> HIDE DEF T, new
<1>4. ASSUME NEW x \in ids, NEW k \in Nat PROVE Contains(new(x), k) <=> h <= k
  BY <1>1 DEF Contains
<1>5. T \subseteq Row /\ Sane(T, h)
  <2>1. ASSUME NEW t \in T
        PROVE  t \in Row /\ t.lo <= h /\ t.hi <= h /\ (t.hi = Open \/ t.lo <= t.hi)
    <3>1. CASE t \in S
      BY <3>1 DEF Sane
    <3>2. CASE \E x \in ids : t = new(x)
      BY <3>2, <1>1 DEF Open
    <3> QED BY <3>1, <3>2, <1>2
  <2> QED BY <2>1 DEF Sane
\* A version of an earlier block that is over at h is over above h too.
<1>6. ASSUME NEW r \in S, r.id \in ids, NEW k \in Nat, Contains(r, k) PROVE k < h
  <2>1. ~ Contains(r, h)
    BY <1>6 DEF Free
  <2> QED BY <2>1, <1>6 DEF Contains, Sane, Row, Open
<1>7. Single(T)
  <2> SUFFICES ASSUME NEW t \in T, NEW u \in T, NEW k \in Nat,
                      t.id = u.id, Contains(t, k), Contains(u, k)
               PROVE  t = u
    BY DEF Single
  <2>1. CASE t \in S /\ u \in S
    BY <2>1 DEF Single
  <2>2. ASSUME t \in S, NEW x \in ids, u = new(x) PROVE FALSE
    <3>1. k < h
      BY <2>2, <1>1, <1>6
    <3>2. h <= k
      BY <2>2, <1>4
    <3> QED BY <3>1, <3>2
  <2>3. ASSUME u \in S, NEW x \in ids, t = new(x) PROVE FALSE
    <3>1. k < h
      BY <2>3, <1>1, <1>6
    <3>2. h <= k
      BY <2>3, <1>4
    <3> QED BY <3>1, <3>2
  <2>4. ASSUME NEW x \in ids, NEW y \in ids, t = new(x), u = new(y) PROVE t = u
    BY <2>4, <1>1
  <2> QED BY <2>1, <2>2, <2>3, <2>4, <1>2
<1>8. ASSUME NEW x \in Ids, NEW k \in Nat, k < h \/ (k = h /\ x \notin ids)
      PROVE  AsOf(T, k)[x] = AsOf(S, k)[x]
  <2>1. ASSUME NEW t \in T, t.id = x, Contains(t, k) PROVE t \in S
    BY <2>1, <1>1, <1>2, <1>4, <1>8
  <2>2. \A r \in S : r.id = x /\ Contains(r, k) =>
          \E t \in T : t.id = x /\ Contains(t, k) /\ t.val = r.val
    BY <1>3
  <2>3. \A t \in T : t.id = x /\ Contains(t, k) => \E r \in S : r.id = x /\ Contains(r, k)
    BY <2>1
  <2>4. AsOf(S, k)[x] = AsOf(T, k)[x]
    BY <2>2, <2>3, <1>7, SameView
  <2> QED BY <2>4
<1>9. ASSUME NEW k \in Nat, k < h PROVE AsOf(T, k) = AsOf(S, k)
  BY <1>8, <1>9, ViewShape
<1>10. ASSUME NEW t \in T, Contains(t, h), t.lo # h PROVE t \in S
  BY <1>1, <1>2, <1>10
<1>11. ASSUME NEW x \in ids PROVE AsOf(T, h)[x] = val
  BY <1>1, <1>3, <1>4, <1>7, ViewOfRow
<1> QED BY <1>5, <1>7, <1>8, <1>9, <1>10, <1>11 DEF Follows, Reads, T

\* Without history: the row of an entity is dropped, or replaced by one
Rid(S, ids) == {r \in S : r.id \notin ids}

LEMMA RidFollows ==
  ASSUME NEW S \in SUBSET Row, NEW h \in Nat, Sane(S, h), Single(S), NEW ids \in SUBSET Ids
  PROVE  /\ Rid(S, ids) \subseteq Row /\ Sane(Rid(S, ids), h) /\ Single(Rid(S, ids))
         /\ \A x \in Ids \ ids : AsOf(Rid(S, ids), h)[x] = AsOf(S, h)[x]
         /\ \A x \in ids : AsOf(Rid(S, ids), h)[x] = Absent
<1>1. Rid(S, ids) \subseteq Row /\ Sane(Rid(S, ids), h)
  BY DEF Rid, Sane
<1>2. Single(Rid(S, ids))
  BY DEF Rid, Single
<1>3. ASSUME NEW x \in Ids \ ids PROVE AsOf(Rid(S, ids), h)[x] = AsOf(S, h)[x]
  <2>1. \A r \in S : r.id = x => r \in Rid(S, ids)
    BY DEF Rid
  <2>2. Rid(S, ids) \subseteq S
    BY DEF Rid
  <2> QED BY <2>1, <2>2, <1>2, SameView
<1>4. ASSUME NEW x \in ids PROVE AsOf(Rid(S, ids), h)[x] = Absent
  BY ViewOfNone DEF Rid
<1> QED BY <1>1, <1>2, <1>3, <1>4

Lacks(S, ids) == \A r \in S : r.id \notin ids
NewRowWithout(id, val) == [id |-> id, val |-> val, lo |-> 0, hi |-> Open]
PutIn(S, ids, val) == S \cup {NewRowWithout(id, val) : id \in ids}

LEMMA PutFollows ==
  ASSUME NEW S \in SUBSET Row, NEW h \in Nat, Sane(S, h), Single(S),
         NEW ids \in SUBSET Ids, NEW val \in Values, Lacks(S, ids)
  PROVE  /\ PutIn(S, ids, val) \subseteq Row /\ Sane(PutIn(S, ids, val), h)
         /\ Single(PutIn(S, ids, val)) /\ Reads(S, PutIn(S, ids, val), h, ids, val)
<1> DEFINE T == PutIn(S, ids, val)
           new(x) == NewRowWithout(x, val)
<1>1. ASSUME NEW x \in Ids
      PROVE  new(x) \in Row /\ new(x).id = x /\ new(x).val = val /\ new(x).lo = 0
             /\ new(x).hi = Open
  BY DEF NewRowWithout, Row, Open
<1>2. ASSUME NEW t \in T PROVE t \in S \/ \E x \in ids : t = new(x)
  BY DEF PutIn
<1>3. S \subseteq T /\ \A x \in ids : new(x) \in T
  BY DEF PutIn
<1> HIDE DEF T, new
<1>4. T \subseteq Row /\ Sane(T, h)
  <2>1. ASSUME NEW t \in T
        PROVE  t \in Row /\ t.lo <= h /\ t.hi <= h /\ (t.hi = Open \/ t.lo <= t.hi)
    <3>1. CASE t \in S
      BY <3>1 DEF Sane
    <3>2. CASE \E x \in ids : t = new(x)
      BY <3>2, <1>1 DEF Open
    <3> QED BY <3>1, <3>2, <1>2
  <2> QED BY <2>1 DEF Sane
<1>5. ASSUME NEW t \in T, t.id \notin ids PROVE t \in S
  BY <1>1, <1>2, <1>5
<1>6. ASSUME NEW t \in T, t.id \in ids PROVE t = new(t.id)
  BY <1>1, <1>2, <1>6 DEF Lacks
<1>7. Single(T)
  BY <1>5, <1>6 DEF Single, Lacks
<1>8. ASSUME NEW x \in Ids \ ids PROVE AsOf(T, h)[x] = AsOf(S, h)[x]
  <2>1. \A r \in S : r.id = x => r \in T
    BY <1>3
  <2>2. \A t \in T : t.id = x => t \in S
    BY <1>5
  <2> QED BY <2>1, <2>2, <1>7, SameView
<1>9. ASSUME NEW x \in ids PROVE AsOf(T, h)[x] = val
  <2>1. Contains(new(x), h)
    BY <1>1 DEF Contains
  <2> QED BY <2>1, <1>1, <1>3, <1>7, ViewOfRow
<1> QED BY <1>4, <1>7, <1>8, <1>9 DEF T, Reads

-----------------------------------------------------------------------------
(* Every step keeps the invariant.                                           *)

LEMMA StoreInvInit == Init => StoreInv
<1> SUFFICES ASSUME Init PROVE StoreInv
  OBVIOUS
<1>1. Types
  BY DEF Init, Types, NoRows, NoOps, Idle, Operation, Nothing, Absent
<1>2. PhaseInv
  BY DEF Init, PhaseInv, InBlock
<1>3. TableInv
  BY NoRowsAreFine DEF Init, TableInv, InBlock
<1>4. SaveInv
  BY DEF Init, SaveInv, NoOps, Idle
<1>5. ViewInv
  BY DEF Init, ViewInv, InBlock
<1> QED BY <1>1, <1>2, <1>3, <1>4, <1>5 DEF StoreInv

\* A step of a handler keeps it if the table stays sane, keeps the past, and
\* holds the draft.
LEMMA WriteKeepsInv ==
  ASSUME StoreInv, InBlock, UNCHANGED <<database, phase, historical, blockHeight>>,
         rows' \subseteq Row, Sane(rows', blockHeight), Single(rows'),
         op' \in [Writers -> Operation], draft' \in [Ids -> Values \cup {Absent}],
         SaveInv',
         tables = "ranged" =>
           \A k \in Nat : k < blockHeight => AsOf(rows', k) = AsOf(rows, k),
         \A id \in Ids : ~ Replacing(id)' => draft'[id] = AsOf(rows', blockHeight)[id]
  PROVE  StoreInv'
<1>1. Types'
  BY DEF StoreInv, Types, database
<1>2. PhaseInv'
  BY DEF StoreInv, PhaseInv, InBlock, database, ModeOf
<1>3. TableInv'
  BY DEF StoreInv, TableInv, InBlock, database
<1>4. ViewInv'
  BY DEF StoreInv, ViewInv, InBlock, database
<1> QED BY <1>1, <1>2, <1>3, <1>4 DEF StoreInv

LEMMA PositiveHeight == StoreInv /\ InBlock => blockHeight \in Nat /\ blockHeight > 0
  BY DEF StoreInv, Types, TableInv

\* The rows a save in progress has to look out for
SaveOK(o, S, h) ==
  /\ o.at # "idle" => historical /\ tables = "ranged" /\ o.id \in Ids /\ o.val \in Values
  /\ o.at = "idle" => o = Idle
  /\ o.at = "create" => \A r \in S : r.id = o.id /\ Contains(r, h) => r.lo = h

LEMMA SaveInvIs == SaveInv <=> \A w \in Writers : SaveOK(op[w], rows, blockHeight)
  BY DEF SaveInv, SaveOK

LEMMA SaveInvNext ==
  ASSUME UNCHANGED <<database, historical, blockHeight>>,
         \A w \in Writers : SaveOK(op'[w], rows', blockHeight)
  PROVE  SaveInv'
  BY DEF SaveInv, SaveOK, database

LEMMA OtherSaves ==
  ASSUME NEW o, NEW S, NEW T, NEW h, SaveOK(o, S, h), Follows(S, T, h)
  PROVE  SaveOK(o, T, h)
  BY DEF SaveOK, Follows

LEMMA OneWrite ==
  ASSUME NEW id \in Ids, NEW x \in Values \cup {Absent}, StoreInv
  PROVE  [draft EXCEPT ![id] = x] \in [Ids -> Values \cup {Absent}]
  BY DEF StoreInv, Types

LEMMA SetUpdatesKeepsInv ==
  ASSUME StoreInv, NEW w \in Writers, NEW id \in Ids, NEW val \in Values, SetUpdates(w, id, val)
  PROVE  StoreInv'
<1>1. /\ InBlock /\ UNCHANGED <<database, phase, historical, blockHeight, op>>
      /\ draft' = [draft EXCEPT ![id] = val]
      /\ rows' = UpdatedIn(rows, blockHeight, id, val)
      /\ \E r \in rows : r.id = id /\ r.lo = blockHeight /\ r.hi # blockHeight
  BY DEF SetUpdates, UpdatedIn, SavedThisBlock, RowsOf, WithValue
<1>2. blockHeight \in Nat /\ blockHeight > 0 /\ Sane(rows, blockHeight) /\ Single(rows)
      /\ rows \in SUBSET Row
  BY <1>1, PositiveHeight DEF StoreInv, TableInv, Types
<1>3. /\ Follows(rows, rows', blockHeight)
      /\ \A x \in Ids \ {id} : AsOf(rows', blockHeight)[x] = AsOf(rows, blockHeight)[x]
      /\ AsOf(rows', blockHeight)[id] = val
  BY <1>1, <1>2, UpdateFollows
<1>4. SaveInv'
  BY <1>1, <1>3, OtherSaves, SaveInvIs, SaveInvNext DEF StoreInv
<1>5. ASSUME NEW x \in Ids, ~ Replacing(x)'
      PROVE  draft'[x] = AsOf(rows', blockHeight)[x]
  <2>1. ~ Replacing(x)
    BY <1>1, <1>5 DEF Replacing
  <2>2. draft[x] = AsOf(rows, blockHeight)[x]
    BY <1>1, <2>1 DEF StoreInv, ViewInv
  <2> QED BY <1>1, <1>3, <2>2 DEF StoreInv, Types
<1>6. op' \in [Writers -> Operation] /\ draft' \in [Ids -> Values \cup {Absent}]
  BY <1>1, OneWrite DEF StoreInv, Types
<1> QED BY <1>1, <1>3, <1>4, <1>5, <1>6, WriteKeepsInv DEF Follows

LEMMA SetFindsNoneKeepsInv ==
  ASSUME StoreInv, NEW w \in Writers, NEW id \in Ids, NEW val \in Values,
         SetFindsNone(w, id, val)
  PROVE  StoreInv'
<1> DEFINE o == [at |-> "close", id |-> id, val |-> val]
<1>1. /\ InBlock /\ UNCHANGED <<database, phase, historical, blockHeight, rows, draft>>
      /\ op' = [op EXCEPT ![w] = o] /\ historical /\ tables = "ranged" /\ op[w] = Idle
  BY DEF SetFindsNone, ShapeFits
<1>2. Sane(rows, blockHeight) /\ Single(rows) /\ rows \subseteq Row
      /\ op \in [Writers -> Operation] /\ draft \in [Ids -> Values \cup {Absent}]
  BY <1>1 DEF StoreInv, TableInv, Types
<1>3. op' \in [Writers -> Operation]
  BY <1>1, <1>2 DEF Operation
<1>4. SaveInv'
  <2>1. ASSUME NEW v \in Writers PROVE SaveOK(op'[v], rows', blockHeight)
    BY <1>1, <1>2, SaveInvIs DEF StoreInv, SaveOK
  <2> QED BY <2>1, <1>1, SaveInvNext
<1>5. ASSUME NEW x \in Ids, ~ Replacing(x)'
      PROVE  draft'[x] = AsOf(rows', blockHeight)[x]
  <2>1. ~ Replacing(x)
    BY <1>1, <1>2, <1>5 DEF Replacing, Idle
  <2> QED BY <1>1, <2>1 DEF StoreInv, ViewInv
<1> QED BY <1>1, <1>2, <1>3, <1>4, <1>5, WriteKeepsInv

LEMMA SetClosesKeepsInv ==
  ASSUME StoreInv, NEW w \in Writers, SetCloses(w)
  PROVE  StoreInv'
<1> DEFINE id == op[w].id
<1>1. /\ InBlock /\ UNCHANGED <<database, phase, historical, blockHeight, draft>>
      /\ rows' = ClosedIn(rows, blockHeight, id)
      /\ op' = [op EXCEPT ![w].at = "create"] /\ op[w].at = "close"
  BY DEF SetCloses, Closed, ClosedIn, RowsOf
<1>2. /\ blockHeight \in Nat /\ blockHeight > 0 /\ Sane(rows, blockHeight) /\ Single(rows)
      /\ rows \in SUBSET Row /\ op \in [Writers -> Operation]
      /\ draft \in [Ids -> Values \cup {Absent}]
  BY <1>1, PositiveHeight DEF StoreInv, TableInv, Types
<1>3. /\ historical /\ tables = "ranged" /\ id \in Ids /\ op[w].val \in Values
      /\ op'[w].at = "create" /\ op'[w].id = id /\ op'[w].val = op[w].val
      /\ \A v \in Writers \ {w} : op'[v] = op[v]
      /\ op' \in [Writers -> Operation]
  BY <1>1, <1>2 DEF StoreInv, SaveInv, Operation
<1> HIDE DEF id
<1>4. /\ Follows(rows, rows', blockHeight)
      /\ \A x \in Ids \ {id} : AsOf(rows', blockHeight)[x] = AsOf(rows, blockHeight)[x]
      /\ \A t \in rows' : ~ (t.id = id /\ Contains(t, blockHeight))
  BY <1>1, <1>2, <1>3, CloseFollows
<1>5. SaveInv'
  <2>1. ASSUME NEW v \in Writers \ {w} PROVE SaveOK(op'[v], rows', blockHeight)
    BY <1>3, <1>4, OtherSaves, SaveInvIs DEF StoreInv
  <2>2. SaveOK(op'[w], rows', blockHeight)
    BY <1>3, <1>4 DEF SaveOK
  <2> QED BY <2>1, <2>2, <1>1, SaveInvNext
<1>6. ASSUME NEW x \in Ids, ~ Replacing(x)'
      PROVE  draft'[x] = AsOf(rows', blockHeight)[x]
  <2>1. ~ Replacing(x) /\ x # id
    BY <1>1, <1>3, <1>6 DEF Replacing
  <2> QED BY <1>1, <1>4, <2>1 DEF StoreInv, ViewInv
<1> QED BY <1>1, <1>2, <1>3, <1>4, <1>5, <1>6, WriteKeepsInv DEF Follows

LEMMA NoConflict ==
  ASSUME NEW id \in Ids, NEW val \in Values, blockHeight \in Nat, Conflicts(id, val) = {}
  PROVE  \A r \in rows : ~ (r.id = id /\ Contains(r, blockHeight))
<1>1. Contains(Version(id, val), blockHeight) /\ Version(id, val).lo = blockHeight
  BY DEF Contains, Version, Open
<1> QED BY <1>1 DEF Conflicts, Overlaps, RowsOf

LEMMA SetCreatesKeepsInv ==
  ASSUME StoreInv, NEW w \in Writers, SetCreates(w)
  PROVE  StoreInv'
<1> DEFINE id == op[w].id
           val == op[w].val
<1>1. /\ InBlock /\ UNCHANGED <<database, phase, historical, blockHeight>>
      /\ rows' = AddedTo(rows, blockHeight, {id}, val)
      /\ op' = [op EXCEPT ![w] = Idle] /\ op[w].at = "create"
      /\ draft' = [draft EXCEPT ![id] = val]
      /\ Conflicts(id, val) = {}
  BY DEF SetCreates, AddedTo, NewVersion, Version
<1>2. /\ blockHeight \in Nat /\ blockHeight > 0 /\ Sane(rows, blockHeight) /\ Single(rows)
      /\ rows \in SUBSET Row /\ op \in [Writers -> Operation]
      /\ draft \in [Ids -> Values \cup {Absent}]
  BY <1>1, PositiveHeight DEF StoreInv, TableInv, Types
<1>3. /\ id \in Ids /\ val \in Values
      /\ op'[w] = Idle /\ \A v \in Writers \ {w} : op'[v] = op[v]
      /\ op' \in [Writers -> Operation]
  BY <1>1, <1>2 DEF StoreInv, SaveInv, Operation, Idle
<1> HIDE DEF id, val
<1>4. \A r \in rows : ~ (r.id = id /\ Contains(r, blockHeight))
  BY <1>1, <1>2, <1>3, NoConflict
<1>5. /\ Follows(rows, rows', blockHeight)
      /\ \A x \in Ids \ {id} : AsOf(rows', blockHeight)[x] = AsOf(rows, blockHeight)[x]
      /\ AsOf(rows', blockHeight)[id] = val
  <2> DEFINE one == {id}
  <2>1. one \in SUBSET Ids /\ Free(rows, blockHeight, one)
    BY <1>3, <1>4 DEF Free
  <2>2. rows' = AddedTo(rows, blockHeight, one, val)
    BY <1>1
  <2>3. \A x \in Ids : x \in one <=> x = id
    OBVIOUS
  <2> HIDE DEF one
  <2>4. Follows(rows, rows', blockHeight) /\ Reads(rows, rows', blockHeight, one, val)
    BY <1>2, <1>3, <2>1, <2>2, AddFollows
  <2> QED BY <1>3, <2>3, <2>4 DEF Reads
<1>6. SaveInv'
  <2>1. ASSUME NEW v \in Writers \ {w} PROVE SaveOK(op'[v], rows', blockHeight)
    BY <1>3, <1>5, OtherSaves, SaveInvIs DEF StoreInv
  <2>2. SaveOK(op'[w], rows', blockHeight)
    BY <1>3 DEF SaveOK, Idle
  <2> QED BY <2>1, <2>2, <1>1, SaveInvNext
<1>7. ASSUME NEW x \in Ids, ~ Replacing(x)'
      PROVE  draft'[x] = AsOf(rows', blockHeight)[x]
  <2>1. CASE x = id
    BY <2>1, <1>1, <1>2, <1>5
  <2>2. CASE x # id
    <3>1. ~ Replacing(x)
      BY <1>3, <1>7, <2>2 DEF Replacing, id
    <3> QED BY <1>1, <1>2, <1>5, <2>2, <3>1 DEF StoreInv, ViewInv
  <2> QED BY <2>1, <2>2
<1>8. draft' \in [Ids -> Values \cup {Absent}]
  BY <1>1, <1>3, OneWrite
<1> QED BY <1>1, <1>3, <1>5, <1>6, <1>7, <1>8, WriteKeepsInv DEF Follows

\* Without history no save is ever under way.
LEMMA NoSaveWithout ==
  ASSUME StoreInv, ~ historical
  PROVE  \A w \in Writers : op[w] = Idle
  BY DEF StoreInv, SaveInv

LEMMA PlainWriteKeepsInv ==
  ASSUME StoreInv, InBlock, ~ historical, tables # "ranged",
         UNCHANGED <<database, phase, historical, blockHeight, op>>,
         rows' \subseteq Row, Sane(rows', blockHeight), Single(rows'),
         draft' \in [Ids -> Values \cup {Absent}],
         \A id \in Ids : draft'[id] = AsOf(rows', blockHeight)[id]
  PROVE  StoreInv'
<1>1. SaveInv'
  BY NoSaveWithout, SaveInvNext DEF SaveOK, Idle
<1>2. op' \in [Writers -> Operation]
  BY DEF StoreInv, Types
<1> QED BY <1>1, <1>2, WriteKeepsInv

LEMMA PlainView ==
  ASSUME StoreInv, InBlock, ~ historical
  PROVE  \A id \in Ids : draft[id] = AsOf(rows, blockHeight)[id]
  BY NoSaveWithout DEF StoreInv, ViewInv, Replacing, Idle

LEMMA SetUpsertsKeepsInv ==
  ASSUME StoreInv, NEW w \in Writers, NEW id \in Ids, NEW val \in Values, SetUpserts(w, id, val)
  PROVE  StoreInv'
<1> DEFINE R == Rid(rows, {id})
<1>1. /\ InBlock /\ ~ historical /\ tables # "ranged"
      /\ UNCHANGED <<database, phase, historical, blockHeight, op>>
      /\ draft' = [draft EXCEPT ![id] = val]
      /\ rows' = PutIn(R, {id}, val)
  BY DEF SetUpserts, ShapeFits, PutIn, NewRowWithout, Plain, Rid, RowsOf
<1>2. /\ blockHeight \in Nat /\ Sane(rows, blockHeight) /\ Single(rows)
      /\ rows \in SUBSET Row /\ draft \in [Ids -> Values \cup {Absent}] /\ {id} \in SUBSET Ids
  BY <1>1 DEF StoreInv, TableInv, Types
<1>3. /\ R \subseteq Row /\ Sane(R, blockHeight) /\ Single(R)
      /\ \A x \in Ids \ {id} : AsOf(R, blockHeight)[x] = AsOf(rows, blockHeight)[x]
  BY <1>2, RidFollows
<1>4. Lacks(R, {id})
  BY DEF Rid, Lacks
<1> HIDE DEF R
<1>5. /\ rows' \subseteq Row /\ Sane(rows', blockHeight) /\ Single(rows')
      /\ \A x \in Ids \ {id} : AsOf(rows', blockHeight)[x] = AsOf(R, blockHeight)[x]
      /\ AsOf(rows', blockHeight)[id] = val
  <2> DEFINE one == {id}
  <2>1. one \in SUBSET Ids /\ Lacks(R, one) /\ rows' = PutIn(R, one, val)
    BY <1>1, <1>4
  <2>2. \A x \in Ids : x \in one <=> x = id
    OBVIOUS
  <2> HIDE DEF one
  <2>3. /\ rows' \subseteq Row /\ Sane(rows', blockHeight) /\ Single(rows')
        /\ Reads(R, rows', blockHeight, one, val)
    BY <1>2, <1>3, <2>1, PutFollows
  <2> QED BY <2>2, <2>3 DEF Reads
<1>6. \A x \in Ids : draft[x] = AsOf(rows, blockHeight)[x]
  BY <1>1, PlainView
<1>7. ASSUME NEW x \in Ids PROVE draft'[x] = AsOf(rows', blockHeight)[x]
  BY <1>1, <1>2, <1>3, <1>5, <1>6
<1>8. draft' \in [Ids -> Values \cup {Absent}]
  BY <1>1, OneWrite
<1> QED BY <1>1, <1>5, <1>7, <1>8, PlainWriteKeepsInv

LEMMA BulkCreateKeepsInv ==
  ASSUME StoreInv, NEW w \in Writers, NEW ids \in SUBSET Ids, NEW val \in Values,
         BulkCreate(w, ids, val)
  PROVE  StoreInv'
<1>1. /\ InBlock /\ ShapeFits
      /\ UNCHANGED <<database, phase, historical, blockHeight, op>>
      /\ draft' = [id \in Ids |-> IF id \in ids THEN val ELSE draft[id]]
  BY DEF BulkCreate
<1>2. /\ blockHeight \in Nat /\ blockHeight > 0 /\ Sane(rows, blockHeight) /\ Single(rows)
      /\ rows \in SUBSET Row /\ draft \in [Ids -> Values \cup {Absent}]
      /\ op \in [Writers -> Operation]
  BY <1>1, PositiveHeight DEF StoreInv, TableInv, Types
<1>3. draft' \in [Ids -> Values \cup {Absent}]
  BY <1>1, <1>2
<1>4. CASE historical
  <2>1. tables = "ranged" /\ rows' = AddedTo(rows, blockHeight, ids, val)
    BY <1>1, <1>4 DEF BulkCreate, ShapeFits, NewRow, AddedTo, NewVersion, Version
  <2>2. Free(rows, blockHeight, ids)
    BY <1>2, <1>4, NoConflict DEF BulkCreate, Free
  <2>3. /\ Follows(rows, rows', blockHeight)
        /\ \A x \in Ids \ ids : AsOf(rows', blockHeight)[x] = AsOf(rows, blockHeight)[x]
        /\ \A x \in ids : AsOf(rows', blockHeight)[x] = val
    BY <1>2, <2>1, <2>2, AddFollows DEF Reads
  <2>4. SaveInv'
    <3>1. ASSUME NEW v \in Writers PROVE SaveOK(op'[v], rows', blockHeight)
      BY <1>1, <2>3, OtherSaves, SaveInvIs DEF StoreInv
    <3> QED BY <3>1, <1>1, SaveInvNext
  <2>5. ASSUME NEW x \in Ids, ~ Replacing(x)'
        PROVE  draft'[x] = AsOf(rows', blockHeight)[x]
    <3>1. ~ Replacing(x)
      BY <1>1, <2>5 DEF Replacing
    <3>2. draft[x] = AsOf(rows, blockHeight)[x]
      BY <1>1, <3>1 DEF StoreInv, ViewInv
    <3> QED BY <1>1, <2>3, <3>2
  <2> QED BY <1>1, <1>2, <1>3, <2>3, <2>4, <2>5, WriteKeepsInv DEF Follows
<1>5. CASE ~ historical
  <2>1. tables # "ranged" /\ rows' = PutIn(rows, ids, val) /\ Lacks(rows, ids)
    BY <1>1, <1>5
       DEF BulkCreate, ShapeFits, NewRow, PutIn, NewRowWithout, Plain, RowsOf, Lacks
  <2>2. /\ rows' \subseteq Row /\ Sane(rows', blockHeight) /\ Single(rows')
        /\ \A x \in Ids \ ids : AsOf(rows', blockHeight)[x] = AsOf(rows, blockHeight)[x]
        /\ \A x \in ids : AsOf(rows', blockHeight)[x] = val
    BY <1>2, <2>1, PutFollows DEF Reads
  <2>3. \A x \in Ids : draft'[x] = AsOf(rows', blockHeight)[x]
    BY <1>1, <1>5, <2>2, PlainView
  <2> QED BY <1>1, <1>3, <1>5, <2>1, <2>2, <2>3, PlainWriteKeepsInv
<1> QED BY <1>4, <1>5

LEMMA RemoveKeepsInv ==
  ASSUME StoreInv, NEW w \in Writers, NEW id \in Ids, Remove(w, id)
  PROVE  StoreInv'
<1>1. /\ InBlock /\ ShapeFits
      /\ UNCHANGED <<database, phase, historical, blockHeight, op>>
      /\ draft' = [draft EXCEPT ![id] = Absent]
  BY DEF Remove
<1>2. /\ blockHeight \in Nat /\ blockHeight > 0 /\ Sane(rows, blockHeight) /\ Single(rows)
      /\ rows \in SUBSET Row /\ draft \in [Ids -> Values \cup {Absent}]
      /\ op \in [Writers -> Operation] /\ {id} \in SUBSET Ids
  BY <1>1, PositiveHeight DEF StoreInv, TableInv, Types
<1>3. draft' \in [Ids -> Values \cup {Absent}]
  BY <1>1, OneWrite
<1>4. CASE historical
  <2>1. tables = "ranged" /\ rows' = ClosedIn(rows, blockHeight, id)
    BY <1>1, <1>4 DEF Remove, ShapeFits, Closed, ClosedIn, RowsOf
  <2>2. /\ Follows(rows, rows', blockHeight)
        /\ \A x \in Ids \ {id} : AsOf(rows', blockHeight)[x] = AsOf(rows, blockHeight)[x]
        /\ AsOf(rows', blockHeight)[id] = Absent
    BY <1>2, <2>1, CloseFollows
  <2>3. SaveInv'
    BY <1>1, <2>2, OtherSaves, SaveInvIs, SaveInvNext DEF StoreInv
  <2>4. ASSUME NEW x \in Ids, ~ Replacing(x)'
        PROVE  draft'[x] = AsOf(rows', blockHeight)[x]
    <3>1. ~ Replacing(x)
      BY <1>1, <2>4 DEF Replacing
    <3>2. draft[x] = AsOf(rows, blockHeight)[x]
      BY <1>1, <3>1 DEF StoreInv, ViewInv
    <3> QED BY <1>1, <1>2, <2>2, <3>2
  <2> QED BY <1>1, <1>2, <1>3, <2>2, <2>3, <2>4, WriteKeepsInv DEF Follows
<1>5. CASE ~ historical
  <2>1. tables # "ranged" /\ rows' = Rid(rows, {id})
    BY <1>1, <1>5 DEF Remove, ShapeFits, Rid, RowsOf
  <2>2. /\ rows' \subseteq Row /\ Sane(rows', blockHeight) /\ Single(rows')
        /\ \A x \in Ids \ {id} : AsOf(rows', blockHeight)[x] = AsOf(rows, blockHeight)[x]
        /\ AsOf(rows', blockHeight)[id] = Absent
    BY <1>2, <2>1, RidFollows
  <2>3. \A x \in Ids : draft'[x] = AsOf(rows', blockHeight)[x]
    BY <1>1, <1>2, <1>5, <2>2, PlainView
  <2> QED BY <1>1, <1>3, <1>5, <2>1, <2>2, <2>3, PlainWriteKeepsInv
<1> QED BY <1>4, <1>5

LEMMA BeginBlockKeepsInv == StoreInv /\ BeginBlock => StoreInv'
<1> SUFFICES ASSUME StoreInv, BeginBlock PROVE StoreInv'
  OBVIOUS
<1> USE ConstantsOK
<1>1. /\ blockHeight' \in Nat /\ blockHeight' > lastProcessedHeight /\ rows' = stored
      /\ draft' = AsOf(stored, lastProcessedHeight) /\ InBlock' /\ phase = "idle"
      /\ UNCHANGED <<database, historical, op>> /\ lastProcessedHeight \in Nat
      /\ stored \in SUBSET Row
  BY DEF BeginBlock, InBlock, StoreInv, Types
<1>2. Sane(stored, lastProcessedHeight) /\ Single(stored) /\ op = NoOps /\ tables # "none"
  BY <1>1 DEF StoreInv, TableInv, PhaseInv, InBlock
<1>3. Sane(stored, blockHeight')
  BY <1>1, <1>2 DEF Sane, Row
<1>4. AsOf(stored, blockHeight') = AsOf(stored, lastProcessedHeight)
  BY <1>1, <1>2, ViewAbove
<1>5. Types'
  BY <1>1, <1>2, ViewValues DEF BeginBlock, StoreInv, Types, database
<1>6. PhaseInv'
  BY <1>1, <1>2 DEF StoreInv, PhaseInv, InBlock, database, ModeOf
<1>7. TableInv'
  BY <1>1, <1>2, <1>3 DEF TableInv, database
<1>8. SaveInv'
  BY <1>1, <1>2 DEF SaveInv, NoOps, Idle
<1>9. ViewInv'
  BY <1>1, <1>4 DEF ViewInv, database
<1> QED BY <1>5, <1>6, <1>7, <1>8, <1>9 DEF StoreInv

\* Between two blocks nothing is under way.
LEMMA OutsideKeepsInv ==
  ASSUME Types', PhaseInv', Sane(stored, lastProcessedHeight)', Single(stored)', ~ InBlock'
  PROVE  StoreInv'
<1>1. TableInv'
  BY DEF TableInv
<1>2. SaveInv'
  BY DEF PhaseInv, SaveInv, NoOps, Idle
<1>3. ViewInv'
  BY DEF ViewInv
<1> QED BY <1>1, <1>2, <1>3 DEF StoreInv

\* What a finished block leaves is its draft.
LEMMA DraftIsView ==
  ASSUME StoreInv, InBlock, op = NoOps
  PROVE  draft = AsOf(rows, blockHeight)
<1>1. \A id \in Ids : ~ Replacing(id)
  BY DEF Replacing, NoOps, Idle
<1>2. \A id \in Ids : draft[id] = AsOf(rows, blockHeight)[id]
  BY <1>1 DEF StoreInv, ViewInv
<1>3. draft = [id \in Ids |-> draft[id]]
  BY DEF StoreInv, Types
<1>4. [id \in Ids |-> draft[id]] = [id \in Ids |-> AsOf(rows, blockHeight)[id]]
  BY <1>2
<1> QED BY <1>3, <1>4, ViewShape

LEMMA CommitBlockKeepsInv == StoreInv /\ CommitBlock => StoreInv'
<1> SUFFICES ASSUME StoreInv, CommitBlock PROVE StoreInv'
  OBVIOUS
<1>1. /\ InBlock /\ op = NoOps /\ stored' = rows /\ lastProcessedHeight' = blockHeight
      /\ ~ InBlock' /\ phase' = "idle" /\ rows' = NoRows /\ draft' = Nothing
      /\ UNCHANGED <<tables, modeStored, historical, blockHeight, op>>
  BY DEF CommitBlock, InBlock
<1>2. Types'
  BY <1>1 DEF StoreInv, Types, NoRows, Nothing
<1>3. PhaseInv'
  BY <1>1 DEF StoreInv, PhaseInv, InBlock, ModeOf
<1>4. Sane(stored, lastProcessedHeight)' /\ Single(stored)'
  BY <1>1 DEF StoreInv, TableInv
<1> QED BY <1>1, <1>2, <1>3, <1>4, OutsideKeepsInv

LEMMA ExitKeepsInv == StoreInv /\ Exit => StoreInv'
<1> SUFFICES ASSUME StoreInv, Exit PROVE StoreInv'
  OBVIOUS
<1>1. Types'
  BY DEF Exit, StoreInv, Types, NoRows, NoOps, Idle, Operation, Nothing, database, Absent
<1>2. PhaseInv' /\ ~ InBlock'
  BY DEF Exit, StoreInv, PhaseInv, InBlock, database
<1>3. Sane(stored, lastProcessedHeight)' /\ Single(stored)'
  BY DEF Exit, StoreInv, TableInv, database
<1> QED BY <1>1, <1>2, <1>3, OutsideKeepsInv

LEMMA StartKeepsInv == StoreInv /\ Start => StoreInv'
<1> SUFFICES ASSUME StoreInv, Start PROVE StoreInv'
  OBVIOUS
<1>1. PICK disable \in BOOLEAN : historical' = HistoricalStateEnabled(disable)
  BY DEF Start
<1>2. /\ phase = "down" /\ phase' = "sync"
      /\ UNCHANGED <<database, blockHeight, rows, op, draft>>
  BY DEF Start
<1>3. Types'
  BY <1>1, <1>2 DEF StoreInv, Types, database, HistoricalStateEnabled
<1>4. modeStored # "absent" => modeStored = ModeOf(historical')
  BY <1>1 DEF StoreInv, PhaseInv, Types, HistoricalStateEnabled, ModeOf
<1>5. PhaseInv' /\ ~ InBlock'
  <2>1. ~ InBlock /\ ~ InBlock'
    BY <1>2 DEF InBlock
  <2>2. modeStored' = modeStored /\ ModeOf(historical)' = ModeOf(historical')
    BY <1>2 DEF database, ModeOf
  <2> QED BY <1>2, <1>4, <2>1, <2>2 DEF StoreInv, PhaseInv, database
<1>6. Sane(stored, lastProcessedHeight)' /\ Single(stored)'
  BY <1>2 DEF StoreInv, TableInv, database
<1> QED BY <1>3, <1>5, <1>6, OutsideKeepsInv

LEMMA SyncTablesKeepsInv == StoreInv /\ SyncTables => StoreInv'
<1> SUFFICES ASSUME StoreInv, SyncTables PROVE StoreInv'
  OBVIOUS
<1>1. Types'
  BY DEF SyncTables, StoreInv, Types
<1>2. PhaseInv' /\ ~ InBlock'
  BY DEF SyncTables, StoreInv, PhaseInv, InBlock, ModeOf, Types
<1>3. Sane(stored, lastProcessedHeight)' /\ Single(stored)'
  BY DEF SyncTables, StoreInv, TableInv
<1> QED BY <1>1, <1>2, <1>3, OutsideKeepsInv

LEMMA RecordModeKeepsInv == StoreInv /\ RecordMode => StoreInv'
<1> SUFFICES ASSUME StoreInv, RecordMode PROVE StoreInv'
  OBVIOUS
<1>1. Types'
  BY DEF RecordMode, StoreInv, Types, ModeOf
<1>2. PhaseInv' /\ ~ InBlock'
  BY DEF RecordMode, StoreInv, PhaseInv, InBlock, ModeOf
<1>3. Sane(stored, lastProcessedHeight)' /\ Single(stored)'
  BY DEF RecordMode, StoreInv, TableInv
<1> QED BY <1>1, <1>2, <1>3, OutsideKeepsInv

LEMMA StoreInvNext == StoreInv /\ [Next]_vars => StoreInv'
<1> SUFFICES ASSUME StoreInv, [Next]_vars PROVE StoreInv'
  OBVIOUS
<1>1. CASE Start
  BY <1>1, StartKeepsInv
<1>2. CASE SyncTables
  BY <1>2, SyncTablesKeepsInv
<1>3. CASE RecordMode
  BY <1>3, RecordModeKeepsInv
<1>4. CASE BeginBlock
  BY <1>4, BeginBlockKeepsInv
<1>5. CASE CommitBlock
  BY <1>5, CommitBlockKeepsInv
<1>6. CASE Exit
  BY <1>6, ExitKeepsInv
<1>7. ASSUME NEW w \in Writers, Save(w) PROVE StoreInv'
  BY <1>7, SetUpdatesKeepsInv, SetFindsNoneKeepsInv, SetUpsertsKeepsInv, SetClosesKeepsInv,
     SetCreatesKeepsInv DEF Save
<1>8. ASSUME NEW w \in Writers, NEW id \in Ids, Remove(w, id) PROVE StoreInv'
  BY <1>8, RemoveKeepsInv
<1>9. ASSUME NEW w \in Writers, NEW ids \in SUBSET Ids, NEW val \in Values,
             BulkCreate(w, ids, val)
      PROVE  StoreInv'
  BY <1>9, BulkCreateKeepsInv
<1>10. CASE UNCHANGED vars
  BY <1>10 DEF vars, database, StoreInv, Types, PhaseInv, TableInv, SaveInv, ViewInv, InBlock,
     ModeOf, Replacing
<1> QED BY <1>1, <1>2, <1>3, <1>4, <1>5, <1>6, <1>7, <1>8, <1>9, <1>10 DEF Next

LEMMA StoreInvHolds == Spec => []StoreInv
<1>1. StoreInv /\ [Next]_vars => StoreInv'
  BY StoreInvNext
<1> QED BY <1>1, StoreInvInit, PTL DEF Spec

-----------------------------------------------------------------------------
(* Theorems.                                                                 *)

\* No row that is committed starts or ends above the last block, and none of an
\* open transaction above the block it indexes: a block that is indexed again
\* meets no version of its own height, whatever crashes lie between.
THEOREM RowsOfThePast == Spec => []NothingFromTheFuture
<1>1. StoreInv => NothingFromTheFuture
  BY DEF StoreInv, TableInv, NothingFromTheFuture, Sane
<1> QED BY <1>1, StoreInvHolds, PTL

\* The insert that ends a save with history meets the exclusion constraint only
\* at a version created since by another handler of the same block.
THEOREM CollidesWithOwnBlock == Spec => []OnlyOwnBlockConflicts
<1>1. StoreInv => OnlyOwnBlockConflicts
  <2> SUFFICES ASSUME StoreInv, NEW w \in Writers, op[w].at = "create",
                      NEW r \in Conflicts(op[w].id, op[w].val)
               PROVE  r.lo = blockHeight
    BY DEF OnlyOwnBlockConflicts
  <2> DEFINE id == op[w].id
             v == Version(id, op[w].val)
  <2>1. InBlock
    BY DEF StoreInv, PhaseInv, NoOps, Idle
  <2>2. blockHeight \in Nat /\ blockHeight > 0 /\ Sane(rows, blockHeight) /\ rows \subseteq Row
    BY <2>1, PositiveHeight DEF StoreInv, TableInv, Types
  <2>3. v.lo = blockHeight /\ v.hi = Open
    BY DEF Version
  <2>4. r \in rows /\ r.id = id /\ \E h \in {r.lo, blockHeight} : Contains(r, h) /\ Contains(v, h)
    BY <2>3 DEF Conflicts, Overlaps, RowsOf
  <2> HIDE DEF v, id
  <2>5. Contains(r, blockHeight)
    BY <2>2, <2>3, <2>4 DEF Contains, Sane, Row, Open
  <2> QED BY <2>4, <2>5 DEF StoreInv, SaveInv, id
<1> QED BY <1>1, StoreInvHolds, PTL

\* Once it is in the metadata, no start changes the mode, whatever its command
\* line asks for.
THEOREM ModeStays == Spec => ModeIsKept
<1>1. StoreInv /\ [Next]_vars => [modeStored # Absent => modeStored' = modeStored]_vars
  <2> SUFFICES ASSUME StoreInv, Next, modeStored # Absent
               PROVE  modeStored' = modeStored
    OBVIOUS
  <2>1. CASE RecordMode
    BY <2>1 DEF RecordMode, StoreInv, PhaseInv, Absent
  <2>2. CASE ~ RecordMode
    BY <2>2 DEF Next, Start, SyncTables, BeginBlock, CommitBlock, Exit, Save, SetUpdates,
       SetFindsNone, SetUpserts, SetCloses, SetCreates, Remove, BulkCreate, database
  <2> QED BY <2>1, <2>2
<1> QED BY <1>1, StoreInvHolds, PTL DEF Spec, ModeIsKept

-----------------------------------------------------------------------------
(* The store implements VersionedStore: latest is the last committed height, *)
(* past the readable heights of the committed rows.                          *)

Past == [k \in IF tables = "ranged" THEN 0 .. lastProcessedHeight ELSE {lastProcessedHeight}
           |-> AsOf(stored, k)]

LEMMA InitRefines == Init => Versions!Init
<1> SUFFICES ASSUME Init PROVE Versions!Init
  OBVIOUS
<1>1. tables = "none" /\ lastProcessedHeight = 0 /\ stored = NoRows /\ ~ InBlock
      /\ draft = Nothing
  BY DEF Init, InBlock
<1>2. AsOf(stored, 0) = Nothing
  BY <1>1, NoRowsAreFine
<1>3. Past = [k \in {0} |-> Nothing]
  BY <1>1, <1>2 DEF Past
<1> QED BY <1>1, <1>3 DEF Versions!Init, Versions!Nothing, Versions!Absent, Nothing, Absent, Past

\* A handler's statement writes the draft or does not touch it.
LEMMA WriteRefines ==
  ASSUME StoreInv, StoreInv', InBlock, UNCHANGED <<database, phase>>
  PROVE  Versions!Write
<1>1. InBlock' /\ UNCHANGED <<tables, stored, lastProcessedHeight>>
  BY DEF InBlock, database
<1>2. draft' \in [Ids -> Values \cup {Absent}]
  BY DEF StoreInv, Types
<1> QED BY <1>1, <1>2 DEF Versions!Write, Versions!Absent, Absent

LEMMA BeginRefines ==
  ASSUME StoreInv, BeginBlock
  PROVE  Versions!Begin
<1>1. /\ ~ InBlock /\ InBlock' /\ draft' = AsOf(stored, lastProcessedHeight)
      /\ UNCHANGED <<tables, stored, lastProcessedHeight>>
  BY DEF BeginBlock, InBlock, database
<1>2. Past[lastProcessedHeight] = AsOf(stored, lastProcessedHeight)
  BY DEF Past, StoreInv, Types
<1> QED BY <1>1, <1>2 DEF Versions!Begin, Past

LEMMA CommitRefines ==
  ASSUME StoreInv, CommitBlock
  PROVE  Versions!Commit
<1> DEFINE keeps == tables = "ranged"
           dom == IF keeps THEN 0 .. blockHeight ELSE {blockHeight}
           next(k) == IF k = blockHeight THEN draft
                      ELSE IF k > lastProcessedHeight THEN Past[lastProcessedHeight]
                      ELSE Past[k]
<1>1. /\ InBlock /\ op = NoOps /\ stored' = rows /\ lastProcessedHeight' = blockHeight
      /\ ~ InBlock' /\ draft' = Nothing /\ tables' = tables
  BY DEF CommitBlock, InBlock
<1>2. /\ blockHeight \in Nat /\ lastProcessedHeight \in Nat /\ blockHeight > lastProcessedHeight
      /\ stored \in SUBSET Row /\ Sane(stored, lastProcessedHeight) /\ Single(stored)
  BY <1>1 DEF StoreInv, Types, TableInv
<1>3. draft = AsOf(rows, blockHeight)
  BY <1>1, DraftIsView
<1>4. ASSUME NEW k \in dom PROVE AsOf(rows, k) = next(k)
  <2>1. CASE k = blockHeight
    BY <2>1, <1>3
  <2>2. CASE k # blockHeight
    <3>1. keeps /\ k \in Nat /\ k < blockHeight
      BY <2>2, <1>2
    <3>2. AsOf(rows, k) = AsOf(stored, k)
      BY <3>1, <1>1 DEF StoreInv, ViewInv
    <3>3. CASE k > lastProcessedHeight
      <4>1. AsOf(stored, k) = AsOf(stored, lastProcessedHeight)
        BY <3>1, <3>3, <1>2, ViewAbove
      <4>2. Past[lastProcessedHeight] = AsOf(stored, lastProcessedHeight)
        BY <1>2 DEF Past
      <4> QED BY <2>2, <3>2, <3>3, <4>1, <4>2
    <3>4. CASE ~ (k > lastProcessedHeight)
      <4>1. Past[k] = AsOf(stored, k)
        BY <3>1, <3>4, <1>2 DEF Past
      <4> QED BY <2>2, <3>2, <3>4, <4>1
    <3> QED BY <3>3, <3>4
  <2> QED BY <2>1, <2>2
<1>5. [k \in dom |-> AsOf(rows, k)] = [k \in dom |-> next(k)]
  BY <1>4
<1>6. Past' = [k \in dom |-> AsOf(rows, k)]
  BY <1>1 DEF Past
<1>7. Versions!Readable(lastProcessedHeight', tables = "ranged") = dom
  BY <1>1 DEF Versions!Readable
<1>8. Past' = [k \in Versions!Readable(lastProcessedHeight', tables = "ranged") |->
                 IF k = lastProcessedHeight' THEN draft
                 ELSE IF k > lastProcessedHeight THEN Past[lastProcessedHeight]
                 ELSE Past[k]]
  BY <1>1, <1>5, <1>6, <1>7
<1>9. InBlock /\ lastProcessedHeight' > lastProcessedHeight /\ InBlock' = FALSE
  BY <1>1, <1>2
<1>10. draft' = Versions!Nothing
  BY <1>1 DEF Versions!Nothing, Versions!Absent, Nothing, Absent
<1>11. UNCHANGED (tables = "ranged")
  BY <1>1
<1> QED BY <1>8, <1>9, <1>10, <1>11 DEF Versions!Commit, Past

LEMMA ExitRefines ==
  ASSUME Exit
  PROVE  Versions!Abort
<1>1. ~ InBlock' /\ draft' = Nothing /\ UNCHANGED <<tables, stored, lastProcessedHeight>>
  BY DEF Exit, InBlock, database
<1> QED BY <1>1 DEF Versions!Abort, Versions!Nothing, Versions!Absent, Nothing, Absent

LEMMA StutterRefines ==
  ASSUME UNCHANGED <<tables, stored, lastProcessedHeight, draft>>, InBlock' = InBlock
  PROVE  UNCHANGED Versions!vars
  BY DEF Versions!vars

LEMMA SyncTablesRefines ==
  ASSUME StoreInv, SyncTables
  PROVE  Versions!Next \/ UNCHANGED Versions!vars
<1>1. ~ InBlock /\ InBlock' = InBlock /\ UNCHANGED <<stored, lastProcessedHeight, draft>>
  BY DEF SyncTables, InBlock
<1>2. CASE tables = "none"
  <2>1. lastProcessedHeight = 0
    BY <1>2 DEF StoreInv, PhaseInv
  <2>2. (IF tables = "ranged" THEN 0 .. lastProcessedHeight ELSE {lastProcessedHeight}) = {0}
    BY <2>1
  <2>3. (IF tables' = "ranged" THEN 0 .. lastProcessedHeight' ELSE {lastProcessedHeight'}) = {0}
    BY <1>1, <2>1
  <2>4. Past' = Past
    BY <1>1, <2>2, <2>3 DEF Past
  <2>5. (tables' = "ranged") \in BOOLEAN
    OBVIOUS
  <2>6. Versions!SetUp
    BY <1>1, <2>1, <2>4, <2>5 DEF Versions!SetUp, Past
  <2> QED BY <2>6 DEF Versions!Next
<1>3. CASE tables # "none"
  <2>1. tables' = tables
    BY <1>3 DEF SyncTables
  <2> QED BY <1>1, <2>1, StutterRefines
<1> QED BY <1>2, <1>3

LEMMA NextRefines ==
  ASSUME StoreInv, StoreInv', [Next]_vars
  PROVE  Versions!Next \/ UNCHANGED Versions!vars
<1>1. CASE Start \/ RecordMode \/ UNCHANGED vars
  <2>1. UNCHANGED <<tables, stored, lastProcessedHeight, draft>> /\ InBlock' = InBlock
    BY <1>1 DEF Start, RecordMode, vars, database, InBlock
  <2> QED BY <2>1, StutterRefines
<1>2. CASE SyncTables
  BY <1>2, SyncTablesRefines
<1>3. CASE BeginBlock
  BY <1>3, BeginRefines DEF Versions!Next
<1>4. CASE CommitBlock
  BY <1>4, CommitRefines DEF Versions!Next
<1>5. CASE Exit
  BY <1>5, ExitRefines DEF Versions!Next
<1>6. ASSUME NEW w \in Writers,
             \/ Save(w)
             \/ \E id \in Ids : Remove(w, id)
             \/ \E ids \in SUBSET Ids \ {{}}, val \in Values : BulkCreate(w, ids, val)
      PROVE  Versions!Next
  <2>1. InBlock /\ UNCHANGED <<database, phase>>
    <3>1. CASE Save(w)
      <4>1. CASE SetCloses(w)
        BY <4>1 DEF SetCloses
      <4>2. CASE SetCreates(w)
        BY <4>2 DEF SetCreates
      <4> QED BY <3>1, <4>1, <4>2 DEF Save, SetUpdates, SetFindsNone, SetUpserts
    <3> QED BY <1>6, <3>1 DEF Remove, BulkCreate
  <2> QED BY <2>1, WriteRefines DEF Versions!Next
<1> QED BY <1>1, <1>2, <1>3, <1>4, <1>5, <1>6 DEF Next

\* Whatever the interleaving of the statements of concurrent saves, and whatever
\* crashes: the entities as of a committed height are what the completed saves
\* of that block left, and no later block changes them.
THEOREM StoreImplementsVersions == Spec => ReadsAsOf
<1>1. StoreInv /\ StoreInv' /\ [Next]_vars => [Versions!Next]_(Versions!vars)
  BY NextRefines
<1> QED BY <1>1, InitRefines, StoreInvHolds, PTL DEF Spec, ReadsAsOf, Versions!Spec

=============================================================================
