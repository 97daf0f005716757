---------------------- MODULE BlockPipelineOrderProofs ----------------------
(***************************************************************************)
(* The order of the commits of BlockPipeline, for every value of its       *)
(* constants: without data sources made from templates, and with a steady  *)
(* head where a dictionary is used, blocks travel in ascending order, none *)
(* that is asked for is skipped, and the pipeline implements               *)
(* InOrderIndexing.                                                        *)
(***************************************************************************)
EXTENDS BlockPipelineProofs

-----------------------------------------------------------------------------
(* Sequences of heights that are in order and cover an interval. *)

\* Where the members of a concatenation come from.
LEMMA ConcatMembers ==
  ASSUME NEW s \in Seq(Nat), NEW t \in Seq(Nat), NEW i \in 1 .. Len(s \o t)
  PROVE  \/ i \in 1 .. Len(s) /\ (s \o t)[i] = s[i]
         \/ /\ i - Len(s) \in 1 .. Len(t) /\ i > Len(s)
            /\ (s \o t)[i] = t[i - Len(s)]
<1> DEFINE m == Len(s)
           n == Len(t)
<1>1. m \in Nat /\ n \in Nat
  BY LenProperties
<1>2. Len(s \o t) = m + n
  BY ConcatProperties
<1>3. (s \o t)[i] = IF i <= m THEN s[i] ELSE t[i - m]
  BY <1>2, ConcatProperties
<1> HIDE DEF m, n
<1>4. i \in 1 .. m \/ (i - m \in 1 .. n /\ i > m)
  BY <1>1, <1>2
<1> QED BY <1>1, <1>2, <1>3, <1>4 DEF m, n

\* Every member of the two parts is one of the concatenation.
LEMMA ConcatHolds ==
  ASSUME NEW s \in Seq(Nat), NEW t \in Seq(Nat)
  PROVE  /\ \A i \in 1 .. Len(s) : \E k \in 1 .. Len(s \o t) : (s \o t)[k] = s[i]
         /\ \A i \in 1 .. Len(t) : \E k \in 1 .. Len(s \o t) : (s \o t)[k] = t[i]
<1> DEFINE m == Len(s)
           n == Len(t)
<1>1. m \in Nat /\ n \in Nat
  BY LenProperties
<1>2. Len(s \o t) = m + n
  BY ConcatProperties
<1>3. \A k \in 1 .. m + n : (s \o t)[k] = IF k <= m THEN s[k] ELSE t[k - m]
  BY ConcatProperties
<1> HIDE DEF m, n
<1>4. ASSUME NEW i \in 1 .. m
      PROVE  \E k \in 1 .. m + n : (s \o t)[k] = s[i]
  <2>1. i \in 1 .. m + n /\ i <= m
    BY <1>1
  <2> QED BY <2>1, <1>3
<1>5. ASSUME NEW i \in 1 .. n
      PROVE  \E k \in 1 .. m + n : (s \o t)[k] = t[i]
  <2>1. m + i \in 1 .. m + n /\ ~ (m + i <= m) /\ (m + i) - m = i
    BY <1>1
  <2> QED BY <2>1, <1>3
<1> QED BY <1>2, <1>4, <1>5 DEF m, n

\* A sequence in order up to mid followed by one in order from mid is in order.
LEMMA InOrderConcat ==
  ASSUME NEW s \in Seq(Nat), NEW t \in Seq(Nat),
         NEW lo \in Nat, NEW mid \in Nat, NEW hi \in Nat, lo <= mid, mid <= hi,
         InOrder(s, lo, mid), InOrder(t, mid, hi)
  PROVE  InOrder(s \o t, lo, hi)
<1> DEFINE c == s \o t
<1>len. Len(s) \in Nat /\ Len(t) \in Nat
  BY LenProperties
<1>s. /\ \A i \in 1 .. Len(s) : s[i] \in Nat /\ lo < s[i] /\ s[i] <= mid
      /\ \A i, j \in 1 .. Len(s) : i < j => s[i] < s[j]
  BY ElementOfSeq DEF InOrder, Ascending
<1>t. /\ \A i \in 1 .. Len(t) : t[i] \in Nat /\ mid < t[i] /\ t[i] <= hi
      /\ \A i, j \in 1 .. Len(t) : i < j => t[i] < t[j]
  BY ElementOfSeq DEF InOrder, Ascending
<1>c. \A i \in 1 .. Len(c) :
        \/ i \in 1 .. Len(s) /\ c[i] = s[i]
        \/ i - Len(s) \in 1 .. Len(t) /\ i > Len(s) /\ c[i] = t[i - Len(s)]
  BY ConcatMembers
<1> HIDE DEF c
<1>1. ASSUME NEW i \in 1 .. Len(c) PROVE lo < c[i] /\ c[i] <= hi
  <2>1. CASE i \in 1 .. Len(s) /\ c[i] = s[i]
    <3>1. c[i] \in Nat /\ lo < c[i] /\ c[i] <= mid
      BY <2>1, <1>s
    <3> QED BY <3>1
  <2>2. CASE i - Len(s) \in 1 .. Len(t) /\ c[i] = t[i - Len(s)]
    <3>1. c[i] \in Nat /\ mid < c[i] /\ c[i] <= hi
      BY <2>2, <1>t
    <3> QED BY <3>1
  <2> QED BY <1>c, <2>1, <2>2
<1>2. ASSUME NEW i \in 1 .. Len(c), NEW j \in 1 .. Len(c), i < j PROVE c[i] < c[j]
  <2>1. CASE i \in 1 .. Len(s) /\ c[i] = s[i] /\ j \in 1 .. Len(s) /\ c[j] = s[j]
    BY <2>1, <1>2, <1>s
  <2>2. CASE /\ i \in 1 .. Len(s) /\ c[i] = s[i]
             /\ j - Len(s) \in 1 .. Len(t) /\ c[j] = t[j - Len(s)]
    <3>1. c[i] \in Nat /\ c[i] <= mid
      BY <2>2, <1>s
    <3>2. c[j] \in Nat /\ mid < c[j]
      BY <2>2, <1>t
    <3> QED BY <3>1, <3>2
  <2>3. CASE /\ i - Len(s) \in 1 .. Len(t) /\ i > Len(s) /\ c[i] = t[i - Len(s)]
             /\ j \in 1 .. Len(s)
    BY <2>3, <1>2, <1>len
  <2>4. CASE /\ i - Len(s) \in 1 .. Len(t) /\ c[i] = t[i - Len(s)]
             /\ j - Len(s) \in 1 .. Len(t) /\ c[j] = t[j - Len(s)]
    <3>1. i - Len(s) < j - Len(s)
      BY <1>2, <1>len
    <3> QED BY <2>4, <3>1, <1>t
  <2> QED BY <1>c, <2>1, <2>2, <2>3, <2>4
<1> QED BY <1>1, <1>2 DEF InOrder, Ascending, c

\* What two adjacent intervals' sequences cover, their concatenation covers.
LEMMA CoversConcat ==
  ASSUME NEW s \in Seq(Nat), NEW t \in Seq(Nat),
         NEW lo \in Nat, NEW mid \in Nat, NEW hi \in Nat, NEW ds \in BOOLEAN,
         Covers(s, lo, mid, ds), Covers(t, mid, hi, ds)
  PROVE  Covers(s \o t, lo, hi, ds)
<1> SUFFICES ASSUME NEW h \in (lo + 1) .. hi, Needed(h, ds)
             PROVE  \E k \in 1 .. Len(s \o t) : (s \o t)[k] = h
  BY DEF Covers
<1>1. CASE h <= mid
  <2>1. h \in (lo + 1) .. mid
    BY <1>1
  <2>2. PICK i \in 1 .. Len(s) : s[i] = h
    BY <2>1 DEF Covers
  <2> QED BY <2>2, ConcatHolds
<1>2. CASE h > mid
  <2>1. h \in (mid + 1) .. hi
    BY <1>2
  <2>2. PICK i \in 1 .. Len(t) : t[i] = h
    BY <2>1 DEF Covers
  <2> QED BY <2>2, ConcatHolds
<1> QED BY <1>1, <1>2

\* A range holds every height from its start to its end, in order.
LEMMA RangeInOrder ==
  ASSUME NEW start \in Nat \ {0}, NEW end \in Nat, start <= end, NEW ds \in BOOLEAN
  PROVE  /\ LodashRange(start, end + 1) \in Seq(Nat)
         /\ InOrder(LodashRange(start, end + 1), start - 1, end)
         /\ Covers(LodashRange(start, end + 1), start - 1, end, ds)
<1> DEFINE next == end + 1
           n    == next - start
           r    == LodashRange(start, next)
<1>1. next \in Nat /\ start <= next /\ n \in Nat
  OBVIOUS
<1>2. r \in Seq(Nat) /\ Len(r) = n
  BY <1>1, LodashRangeSeq
<1>3. r = [i \in 1 .. n |-> start + i - 1]
  BY <1>1 DEF LodashRange
<1>4. \A i \in 1 .. n : r[i] = start + i - 1
  BY <1>3
<1> HIDE DEF r
<1>5. InOrder(r, start - 1, end)
  <2>1. ASSUME NEW i \in 1 .. n PROVE start - 1 < r[i] /\ r[i] <= end
    BY <1>1, <1>4
  <2>2. ASSUME NEW i \in 1 .. n, NEW j \in 1 .. n, i < j PROVE r[i] < r[j]
    <3>1. r[i] = start + i - 1 /\ r[j] = start + j - 1
      BY <1>4
    <3> QED BY <3>1, <2>2, <1>1
  <2> QED BY <1>2, <2>1, <2>2 DEF InOrder, Ascending
<1>6. ASSUME NEW h \in (start - 1 + 1) .. end
      PROVE  \E i \in 1 .. Len(r) : r[i] = h
  <2>1. h - start + 1 \in 1 .. n /\ r[h - start + 1] = h
    BY <1>4
  <2> QED BY <2>1, <1>2
<1> QED BY <1>2, <1>5, <1>6 DEF Covers, r

\* A batch of the dictionary holds every match from the query's start to its
\* last height, in order.
LEMMA BatchInOrder ==
  ASSUME NEW start \in Nat \ {0}, NEW last \in Nat, NEW ds \in BOOLEAN,
         last \in NeededIn(start, last, ds),
         NEW batch \in [1 .. Cardinality(NeededIn(start, last, ds)) -> NeededIn(start, last, ds)],
         Lists(batch, NeededIn(start, last, ds))
  PROVE  /\ batch \in Seq(Nat)
         /\ batch[Len(batch)] = last
         /\ InOrder(batch, start - 1, last)
         /\ Covers(batch, start - 1, last, ds)
<1> DEFINE S == NeededIn(start, last, ds)
<1>1. batch \in Seq(Nat) /\ Len(batch) \in Nat \ {0} /\ batch[Len(batch)] \in S
  BY BatchSeq
<1>2. \A h \in S : h \in start .. last
  BY DEF NeededIn
<1>3. Ascending(batch) /\ {batch[i] : i \in 1 .. Len(batch)} = S
  BY DEF Lists
<1>4. batch[Len(batch)] = last
  <2>1. PICK i \in 1 .. Len(batch) : batch[i] = last
    BY <1>3
  <2>2. CASE i = Len(batch)
    BY <2>1, <2>2
  <2>3. CASE i < Len(batch)
    <3>1. batch[i] < batch[Len(batch)]
      BY <1>1, <1>3, <2>3 DEF Ascending
    <3>2. batch[Len(batch)] \in start .. last
      BY <1>1, <1>2
    <3> QED BY <2>1, <3>1, <3>2
  <2> QED BY <1>1, <2>2, <2>3
<1>5. InOrder(batch, start - 1, last)
  <2>1. \A i \in 1 .. Len(batch) : batch[i] \in start .. last
    BY <1>2, <1>3
  <2> QED BY <1>3, <2>1 DEF InOrder
<1>6. Covers(batch, start - 1, last, ds)
  <2> SUFFICES ASSUME NEW h \in (start - 1 + 1) .. last, Needed(h, ds)
               PROVE  \E i \in 1 .. Len(batch) : batch[i] = h
    BY DEF Covers
  <2>1. h \in start .. last
    OBVIOUS
  <2>2. h \in S
    BY <2>1 DEF NeededIn
  <2> QED BY <2>2, <1>3
<1> QED BY <1>1, <1>4, <1>5, <1>6

\* The first of a sequence in order is the next needed height: what follows is
\* in order above it and covers what is above it, and nothing below it is needed.
LEMMA InOrderFirst ==
  ASSUME NEW h \in Nat, NEW s \in Seq(Nat), NEW lo \in Nat, NEW hi \in Nat,
         NEW ds \in BOOLEAN,
         InOrder(<<h>> \o s, lo, hi), Covers(<<h>> \o s, lo, hi, ds)
  PROVE  /\ lo < h /\ h <= hi
         /\ InOrder(s, h, hi)
         /\ Covers(s, h, hi, ds)
         /\ \A k \in (lo + 1) .. (h - 1) : ~ Needed(k, ds)
<1> DEFINE c == <<h>> \o s
           n == Len(s)
<1>1. n \in Nat
  BY LenProperties
<1>2. <<h>> \in Seq(Nat) /\ Len(<<h>>) = 1
  OBVIOUS
<1>3. c \in Seq(Nat) /\ Len(c) = 1 + n
  BY <1>2, ConcatProperties
<1>4. \A i \in 1 .. 1 + n : c[i] = IF i <= 1 THEN <<h>>[i] ELSE s[i - 1]
  BY <1>2, ConcatProperties
<1>5. c[1] = h
  BY <1>1, <1>4
<1>6. \A i \in 1 .. n : s[i] = c[i + 1] /\ i + 1 \in 1 .. Len(c)
  BY <1>1, <1>3, <1>4
<1>7. /\ \A i, j \in 1 .. Len(c) : i < j => c[i] < c[j]
      /\ \A i \in 1 .. Len(c) : lo < c[i] /\ c[i] <= hi
  BY DEF InOrder, Ascending
<1>8. \A k \in (lo + 1) .. hi : Needed(k, ds) => \E i \in 1 .. Len(c) : c[i] = k
  BY DEF Covers
<1>9. ASSUME NEW i \in 1 .. Len(c), i # 1
      PROVE  i - 1 \in 1 .. n /\ c[i] = s[i - 1] /\ h < c[i]
  <2> HIDE DEF c, n
  <2>1. 1 \in 1 .. Len(c) /\ i \in 1 .. 1 + n /\ 1 < i /\ i - 1 \in 1 .. n
    BY <1>1, <1>3, <1>9
  <2>2. c[i] = s[i - 1]
    BY <1>1, <1>4, <2>1
  <2>3. c[1] < c[i]
    BY <1>7, <2>1
  <2> QED BY <1>5, <2>1, <2>2, <2>3
<1>10. \A i \in 1 .. n : s[i] \in Nat
  BY ElementOfSeq
<1> HIDE DEF c, n
<1>11. lo < h /\ h <= hi
  BY <1>1, <1>3, <1>5, <1>7
<1>12. InOrder(s, h, hi)
  <2>1. ASSUME NEW i \in 1 .. n PROVE h < s[i] /\ s[i] <= hi
    <3>1. i + 1 \in 1 .. Len(c) /\ 1 \in 1 .. Len(c) /\ 1 < i + 1
      BY <1>1, <1>3
    <3>2. c[1] < c[i + 1] /\ c[i + 1] <= hi
      BY <3>1, <1>7
    <3> QED BY <3>2, <1>5, <1>6
  <2>2. \A i, j \in 1 .. n : i < j => s[i] < s[j]
    BY <1>1, <1>6, <1>7
  <2> QED BY <2>1, <2>2 DEF InOrder, Ascending, n
<1>13. ASSUME NEW k \in (h + 1) .. hi, Needed(k, ds)
       PROVE  \E i \in 1 .. n : s[i] = k
  <2>1. k \in (lo + 1) .. hi
    BY <1>11
  <2>2. PICK i \in 1 .. Len(c) : c[i] = k
    BY <2>1, <1>8, <1>13
  <2>3. i # 1
    BY <2>2, <1>5
  <2> QED BY <2>2, <2>3, <1>9
<1>14. ASSUME NEW k \in (lo + 1) .. (h - 1), Needed(k, ds)
       PROVE  FALSE
  <2>1. k \in (lo + 1) .. hi /\ k < h
    BY <1>11
  <2>2. PICK i \in 1 .. Len(c) : c[i] = k
    BY <2>1, <1>8, <1>14
  <2> QED BY <2>1, <2>2, <1>5, <1>9
<1> QED BY <1>11, <1>12, <1>13, <1>14 DEF Covers, n

\* A non-empty sequence is its head followed by its tail.
LEMMA HeadThenTail ==
  ASSUME NEW q \in Seq(Nat), q # <<>>
  PROVE  q = <<Head(q)>> \o Tail(q)
<1>1. Head(q) \in Nat /\ Tail(q) \in Seq(Nat)
  BY HeadTailProperties
<1>2. Len(q) \in Nat \ {0}
  BY EmptySeq
<1>3. q = SubSeq(q, 1, Len(q))
  BY SubSeqFull
<1>4. SubSeq(q, 1, Len(q)) = <<q[1]>> \o SubSeq(q, 2, Len(q))
  <2>1. 1 \in 1 .. Len(q) /\ Len(q) \in 1 .. Len(q)
    BY <1>2
  <2>2. SubSeq(q, 1, Len(q)) = <<q[1]>> \o SubSeq(q, 1 + 1, Len(q))
    BY <2>1, SubSeqRecursiveFirst
  <2> QED BY <2>2
<1>5. Tail(q) = SubSeq(q, 2, Len(q))
  BY TailIsSubSeq
<1>6. <<q[1]>> = <<Head(q)>>
  OBVIOUS
<1> DEFINE r == <<Head(q)>> \o Tail(q)
<1>7. SubSeq(q, 1, Len(q)) = r
  BY <1>4, <1>5, <1>6, Zenon
<1> HIDE DEF r
<1>8. q = r
  BY <1>3, <1>7
<1> QED BY <1>8 DEF r

LEMMA ConcatAssoc == \A a, b, c \in Seq(Nat) : (a \o b) \o c = a \o (b \o c)
BY ConcatAssociative, SMTT(60)

Reassociates(a, b, c) == (a \o b) \o c = a \o (b \o c)

\* The same, in a form that is cited at three given sequences.
LEMMA ConcatReassociates == \A a, b, c \in Seq(Nat) : Reassociates(a, b, c)
BY ConcatAssoc, Zenon DEF Reassociates

Joined(a, b, c, d) == a \o (b \o (c \o d))
AppendsToLast(a, b, c, d, e) == Joined(a, b, c, d \o e) = Joined(a, b, c, d) \o e

\* What is put at the end of the last of four queues is at the end of the whole.
LEMMA AppendToLast ==
  \A a, b, c, d, e \in Seq(Nat) : AppendsToLast(a, b, c, d, e)
<1> SUFFICES ASSUME NEW a \in Seq(Nat), NEW b \in Seq(Nat), NEW c \in Seq(Nat),
                    NEW d \in Seq(Nat), NEW e \in Seq(Nat)
             PROVE  Joined(a, b, c, d \o e) = Joined(a, b, c, d) \o e
  BY DEF AppendsToLast
<1>1. c \o d \in Seq(Nat)
  BY ConcatProperties
<1>2. b \o (c \o d) \in Seq(Nat)
  BY <1>1, ConcatProperties
<1>3. Reassociates(c, d, e)
  BY ConcatReassociates, Zenon
<1>4. Reassociates(b, c \o d, e)
  BY <1>1, ConcatReassociates, Zenon
<1>5. Reassociates(a, b \o (c \o d), e)
  BY <1>2, ConcatReassociates, Zenon
<1> QED BY <1>3, <1>4, <1>5, Zenon DEF Joined, Reassociates

-----------------------------------------------------------------------------
(* The invariant. *)

\* The height everything up to which is committed or on its way.
Buffered == IF latestBufferedHeight # 0 THEN latestBufferedHeight ELSE Base

\* The blocks on their way are in order between Base and Buffered and hold
\* every match there; the next range starts right after Buffered.
OrderInv ==
  /\ Base <= Buffered
  /\ InOrder(Pipeline, Base, Buffered)
  /\ Covers(Pipeline, Base, Buffered, FALSE)
  /\ up /\ latestBufferedHeight = 0 => initBlockHeight = Base + 1

\* No source is created, so nothing under way was asked for before a reset.
NoResetInv ==
  /\ dsStored = FALSE /\ dsLoaded = FALSE /\ query.ds = FALSE /\ indexing.newDs = FALSE
  /\ query # NoQuery => query.start = GetStartBlockHeight
  /\ fetching.bufferedHeight <= latestBufferedHeight

\* Fetched blocks exist.
ServedInv ==
  /\ indexing.height <= chainHeight
  /\ \A i \in 1 .. Len(blockBuffer) : blockBuffer[i] <= chainHeight

LEMMA BaseNat ==
  ASSUME TypeOK
  PROVE  Base \in Nat /\ Buffered \in Nat
BY ConstantsOK DEF TypeOK, Base, Buffered

LEMMA PipelineSeq ==
  ASSUME TypeOK
  PROVE  /\ Current \in Seq(Nat) /\ Pipeline \in Seq(Nat)
         /\ blockBuffer \in Seq(Nat) /\ fetching.blocks \in Seq(Nat)
         /\ blockNumberBuffer \in Seq(Nat)
<1>1. /\ blockBuffer \in Seq(Nat) /\ fetching.blocks \in Seq(Nat)
      /\ blockNumberBuffer \in Seq(Nat)
  BY DEF TypeOK
<1>2. Current \in Seq(Nat)
  <2>1. indexing.height \in Nat
    BY DEF TypeOK
  <2>2. <<indexing.height>> \in Seq(Nat)
    BY <2>1
  <2> QED BY <2>2, EmptyQueue DEF Current
<1>3. fetching.blocks \o blockNumberBuffer \in Seq(Nat)
  BY <1>1, ConcatProperties
<1>4. blockBuffer \o (fetching.blocks \o blockNumberBuffer) \in Seq(Nat)
  BY <1>1, <1>3, ConcatProperties
<1>5. Pipeline \in Seq(Nat)
  BY <1>2, <1>4, ConcatProperties DEF Pipeline
<1> QED BY <1>1, <1>2, <1>5

\* The next range starts right after what is buffered.
LEMMA StartIsNext ==
  ASSUME TypeOK, OrderInv, up
  PROVE  GetStartBlockHeight = Buffered + 1
BY DEF TypeOK, OrderInv, Buffered, GetStartBlockHeight

\* A step that moves blocks along the pipeline keeps the invariant.
LEMMA OrderInvSame ==
  ASSUME OrderInv, Pipeline' = Pipeline,
         UNCHANGED <<up, initBlockHeight, latestBufferedHeight, lastProcessedHeight>>
  PROVE  OrderInv'
BY DEF OrderInv, Base, Buffered, InOrder, Ascending, Covers

\* A step that puts heights into the number queue keeps the invariant when they
\* are in order and cover what lies between the old and the new buffered height.
LEMMA OrderInvExtend ==
  ASSUME TypeOK, OrderInv,
         NEW add \in Seq(Nat), NEW b \in Nat \ {0}, Buffered <= b,
         InOrder(add, Buffered, b), Covers(add, Buffered, b, FALSE),
         latestBufferedHeight' = b, blockNumberBuffer' = blockNumberBuffer \o add,
         UNCHANGED <<up, initBlockHeight, lastProcessedHeight, blockBuffer, fetching, indexing>>
  PROVE  OrderInv'
<1>1. Pipeline' = Pipeline \o add
  <2>1. /\ Current \in Seq(Nat) /\ blockBuffer \in Seq(Nat)
        /\ fetching.blocks \in Seq(Nat) /\ blockNumberBuffer \in Seq(Nat)
    BY PipelineSeq
  <2>2. Pipeline = Joined(Current, blockBuffer, fetching.blocks, blockNumberBuffer)
    BY DEF Pipeline, Joined
  <2>3. Pipeline' = Joined(Current, blockBuffer, fetching.blocks, blockNumberBuffer \o add)
    BY DEF Pipeline, Current, Joined
  <2>4. AppendsToLast(Current, blockBuffer, fetching.blocks, blockNumberBuffer, add)
    BY <2>1, AppendToLast
  <2> QED BY <2>2, <2>3, <2>4, Zenon DEF AppendsToLast
<1>2. Base' = Base /\ Buffered' = b
  BY DEF Base, Buffered
<1>3. Pipeline \in Seq(Nat) /\ Base \in Nat /\ Buffered \in Nat
  BY PipelineSeq, BaseNat
<1>4. Base <= Buffered /\ InOrder(Pipeline, Base, Buffered) /\ Covers(Pipeline, Base, Buffered, FALSE)
  BY DEF OrderInv
<1>5. InOrder(Pipeline \o add, Base, b)
  BY <1>3, <1>4, InOrderConcat
<1>6. Covers(Pipeline \o add, Base, b, FALSE)
  BY <1>3, <1>4, CoversConcat
<1>7. InOrder(Pipeline, Base, Buffered)'
  BY <1>1, <1>2, <1>5 DEF InOrder, Ascending
<1>8. Covers(Pipeline, Base, Buffered, FALSE)'
  BY <1>1, <1>2, <1>6 DEF Covers
<1>9. Base' <= Buffered'
  BY <1>2, <1>3, <1>4
<1> QED BY <1>7, <1>8, <1>9 DEF OrderInv

-----------------------------------------------------------------------------
(* What each way of filling the number queue adds to it. *)

\* add is what lies between the start of a range and its end b.
Adds(add, start, b) ==
  /\ add \in Seq(Nat) /\ b \in Nat /\ start <= b
  /\ InOrder(add, start - 1, b) /\ Covers(add, start - 1, b, FALSE)

LEMMA PutRangeAdds ==
  ASSUME TypeOK, NEW start \in Nat \ {0}, NEW size \in Nat \ {0}, PutRange(start, size),
         latestFinalizedHeight = 0 \/ start <= latestFinalizedHeight
  PROVE  \E add : /\ Adds(add, start, latestBufferedHeight')
                  /\ blockNumberBuffer' = blockNumberBuffer \o add
<1>1. /\ latestBufferedHeight' \in Nat /\ start <= latestBufferedHeight'
      /\ blockNumberBuffer' = blockNumberBuffer \o LodashRange(start, latestBufferedHeight' + 1)
  BY PutRangeFits
<1>2. Adds(LodashRange(start, latestBufferedHeight' + 1), start, latestBufferedHeight')
  BY <1>1, RangeInOrder DEF Adds
<1> QED BY <1>1, <1>2

LEMMA EmptyAdds ==
  ASSUME NEW start \in Nat \ {0}, NEW b \in Nat, start <= b,
         NeededIn(start, b, FALSE) = {}
  PROVE  Adds(<<>>, start, b)
<1>1. InOrder(<<>>, start - 1, b)
  BY EmptyQueue DEF InOrder, Ascending
<1>2. ASSUME NEW h \in (start - 1 + 1) .. b PROVE ~ Needed(h, FALSE)
  <2>1. h \in start .. b
    OBVIOUS
  <2> QED BY <2>1 DEF NeededIn
<1>3. Covers(<<>>, start - 1, b, FALSE)
  BY <1>2 DEF Covers
<1> QED BY <1>1, <1>3, EmptyQueue DEF Adds

LEMMA BatchAdds ==
  ASSUME NEW start \in Nat \ {0}, NEW last \in Nat, start <= last,
         last \in NeededIn(start, last, FALSE),
         NEW batch \in [1 .. Cardinality(NeededIn(start, last, FALSE))
                          -> NeededIn(start, last, FALSE)],
         Lists(batch, NeededIn(start, last, FALSE))
  PROVE  Adds(batch, start, last) /\ batch[Len(batch)] = last
BY BatchInOrder DEF Adds

\* Every step of fillNextBlockBuffer either adds nothing or adds what lies
\* between the start of the next range and the new buffered height.
LEMMA FillAdds ==
  ASSUME TypeInv, HeadInv, NoResetInv, Fill
  PROVE  \/ UNCHANGED <<latestBufferedHeight, blockNumberBuffer>>
         \/ \E add : /\ Adds(add, GetStartBlockHeight, latestBufferedHeight')
                     /\ blockNumberBuffer' = blockNumberBuffer \o add
<1> DEFINE start == GetStartBlockHeight
<1>query. query # NoQuery => /\ query.start \in Nat \ {0} /\ query.size \in Nat \ {0}
                             /\ query.start <= latestFinalizedHeight
                             /\ query.start = start /\ query.ds = FALSE
  BY DEF TypeInv, TypeOK, HeadInv, NoResetInv
<1>1. CASE FillByRange
  <2>1. start \in Nat \ {0} /\ ScaledBatchSize(batchSizeScale) \in Nat \ {0}
    BY <1>1, StartHeightPos, ScaledBatchSizePos DEF FillByRange, CanFill, TypeInv, TypeOK
  <2>2. /\ PutRange(start, ScaledBatchSize(batchSizeScale))
        /\ ~ (latestFinalizedHeight # 0 /\ start > latestFinalizedHeight)
    BY <1>1 DEF FillByRange, CanFill
  <2> HIDE DEF start
  <2>3. latestFinalizedHeight = 0 \/ start <= latestFinalizedHeight
    BY <2>1, <2>2 DEF TypeInv, TypeOK
  <2>4. \E add : /\ Adds(add, start, latestBufferedHeight')
                 /\ blockNumberBuffer' = blockNumberBuffer \o add
    BY <2>1, <2>2, <2>3, PutRangeAdds DEF TypeInv
  <2> QED BY <2>4 DEF start
<1>2. CASE QueryDictionary \/ DiscardDictionary
  BY <1>2 DEF QueryDictionary, DiscardDictionary, queues
<1>3. CASE DictionaryEmpty
  <2>1. query # NoQuery /\ blockNumberBuffer' = blockNumberBuffer
    BY <1>3 DEF DictionaryEmpty, AnswerArrives
  <2>2. PICK d \in query.start .. chainHeight :
          /\ NeededIn(query.start, Horizon(d), query.ds) = {}
          /\ latestBufferedHeight' = Horizon(d)
    BY <1>3 DEF DictionaryEmpty
  <2>3. Horizon(d) \in Nat /\ query.start <= Horizon(d)
    BY <2>1, <2>2, <1>query, ConstantsOK DEF Horizon, Least, TypeInv, TypeOK
  <2>4. Adds(<<>>, query.start, latestBufferedHeight')
    BY <2>1, <2>2, <2>3, <1>query, EmptyAdds
  <2>5. blockNumberBuffer' = blockNumberBuffer \o <<>>
    <3>1. blockNumberBuffer \in Seq(Nat)
      BY DEF TypeInv, TypeOK
    <3> QED BY <3>1, <2>1, ConcatEmptySeq
  <2> QED BY <2>1, <2>4, <2>5, <1>query
<1>4. CASE DictionaryMatches
  <2>1. query # NoQuery
    BY <1>4 DEF DictionaryMatches, AnswerArrives
  <2>2. PICK last \in query.start .. Least(query.start + QuerySize - 1, chainHeight) :
          LET found == NeededIn(query.start, last, query.ds)
          IN  /\ last \in found
              /\ \E batch \in [1 .. Cardinality(found) -> found] :
                   /\ Lists(batch, found)
                   /\ DictionaryBatch(batch) \/ DictionaryOverflow(batch)
    BY <1>4 DEF DictionaryMatches
  <2> DEFINE found == NeededIn(query.start, last, FALSE)
  <2>3. last \in found /\ last \in Nat /\ query.start <= last
    <3>1. query.start \in Nat /\ query.ds = FALSE
      BY <2>1, <1>query
    <3>2. last \in Nat /\ query.start <= last
      BY ONLY <3>1, last \in query.start .. Least(query.start + QuerySize - 1, chainHeight)
    <3> QED BY <3>1, <3>2, <2>2
  <2>4. PICK batch \in [1 .. Cardinality(found) -> found] :
          /\ Lists(batch, found)
          /\ DictionaryBatch(batch) \/ DictionaryOverflow(batch)
    BY <2>1, <2>2, <1>query
  <2>5. CASE DictionaryBatch(batch)
    <3>1. /\ blockNumberBuffer' = blockNumberBuffer \o batch
          /\ latestBufferedHeight' = batch[Len(batch)]
      BY <2>5 DEF DictionaryBatch, PutAll
    <3>2. Adds(batch, query.start, last) /\ batch[Len(batch)] = last
      BY <2>1, <2>3, <2>4, <1>query, BatchAdds
    <3> QED BY <3>1, <3>2, <2>1, <1>query
  <2>6. CASE DictionaryOverflow(batch)
    <3>1. PutRange(query.start, query.size)
      BY <2>6 DEF DictionaryOverflow
    <3> QED BY <3>1, <2>1, <1>query, PutRangeAdds DEF TypeInv
  <2> QED BY <2>4, <2>5, <2>6
<1>5. CASE DictionaryFails
  <2>1. query # NoQuery /\ PutRange(query.start, query.size)
    BY <1>5 DEF DictionaryFails, AnswerArrives
  <2> QED BY <2>1, <1>query, PutRangeAdds DEF TypeInv
<1> QED BY <1>1, <1>2, <1>3, <1>4, <1>5 DEF Fill

LEMMA FillKeeps ==
  ASSUME Fill
  PROVE  /\ up
         /\ UNCHANGED <<durable, control, dsLoaded, fetching, blockBuffer, indexing>>
BY DEF Fill, FillByRange, QueryDictionary, DiscardDictionary, DictionaryEmpty,
       DictionaryMatches, DictionaryFails, CanFill, AnswerArrives, queues, sources

-----------------------------------------------------------------------------
(* The steps. *)

CommitInv == FitInv /\ NoResetInv /\ ServedInv /\ OrderInv

LEMMA CommitInvInit ==
  ASSUME NoNewSources, Init
  PROVE  CommitInv
<1>1. NoResetInv
  <2>1. query.ds = FALSE /\ indexing.newDs = FALSE /\ dsStored = FALSE /\ dsLoaded = FALSE
    BY DEF Init, NoQuery, NoBlock
  <2>2. query = NoQuery /\ fetching.bufferedHeight = 0 /\ latestBufferedHeight = 0
    BY DEF Init, NoFetch
  <2>3. fetching.bufferedHeight <= latestBufferedHeight
    BY <2>2
  <2> QED BY <2>1, <2>2, <2>3, Zenon DEF NoResetInv
<1>2. ServedInv
  <2>1. indexing.height = 0 /\ chainHeight \in Nat /\ Len(blockBuffer) = 0
    BY ConstantsOK, EmptyQueue DEF Init, NoBlock
  <2> QED BY <2>1 DEF ServedInv
<1>3. OrderInv
  <2>1. latestBufferedHeight = 0 /\ Buffered = Base /\ up = FALSE
    BY DEF Init, Buffered
  <2>2. Pipeline = <<>>
    <3>1. /\ Current = <<>> /\ blockBuffer = <<>> /\ blockNumberBuffer = <<>>
          /\ fetching.blocks = <<>>
      BY DEF Init, Current, NoFetch
    <3>2. <<>> \o <<>> = <<>>
      BY EmptyQueue, ConcatEmptySeq
    <3> QED BY <3>1, <3>2, Zenon DEF Pipeline
  <2>3. Base \in Nat
    BY TypeInvInit, BaseNat DEF TypeInv
  <2>4. InOrder(Pipeline, Base, Base) /\ Covers(Pipeline, Base, Base, FALSE)
    <3>1. 1 .. Len(Pipeline) = {}
      BY <2>2, EmptyQueue
    <3>2. (Base + 1) .. Base = {}
      BY <2>3
    <3>3. InOrder(Pipeline, Base, Base)
      BY <3>1, Zenon DEF InOrder, Ascending
    <3>4. Covers(Pipeline, Base, Base, FALSE)
      BY <3>2, Zenon DEF Covers
    <3> QED BY <3>3, <3>4
  <2>5. Base <= Buffered
    BY <2>1, <2>3
  <2> QED BY <2>1, <2>4, <2>5, Zenon DEF OrderInv
<1> QED BY <1>1, <1>2, <1>3, FitInvInit DEF CommitInv

\* Without data sources made from templates nothing is ever reset, and the
\* buffered height only moves forward while the process runs.
LEMMA NoResetInvStep ==
  ASSUME NoNewSources, FitInv, NoResetInv, [Next]_vars
  PROVE  NoResetInv'
<1> USE DEF NoResetInv, durable, control, queues, sources
<1>types. /\ latestBufferedHeight \in Nat /\ fetching.bufferedHeight \in Nat
          /\ latestBufferedHeight = 0 \/ latestBufferedHeight < GetStartBlockHeight
  BY DEF FitInv, TypeInv, TypeOK, GetStartBlockHeight
<1>1. CASE ChainGrows
  BY <1>1 DEF ChainGrows, GetStartBlockHeight
<1>2. CASE GetLatestBlockHead \/ CheckBatchScale
  BY <1>2 DEF GetLatestBlockHead, CheckBatchScale, GetStartBlockHeight
<1>3. CASE Fill
  <2>1. latestBufferedHeight' \in Nat /\ latestBufferedHeight <= latestBufferedHeight'
    <3>1. CASE UNCHANGED <<latestBufferedHeight, blockNumberBuffer>>
      BY <3>1, <1>types
    <3>2. ASSUME NEW add, Adds(add, GetStartBlockHeight, latestBufferedHeight')
          PROVE  latestBufferedHeight' \in Nat /\ latestBufferedHeight <= latestBufferedHeight'
      <4>1. latestBufferedHeight' \in Nat /\ GetStartBlockHeight <= latestBufferedHeight'
        BY <3>2 DEF Adds
      <4>2. GetStartBlockHeight \in Nat
        BY <1>3, FillKeeps, StartHeightPos DEF FitInv
      <4> QED BY <4>1, <4>2, <1>types, <1>3, FillKeeps
    <3> QED BY <3>1, <3>2, <1>3, FillAdds DEF FitInv
  <2>2. UNCHANGED <<durable, control, dsLoaded, fetching, indexing>>
    BY <1>3, FillKeeps
  <2>3. fetching'.bufferedHeight <= latestBufferedHeight'
    BY <2>1, <2>2, <1>types
  <2>4. /\ query'.ds = FALSE
        /\ query' # NoQuery => query'.start = GetStartBlockHeight /\ UNCHANGED queues
    <3>1. CASE QueryDictionary
      BY <3>1 DEF QueryDictionary
    <3>2. CASE FillByRange
      BY <3>2 DEF FillByRange, CanFill
    <3>3. CASE query' = NoQuery
      BY <3>3 DEF NoQuery
    <3> QED
      BY <1>3, <3>1, <3>2, <3>3
      DEF Fill, DiscardDictionary, DictionaryEmpty, DictionaryMatches, DictionaryFails, AnswerArrives
  <2>5. query' # NoQuery => query'.start = GetStartBlockHeight'
    BY <2>2, <2>4 DEF GetStartBlockHeight
  <2> QED BY <2>2, <2>3, <2>4, <2>5
<1>4. CASE Fetch
  <2>1. UNCHANGED <<durable, control, sources, query, latestBufferedHeight, indexing>>
    BY <1>4 DEF Fetch, TakeNumbers, BlocksArrive, BlocksDiscarded
  <2>2. fetching'.bufferedHeight = latestBufferedHeight \/ fetching'.bufferedHeight = 0
    BY <1>4 DEF Fetch, TakeNumbers, BlocksArrive, BlocksDiscarded, NoFetch
  <2>3. fetching'.bufferedHeight <= latestBufferedHeight'
    BY <2>1, <2>2, <1>types
  <2> QED BY <2>1, <2>3 DEF GetStartBlockHeight
<1>5. CASE TakeBlock
  BY <1>5 DEF TakeBlock, GetStartBlockHeight
<1>6. CASE CreateDynamicDatasource
  BY <1>6 DEF CreateDynamicDatasource, NoNewSources
<1>7. CASE CommitBlock
  <2>1. dsStored' = FALSE
    BY <1>7 DEF CommitBlock
  <2>2. indexing'.newDs = FALSE
    BY <1>7 DEF CommitBlock, NoBlock
  <2>3. UNCHANGED <<up, initBlockHeight, latestBufferedHeight, dsLoaded, query, fetching>>
    BY <1>7 DEF CommitBlock
  <2> QED BY <2>1, <2>2, <2>3 DEF GetStartBlockHeight
<1>8. CASE Exit
  <2>1. dsStored' = FALSE /\ dsLoaded' = FALSE
    BY <1>8 DEF Exit
  <2>2. query' = NoQuery /\ query'.ds = FALSE /\ indexing'.newDs = FALSE
    BY <1>8 DEF Exit, NoQuery, NoBlock
  <2>3. fetching'.bufferedHeight = 0 /\ latestBufferedHeight' = 0
    BY <1>8 DEF Exit, NoFetch
  <2>4. fetching'.bufferedHeight <= latestBufferedHeight'
    BY <2>3
  <2> QED BY <2>1, <2>2, <2>4
<1>9. CASE Start
  <2>1. query = NoQuery
    BY <1>9 DEF Start, FitInv, DownIdle, Idle
  <2>2. dsStored' = FALSE /\ dsLoaded' = FALSE
    BY <1>9 DEF Start
  <2>3. UNCHANGED <<query, fetching, indexing, latestBufferedHeight>>
    BY <1>9 DEF Start
  <2> QED BY <2>1, <2>2, <2>3
<1>10. CASE UNCHANGED vars
  BY <1>10 DEF vars, GetStartBlockHeight
<1> QED
  BY <1>1, <1>2, <1>3, <1>4, <1>5, <1>6, <1>7, <1>8, <1>9, <1>10
  DEF Next, IndexStep, FetchFails, IndexFails, Crash

\* The blocks that come from the chain's node are blocks of the chain.
LEMMA ServedInvStep ==
  ASSUME NoNewSources, TypeInv, ServedInv, [Next]_vars
  PROVE  ServedInv'
<1> USE DEF ServedInv, durable, control, queues, sources
<1>types. /\ chainHeight \in Nat /\ indexing.height \in Nat
          /\ blockBuffer \in Seq(Nat) /\ fetching.blocks \in Seq(Nat)
  BY DEF TypeInv, TypeOK
<1>1. CASE ChainGrows
  <2>1. chainHeight' = chainHeight + 1 /\ UNCHANGED <<indexing, blockBuffer>>
    BY <1>1 DEF ChainGrows
  <2>2. \A i \in 1 .. Len(blockBuffer) : blockBuffer[i] \in Nat
    BY <1>types, ElementOfSeq
  <2> QED BY <2>1, <2>2, <1>types
<1>2. CASE GetLatestBlockHead \/ CheckBatchScale
  BY <1>2 DEF GetLatestBlockHead, CheckBatchScale
<1>3. CASE Fill
  BY <1>3, FillKeeps
<1>4. CASE TakeNumbers \/ BlocksDiscarded
  BY <1>4 DEF TakeNumbers, BlocksDiscarded
<1>5. CASE BlocksArrive
  <2>1. /\ blockBuffer' = blockBuffer \o fetching.blocks
        /\ UNCHANGED <<chainHeight, indexing>>
        /\ \A i \in 1 .. Len(fetching.blocks) : fetching.blocks[i] <= chainHeight
    BY <1>5 DEF BlocksArrive, PutAll, BlocksServed
  <2> DEFINE f == fetching.blocks
             c == blockBuffer \o f
  <2>2. ASSUME NEW i \in 1 .. Len(c) PROVE c[i] <= chainHeight
    <3>1. f \in Seq(Nat) /\ blockBuffer \in Seq(Nat)
      BY <1>types
    <3>2. \/ i \in 1 .. Len(blockBuffer) /\ c[i] = blockBuffer[i]
          \/ i - Len(blockBuffer) \in 1 .. Len(f) /\ c[i] = f[i - Len(blockBuffer)]
      BY <3>1, ConcatMembers
    <3> QED BY <3>2, <2>1
  <2> QED BY <2>1, <2>2
<1>6. CASE TakeBlock
  <2>1. /\ blockBuffer # <<>> /\ indexing'.height = Head(blockBuffer)
        /\ blockBuffer' = Tail(blockBuffer) /\ UNCHANGED chainHeight
    BY <1>6 DEF TakeBlock
  <2>2. /\ Len(Tail(blockBuffer)) = Len(blockBuffer) - 1
        /\ \A i \in 1 .. Len(Tail(blockBuffer)) : Tail(blockBuffer)[i] = blockBuffer[i + 1]
    BY <2>1, <1>types, HeadTailProperties
  <2>3. Len(blockBuffer) \in Nat \ {0}
    BY <2>1, <1>types, EmptySeq
  <2>4. Head(blockBuffer) = blockBuffer[1] /\ 1 \in 1 .. Len(blockBuffer)
    BY <2>1, <2>3, <1>types
  <2>5. ASSUME NEW i \in 1 .. Len(Tail(blockBuffer))
        PROVE  Tail(blockBuffer)[i] <= chainHeight
    <3>1. i + 1 \in 1 .. Len(blockBuffer)
      BY <2>2, <2>3
    <3> QED BY <2>2, <3>1
  <2>6. indexing'.height <= chainHeight'
    BY <2>1, <2>4
  <2> QED BY <2>1, <2>5, <2>6
<1>7. CASE CreateDynamicDatasource
  BY <1>7 DEF CreateDynamicDatasource, NoNewSources
<1>8. CASE CommitBlock
  <2>1. UNCHANGED <<chainHeight, blockBuffer>> /\ indexing'.height = 0
    BY <1>8 DEF CommitBlock, NoBlock
  <2> QED BY <2>1, <1>types
<1>9. CASE Exit
  <2>1. UNCHANGED chainHeight /\ indexing'.height = 0 /\ Len(blockBuffer') = 0
    BY <1>9, EmptyQueue DEF Exit, NoBlock
  <2> QED BY <2>1, <1>types
<1>10. CASE Start
  BY <1>10 DEF Start
<1>11. CASE UNCHANGED vars
  BY <1>11 DEF vars
<1> QED
  BY <1>1, <1>2, <1>3, <1>4, <1>5, <1>6, <1>7, <1>8, <1>9, <1>10, <1>11
  DEF Next, Fetch, IndexStep, FetchFails, IndexFails, Crash

\* A commit takes the first block off the pipeline: it is above what is committed,
\* nothing between the two is asked for, and what stays is in order above it.
LEMMA CommitFirst ==
  ASSUME TypeInv, OrderInv, NoResetInv, CommitBlock
  PROVE  /\ Base < indexing.height /\ Base' = indexing.height
         /\ \A k \in (Base + 1) .. (indexing.height - 1) : ~ Needed(k, FALSE)
         /\ OrderInv'
<1> DEFINE h    == indexing.height
           rest == blockBuffer \o (fetching.blocks \o blockNumberBuffer)
<1>1. h \in Nat /\ rest \in Seq(Nat) /\ Base \in Nat /\ Buffered \in Nat
  <2>1. /\ blockBuffer \in Seq(Nat) /\ fetching.blocks \in Seq(Nat)
        /\ blockNumberBuffer \in Seq(Nat)
    BY PipelineSeq DEF TypeInv
  <2>2. fetching.blocks \o blockNumberBuffer \in Seq(Nat)
    BY <2>1, ConcatProperties
  <2>3. rest \in Seq(Nat)
    BY <2>1, <2>2, ConcatProperties
  <2>4. h \in Nat
    BY DEF TypeInv, TypeOK
  <2> QED BY <2>3, <2>4, BaseNat DEF TypeInv
<1>2. Pipeline = <<h>> \o rest
  BY DEF CommitBlock, Pipeline, Current
<1>3. Pipeline' = rest
  <2>1. Pipeline' = <<>> \o rest
    BY DEF CommitBlock, Pipeline, Current, queues
  <2> HIDE DEF rest
  <2> QED BY <2>1, <1>1, ConcatEmptySeq
<1>4. /\ lastProcessedHeight' = h
      /\ UNCHANGED <<up, initBlockHeight, latestBufferedHeight>>
  BY DEF CommitBlock, control, queues
<1> HIDE DEF h, rest
<1>5. InOrder(<<h>> \o rest, Base, Buffered) /\ Covers(<<h>> \o rest, Base, Buffered, FALSE)
  BY <1>2 DEF OrderInv
<1>6. /\ Base < h /\ h <= Buffered
      /\ InOrder(rest, h, Buffered) /\ Covers(rest, h, Buffered, FALSE)
      /\ \A k \in (Base + 1) .. (h - 1) : ~ Needed(k, FALSE)
  BY <1>1, <1>5, InOrderFirst
<1>7. Base' = h
  BY <1>1, <1>4, <1>6 DEF Base
<1>8. latestBufferedHeight # 0 /\ Buffered' = Buffered
  BY <1>1, <1>4, <1>6 DEF Buffered
<1>9. InOrder(Pipeline, Base, Buffered)' /\ Covers(Pipeline, Base, Buffered, FALSE)'
  BY <1>3, <1>6, <1>7, <1>8 DEF InOrder, Ascending, Covers
<1>10. Base' <= Buffered'
  BY <1>6, <1>7, <1>8
<1>11. ~ (latestBufferedHeight' = 0)
  BY <1>4, <1>8
<1>12. OrderInv'
  BY <1>9, <1>10, <1>11 DEF OrderInv
<1> QED BY <1>6, <1>7, <1>12 DEF h

\* Blocks that move from one queue to the next stay in their place.
LEMMA MovesKeepPipeline ==
  ASSUME TypeInv, OrderInv, TakeNumbers \/ BlocksArrive \/ TakeBlock
  PROVE  Pipeline' = Pipeline
<1> DEFINE f == fetching.blocks
           n == blockNumberBuffer
           b == blockBuffer
<1>1. Current \in Seq(Nat) /\ b \in Seq(Nat) /\ f \in Seq(Nat) /\ n \in Seq(Nat)
  BY PipelineSeq DEF TypeInv
<1>2. Pipeline = Current \o (b \o (f \o n))
  BY DEF Pipeline
<1>3. CASE TakeNumbers
  <2>1. TakeCount \in Nat
    <3>1. RoundedSize(batchSizeScale) \in Nat
      BY RoundedSizeNat DEF TypeInv, TypeOK
    <3>2. Len(blockBuffer) \in Nat /\ Len(fetching.blocks) \in Nat
      BY LenProperties DEF TypeInv, TypeOK
    <3>3. Len(blockBuffer) + Len(fetching.blocks) <= MaxSize
      BY DEF TypeInv, BlocksFit
    <3> QED BY <3>1, <3>2, <3>3, MaxSizeNat DEF TakeCount, FreeSize, Least
  <2>2. Taken(n, TakeCount) \o Rest(n, TakeCount) = n
    BY <2>1, <1>1, TakenRest
  <2>3. /\ fetching'.blocks = Taken(n, TakeCount) /\ n' = Rest(n, TakeCount)
        /\ UNCHANGED <<blockBuffer, indexing>> /\ f = <<>>
    BY <1>3 DEF TakeNumbers, NoFetch
  <2>4. Pipeline' = Current \o (b \o (Taken(n, TakeCount) \o Rest(n, TakeCount)))
    BY <2>3 DEF Pipeline, Current
  <2>5. <<>> \o n = n
    BY <1>1, ConcatEmptySeq
  <2>6. Pipeline = Current \o (b \o n)
    BY <1>2, <2>3, <2>5, Zenon
  <2>7. Pipeline' = Current \o (b \o n)
    BY <2>2, <2>4, Zenon
  <2> QED BY <2>6, <2>7, Zenon
<1>4. CASE BlocksArrive
  <2>1. /\ blockBuffer' = b \o f /\ fetching'.blocks = <<>>
        /\ UNCHANGED <<blockNumberBuffer, indexing>>
    BY <1>4 DEF BlocksArrive, PutAll, NoFetch
  <2>2. Pipeline' = Current \o ((b \o f) \o (<<>> \o n))
    BY <2>1 DEF Pipeline, Current
  <2>3. <<>> \o n = n
    BY <1>1, ConcatEmptySeq
  <2> HIDE DEF b, f, n
  <2>4. (b \o f) \o n = b \o (f \o n)
    <3>1. Reassociates(b, f, n)
      BY <1>1, ConcatReassociates, Zenon
    <3> QED BY <3>1, Zenon DEF Reassociates
  <2>5. Pipeline' = Current \o ((b \o f) \o n)
    BY <2>2, <2>3, Zenon
  <2> QED BY <1>2, <2>4, <2>5, Zenon
<1>5. CASE TakeBlock
  <2> DEFINE h == Head(b)
             t == Tail(b)
  <2>1. /\ b # <<>> /\ indexing = NoBlock
        /\ indexing' = [height |-> h, newDs |-> FALSE] /\ blockBuffer' = t
        /\ UNCHANGED <<fetching, blockNumberBuffer>>
    BY <1>5 DEF TakeBlock
  <2>2. b = <<h>> \o t /\ h \in Nat /\ t \in Seq(Nat)
    BY <2>1, <1>1, HeadThenTail, HeadTailProperties
  <2>3. Current = <<>>
    BY <2>1 DEF Current
  <2>4. f \o n \in Seq(Nat) /\ b \o (f \o n) \in Seq(Nat)
    <3>1. f \o n \in Seq(Nat)
      BY <1>1, ConcatProperties
    <3> QED BY <3>1, <1>1, ConcatProperties
  <2> HIDE DEF b, f, n, h, t
  <2>5. Pipeline = b \o (f \o n)
    <3>1. <<>> \o (b \o (f \o n)) = b \o (f \o n)
      BY <2>4, ConcatEmptySeq
    <3> QED BY <3>1, <2>3, <1>2, Zenon
  <2>6. h # 0
    <3>1. t \o (f \o n) \in Seq(Nat)
      BY <2>2, <2>4, ConcatProperties
    <3>2. <<h>> \in Seq(Nat)
      BY <2>2
    <3>3. (<<h>> \o t) \o (f \o n) = <<h>> \o (t \o (f \o n))
      <4>1. Reassociates(<<h>>, t, f \o n)
        BY <3>2, <2>2, <2>4, ConcatReassociates, Zenon
      <4> QED BY <4>1, Zenon DEF Reassociates
    <3>4. Pipeline = <<h>> \o (t \o (f \o n))
      BY <2>2, <2>4, <2>5, <3>3, Zenon
    <3>5. Base < h
      <4>1. Base \in Nat /\ Buffered \in Nat
        BY BaseNat DEF TypeInv
      <4>2. /\ InOrder(<<h>> \o (t \o (f \o n)), Base, Buffered)
            /\ Covers(<<h>> \o (t \o (f \o n)), Base, Buffered, FALSE)
        BY <3>4 DEF OrderInv
      <4> DEFINE x == t \o (f \o n)
      <4>3. x \in Seq(Nat)
        BY <3>1
      <4> HIDE DEF x
      <4>4. InOrder(<<h>> \o x, Base, Buffered) /\ Covers(<<h>> \o x, Base, Buffered, FALSE)
        BY <4>2 DEF x
      <4> QED BY <4>1, <4>3, <4>4, <2>2, InOrderFirst
    <3> QED BY <3>5, <2>2, BaseNat DEF TypeInv
  <2>7. indexing' # NoBlock
    <3>1. indexing'.height # NoBlock.height
      BY <2>1, <2>6 DEF NoBlock
    <3> QED BY <3>1
  <2>8. Pipeline' = <<h>> \o (t \o (f \o n))
    <3>1. Current' = <<h>>
      BY <2>1, <2>7 DEF Current
    <3>2. fetching'.blocks = f /\ blockNumberBuffer' = n
      BY <2>1 DEF f, n
    <3> QED BY <2>1, <3>1, <3>2 DEF Pipeline
  <2>9. (<<h>> \o t) \o (f \o n) = <<h>> \o (t \o (f \o n))
    <3>1. <<h>> \in Seq(Nat)
      BY <2>2
    <3>2. Reassociates(<<h>>, t, f \o n)
      BY <3>1, <2>2, <2>4, ConcatReassociates, Zenon
    <3> QED BY <3>2, Zenon DEF Reassociates
  <2> QED BY <2>2, <2>5, <2>8, <2>9, Zenon
<1> QED BY <1>3, <1>4, <1>5

LEMMA OrderInvStep ==
  ASSUME NoNewSources, FitInv, NoResetInv, OrderInv, [Next]_vars
  PROVE  OrderInv'
<1>1. CASE ChainGrows \/ GetLatestBlockHead \/ CheckBatchScale \/ UNCHANGED vars
  <2>1. UNCHANGED <<up, initBlockHeight, lastProcessedHeight, queues, fetching, indexing>>
    BY <1>1 DEF ChainGrows, GetLatestBlockHead, CheckBatchScale, vars, durable, control
  <2>2. Pipeline' = Pipeline
    BY <2>1 DEF Pipeline, Current, queues
  <2> QED BY <2>1, <2>2, OrderInvSame DEF queues
<1>2. CASE Fill
  <2>1. UNCHANGED <<up, initBlockHeight, lastProcessedHeight, blockBuffer, fetching, indexing>> /\ up
    BY <1>2, FillKeeps DEF durable, control
  <2>2. CASE UNCHANGED <<latestBufferedHeight, blockNumberBuffer>>
    <3>1. Pipeline' = Pipeline
      BY <2>1, <2>2 DEF Pipeline, Current
    <3> QED BY <2>1, <2>2, <3>1, OrderInvSame
  <2>3. ASSUME NEW add, Adds(add, GetStartBlockHeight, latestBufferedHeight'),
               blockNumberBuffer' = blockNumberBuffer \o add
        PROVE  OrderInv'
    <3> DEFINE b == latestBufferedHeight'
    <3>1. GetStartBlockHeight = Buffered + 1 /\ Buffered \in Nat
      BY <2>1, StartIsNext, BaseNat DEF FitInv, TypeInv
    <3>2. /\ add \in Seq(Nat) /\ b \in Nat /\ GetStartBlockHeight <= b
          /\ InOrder(add, GetStartBlockHeight - 1, b)
          /\ Covers(add, GetStartBlockHeight - 1, b, FALSE)
      BY <2>3 DEF Adds
    <3>3. GetStartBlockHeight - 1 = Buffered
      BY <3>1
    <3>4. InOrder(add, Buffered, b) /\ Covers(add, Buffered, b, FALSE)
      BY <3>2, <3>3
    <3>5. b \in Nat \ {0} /\ Buffered <= b
      BY <3>1, <3>2
    <3> HIDE DEF b
    <3>6. latestBufferedHeight' = b
      BY DEF b
    <3> QED BY <3>2, <3>4, <3>5, <3>6, <2>1, <2>3, OrderInvExtend DEF FitInv, TypeInv
  <2> QED BY <1>2, <2>2, <2>3, FillAdds DEF FitInv
<1>3. CASE TakeNumbers \/ BlocksArrive \/ TakeBlock
  <2>1. UNCHANGED <<up, initBlockHeight, latestBufferedHeight, lastProcessedHeight>>
    BY <1>3 DEF TakeNumbers, BlocksArrive, TakeBlock, durable, control
  <2> QED BY <1>3, <2>1, MovesKeepPipeline, OrderInvSame DEF FitInv
<1>4. CASE BlocksDiscarded
  <2>1. fetching.bufferedHeight \in Nat /\ latestBufferedHeight \in Nat
    BY DEF FitInv, TypeInv, TypeOK
  <2> QED BY <2>1, <1>4 DEF BlocksDiscarded, NoResetInv
<1>5. CASE CreateDynamicDatasource
  BY <1>5 DEF CreateDynamicDatasource, NoNewSources
<1>6. CASE CommitBlock
  BY <1>6, CommitFirst DEF FitInv
<1>7. CASE Exit
  <2>1. /\ up' = FALSE /\ latestBufferedHeight' = 0 /\ lastProcessedHeight' = lastProcessedHeight
        /\ Current' = <<>> /\ blockBuffer' = <<>> /\ blockNumberBuffer' = <<>>
        /\ fetching'.blocks = <<>>
    BY <1>7 DEF Exit, durable, Current, NoFetch
  <2>2. Base' = Base /\ Buffered' = Base /\ Base \in Nat
    BY <2>1, BaseNat DEF Base, Buffered, FitInv, TypeInv
  <2>3. Pipeline' = <<>>
    <3>1. <<>> \o <<>> = <<>>
      BY EmptyQueue, ConcatEmptySeq
    <3> QED BY <2>1, <3>1, Zenon DEF Pipeline
  <2>4. 1 .. Len(Pipeline') = {}
    BY <2>3, EmptyQueue
  <2>5. (Base' + 1) .. Buffered' = {}
    BY <2>2
  <2>6. InOrder(Pipeline, Base, Buffered)'
    BY <2>4, Zenon DEF InOrder, Ascending
  <2>7. Covers(Pipeline, Base, Buffered, FALSE)'
    BY <2>5, Zenon DEF Covers
  <2>8. Base' <= Buffered'
    BY <2>2
  <2> QED BY <2>1, <2>6, <2>7, <2>8, Zenon DEF OrderInv
<1>8. CASE Start
  <2>1. UNCHANGED <<queues, lastProcessedHeight, fetching, indexing>>
    BY <1>8 DEF Start, durable
  <2>2. Pipeline' = Pipeline /\ Base' = Base /\ Buffered' = Buffered
    BY <2>1 DEF Pipeline, Current, Base, Buffered, queues
  <2>3. initBlockHeight' = Base' + 1
    <3>1. lastProcessedHeight \in Nat /\ initBlockHeight' = GetStartHeight
      BY <1>8 DEF Start, FitInv, TypeInv, TypeOK
    <3> QED BY <3>1, <2>2, ConstantsOK DEF GetStartHeight, Base
  <2>4. InOrder(Pipeline, Base, Buffered)' /\ Covers(Pipeline, Base, Buffered, FALSE)'
    BY <2>2 DEF OrderInv, InOrder, Ascending, Covers
  <2>5. Base' <= Buffered'
    BY <2>2 DEF OrderInv
  <2> QED BY <2>3, <2>4, <2>5 DEF OrderInv
<1> QED
  BY <1>1, <1>2, <1>3, <1>4, <1>5, <1>6, <1>7, <1>8
  DEF Next, Fetch, IndexStep, FetchFails, IndexFails, Crash

LEMMA CommitInvStep ==
  ASSUME NoNewSources, SteadyHead
  PROVE  CommitInv /\ [Next]_vars => CommitInv'
BY TypeInvStep, DownIdleStep, HeadInvStep, NumbersFitStep, NoResetInvStep, ServedInvStep,
   OrderInvStep
DEF CommitInv, FitInv

-----------------------------------------------------------------------------
(* The theorems. *)

LEMMA CommitInvHolds ==
  ASSUME NoNewSources, SteadyHead
  PROVE  Spec => []CommitInv
BY CommitInvInit, CommitInvStep, PTL DEF Spec

\* CommitInv implies the two properties the runs check.
LEMMA CommitInvImplies ==
  ASSUME CommitInv
  PROVE  PipelineInOrder /\ NothingSkipped
<1>1. Base \in Nat /\ Buffered \in Nat /\ latestBufferedHeight \in Nat /\ Pipeline \in Seq(Nat)
  BY BaseNat, PipelineSeq DEF CommitInv, FitInv, TypeInv, TypeOK
<1>2. /\ InOrder(Pipeline, Base, Buffered) /\ Covers(Pipeline, Base, Buffered, FALSE)
      /\ dsStored = FALSE
  BY DEF CommitInv, OrderInv, NoResetInv
<1>3. CASE latestBufferedHeight # 0
  BY <1>2, <1>3 DEF Buffered, PipelineInOrder, NothingSkipped
<1>4. CASE latestBufferedHeight = 0
  <2>1. Buffered = Base
    BY <1>4 DEF Buffered
  <2>2. \A i \in 1 .. Len(Pipeline) : FALSE
    <3>1. \A i \in 1 .. Len(Pipeline) : Pipeline[i] \in Nat
      BY <1>1, ElementOfSeq
    <3>2. \A i \in 1 .. Len(Pipeline) : Base < Pipeline[i] /\ Pipeline[i] <= Base
      BY <1>2, <2>1 DEF InOrder
    <3> QED BY <3>1, <3>2, <1>1
  <2>3. PipelineInOrder
    BY <1>2, <2>2 DEF PipelineInOrder, InOrder
  <2>4. (Base + 1) .. latestBufferedHeight = {}
    BY <1>1, <1>4
  <2>5. NothingSkipped
    BY <2>4, Zenon DEF NothingSkipped, Covers
  <2> QED BY <2>3, <2>5
<1> QED BY <1>3, <1>4

\* Whatever the sizes, the polls, the crashes and the restarts, blocks travel through the
\* two queues and the current batch in ascending order, and none travels twice.
THEOREM BlocksTravelInOrder ==
  ASSUME NoNewSources, SteadyHead
  PROVE  Spec => []PipelineInOrder
BY CommitInvHolds, CommitInvImplies, PTL

\* Nor is one skipped: what is asked for between the last commit and the last height
\* buffered is in the pipeline.
THEOREM NoBlockIsSkipped ==
  ASSUME NoNewSources, SteadyHead
  PROVE  Spec => []NothingSkipped
BY CommitInvHolds, CommitInvImplies, PTL

LEMMA OrderInit ==
  ASSUME CommitInv, Init
  PROVE  Order!Init
BY BaseNat, ConstantsOK DEF CommitInv, FitInv, TypeInv, TypeOK, NoResetInv, Order!Init

LEMMA OrderStep ==
  ASSUME NoNewSources, CommitInv, [Next]_vars
  PROVE  [Order!Next]_<<chainHeight, Base, dsStored>>
<1>types. TypeInv /\ chainHeight \in Nat /\ Base \in Nat /\ dsStored = FALSE
  BY BaseNat DEF CommitInv, FitInv, TypeInv, TypeOK, NoResetInv
<1>1. CASE ChainGrows
  <2>1. chainHeight' = chainHeight + 1 /\ UNCHANGED <<lastProcessedHeight, dsStored>>
    BY <1>1 DEF ChainGrows
  <2>2. Base' = Base
    BY <2>1 DEF Base
  <2>3. chainHeight' > chainHeight
    BY <2>1, <1>types
  <2> QED BY <2>1, <2>2, <2>3 DEF Order!Next, Order!Grow
<1>2. CASE CommitBlock
  <2> DEFINE h == indexing.height
  <2>1. /\ Base < h /\ Base' = h
        /\ \A k \in (Base + 1) .. (h - 1) : ~ Needed(k, FALSE)
    BY <1>2, CommitFirst DEF CommitInv, FitInv
  <2>2. h \in Nat /\ h <= chainHeight
    BY DEF CommitInv, ServedInv, FitInv, TypeInv, TypeOK
  <2>3. UNCHANGED chainHeight
    BY <1>2 DEF CommitBlock
  <2>4. dsStored' = (dsStored \/ h \in NewDsHeights)
    BY <1>2 DEF CommitBlock, CommitInv, NoResetInv, NoNewSources
  <2> HIDE DEF h
  <2>5. \A k \in (Base + 1) .. (h - 1) : ~ Order!Needed(k, dsStored)
    BY <2>1, <1>types DEF Needed, Order!Needed
  <2>6. Order!Index(h)
    BY <2>1, <2>2, <2>3, <2>4, <2>5 DEF Order!Index
  <2>7. h \in (Base + 1) .. chainHeight
    BY <2>1, <2>2, <1>types
  <2> QED BY <2>6, <2>7 DEF Order!Next
<1>3. CASE UNCHANGED <<chainHeight, lastProcessedHeight, dsStored>>
  BY <1>3 DEF Base
<1>4. CASE Fill
  BY <1>4, <1>3, FillKeeps DEF durable
<1> QED
  BY <1>1, <1>2, <1>3, <1>4
  DEF Next, vars, durable, GetLatestBlockHead, CheckBatchScale, Fetch, TakeNumbers, BlocksArrive,
      BlocksDiscarded, IndexStep, TakeBlock, CreateDynamicDatasource, FetchFails, IndexFails,
      Crash, Exit, Start

\* The pipeline implements InOrderIndexing: commits happen in chain order, never
\* beyond the chain, and never jump over a block that is asked for.
THEOREM PipelineImplementsOrder ==
  ASSUME NoNewSources, SteadyHead
  PROVE  Spec => CommitsInOrder
<1>1. Spec => []CommitInv
  BY CommitInvHolds
<1>2. CommitInv /\ Init => Order!Init
  BY OrderInit
<1>3. CommitInv /\ [Next]_vars => [Order!Next]_<<chainHeight, Base, dsStored>>
  BY OrderStep
<1> QED BY <1>1, <1>2, <1>3, PTL DEF Spec, CommitsInOrder, Order!Spec
=============================================================================
