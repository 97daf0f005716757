---------------------------- MODULE BlockedQueue ----------------------------
(***************************************************************************)
(* The bounded FIFO of the indexer node (dist/indexer/BlockedQueue.js).    *)
(* A queue is a sequence; its capacity is a parameter of the operators, as *)
(* `_maxSize` is a field of the class.                                     *)
(*                                                                         *)
(* put and putAll throw when the items do not fit: Fits is that test, and  *)
(* a caller of PutAll owes it.  take and takeAll poll until the queue is   *)
(* not empty: the guard `q # <<>>` of the action that takes.  takeAll is   *)
(* only ever called with a positive max (fillBlockBuffer waits otherwise). *)
(***************************************************************************)
EXTENDS Naturals, Sequences

Least(a, b) == IF a <= b THEN a ELSE b

FreeSize(q, maxSize) == maxSize - Len(q)

Fits(q, items, maxSize) == Len(q) + Len(items) <= maxSize

PutAll(q, items) == q \o items

\* takeAll(max): the first max items leave the queue ...
Taken(q, max) == SubSeq(q, 1, Least(max, Len(q)))

\* ... and the others stay.
Rest(q, max) == SubSeq(q, Least(max, Len(q)) + 1, Len(q))
=============================================================================
