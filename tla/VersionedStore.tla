--------------------------- MODULE VersionedStore ---------------------------
(***************************************************************************)
(* What the store of entities promises to its readers: the entities as     *)
(* they were right after any block that is readable, never changed by the  *)
(* blocks after it; a block's writes appear together when it commits.      *)
(* Without history only the latest state is readable.                      *)
(***************************************************************************)
EXTENDS Naturals

CONSTANTS Ids, Values

VARIABLES latest,     \* last block committed, 0 before the first
          keepsPast,  \* history is kept
          past,       \* readable height -> entities as of that height
          open,       \* a block is being indexed
          draft       \* the entities as its handlers have left them

Absent == "absent"
Nothing == [id \in Ids |-> Absent]
Readable(h, keeps) == IF keeps THEN 0 .. h ELSE {h}

vars == <<latest, keepsPast, past, open, draft>>

Init == /\ latest = 0 /\ past = [k \in {0} |-> Nothing]
        /\ keepsPast = FALSE /\ open = FALSE /\ draft = Nothing

SetUp == /\ latest = 0 /\ ~ open /\ keepsPast' \in BOOLEAN
         /\ UNCHANGED <<latest, past, open, draft>>

Begin == /\ ~ open /\ open' = TRUE /\ draft' = past[latest]
         /\ UNCHANGED <<latest, keepsPast, past>>

Write == /\ open /\ draft' \in [Ids -> Values \cup {Absent}]
         /\ UNCHANGED <<latest, keepsPast, past, open>>

Commit ==
  /\ open /\ latest' > latest
  /\ past' = [k \in Readable(latest', keepsPast) |->
                IF k = latest' THEN draft ELSE IF k > latest THEN past[latest] ELSE past[k]]
  /\ open' = FALSE /\ draft' = Nothing
  /\ UNCHANGED keepsPast

Abort == /\ open' = FALSE /\ draft' = Nothing
         /\ UNCHANGED <<latest, keepsPast, past>>

Next == SetUp \/ Begin \/ Write \/ Commit \/ Abort

Spec == Init /\ [][Next]_vars
=============================================================================
