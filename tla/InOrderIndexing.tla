-------------------------- MODULE InOrderIndexing ---------------------------
(***************************************************************************)
(* What the indexer node promises about the order of its commits: the      *)
(* height stored in the database only moves forward, never past the chain, *)
(* and never past a block that holds data one of the project's data        *)
(* sources, or a data source created from a template at a lower height,    *)
(* asks for.                                                               *)
(***************************************************************************)
EXTENDS Naturals

CONSTANTS Matches,          \* heights the project's own data sources ask for
          TemplateMatches,  \* heights a data source made from a template asks for
          NewDsHeights      \* heights whose handlers create such a data source

VARIABLES chain,    \* height of the chain
          done,     \* last height committed (or the one before the first)
          created   \* a data source from a template has been committed

Needed(h, ds) == h \in Matches \/ (ds /\ h \in TemplateMatches)

Grow == /\ chain' > chain
        /\ UNCHANGED <<done, created>>

\* Commits block h; every height jumped over holds nothing anyone asks for.
Index(h) == /\ done < h /\ h <= chain
            /\ \A k \in (done + 1) .. (h - 1) : ~ Needed(k, created)
            /\ done' = h
            /\ created' = (created \/ h \in NewDsHeights)
            /\ UNCHANGED chain

Next == Grow \/ \E h \in (done + 1) .. chain : Index(h)

Init == chain \in Nat /\ done \in Nat /\ created = FALSE

Spec == Init /\ [][Next]_<<chain, done, created>>
=============================================================================
