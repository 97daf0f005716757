------------------------- MODULE ContractInterfaces -------------------------
(***************************************************************************)
(* The guess at a contract's interface from the message that instantiated  *)
(* it: the names of the message's properties are compared with those that  *)
(* an interface is known to have (getJaccardResult of utils.ts).           *)
(*                                                                         *)
(* A payload maps the name of each property to the type that typeof gives  *)
(* its value, or to Falsy for a value that is false to the language (zero, *)
(* an empty string, null): such a value is never awarded the bonus point.  *)
(***************************************************************************)
EXTENDS Integers, FiniteSets, SequencesExt

Falsy == "falsy"
Uncertain == "Uncertain"

CW20Structure ==
  [name |-> "string", symbol |-> "string", decimals |-> "number",
   initial_balances |-> "object", mint |-> "object"]
LegacyBridgeSwapStructure ==
  [cap |-> "bigint", reverse_aggregated_allowance |-> "bigint",
   reverse_aggregated_allowance_approver_cap |-> "bigint", lower_swap_limit |-> "bigint",
   upper_swap_limit |-> "bigint", swap_fee |-> "bigint", paused_since_block |-> "bigint",
   denom |-> "string", next_swap_id |-> "string"]
Structs ==
  << [interface |-> "CW20", types |-> CW20Structure],
     [interface |-> "LegacyBridgeSwap", types |-> LegacyBridgeSwapStructure] >>

Named(payload, types) == DOMAIN payload \cap DOMAIN types
SameType(payload, types) == {k \in Named(payload, types) : payload[k] = types[k]}
Match(payload, types) ==
  Cardinality(Named(payload, types)) + Cardinality(SameType(payload, types))
UnionSize_WithoutDiff(payload, types) == Cardinality(DOMAIN types)
UnionSize(payload, types) == Cardinality(DOMAIN types \cup DOMAIN payload)

\* The fraction match / union must exceed the best one so far, which is a half
\* to begin with.
Uncertainty == [interface |-> Uncertain, match |-> 1, union |-> 2]
Better(best, struct, payload) ==
  LET score == [interface |-> struct.interface, match |-> Match(payload, struct.types),
                union |-> UnionSize(payload, struct.types)]
  IN  IF score.match * best.union > best.match * score.union THEN score ELSE best

GetJaccardResult(payload) ==
  FoldLeft(LAMBDA best, struct : Better(best, struct, payload), Uncertainty, Structs).interface
=============================================================================
