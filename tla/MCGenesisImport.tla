-------------------------- MODULE MCGenesisImport --------------------------
(* Values of the constants of GenesisImport for TLC. *)
EXTENDS GenesisImport

TwoBalances == << [address |-> "a1", coins |-> <<"d1", "d2">>],
                  [address |-> "a2", coins |-> <<"d1">>] >>
OneContract == << "c1" >>
\* The first block meets the accounts in the other order, and one of its own.
TwoBlocks == << << <<"accounts", "a2">>, <<"accounts", "a1">> >>,
                << <<"contracts", "c1">>, <<"accounts", "a2">> >> >>
=============================================================================
