-------------------------- MODULE MCBlockHandlers ---------------------------
(* Chains for BlockHandlers.  Accounts 1 and 2; contract 2 has code 2, which  *)
(* is never stored on the chain, unless it is instantiated with code 1.       *)
EXTENDS BlockHandlers

TwoAccounts == {1, 2}
TenContracts == 1 .. 10

Move(a, x, coin) == [who |-> a, amount |-> x, coin |-> coin]
Ev(type) == [type |-> type, moves |-> <<>>]
Received(a, x) == [type |-> "coin_received", moves |-> <<Move(a, x, "one")>>]
Spent(a, x) == [type |-> "coin_spent", moves |-> <<Move(a, x, "one")>>]
Message(type, code, contract, method, events) ==
  [type |-> type, decodes |-> TRUE, complete |-> TRUE, code |-> code, contract |-> contract, method |-> method,
   from |-> 1, to |-> 2, amount |-> 3, digits |-> "whole", payload |-> <<>>, subs |-> <<>>, events |-> events]

Send == Message("MsgSend", 0, 0, Anything, <<Received(2, 5), Spent(1, 5), Ev("transfer")>>)
SendBoth ==
  Message("MsgMultiSend", 0, 0, Anything,
    << [type |-> "coin_received", moves |-> <<Move(2, 1, "one"), Move(1, 4, "one")>>], Spent(1, 5) >>)
SendNothing ==
  Message("MsgSend", 0, 0, Anything, << [type |-> "coin_received", moves |-> <<Move(2, 0, "empty")>>] >>)
SendOddDenom ==
  Message("MsgSend", 0, 0, Anything, << [type |-> "coin_received", moves |-> <<Move(2, 1, "bad")>>], Spent(1, 1) >>)
Unknown == [Message("unknown", 0, 0, Anything, <<Spent(2, 1)>>) EXCEPT !.decodes = FALSE]
Store == Message("MsgStoreCode", 1, 0, Anything, <<Ev("store_code")>>)
Instantiate(k) == Message("MsgInstantiateContract", k, k, Anything, <<Ev("instantiate")>>)
Written(digits, msg) == [msg EXCEPT !.digits = digits]
Lacking(msg) == [msg EXCEPT !.complete = FALSE]
Execute(k, method) == Message("MsgExecuteContract", 0, k, method, <<Ev("execute")>>)

Vote == Message("MsgVote", 0, 0, Anything, <<Ev("proposal_vote")>>)
Transfer == Message("MsgTransfer", 0, 0, Anything, <<Ev("ibc_transfer")>>)
Withdrawn(x, coin) == [type |-> "withdraw_rewards", moves |-> <<Move(2, x, coin)>>]
Withdraw(x, coin) == Message("MsgWithdrawDelegatorReward", 0, 0, Anything, <<Withdrawn(x, coin)>>)
Delegate == Message("MsgDelegate", 0, 0, Anything, <<Withdrawn(7, "one")>>)
Authorised(subs) == [Message("MsgExec", 0, 0, Anything, <<>>) EXCEPT !.subs = subs]
Register(k, coin) ==
  Message("MsgExecuteContract", 0, k, "register",
    << Ev("execute"), [type |-> "wasm", moves |-> <<Move(1, 1, coin)>>] >>)

Signed(msgs) == [decodes |-> TRUE, ok |-> TRUE, signer |-> 1, fee |-> 1, msgs |-> msgs]
Failed(msgs) == [Signed(msgs) EXCEPT !.ok = FALSE]
NoKey(msgs) == [Signed(msgs) EXCEPT !.signer = None]
Garbage == [decodes |-> FALSE, ok |-> FALSE, signer |-> None, fee |-> 0, msgs |-> <<>>]

FirstBlocks ==
  { << Signed(<<Send>>), Failed(<<Send>>) >>,
    << Signed(<<SendBoth>>), NoKey(<<Send>>) >>,
    << Signed(<<SendOddDenom>>), Signed(<<Unknown>>) >>,
    << Signed(<<SendNothing>>), Garbage >>,
    << Signed(<<Store, Instantiate(1), Execute(1, "mint")>>) >>,
    << Signed(<<Store>>), Signed(<<Instantiate(1)>>) >>,
    << Signed(<<Store, Instantiate(2)>>) >>,
    << Signed(<<Withdraw(4, "one"), Vote>>), Signed(<<Withdraw(6, "one")>>) >> }
SecondBlocks ==
  { << Signed(<<Execute(1, "transfer")>>), Signed(<<Execute(1, "mint")>>) >>,
    << Signed(<<Execute(1, "burn"), Execute(1, "swap")>>), Signed(<<Lacking(Execute(1, "transfer"))>>) >>,
    << Signed(<<Unknown, Execute(1, "burn")>>), Failed(<<Execute(2, "mint")>>) >>,
    << Signed(<<Execute(2, "transfer")>>), Signed(<<SendOddDenom>>) >>,
    << >>,
    << Signed(<<SendBoth>>), Garbage >>,
    << Signed(<<Delegate, Lacking(Vote)>>), Signed(<<Withdraw(0, "empty"), Transfer>>) >>,
    << Signed(<<Withdraw(5, "bad")>>), Signed(<<Authorised(<<"known", "unknown", "known">>)>>) >>,
    << Failed(<<Authorised(<<"known", "bad">>)>>), Signed(<<Register(1, "one"), Register(1, "bad")>>) >>,
    << NoKey(<<SendOddDenom>>), Signed(<<Instantiate(1), Send>>) >>,
    << Signed(<<Written("fraction", Execute(1, "transfer")), Written("word", Execute(1, "mint"))>>),
       Signed(<<Written("hex", Execute(1, "burn")), Execute(2, NoMethod)>>) >>,
    << Signed(<<Written("hex", Execute(1, "transfer"))>>) >>,
    << Signed(<<Written("word", Execute(1, "burn"))>>), Signed(<<Send>>) >>,
    << Signed(<<Execute(1, NotAnObject)>>) >>,
    << Signed(<<[Execute(1, "mint") EXCEPT !.decodes = FALSE]>>), Signed(<<Send>>) >> }

\* Payloads: so many names of each interface and of none, with values of the type
\* that the interface has in JSON or of another
CW20Names == <<"name", "symbol", "decimals", "initial_balances", "mint">>
BridgeNames ==
  <<"next_swap_id", "denom", "cap", "reverse_aggregated_allowance", "swap_fee",
    "reverse_aggregated_allowance_approver_cap", "lower_swap_limit", "upper_swap_limit",
    "paused_since_block">>
OtherNames == <<"owner", "admin", "price", "limit", "members", "threshold">>
Firsts(n, names) == {names[k] : k \in 1 .. n}
Type(name, right) ==
  CASE ~ right -> Falsy
    [] name \in DOMAIN CW20Structure -> CW20Structure[name]
    [] OTHER -> "string"
Payload(i, j, k, right) ==
  [name \in Firsts(i, CW20Names) \cup Firsts(j, BridgeNames) \cup Firsts(k, OtherNames) |->
     Type(name, right)]
Instantiated(c, payload) ==
  [Message("MsgInstantiateContract", 1, c, Anything, <<Ev("instantiate")>>)
     EXCEPT !.payload = payload]
Instantiations(i, k, right) ==
  << Signed(<<Store>> \o [j \in 1 .. 10 |-> Instantiated(j, Payload(i, j - 1, k, right))]) >>
PayloadChains ==
  {<<Instantiations(i, k, right)>> : i \in 0 .. 5, k \in {0, 2, 6}, right \in BOOLEAN}

\* The payloads of tests/unit/contracts/jaccard.test.ts that the counts above do
\* not reach, and one that is null
TestPayloads ==
  << [Payload(0, 9, 0, TRUE) EXCEPT !.next_swap_id = Falsy, !.paused_since_block = "number"],
     [cap |-> "number", next_swap_id |-> Falsy, reverse_aggregated_allowance |-> Falsy,
      decimals |-> "number"],
     NullPayload >>
TestChain ==
  << << Signed(<<Store>>), Signed([j \in 1 .. 3 |-> Instantiated(j, TestPayloads[j])]) >>,
     << Signed(<<Execute(3, "mint")>>) >> >>

ManyChains ==
  {<<b, c>> : b \in FirstBlocks, c \in SecondBlocks} \cup PayloadChains \cup {TestChain}
TwoSends == {<< << Signed(<<Send, Send>>) >> >>}
KnownContract == << Signed(<<Store, Instantiate(1)>>) >>
BurnOfAFraction == << KnownContract, << Signed(<<Written("fraction", Execute(1, "burn"))>>) >> >>
UnitMessage == << KnownContract, << Signed(<<Execute(1, NotAnObject)>>) >> >>
CodeFromElsewhere == << << Signed(<<Instantiate(2)>>) >>, << Signed(<<Execute(2, "mint")>>) >> >>
StoppingChains == {CodeFromElsewhere, BurnOfAFraction, UnitMessage}
=============================================================================
