--------------------------- MODULE BlockHandlers ----------------------------
(***************************************************************************)
(* What the mapping handlers make of a block: IndexerManager calls, one    *)
(* after the other, the handlers of project.yaml for the block, its        *)
(* transactions, its messages and its events (those of each message's      *)
(* log); the handlers save entities in the block's database transaction.   *)
(*                                                                         *)
(* A handler that throws is caught by attemptHandling, which starts the    *)
(* record of the failure and does not wait for it.  A statement that       *)
(* breaks a foreign key aborts the database transaction: every later       *)
(* statement fails, the block cannot commit, the process exits and meets   *)
(* the same block again.                                                   *)
(*                                                                         *)
(* Entities are modelled by their ids, the entities they refer to and the  *)
(* data other handlers read or a balance is made of; one denomination.     *)
(* The tables have foreign keys, as without history.                       *)
(***************************************************************************)
EXTENDS Integers, SequencesExt, ContractInterfaces

CONSTANTS
  Chains,      \* the chains to index: each a sequence of blocks, see below
  Accounts,    \* positive numbers
  Contracts,   \* positive numbers
  MaxCrashes   \* bound on crashes that have no cause in the block

ASSUME ConstantsOK ==
  /\ Accounts \subseteq Nat \ {0} /\ Contracts \subseteq Nat \ {0} /\ MaxCrashes \in Nat

(***************************************************************************)
(* A block is a sequence of transactions                                   *)
(*   [decodes, ok, signer, fee, msgs]   (ok: its log is JSON; signer may   *)
(*                                       be None: no public key given)     *)
(* with messages                                                           *)
(*   [type, decodes, complete, code, contract, method, from, to, amount,   *)
(*    digits, payload, subs, events]                                       *)
(* (complete: it has the fields its handlers need; method: the first name  *)
(* in what a contract is told; to: the recipient or the validator; digits: *)
(* how a message that tells a contract its amount writes it, amount being  *)
(* its value where it has one; payload: what a contract is instantiated with, see *)
(* ContractInterfaces; subs: for each message inside an authorisation, whether  *)
(* its type is "known", "unknown" or known but its bytes "bad"), whose     *)
(* events are [type, moves], each move [who, amount, coin], where coin     *)
(* tells what its parser makes of the amount (or of an agent's record):    *)
(* "one" value, an "empty" string, or "bad" (it throws).                   *)
(***************************************************************************)
None == 0

\* What a contract is told is any JSON: an object without names, or no object at
\* all, such as the string of a variant without fields (of another name than those
\* the filters ask for).
NoMethod == "no method"
NotAnObject == "not an object"

\* An amount in it may be "1.5", "0x10" or "ten" as well as "10".  BigInt takes
\* the hexadecimal one, a numeric column the fraction, neither of them the word.
Digits == {"whole", "fraction", "hex", "word"}
BigIntTakes(msg) == msg.digits \in {"whole", "hex"}
NumericTakes(msg) == msg.digits \in {"whole", "fraction"}

\* What JSON and the chain guarantee: lists are finite, the amounts in events and
\* fees whole numbers, only an authorisation has messages inside, and a withdrawal
\* of rewards that a message asked for names the validator that the message names.
Listed(s) == Len(s) \in Nat /\ s = [k \in 1 .. Len(s) |-> s[k]]
MovesOK(moves) ==
  Listed(moves) /\ \A k \in DOMAIN moves :
    moves[k].amount \in Int /\ moves[k].coin \in {"one", "empty", "bad"}
Asked(msg, ev) == msg.type = "MsgWithdrawDelegatorReward" /\ ev.type = "withdraw_rewards"
EventsOK(msg) ==
  Listed(msg.events) /\ \A e \in DOMAIN msg.events :
    LET ev == msg.events[e]
    IN  MovesOK(ev.moves) /\ (Asked(msg, ev) => ev.moves # <<>> /\ Last(ev.moves).who = msg.to)
MessageOK(msg) ==
  /\ EventsOK(msg) /\ Listed(msg.subs) /\ (msg.subs # <<>> => msg.type = "MsgExec")
  /\ msg.amount \in Int /\ msg.digits \in Digits /\ IsFiniteSet(DOMAIN msg.payload)
TxOK(tx) == tx.fee \in Int /\ Listed(tx.msgs) /\ \A m \in DOMAIN tx.msgs : MessageOK(tx.msgs[m])

ASSUME ChainsOK ==
  \A c \in Chains :
    Listed(c) /\ \A b \in DOMAIN c : Listed(c[b]) /\ \A t \in DOMAIN c[b] : TxOK(c[b][t])

VARIABLES
  chain,     \* the blocks
  height,    \* lastProcessedHeight, counted from the start block
  db,        \* rows committed: id -> value
  open,      \* a block is being indexed
  todo,      \* calls of handlers still to be made
  rows,      \* the rows as the block's transaction sees them
  aborted,   \* a statement of the transaction has failed
  pending,   \* transactions whose failure record is under way
  failed,    \* history: transactions of the block in which a handler threw
  thrown,    \* history: the same for the blocks committed
  crashes

work == <<open, todo, rows, aborted, pending, failed>>
vars == <<chain, height, db, work, thrown, crashes>>

Empty == <<>>                 \* a table without rows
B == height + 1               \* the block being indexed
Block(b) == chain[b]
Tx(t) == Block(B)[t]
Msg(t, m) == Tx(t).msgs[m]
Event(t, m, e) == Msg(t, m).events[e]

-----------------------------------------------------------------------------
(* Ids: the table, then the block and the numbers that the id is made of.  *)

Id(table, t, i, k) == <<table, B, t, i, k>>
BlockId == Id("blocks", 0, 0, 0)
TxId(t) == Id("transactions", t, 0, 0)
MessageRowId(t, m) == Id("messages", t, m, 0)
AccountId(a) == <<"accounts", 0, a, 0, 0>>
ContractId(c) == <<"contracts", 0, c, 0, 0>>

\* messageId of an event: the hash of the transaction and the event's own idx,
\* the position of the event in the log of its message
MessageIdOfEvent(m, e) == e
EventId(t, m, e) == Id("events", t, MessageIdOfEvent(m, e), e)

-----------------------------------------------------------------------------
(* The handlers of project.yaml, in its order. *)

Anything == "any"
Handler(name, event, msg, method) ==
  [name |-> name, event |-> event, msg |-> msg, method |-> method]
Handlers ==
  << Handler("handleEvent", Anything, Anything, Anything),
     Handler("handleGovProposalVote", "proposal_vote", "MsgVote", Anything),
     Handler("handleDistDelegatorClaim", "withdraw_rewards", "MsgWithdrawDelegatorReward", Anything),
     Handler("handleExecuteContractEvent", "execute", "MsgExecuteContract", Anything),
     Handler("handleLegacyBridgeSwap", "execute", "MsgExecuteContract", "swap"),
     Handler("handleNativeTransfer", "transfer", "MsgSend", Anything),
     Handler("handleDelegatorWithdrawRewardEvent", "withdraw_rewards", Anything, Anything),
     Handler("handleCw20Transfer", "execute", "MsgExecuteContract", "transfer"),
     Handler("handleNativeBalanceDecrement", "coin_spent", Anything, Anything),
     Handler("handleNativeBalanceIncrement", "coin_received", Anything, Anything),
     Handler("handleIBCTransfer", "ibc_transfer", Anything, Anything),
     Handler("handleCw20BalanceTransfer", "execute", "MsgExecuteContract", "transfer"),
     Handler("handleCw20BalanceBurn", "execute", "MsgExecuteContract", "burn"),
     Handler("handleCw20BalanceMint", "execute", "MsgExecuteContract", "mint"),
     Handler("handleContractStoreEvent", "store_code", "MsgStoreCode", Anything),
     Handler("handleContractInstantiateEvent", "instantiate", "MsgInstantiateContract", Anything),
     Handler("handleAlmanacRegistration", "wasm", "MsgExecuteContract", "register") >>

FilterEvent(h, msg, ev) ==
  /\ h.event \in {Anything, ev.type}
  /\ h.msg \in {Anything, msg.type} /\ h.method \in {Anything, msg.method}

\* A filter decodes what the contract is told and looks up the call it asks for,
\* which throws unless that is an object; all filters are tried before any handler.
CallAskedOf(event) == \E k \in DOMAIN Handlers : Handlers[k].event = event /\ Handlers[k].method # Anything
FilterThrows(msg, ev) ==
  /\ msg.type = "MsgExecuteContract" /\ CallAskedOf(ev.type)
  /\ ~ msg.decodes \/ msg.method = NotAnObject

(* A call is <<kind, transaction, message, event, handler>>.  An event of a *)
(* failed transaction is never seen: its log does not parse.                *)
BlockCalls == {<<1, 0, 0, 0, 0>>}
TxCalls  == {<<2, t, 0, 0, 0>> : t \in DOMAIN Block(B)}
MsgCalls_OfParsedLogs ==
  UNION {{<<3, t, m, 0, 0>> : m \in DOMAIN Tx(t).msgs} : t \in {u \in DOMAIN Block(B) : Tx(u).ok}}
MsgCalls == UNION {{<<3, t, m, 0, 0>> : m \in DOMAIN Tx(t).msgs} : t \in DOMAIN Block(B)}
AuthzCalls == {<<3, c[2], c[3], 0, 1>> : c \in {d \in MsgCalls : Msg(d[2], d[3]).type = "MsgExec"}}
WrapEvent ==
  UNION {UNION {{<<t, m, e>> : e \in DOMAIN Msg(t, m).events} : m \in DOMAIN Tx(t).msgs} :
           t \in {u \in DOMAIN Block(B) : Tx(u).ok}}
EventCalls ==
  UNION {{<<4, x[1], x[2], x[3], n>> :
            n \in {k \in DOMAIN Handlers :
                     FilterEvent(Handlers[k], Msg(x[1], x[2]), Event(x[1], x[2], x[3]))}} :
           x \in WrapEvent}

IndexBlockData == BlockCalls \cup TxCalls \cup MsgCalls \cup AuthzCalls \cup EventCalls

Precedes(c, d) == \E i \in 1 .. 5 : c[i] < d[i] /\ \A j \in 1 .. (i - 1) : c[j] = d[j]
IsNext(c) == c \in todo /\ \A d \in todo \ {c} : Precedes(c, d)

Name(c) == CASE c[1] = 1 -> "handleBlock"
             [] c[1] = 2 -> "handleTransaction"
             [] c[1] = 3 -> IF c[5] = 0 THEN "handleMessage" ELSE "handleAuthzExec"
             [] c[1] = 4 -> Handlers[c[5]].name

-----------------------------------------------------------------------------
(* What each handler saves: a set of rows with the ids they refer to. *)

Row(id, refs, val) == [id |-> id, refs |-> refs, val |-> val]
NoVal == [msg |-> None, who |-> None, amount |-> 0, code |-> None,
          interface |-> Uncertain, instantiatedBy |-> <<>>]
Of(m) == [NoVal EXCEPT !.msg = m]
Amount(m, a, x) == [NoVal EXCEPT !.msg = m, !.who = a, !.amount = x]

InTx(t) == {BlockId, TxId(t)}
InMsg(t, m) == InTx(t) \cup {MessageRowId(t, m)}

\* saveNativeBalanceEvent and saveCw20BalanceEvent, with checkBalancesAccount
Change(id, t, m, e, a, x, refs) ==
  {Row(AccountId(a), {}, NoVal),
   Row(id, refs \cup InTx(t) \cup {AccountId(a), EventId(t, m, e)}, Amount(m, a, x))}

\* The amounts are parsed before anything is saved: the first that is not a
\* coin ends the handler, in silence when it is empty.
Odd(ev) == {k \in DOMAIN ev.moves : ev.moves[k].coin # "one"}
Parsed(ev) == IF Odd(ev) = {} THEN "one" ELSE ev.moves[Min(Odd(ev))].coin

FeeId_PerEvent(t, e) == Id("fees", t, e, 0)
FeeId(t, e) == Id("fees", t, 0, 0)

\* saveNativeFeesEvent: every event of the transaction writes the same row.
SaveFees(t, m, e) ==
  IF Tx(t).signer = None THEN {}
  ELSE Change(FeeId(t, e), t, m, e, Tx(t).signer, 0 - Tx(t).fee, {})

SaveMoves(t, m, e, table, sign) ==
  LET ev == Event(t, m, e)
  IN  IF Parsed(ev) # "one" THEN {}
      ELSE SaveFees(t, m, e) \cup
           UNION {Change(Id(table, t, MessageIdOfEvent(m, e), k), t, m, e,
                         ev.moves[k].who, sign * ev.moves[k].amount, {}) : k \in DOMAIN ev.moves}

\* Rows of one message: their id is that of the message.
MessageRow(table, t, m, refs, val) == {Row(Id(table, t, m, 0), InMsg(t, m) \cup refs, val)}
ExecuteId(t, m) == Id("execute_contract_messages", t, m, 0)
ContractOf(t, m) == ContractId(Msg(t, m).contract)

SaveCw20(t, m, e, table, a, x) ==
  Change(Id(table, t, m, 0), t, m, e, a, x, InMsg(t, m) \cup {ContractOf(t, m), ExecuteId(t, m)})

\* saveContractEvent: no contract is saved when the code's message is unknown.
StoredCode(c) == {r \in DOMAIN rows : r[1] = "store_contract_messages" /\ rows[r].code = c}
\* The payload may be the JSON null, which has no properties to enumerate.
NullPayload == [null |-> "null"]
InstantiateId(t, m) == Id("instantiate_contract_messages", t, m, 0)
ContractRow(t, m) ==
  [NoVal EXCEPT !.interface = GetJaccardResult(Msg(t, m).payload),
                !.instantiatedBy = InstantiateId(t, m)]
SaveContractEvent(t, m) ==
  {Row(ContractOf(t, m), {r, InstantiateId(t, m)}, ContractRow(t, m)) :
     r \in IF StoredCode(Msg(t, m).code) = {} \/ Msg(t, m).payload = NullPayload THEN {}
           ELSE {CHOOSE r \in StoredCode(Msg(t, m).code) : TRUE}}

HandleBlock == {Row(BlockId, {}, NoVal)}
HandleTransaction(t) == IF Tx(t).decodes THEN {Row(TxId(t), {BlockId}, NoVal)} ELSE {}
HandleMessage(t, m) ==
  IF Msg(t, m).decodes THEN {Row(MessageRowId(t, m), InTx(t), NoVal)} ELSE {}
HandleEvent(t, m, e) == {Row(EventId(t, m, e), InTx(t), Of(m))}

\* Each sub-message of a known type becomes a message and a row that joins the
\* two; the first whose bytes are bad ends the handler.
BadSubs(msg) == {k \in DOMAIN msg.subs : msg.subs[k] = "bad"}
Precede(k, S) == \A j \in S : k < j
SubMessageId(t, m, k) == Id("messages", t, m, k)
HandleAuthzExec(t, m) ==
  IF ~ Msg(t, m).decodes THEN {}
  ELSE HandleMessage(t, m)
       \cup MessageRow("authz_execs", t, m, {}, NoVal)
       \cup UNION {{Row(SubMessageId(t, m, k), InTx(t), NoVal),
                    Row(Id("authz_exec_messages", t, m, k),
                        {Id("authz_execs", t, m, 0), SubMessageId(t, m, k)}, NoVal)} :
                     k \in {j \in DOMAIN Msg(t, m).subs :
                               /\ Msg(t, m).subs[j] = "known" /\ Precede(j, BadSubs(Msg(t, m)))}}

HandleNativeBalanceDecrement(t, m, e) == SaveMoves(t, m, e, "spend", -1)
HandleNativeBalanceIncrement(t, m, e) == SaveMoves(t, m, e, "receive", 1)

HandleExecuteContractEvent(t, m) ==
  IF Msg(t, m).method = NoMethod THEN {}
  ELSE MessageRow("execute_contract_messages", t, m, {ContractOf(t, m)}, NoVal)

\* The handlers below save nothing for a message that lacks a field they need.
HandleLegacyBridgeSwap(t, m) ==
  MessageRow("legacy_bridge_swaps", t, m, {ContractOf(t, m), ExecuteId(t, m)}, NoVal)
HandleCw20Transfer(t, m) == MessageRow("cw20_transfers", t, m, {ContractOf(t, m)}, NoVal)
HandleCw20BalanceTransfer_DebitOnly(t, m, e) ==
  SaveCw20(t, m, e, "cw20_debit", Msg(t, m).from, 0 - Msg(t, m).amount)
HandleCw20BalanceTransfer(t, m, e) ==
  SaveCw20(t, m, e, "cw20_credit", Msg(t, m).to, Msg(t, m).amount) \cup
  SaveCw20(t, m, e, "cw20_debit", Msg(t, m).from, 0 - Msg(t, m).amount)
HandleCw20BalanceBurn(t, m, e) ==
  SaveCw20(t, m, e, "cw20_burn", Msg(t, m).from, 0 - Msg(t, m).amount)
HandleCw20BalanceMint(t, m, e) ==
  SaveCw20(t, m, e, "cw20_mint", Msg(t, m).to, Msg(t, m).amount)
HandleContractStoreEvent(t, m) ==
  MessageRow("store_contract_messages", t, m, {}, [NoVal EXCEPT !.code = Msg(t, m).code])
HandleContractInstantiateEvent(t, m) ==
  MessageRow("instantiate_contract_messages", t, m, {}, NoVal) \cup SaveContractEvent(t, m)

HandleGovProposalVote(t, m) == MessageRow("gov_proposal_votes", t, m, {}, NoVal)
HandleNativeTransfer(t, m) == MessageRow("native_transfers", t, m, {}, NoVal)
HandleIBCTransfer(t, m, e) == MessageRow("ibc_transfers", t, m, {EventId(t, m, e)}, NoVal)

\* A claim is saved with the amount -1; the reward of the event that follows it
\* goes to a claim of the transaction with the same validator.
HandleDistDelegatorClaim(t, m) ==
  MessageRow("dist_delegator_claims", t, m, {}, Amount(m, Msg(t, m).to, -1))
Claims == {i \in DOMAIN rows : i[1] = "dist_delegator_claims"}
ClaimsOf_TheBlock(t, v) == {i \in Claims : i[2] = B /\ rows[i].who = v}
ClaimsOf(t, v) == {i \in Claims : i[2] = B /\ i[3] = t /\ rows[i].who = v}
Rewarded(ev) == ev.moves # <<>> /\ Last(ev.moves).coin # "empty"
HandleDelegatorWithdrawRewardEvent(t, m, e) ==
  LET ev == Event(t, m, e)
      claims == IF Rewarded(ev) THEN ClaimsOf(t, Last(ev.moves).who) ELSE {}
  IN  IF claims = {} \/ Last(ev.moves).coin = "bad" THEN {}
      ELSE {LET i == CHOOSE i \in claims : TRUE
            IN  Row(i, {}, [rows[i] EXCEPT !.amount = Last(ev.moves).amount])}

\* The agent is saved whether or not the contract is known.
AgentId(a) == <<"agents", 0, a, 0, 0>>
HandleAlmanacRegistration(t, m, e) ==
  LET ev == Event(t, m, e)
      record == Id("almanac_records", t, MessageIdOfEvent(m, e), 0)
      agent == AgentId(Head(ev.moves).who)
  IN  IF Parsed(ev) # "one" THEN {}
      ELSE {Row(agent, {}, NoVal)} \cup
           IF ContractOf(t, m) \notin DOMAIN rows THEN {}
           ELSE {Row(record, InTx(t), NoVal),
                 Row(Id("almanac_registrations", t, MessageIdOfEvent(m, e), 0),
                     InTx(t) \cup {agent, record, ContractOf(t, m)}, NoVal)}

NeedsFields ==
  {"handleLegacyBridgeSwap", "handleCw20Transfer", "handleCw20BalanceTransfer",
   "handleCw20BalanceBurn", "handleCw20BalanceMint", "handleContractStoreEvent",
   "handleContractInstantiateEvent", "handleGovProposalVote", "handleNativeTransfer",
   "handleIBCTransfer", "handleDistDelegatorClaim"}

SavesIfComplete(c) ==
  LET t == c[2] m == c[3] e == c[4]
  IN  CASE Name(c) = "handleBlock" -> HandleBlock
        [] Name(c) = "handleTransaction" -> HandleTransaction(t)
        [] Name(c) = "handleMessage" -> HandleMessage(t, m)
        [] Name(c) = "handleEvent" -> HandleEvent(t, m, e)
        [] Name(c) = "handleNativeBalanceDecrement" -> HandleNativeBalanceDecrement(t, m, e)
        [] Name(c) = "handleNativeBalanceIncrement" -> HandleNativeBalanceIncrement(t, m, e)
        [] Name(c) = "handleExecuteContractEvent" -> HandleExecuteContractEvent(t, m)
        [] Name(c) = "handleLegacyBridgeSwap" -> HandleLegacyBridgeSwap(t, m)
        [] Name(c) = "handleCw20Transfer" -> HandleCw20Transfer(t, m)
        [] Name(c) = "handleCw20BalanceTransfer" -> HandleCw20BalanceTransfer(t, m, e)
        [] Name(c) = "handleCw20BalanceBurn" -> HandleCw20BalanceBurn(t, m, e)
        [] Name(c) = "handleCw20BalanceMint" -> HandleCw20BalanceMint(t, m, e)
        [] Name(c) = "handleContractStoreEvent" -> HandleContractStoreEvent(t, m)
        [] Name(c) = "handleContractInstantiateEvent" -> HandleContractInstantiateEvent(t, m)
        [] Name(c) = "handleAuthzExec" -> HandleAuthzExec(t, m)
        [] Name(c) = "handleGovProposalVote" -> HandleGovProposalVote(t, m)
        [] Name(c) = "handleNativeTransfer" -> HandleNativeTransfer(t, m)
        [] Name(c) = "handleIBCTransfer" -> HandleIBCTransfer(t, m, e)
        [] Name(c) = "handleDistDelegatorClaim" -> HandleDistDelegatorClaim(t, m)
        [] Name(c) = "handleDelegatorWithdrawRewardEvent" ->
             HandleDelegatorWithdrawRewardEvent(t, m, e)
        [] Name(c) = "handleAlmanacRegistration" -> HandleAlmanacRegistration(t, m, e)

Incomplete(c) == Name(c) \in NeedsFields /\ ~ Msg(c[2], c[3]).complete

\* The handlers of CW20 balances turn the amount into a BigInt before they save
\* anything.  The amount of a bridge swap is that of a coin of the message, which
\* is always whole.
Cw20Balances == {"handleCw20BalanceTransfer", "handleCw20BalanceBurn", "handleCw20BalanceMint"}
BigIntThrows(c) ==
  Name(c) \in Cw20Balances /\ ~ Incomplete(c) /\ ~ BigIntTakes(Msg(c[2], c[3]))

Saves(c) == IF Incomplete(c) \/ BigIntThrows(c) THEN {} ELSE SavesIfComplete(c)

\* Throws, whatever it has saved: decoding, parsing, or the account of nobody
Throws(c) ==
  LET t == c[2] m == c[3] e == c[4]
  IN  CASE Name(c) = "handleTransaction" -> ~ Tx(t).decodes
        [] Name(c) = "handleMessage" -> ~ Msg(t, m).decodes
        [] Name(c) = "handleAuthzExec" -> ~ Msg(t, m).decodes \/ BadSubs(Msg(t, m)) # {}
        [] Name(c) = "handleDelegatorWithdrawRewardEvent" ->
             LET ev == Event(t, m, e)
             IN  Rewarded(ev) /\ Last(ev.moves).coin = "bad" /\ ClaimsOf(t, Last(ev.moves).who) # {}
        [] Name(c) = "handleAlmanacRegistration" -> Parsed(Event(t, m, e)) = "bad"
        [] Name(c) \in Cw20Balances -> BigIntThrows(c)
        [] Name(c) = "handleContractInstantiateEvent" ->
             /\ ~ Incomplete(c) /\ StoredCode(Msg(t, m).code) # {}
             /\ Msg(t, m).payload = NullPayload
        [] Name(c) \in {"handleNativeBalanceDecrement", "handleNativeBalanceIncrement"} ->
             \/ Parsed(Event(t, m, e)) = "bad"
             \/ Parsed(Event(t, m, e)) = "one" /\ Tx(t).signer = None
        [] OTHER -> FALSE

Ids(saves) == {s.id : s \in saves}
KeysHold(saves) == \A s \in saves : s.refs \subseteq DOMAIN rows \cup Ids(saves)
Upserted(saves) ==
  [i \in DOMAIN rows \cup Ids(saves) |->
     IF i \in Ids(saves) THEN (CHOOSE s \in saves : s.id = i).val ELSE rows[i]]

-----------------------------------------------------------------------------
(* The block. *)

BeginBlock ==
  /\ ~ open /\ height < Len(chain)
  /\ open' = TRUE /\ todo' = IndexBlockData /\ rows' = db
  /\ aborted' = FALSE /\ pending' = {} /\ failed' = {}
  /\ UNCHANGED <<chain, height, db, thrown, crashes>>

\* wrapMsg decodes every transaction of the block, outside of any handler.
Wraps == \A t \in DOMAIN Block(B) : Tx(t).decodes
Reached(c) == open /\ IsNext(c) /\ (c[1] > 2 => Wraps)
Filtered(c) == c[1] = 4 => ~ FilterThrows(Msg(c[2], c[3]), Event(c[2], c[3], c[4]))
Called(c) == Reached(c) /\ Filtered(c)

\* Handlers that may query without saving anything
Queries(c) ==
  \/ /\ Name(c) = "handleDelegatorWithdrawRewardEvent"
     /\ Rewarded(Event(c[2], c[3], c[4]))
  \/ /\ Name(c) \in {"handleNativeBalanceDecrement", "handleNativeBalanceIncrement"}
     /\ Parsed(Event(c[2], c[3], c[4])) = "one"

\* handleCw20Transfer hands the amount to the database as it is written.
AmountRefused(c) ==
  Name(c) = "handleCw20Transfer" /\ ~ Incomplete(c) /\ ~ NumericTakes(Msg(c[2], c[3]))

\* Every statement that the handler makes succeeds.
Works(c) == /\ aborted => Saves(c) = {} /\ ~ Queries(c)
            /\ KeysHold(Saves(c)) /\ ~ AmountRefused(c)
Failing(t) == /\ failed' = failed \cup {t}
              /\ pending' = pending \cup {t}

HandlerReturns(c) ==
  /\ Called(c) /\ Works(c) /\ ~ Throws(c)
  /\ todo' = todo \ {c} /\ rows' = Upserted(Saves(c))
  /\ UNCHANGED <<chain, height, db, open, aborted, pending, failed, thrown, crashes>>

\* attemptHandling wraps every handler but one.
Guarded_NotMint(c) == Name(c) \notin {"handleCw20BalanceBurn", "handleCw20BalanceMint"}
Guarded(c) == Name(c) # "handleCw20BalanceBurn"

\* Caught by attemptHandling: what was saved before the throw stays.
HandlerThrows(c) ==
  /\ Called(c) /\ Works(c) /\ Throws(c) /\ Guarded(c)
  /\ todo' = todo \ {c} /\ rows' = Upserted(Saves(c))
  /\ Failing(c[2])
  /\ UNCHANGED <<chain, height, db, open, aborted, thrown, crashes>>

\* A statement that fails is caught as well, but the transaction is lost.
StatementFails(c) ==
  /\ Called(c) /\ ~ Works(c) /\ Guarded(c)
  /\ todo' = todo \ {c} /\ aborted' = TRUE
  /\ Failing(c[2])
  /\ UNCHANGED <<chain, height, db, open, rows, thrown, crashes>>

\* trackUnprocessed: one record for each transaction, whatever failed in it
UnprocessedId(b, t) == <<"unprocessed_entities", b, t, 0, 0>>
TrackUnprocessed_Nothing(t) ==
  /\ open /\ t \in pending
  /\ pending' = pending \ {t}
  /\ UNCHANGED <<chain, height, db, open, todo, rows, aborted, failed, thrown, crashes>>
TrackUnprocessed(t) ==
  /\ open /\ t \in pending
  /\ pending' = pending \ {t}
  /\ LET save == {Row(UnprocessedId(B, t), InTx(t), NoVal)}
     IN  IF aborted \/ ~ KeysHold(save)
         THEN aborted' = TRUE /\ UNCHANGED rows
         ELSE rows' = Upserted(save) /\ UNCHANGED aborted
  /\ UNCHANGED <<chain, height, db, open, todo, failed, thrown, crashes>>

\* The messages are asked for, and wrapped, even where there are none.  The
\* statements of the failure records are queued on the connection before those of
\* the metadata and the commit.
CommitBlock ==
  /\ open /\ todo = {} /\ Wraps /\ pending = {} /\ ~ aborted
  /\ height' = B /\ db' = rows
  /\ thrown' = thrown \cup {<<B, t>> : t \in failed}
  /\ open' = FALSE /\ rows' = Empty /\ failed' = {}
  /\ UNCHANGED <<chain, todo, aborted, pending, crashes>>

-----------------------------------------------------------------------------
(* Exits: the transaction is rolled back and the supervisor restarts. *)

Exit ==
  /\ open' = FALSE /\ todo' = {} /\ rows' = Empty
  /\ aborted' = FALSE /\ pending' = {} /\ failed' = {}
  /\ UNCHANGED <<chain, height, db, thrown>>

WrapFails    == /\ open /\ ~ Wraps /\ \A c \in todo : c[1] > 2
                /\ Exit /\ UNCHANGED crashes
FilterFails(c) == /\ Reached(c) /\ ~ Filtered(c)
                  /\ Exit /\ UNCHANGED crashes
HandlerEscapes(c) == /\ Called(c) /\ (~ Works(c) \/ Throws(c)) /\ ~ Guarded(c)
                     /\ Exit /\ UNCHANGED crashes
MetadataFails == /\ open /\ todo = {} /\ aborted
                 /\ Exit /\ UNCHANGED crashes
Crash == /\ open /\ crashes < MaxCrashes
         /\ Exit /\ crashes' = crashes + 1

-----------------------------------------------------------------------------
Init ==
  /\ chain \in Chains
  /\ height = 0 /\ db = Empty
  /\ open = FALSE /\ todo = {} /\ rows = Empty
  /\ aborted = FALSE /\ pending = {} /\ failed = {} /\ thrown = {} /\ crashes = 0

Call == \E c \in todo : \/ HandlerReturns(c) \/ HandlerThrows(c) \/ StatementFails(c)
                         \/ FilterFails(c) \/ HandlerEscapes(c)

IndexBlock == \/ BeginBlock \/ Call \/ (\E t \in pending : TrackUnprocessed(t))
              \/ CommitBlock \/ WrapFails \/ MetadataFails

Next == IndexBlock \/ Crash

Spec == Init /\ [][Next]_vars

\* The process is restarted and goes on; crashes without a cause are finitely many.
FairSpec == Spec /\ WF_vars(IndexBlock)

-----------------------------------------------------------------------------
(* Properties. *)

TxsOf(b) == {<<b, t>> : t \in DOMAIN chain[b]}
Committed == UNION {TxsOf(b) : b \in 1 .. height}
TxAt(x) == chain[x[1]][x[2]]
Unrecorded == {x \in Committed : UnprocessedId(x[1], x[2]) \notin DOMAIN db}

\* A transaction in which a handler threw is recorded as unprocessed with the
\* block that holds it: no failure that attemptHandling swallows goes unnoticed.
FailuresAreRecorded == \A x \in thrown : x \notin Unrecorded

KnownSubs(msg) == {k \in DOMAIN msg.subs : msg.subs[k] = "known"}

\* The tables hold nothing of a block that is not committed and, of those that
\* are, every transaction and every message, the ones inside an authorisation
\* included if their type is known, those excepted whose transaction is recorded
\* as unprocessed.
CommittedBlocksAreComplete ==
  /\ \A i \in DOMAIN db : i[2] <= height
  /\ \A x \in Committed : <<"transactions", x[1], x[2], 0, 0>> \in DOMAIN db
  /\ \A x \in Unrecorded : \A m \in DOMAIN TxAt(x).msgs :
       \A k \in {0} \cup KnownSubs(TxAt(x).msgs[m]) : <<"messages", x[1], x[2], m, k>> \in DOMAIN db

\* Each event of a committed block has a row under the id of the message that
\* generated it, as the comment at messageId says.
EventsAreKept ==
  \A x \in Unrecorded : TxAt(x).ok =>
    \A m \in DOMAIN TxAt(x).msgs : \A e \in DOMAIN TxAt(x).msgs[m].events :
      \E i \in DOMAIN db : i[1] = "events" /\ i[2] = x[1] /\ i[3] = x[2] /\ i[5] = e
                           /\ i[4] = m /\ db[i].msg = m

\* The amounts of some rows, added up
Total(ids) == SumFunctionOnSet([i \in DOMAIN db |-> db[i].amount], ids)

Events(x, type) ==
  UNION {{<<m, e>> : e \in {k \in DOMAIN TxAt(x).msgs[m].events :
                              TxAt(x).msgs[m].events[k].type = type}} :
           m \in IF TxAt(x).ok THEN DOMAIN TxAt(x).msgs ELSE {}}
EventAt(x, y) == TxAt(x).msgs[y[1]].events[y[2]]
Whole(x, type) == {y \in Events(x, type) : Parsed(EventAt(x, y)) = "one"}
Places(x, type) ==
  UNION {{<<y[1], y[2], k>> : k \in DOMAIN EventAt(x, y).moves} : y \in Whole(x, type)}
MoveAt(x, p) == EventAt(x, p).moves[p[3]]
PlacesOf(x, type, a) == {p \in Places(x, type) : MoveAt(x, p).who = a}
Moved(x, type, a) ==
  SumFunctionOnSet([p \in Places(x, type) |-> MoveAt(x, p).amount], PlacesOf(x, type, a))
FeePaid(x, a) ==
  IF TxAt(x).signer = a /\ Whole(x, "coin_spent") \cup Whole(x, "coin_received") # {}
  THEN TxAt(x).fee ELSE 0

\* Where each transaction has one message and no handler threw, the changes of
\* an account's balance are what the events moved, less the fee, charged once
\* for each transaction however many events it has and however often its block
\* was begun.
OneMessage(x) == Len(TxAt(x).msgs) <= 1
ChangesIn(tables, x, a) ==
  {i \in DOMAIN db : i[1] \in tables /\ i[2] = x[1] /\ i[3] = x[2] /\ db[i].who = a}
BalancesAddUp ==
  \A a \in Accounts : \A x \in Unrecorded : OneMessage(x) =>
    Total(ChangesIn({"spend", "receive", "fees"}, x, a))
      = Moved(x, "coin_received", a) - Moved(x, "coin_spent", a) - FeePaid(x, a)

\* Where no two withdrawals of a transaction name one validator and no handler
\* threw, each claim carries the reward of its own message's event, and none the
\* reward of another transaction; -1 stays when there was nothing to withdraw.
Withdrawals(x) == Events(x, "withdraw_rewards")
Validator(x, y) == Last(EventAt(x, y).moves).who
OneValidatorEach(x) ==
  \A y, z \in Withdrawals(x) : Validator(x, y) = Validator(x, z) => y = z
Reward(ev) == IF Last(ev.moves).coin = "one" THEN Last(ev.moves).amount ELSE -1
RewardsReachClaims ==
  \A x \in Unrecorded : OneValidatorEach(x) =>
    \A y \in Withdrawals(x) :
      LET claim == <<"dist_delegator_claims", x[1], x[2], y[1], 0>>
      IN  claim \in DOMAIN db => db[claim].amount = Reward(EventAt(x, y))

\* The balances of a CW20 contract add up to what was minted less what was
\* burned: a transfer neither makes nor destroys tokens.
TokenRows(c, tables) ==
  {i \in DOMAIN db : i[1] \in tables /\ chain[i[2]][i[3]].msgs[i[4]].contract = c}
Tokens(c, tables) == Total(TokenRows(c, tables))
Cw20Conserved ==
  \A c \in Contracts :
    Tokens(c, {"cw20_credit", "cw20_debit", "cw20_mint", "cw20_burn"})
      = Tokens(c, {"cw20_mint", "cw20_burn"})

PayloadOf(i) == chain[i[2]][i[3]].msgs[i[4]].payload
Shared(payload, struct) == Cardinality(DOMAIN payload \cap DOMAIN struct.types)
AllNames(payload, struct) == Cardinality(DOMAIN payload \cup DOMAIN struct.types)
Resembles(payload, struct) ==
  /\ 2 * Shared(payload, struct) > AllNames(payload, struct)
  /\ \A other \in ToSet(Structs) \ {struct} :
       Shared(payload, struct) * AllNames(payload, other)
         > 2 * Shared(payload, other) * AllNames(payload, struct)

\* A contract has an interface only if more than a quarter of the names of its own
\* payload and of the interface are common to both; it has the interface with which
\* more than half are, if with the other not half as large a part is.
InterfacesFit ==
  \A c \in {i \in DOMAIN db : i[1] = "contracts"} :
    LET payload == PayloadOf(db[c].instantiatedBy)
    IN  \A struct \in ToSet(Structs) :
          /\ db[c].interface = struct.interface =>
               4 * Shared(payload, struct) > AllNames(payload, struct)
          /\ Resembles(payload, struct) => db[c].interface = struct.interface

\* The blocks up to h can be indexed: every transaction decodes, and so does what a
\* contract is told, which is an object; the contract is executed only after a
\* message the handlers see stored its code and another instantiated it; BigInt
\* takes what it is told to burn and the numeric column what it is told to transfer.
Before(p, q) == \E i \in 1 .. 3 : p[i] < q[i] /\ \A j \in 1 .. (i - 1) : p[j] = q[j]
MsgAt(p) == chain[p[1]][p[2]].msgs[p[3]]
Seen(h, event, type) ==
  LET places == UNION {{<<x[1], x[2], y[1]>> : y \in Events(x, event)} :
                         x \in UNION {TxsOf(b) : b \in 1 .. h}}
  IN  {p \in places : MsgAt(p).type = type}
ContractKnown(h, p) ==
  \E q \in Seen(h, "instantiate", "MsgInstantiateContract"),
     s \in Seen(h, "store_code", "MsgStoreCode") :
    /\ MsgAt(q).complete /\ MsgAt(q).payload # NullPayload /\ MsgAt(s).complete
    /\ Before(q, p) /\ MsgAt(q).contract = MsgAt(p).contract
    /\ Before(s, q) /\ MsgAt(s).code = MsgAt(q).code
AmountKnown(msg) ==
  msg.complete => /\ msg.method = "burn" => BigIntTakes(msg)
                  /\ msg.method = "transfer" => NumericTakes(msg)
Indexable(h) ==
  /\ \A b \in 1 .. h : \A t \in DOMAIN chain[b] : chain[b][t].decodes
  /\ \A p \in Seen(h, "execute", "MsgExecuteContract") :
       AmountKnown(MsgAt(p)) /\ (MsgAt(p).method # NoMethod => ContractKnown(h, p))
  /\ \A event \in {"execute", "wasm"} : \A p \in Seen(h, event, "MsgExecuteContract") :
       MsgAt(p).decodes /\ MsgAt(p).method # NotAnObject

\* Whatever the handlers that attemptHandling wraps throw, amounts that are no
\* numbers included, and whenever the process dies, a block is committed in the
\* end if it and those before it can be indexed, and only then.
BlocksCommit ==
  \A h \in 1 .. 2 : /\ (h <= Len(chain) /\ Indexable(h)) ~> (height >= h)
                    /\ [](height >= h => Indexable(h))

\* A handler that cannot process its input does not stop the indexer.
IndexerContinues == <>(height = Len(chain))
=============================================================================
