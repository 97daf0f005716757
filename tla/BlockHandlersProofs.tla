------------------------ MODULE BlockHandlersProofs -------------------------
(***************************************************************************)
(* Proofs about BlockHandlers: no failure goes unrecorded, and committed   *)
(* blocks are complete, for every chain and wherever statements fail.      *)
(***************************************************************************)
EXTENDS BlockHandlers, TLAPS

LEMMA ListedDomain ==
  ASSUME NEW s, Listed(s)
  PROVE  /\ Len(s) \in Nat /\ DOMAIN s = 1 .. Len(s)
         /\ s # <<>> => Len(s) \in DOMAIN s
<1>1. Len(s) \in Nat /\ DOMAIN s = 1 .. Len(s)
  BY DEF Listed
<1>2. ASSUME Len(s) = 0 PROVE s = <<>>
  BY <1>2 DEF Listed
<1> QED BY <1>1, <1>2

(* What three of the calls save. *)

LEMMA TxCall ==
  ASSUME NEW t, NEW c, c = <<2, t, 0, 0, 0>>
  PROVE  Saves(c) = HandleTransaction(t) /\ (Throws(c) <=> ~ Tx(t).decodes)
<1>1. Name(c) = "handleTransaction"
  BY DEF Name
<1>2. ~ Incomplete(c) /\ ~ BigIntThrows(c)
  BY <1>1 DEF Incomplete, NeedsFields, BigIntThrows, Cw20Balances
<1>3. SavesIfComplete(c) = HandleTransaction(t)
  BY <1>1 DEF SavesIfComplete
<1>4. Throws(c) <=> ~ Tx(t).decodes
  BY <1>1 DEF Throws, Cw20Balances
<1> QED BY <1>1, <1>2, <1>3, <1>4 DEF Saves

LEMMA MessageCall ==
  ASSUME NEW t, NEW m, NEW c, c = <<3, t, m, 0, 0>>
  PROVE  Saves(c) = HandleMessage(t, m) /\ (Throws(c) <=> ~ Msg(t, m).decodes)
<1>1. Name(c) = "handleMessage"
  BY DEF Name
<1>2. ~ Incomplete(c) /\ ~ BigIntThrows(c)
  BY <1>1 DEF Incomplete, NeedsFields, BigIntThrows, Cw20Balances
<1>3. SavesIfComplete(c) = HandleMessage(t, m)
  BY <1>1 DEF SavesIfComplete
<1>4. Throws(c) <=> ~ Msg(t, m).decodes
  BY <1>1 DEF Throws, Cw20Balances
<1> QED BY <1>1, <1>2, <1>3, <1>4 DEF Saves

LEMMA AuthzCall ==
  ASSUME NEW t, NEW m, NEW c, c = <<3, t, m, 0, 1>>
  PROVE  /\ Saves(c) = HandleAuthzExec(t, m)
         /\ Throws(c) <=> ~ Msg(t, m).decodes \/ BadSubs(Msg(t, m)) # {}
<1>1. Name(c) = "handleAuthzExec"
  BY DEF Name
<1>2. ~ Incomplete(c) /\ ~ BigIntThrows(c)
  BY <1>1 DEF Incomplete, NeedsFields, BigIntThrows, Cw20Balances
<1>3. SavesIfComplete(c) = HandleAuthzExec(t, m)
  BY <1>1 DEF SavesIfComplete
<1>4. Throws(c) <=> ~ Msg(t, m).decodes \/ BadSubs(Msg(t, m)) # {}
  BY <1>1 DEF Throws, Cw20Balances
<1> QED BY <1>1, <1>2, <1>3, <1>4 DEF Saves

LEMMA RowId ==
  ASSUME NEW id, NEW refs, NEW val
  PROVE  Row(id, refs, val).id = id
  BY DEF Row

LEMMA TxSaved ==
  ASSUME NEW t, NEW c, c = <<2, t, 0, 0, 0>>, ~ Throws(c)
  PROVE  TxId(t) \in Ids(Saves(c))
<1>1. Row(TxId(t), {BlockId}, NoVal) \in Saves(c)
  BY TxCall DEF HandleTransaction
<1> QED BY <1>1, RowId DEF Ids

LEMMA MessageSaved ==
  ASSUME NEW t, NEW m, NEW c, c = <<3, t, m, 0, 0>>, ~ Throws(c)
  PROVE  MessageRowId(t, m) \in Ids(Saves(c))
<1>1. Row(MessageRowId(t, m), InTx(t), NoVal) \in Saves(c)
  BY MessageCall DEF HandleMessage
<1> QED BY <1>1, RowId DEF Ids

LEMMA SubsSaved ==
  ASSUME NEW t, NEW m, NEW c, c = <<3, t, m, 0, 1>>, ~ Throws(c), NEW k \in KnownSubs(Msg(t, m))
  PROVE  SubMessageId(t, m, k) \in Ids(Saves(c))
<1>1. Msg(t, m).decodes /\ BadSubs(Msg(t, m)) = {}
  BY AuthzCall
<1>2. /\ k \in DOMAIN Msg(t, m).subs /\ Msg(t, m).subs[k] = "known"
      /\ Precede(k, BadSubs(Msg(t, m)))
  BY <1>1 DEF KnownSubs, Precede
<1>3. Row(SubMessageId(t, m, k), InTx(t), NoVal) \in HandleAuthzExec(t, m)
  BY <1>1, <1>2 DEF HandleAuthzExec
<1> QED BY <1>3, RowId, AuthzCall DEF Ids

-----------------------------------------------------------------------------
(* Every handler saves rows of its own block, or rows that are no block's.   *)

OwnBlock(saves) == \A s \in saves : s.id[2] \in {0, B}

LEMMA OwnUnion ==
  /\ OwnBlock({})
  /\ \A S, T : OwnBlock(S) /\ OwnBlock(T) => OwnBlock(S \cup T)
  BY DEF OwnBlock

LEMMA OwnRow ==
  ASSUME NEW id, id[2] \in {0, B}, NEW refs, NEW val
  PROVE  OwnBlock({Row(id, refs, val)})
  BY RowId DEF OwnBlock

LEMMA IdsOfBlock ==
  /\ \A table, t, i, k : Id(table, t, i, k)[2] = B
  /\ \A a : AccountId(a)[2] = 0 /\ AgentId(a)[2] = 0
  /\ \A c : ContractId(c)[2] = 0
  BY DEF Id, AccountId, AgentId, ContractId

LEMMA OwnChange ==
  ASSUME NEW id, id[2] = B, NEW t, NEW m, NEW e, NEW a, NEW x, NEW refs
  PROVE  OwnBlock(Change(id, t, m, e, a, x, refs))
  BY RowId, IdsOfBlock DEF OwnBlock, Change

LEMMA OwnMessageRow ==
  ASSUME NEW table, NEW t, NEW m, NEW refs, NEW val
  PROVE  OwnBlock(MessageRow(table, t, m, refs, val))
  BY OwnRow, IdsOfBlock DEF MessageRow

LEMMA OwnCw20 ==
  ASSUME NEW t, NEW m, NEW e, NEW table, NEW a, NEW x
  PROVE  OwnBlock(SaveCw20(t, m, e, table, a, x))
  BY OwnChange, IdsOfBlock DEF SaveCw20

LEMMA OwnMoves ==
  ASSUME NEW t, NEW m, NEW e, NEW table, NEW sign
  PROVE  OwnBlock(SaveMoves(t, m, e, table, sign))
<1> DEFINE ev == Event(t, m, e)
           change(k) == Change(Id(table, t, MessageIdOfEvent(m, e), k), t, m, e,
                               ev.moves[k].who, sign * ev.moves[k].amount, {})
<1>1. OwnBlock(SaveFees(t, m, e))
  <2>1. FeeId(t, e)[2] = B
    BY IdsOfBlock DEF FeeId
  <2> QED BY <2>1, OwnChange, OwnUnion DEF SaveFees
<1>2. \A k \in DOMAIN ev.moves : OwnBlock(change(k))
  BY OwnChange, IdsOfBlock
<1>3. OwnBlock(UNION {change(k) : k \in DOMAIN ev.moves})
  BY <1>2 DEF OwnBlock
<1> QED BY <1>1, <1>3, OwnUnion DEF SaveMoves

LEMMA OwnInstantiate ==
  ASSUME NEW t, NEW m
  PROVE  OwnBlock(HandleContractInstantiateEvent(t, m))
<1>1. OwnBlock(SaveContractEvent(t, m))
  <2> SUFFICES ASSUME NEW s \in SaveContractEvent(t, m) PROVE s.id[2] \in {0, B}
    BY DEF OwnBlock
  <2>1. \E r : s = Row(ContractOf(t, m), {r, InstantiateId(t, m)}, ContractRow(t, m))
    BY DEF SaveContractEvent
  <2>2. s.id = ContractOf(t, m)
    BY <2>1, RowId
  <2> QED BY <2>2, IdsOfBlock DEF ContractOf
<1> QED BY <1>1, OwnMessageRow, OwnUnion DEF HandleContractInstantiateEvent

LEMMA OwnAuthz ==
  ASSUME NEW t, NEW m
  PROVE  OwnBlock(HandleAuthzExec(t, m))
<1> DEFINE pair(k) == {Row(SubMessageId(t, m, k), InTx(t), NoVal),
                       Row(Id("authz_exec_messages", t, m, k),
                           {Id("authz_execs", t, m, 0), SubMessageId(t, m, k)}, NoVal)}
           known == {j \in DOMAIN Msg(t, m).subs :
                       /\ Msg(t, m).subs[j] = "known" /\ Precede(j, BadSubs(Msg(t, m)))}
<1>1. OwnBlock(HandleMessage(t, m))
  BY OwnRow, OwnUnion, IdsOfBlock DEF HandleMessage, MessageRowId
<1>2. \A k : OwnBlock(pair(k))
  BY RowId, IdsOfBlock DEF OwnBlock, SubMessageId
<1>3. OwnBlock(UNION {pair(k) : k \in known})
  BY <1>2 DEF OwnBlock
<1> QED BY <1>1, <1>3, OwnMessageRow, OwnUnion DEF HandleAuthzExec

LEMMA OwnReward ==
  ASSUME NEW t, NEW m, NEW e
  PROVE  OwnBlock(HandleDelegatorWithdrawRewardEvent(t, m, e))
<1> DEFINE ev == Event(t, m, e)
           claims == IF Rewarded(ev) THEN ClaimsOf(t, Last(ev.moves).who) ELSE {}
           i == CHOOSE i \in claims : TRUE
           val == [rows[i] EXCEPT !.amount = Last(ev.moves).amount]
<1>1. CASE claims = {} \/ Last(ev.moves).coin = "bad"
  BY <1>1, OwnUnion DEF HandleDelegatorWithdrawRewardEvent
<1>2. CASE ~ (claims = {} \/ Last(ev.moves).coin = "bad")
  <2>1. i \in ClaimsOf(t, Last(ev.moves).who)
    BY <1>2
  <2>2. i[2] \in {0, B}
    BY <2>1 DEF ClaimsOf
  <2>3. OwnBlock({Row(i, {}, val)})
    <3> HIDE DEF i, val
    <3> QED BY <2>2, OwnRow
  <2> QED BY <1>2, <2>3 DEF HandleDelegatorWithdrawRewardEvent
<1> QED BY <1>1, <1>2

LEMMA OwnRegistration ==
  ASSUME NEW t, NEW m, NEW e
  PROVE  OwnBlock(HandleAlmanacRegistration(t, m, e))
<1> DEFINE ev == Event(t, m, e)
           record == Id("almanac_records", t, MessageIdOfEvent(m, e), 0)
           agent == AgentId(Head(ev.moves).who)
           registration == Id("almanac_registrations", t, MessageIdOfEvent(m, e), 0)
           both == {Row(record, InTx(t), NoVal),
                    Row(registration, InTx(t) \cup {agent, record, ContractOf(t, m)}, NoVal)}
<1>1. OwnBlock({Row(agent, {}, NoVal)})
  BY OwnRow, IdsOfBlock
<1>2. OwnBlock(both)
  BY RowId, IdsOfBlock DEF OwnBlock
<1> HIDE DEF both, agent
<1>3. OwnBlock(IF ContractOf(t, m) \notin DOMAIN rows THEN {} ELSE both)
  BY <1>2, OwnUnion
<1>4. OwnBlock({Row(agent, {}, NoVal)} \cup
               IF ContractOf(t, m) \notin DOMAIN rows THEN {} ELSE both)
  BY <1>1, <1>3, OwnUnion
<1> QED BY <1>4, OwnUnion DEF HandleAlmanacRegistration, both, agent

HandlerNames ==
  {"handleBlock", "handleTransaction", "handleMessage", "handleAuthzExec",
   "handleEvent", "handleGovProposalVote", "handleDistDelegatorClaim",
   "handleExecuteContractEvent", "handleLegacyBridgeSwap", "handleNativeTransfer",
   "handleDelegatorWithdrawRewardEvent", "handleCw20Transfer", "handleNativeBalanceDecrement",
   "handleNativeBalanceIncrement", "handleIBCTransfer", "handleCw20BalanceTransfer",
   "handleCw20BalanceBurn", "handleCw20BalanceMint", "handleContractStoreEvent",
   "handleContractInstantiateEvent", "handleAlmanacRegistration"}

LEMMA CallsHaveNames ==
  ASSUME NEW c \in IndexBlockData
  PROVE  Name(c) \in HandlerNames
<1>1. \A n \in DOMAIN Handlers : Handlers[n].name \in HandlerNames
  BY DEF Handlers, Handler, HandlerNames
<1>2. CASE c \in BlockCalls \cup TxCalls \cup MsgCalls \cup AuthzCalls
  BY <1>2 DEF BlockCalls, TxCalls, MsgCalls, AuthzCalls, Name, HandlerNames
<1>3. CASE c \in EventCalls
  <2>1. c[1] = 4 /\ c[5] \in DOMAIN Handlers
    BY <1>3 DEF EventCalls
  <2> QED BY <1>1, <2>1 DEF Name
<1> QED BY <1>2, <1>3 DEF IndexBlockData

LEMMA OwnSaves ==
  ASSUME NEW c \in IndexBlockData
  PROVE  OwnBlock(Saves(c))
<1> DEFINE t == c[2]
           m == c[3]
           e == c[4]
<1>1. OwnBlock(HandleBlock) /\ OwnBlock(HandleTransaction(t)) /\ OwnBlock(HandleMessage(t, m))
      /\ OwnBlock(HandleEvent(t, m, e))
  BY OwnRow, OwnUnion, IdsOfBlock
     DEF HandleBlock, HandleTransaction, HandleMessage, HandleEvent, BlockId, TxId, MessageRowId,
         EventId
<1>2. OwnBlock(HandleNativeBalanceDecrement(t, m, e))
      /\ OwnBlock(HandleNativeBalanceIncrement(t, m, e))
  BY OwnMoves DEF HandleNativeBalanceDecrement, HandleNativeBalanceIncrement
<1>3. /\ OwnBlock(HandleExecuteContractEvent(t, m)) /\ OwnBlock(HandleLegacyBridgeSwap(t, m))
      /\ OwnBlock(HandleCw20Transfer(t, m)) /\ OwnBlock(HandleContractStoreEvent(t, m))
      /\ OwnBlock(HandleGovProposalVote(t, m)) /\ OwnBlock(HandleNativeTransfer(t, m))
      /\ OwnBlock(HandleIBCTransfer(t, m, e)) /\ OwnBlock(HandleDistDelegatorClaim(t, m))
  BY OwnMessageRow, OwnUnion
     DEF HandleExecuteContractEvent, HandleLegacyBridgeSwap, HandleCw20Transfer,
         HandleContractStoreEvent, HandleGovProposalVote, HandleNativeTransfer,
         HandleIBCTransfer, HandleDistDelegatorClaim
<1>4. /\ OwnBlock(HandleCw20BalanceTransfer(t, m, e)) /\ OwnBlock(HandleCw20BalanceBurn(t, m, e))
      /\ OwnBlock(HandleCw20BalanceMint(t, m, e))
  BY OwnCw20, OwnUnion
     DEF HandleCw20BalanceTransfer, HandleCw20BalanceBurn, HandleCw20BalanceMint
<1>5. OwnBlock(SavesIfComplete(c))
  <2>1. Name(c) \in HandlerNames
    BY CallsHaveNames
  <2> QED BY <1>1, <1>2, <1>3, <1>4, <2>1, OwnInstantiate, OwnAuthz, OwnReward, OwnRegistration
          DEF SavesIfComplete, HandlerNames
<1> QED BY <1>5, OwnUnion DEF Saves

-----------------------------------------------------------------------------
(* The invariant.                                                            *)

HeightInv == height \in Nat /\ chain \in Chains /\ (open => B \in DOMAIN chain)

\* Rows belong to the blocks up to the one being indexed.
HeightsInv ==
  /\ \A i \in DOMAIN db : i[2] \in 0 .. height
  /\ open => \A i \in DOMAIN rows : i[2] \in 0 .. B

\* A failure is recorded, about to be, or has lost the transaction.
RecordInv ==
  /\ \A x \in thrown : UnprocessedId(x[1], x[2]) \in DOMAIN db
  /\ open => /\ DOMAIN db \subseteq DOMAIN rows
             /\ \A t \in failed :
                  t \in pending \/ aborted \/ UnprocessedId(B, t) \in DOMAIN rows

\* What the calls already made have left, while the transaction is sound
TxDone(t) == <<2, t, 0, 0, 0>> \notin todo /\ Tx(t).decodes => TxId(t) \in DOMAIN rows
MessageDone(t, m) ==
  <<3, t, m, 0, 0>> \notin todo => t \in failed \/ MessageRowId(t, m) \in DOMAIN rows
SubsDone(t, m) ==
  <<3, t, m, 0, 1>> \notin todo /\ Msg(t, m).type = "MsgExec" =>
    t \in failed \/ \A k \in KnownSubs(Msg(t, m)) : SubMessageId(t, m, k) \in DOMAIN rows

ProgressInv ==
  open => /\ todo \subseteq IndexBlockData
          /\ aborted \/ \A t \in DOMAIN Block(B) :
               /\ TxDone(t)
               /\ \A m \in DOMAIN Tx(t).msgs : MessageDone(t, m) /\ SubsDone(t, m)

\* The committed blocks
DoneInv ==
  \A b \in 1 .. height : \A t \in DOMAIN chain[b] :
    /\ <<"transactions", b, t, 0, 0>> \in DOMAIN db
    /\ UnprocessedId(b, t) \notin DOMAIN db =>
         \A m \in DOMAIN chain[b][t].msgs : \A k \in {0} \cup KnownSubs(chain[b][t].msgs[m]) :
           <<"messages", b, t, m, k>> \in DOMAIN db

BlockInv == HeightInv /\ HeightsInv /\ RecordInv /\ ProgressInv /\ DoneInv

LEMMA BlockInvInit == Init => BlockInv
  BY DEF Init, BlockInv, HeightInv, HeightsInv, RecordInv, ProgressInv, DoneInv, Empty

\* A closed block keeps it as long as the database does.
LEMMA ClosedKeepsInv ==
  ASSUME BlockInv, ~ open', UNCHANGED <<chain, height, db, thrown>>
  PROVE  BlockInv'
  BY DEF BlockInv, HeightInv, HeightsInv, RecordInv, ProgressInv, DoneInv, UnprocessedId

LEMMA UpsertedRows ==
  ASSUME NEW saves
  PROVE  DOMAIN Upserted(saves) = DOMAIN rows \cup Ids(saves)
  BY DEF Upserted

LEMMA OwnIds ==
  ASSUME NEW saves, OwnBlock(saves), BlockInv, open
  PROVE  \A i \in DOMAIN Upserted(saves) : i[2] \in 0 .. B
<1>1. \A i \in Ids(saves) : i[2] \in {0, B}
  BY DEF Ids, OwnBlock
<1>2. B \in Nat
  BY DEF BlockInv, HeightInv, B
<1>3. \A i \in DOMAIN rows : i[2] \in 0 .. B
  BY DEF BlockInv, HeightsInv
<1>4. 0 \in 0 .. B /\ B \in 0 .. B
  BY <1>2
<1> QED BY <1>1, <1>3, <1>4, UpsertedRows

\* What a step within a block has to see to
LEMMA StepKeepsInv ==
  ASSUME BlockInv, open, open', UNCHANGED <<chain, height, db, thrown>>,
         DOMAIN rows \subseteq DOMAIN rows', \A i \in DOMAIN rows' : i[2] \in 0 .. B,
         \A t \in failed' : t \in pending' \/ aborted' \/ UnprocessedId(B, t) \in DOMAIN rows',
         ProgressInv'
  PROVE  BlockInv'
<1>1. HeightInv' /\ HeightsInv'
  BY DEF BlockInv, HeightInv, HeightsInv, B
<1>2. RecordInv'
  BY DEF BlockInv, RecordInv, B, UnprocessedId
<1>3. DoneInv'
  BY DEF BlockInv, DoneInv, UnprocessedId
<1> QED BY <1>1, <1>2, <1>3 DEF BlockInv

LEMMA SameCalls ==
  ASSUME UNCHANGED <<chain, height>>
  PROVE  IndexBlockData' = IndexBlockData
<1>1. chain' = chain /\ height' = height
  OBVIOUS
<1> QED BY <1>1 DEF IndexBlockData, BlockCalls, TxCalls, MsgCalls, AuthzCalls, EventCalls,
              WrapEvent, Block, Tx, Msg, Event, B

\* Nothing that was done is undone as long as rows and failures only grow.
LEMMA ProgressKept ==
  ASSUME ProgressInv, open, UNCHANGED <<chain, height>>, todo' \subseteq todo,
         DOMAIN rows \subseteq DOMAIN rows', failed \subseteq failed', aborted => aborted',
         aborted' \/ \A t \in DOMAIN Block(B) :
           /\ <<2, t, 0, 0, 0>> \in todo \ todo' /\ Tx(t).decodes => TxId(t) \in DOMAIN rows'
           /\ \A m \in DOMAIN Tx(t).msgs :
                /\ <<3, t, m, 0, 0>> \in todo \ todo' =>
                     t \in failed' \/ MessageRowId(t, m) \in DOMAIN rows'
                /\ <<3, t, m, 0, 1>> \in todo \ todo' =>
                     \/ t \in failed'
                     \/ \A k \in KnownSubs(Msg(t, m)) : SubMessageId(t, m, k) \in DOMAIN rows'
  PROVE  ProgressInv'
<1>1. todo' \subseteq IndexBlockData'
  BY SameCalls DEF ProgressInv
<1>2. CASE aborted'
  BY <1>1, <1>2 DEF ProgressInv
<1>3. CASE ~ aborted'
  <2>1. UNCHANGED <<B, Block(B)>>
    BY DEF B, Block
  <2>2. ASSUME NEW t \in DOMAIN Block(B)
        PROVE  /\ TxDone(t)'
               /\ \A m \in DOMAIN Tx(t).msgs : MessageDone(t, m)' /\ SubsDone(t, m)'
    <3>1. UNCHANGED <<Tx(t), TxId(t)>>
      BY <2>1 DEF Tx, TxId, Id, B, Block
    <3>2. TxDone(t)'
      BY <1>3, <2>2, <3>1 DEF ProgressInv, TxDone
    <3>3. ASSUME NEW m \in DOMAIN Tx(t).msgs PROVE MessageDone(t, m)' /\ SubsDone(t, m)'
      <4>1. UNCHANGED <<Msg(t, m), MessageRowId(t, m)>>
        BY <3>1 DEF Msg, MessageRowId, Id, B
      <4>2. \A k : UNCHANGED SubMessageId(t, m, k)
        BY DEF SubMessageId, Id, B
      <4>3. MessageDone(t, m)'
        BY <1>3, <2>2, <4>1 DEF ProgressInv, MessageDone
      <4>4. SubsDone(t, m)'
        BY <1>3, <2>2, <4>1, <4>2 DEF ProgressInv, SubsDone, KnownSubs
      <4> QED BY <4>3, <4>4
    <3> QED BY <3>2, <3>3
  <2>3. \A t \in DOMAIN Block(B)' :
          TxDone(t)' /\ \A m \in DOMAIN Tx(t).msgs' : MessageDone(t, m)' /\ SubsDone(t, m)'
    <3>1. \A t : Tx(t)' = Tx(t)
      BY <2>1 DEF Tx, B, Block
    <3> QED BY <2>1, <2>2, <3>1
  <2> QED BY <1>1, <2>3 DEF ProgressInv
<1> QED BY <1>2, <1>3

LEMMA BeginBlockKeepsInv ==
  ASSUME BlockInv, BeginBlock
  PROVE  BlockInv'
<1>1. /\ ~ open /\ open' /\ todo' = IndexBlockData /\ rows' = db /\ failed' = {}
      /\ UNCHANGED <<chain, height, db, thrown>>
  BY DEF BeginBlock
<1>2. HeightInv' /\ HeightsInv' /\ RecordInv' /\ DoneInv'
  <2>1. height \in Nat /\ chain \in Chains /\ height < Len(chain)
    BY DEF BeginBlock, BlockInv, HeightInv
  <2>2. B \in DOMAIN chain
    BY <2>1, ChainsOK, ListedDomain DEF B
  <2>3. HeightInv'
    BY <1>1, <2>1, <2>2 DEF HeightInv, B
  <2> QED BY <1>1, <2>3 DEF BlockInv, HeightInv, HeightsInv, RecordInv, DoneInv, B, UnprocessedId
<1>3. todo' = IndexBlockData'
  BY <1>1, SameCalls
<1>4. ASSUME NEW t \in DOMAIN Block(B)'
      PROVE  /\ TxDone(t)'
             /\ \A m \in DOMAIN Tx(t).msgs' : MessageDone(t, m)' /\ SubsDone(t, m)'
  <2>1. <<2, t, 0, 0, 0>> \in TxCalls'
    BY <1>4 DEF TxCalls
  <2>2. ASSUME NEW m \in DOMAIN Tx(t).msgs' PROVE <<3, t, m, 0, 0>> \in MsgCalls'
    BY <1>4, <2>2 DEF MsgCalls
  <2>3. ASSUME NEW m \in DOMAIN Tx(t).msgs', Msg(t, m)'.type = "MsgExec"
        PROVE  <<3, t, m, 0, 1>> \in AuthzCalls'
    <3> DEFINE c == <<3, t, m, 0, 0>>
    <3>1. c \in MsgCalls' /\ c[2] = t /\ c[3] = m
      BY <2>2, <2>3
    <3> QED BY <2>3, <3>1 DEF AuthzCalls
  <2> QED BY <1>3, <2>1, <2>2, <2>3 DEF TxDone, MessageDone, SubsDone, IndexBlockData
<1>5. ProgressInv'
  BY <1>3, <1>4 DEF ProgressInv
<1> QED BY <1>2, <1>5 DEF BlockInv

LEMMA HandlerReturnsKeepsInv ==
  ASSUME BlockInv, NEW c \in todo, HandlerReturns(c)
  PROVE  BlockInv'
<1>1. /\ open /\ open' /\ ~ Throws(c) /\ todo' = todo \ {c} /\ rows' = Upserted(Saves(c))
      /\ UNCHANGED <<chain, height, db, aborted, pending, failed, thrown>>
  BY DEF HandlerReturns, Called, Reached
<1>2. DOMAIN rows' = DOMAIN rows \cup Ids(Saves(c))
  BY <1>1, UpsertedRows
<1>3. \A i \in DOMAIN rows' : i[2] \in 0 .. B
  <2>1. c \in IndexBlockData
    BY <1>1 DEF BlockInv, ProgressInv
  <2> QED BY <1>1, <2>1, OwnSaves, OwnIds
<1>4. \A t \in failed' : t \in pending' \/ aborted' \/ UnprocessedId(B, t) \in DOMAIN rows'
  BY <1>1, <1>2 DEF BlockInv, RecordInv
<1>5. ASSUME NEW t \in DOMAIN Block(B)
      PROVE  /\ <<2, t, 0, 0, 0>> \in todo \ todo' /\ Tx(t).decodes => TxId(t) \in DOMAIN rows'
             /\ \A m \in DOMAIN Tx(t).msgs :
                  /\ <<3, t, m, 0, 0>> \in todo \ todo' =>
                       t \in failed' \/ MessageRowId(t, m) \in DOMAIN rows'
                  /\ <<3, t, m, 0, 1>> \in todo \ todo' =>
                       \/ t \in failed'
                       \/ \A k \in KnownSubs(Msg(t, m)) : SubMessageId(t, m, k) \in DOMAIN rows'
  <2>1. \A d \in todo \ todo' : d = c
    BY <1>1
  <2>2. <<2, t, 0, 0, 0>> \in todo \ todo' => TxId(t) \in DOMAIN rows'
    BY <1>1, <1>2, <2>1, TxSaved
  <2>3. ASSUME NEW m
        PROVE  /\ <<3, t, m, 0, 0>> \in todo \ todo' => MessageRowId(t, m) \in DOMAIN rows'
               /\ <<3, t, m, 0, 1>> \in todo \ todo' =>
                    \A k \in KnownSubs(Msg(t, m)) : SubMessageId(t, m, k) \in DOMAIN rows'
    BY <1>1, <1>2, <2>1, MessageSaved, SubsSaved
  <2> QED BY <2>2, <2>3
<1>6. ProgressInv'
  BY <1>1, <1>2, <1>5, ProgressKept DEF BlockInv
<1> QED BY <1>1, <1>2, <1>3, <1>4, <1>6, StepKeepsInv

LEMMA HandlerThrowsKeepsInv ==
  ASSUME BlockInv, NEW c \in todo, HandlerThrows(c)
  PROVE  BlockInv'
<1>1. /\ open /\ open' /\ Throws(c) /\ todo' = todo \ {c} /\ rows' = Upserted(Saves(c))
      /\ failed' = failed \cup {c[2]} /\ pending' = pending \cup {c[2]}
      /\ UNCHANGED <<chain, height, db, aborted, thrown>>
  BY DEF HandlerThrows, Called, Reached, Failing
<1>2. DOMAIN rows' = DOMAIN rows \cup Ids(Saves(c))
  BY <1>1, UpsertedRows
<1>3. \A i \in DOMAIN rows' : i[2] \in 0 .. B
  <2>1. c \in IndexBlockData
    BY <1>1 DEF BlockInv, ProgressInv
  <2> QED BY <1>1, <2>1, OwnSaves, OwnIds
<1>4. \A t \in failed' : t \in pending' \/ aborted' \/ UnprocessedId(B, t) \in DOMAIN rows'
  BY <1>1, <1>2 DEF BlockInv, RecordInv
<1>5. ASSUME NEW t \in DOMAIN Block(B)
      PROVE  /\ <<2, t, 0, 0, 0>> \in todo \ todo' /\ Tx(t).decodes => TxId(t) \in DOMAIN rows'
             /\ \A m \in DOMAIN Tx(t).msgs :
                  /\ <<3, t, m, 0, 0>> \in todo \ todo' => t \in failed'
                  /\ <<3, t, m, 0, 1>> \in todo \ todo' => t \in failed'
  <2>1. \A d \in todo \ todo' : d = c
    BY <1>1
  <2>2. <<2, t, 0, 0, 0>> \in todo \ todo' => ~ Tx(t).decodes
    BY <1>1, <2>1, TxCall
  <2>3. ASSUME NEW m, NEW a, <<3, t, m, 0, a>> \in todo \ todo' PROVE t \in failed'
    <3>1. c = <<3, t, m, 0, a>>
      BY <2>1, <2>3
    <3> QED BY <1>1, <3>1
  <2> QED BY <2>2, <2>3
<1>6. ProgressInv'
  BY <1>1, <1>2, <1>5, ProgressKept DEF BlockInv
<1> QED BY <1>1, <1>2, <1>3, <1>4, <1>6, StepKeepsInv

LEMMA StatementFailsKeepsInv ==
  ASSUME BlockInv, NEW c \in todo, StatementFails(c)
  PROVE  BlockInv'
<1>1. /\ open /\ open' /\ todo' = todo \ {c} /\ aborted' /\ rows' = rows
      /\ failed \subseteq failed' /\ UNCHANGED <<chain, height, db, thrown>>
  BY DEF StatementFails, Called, Reached, Failing
<1>2. ProgressInv'
  BY <1>1, ProgressKept DEF BlockInv
<1>3. \A i \in DOMAIN rows' : i[2] \in 0 .. B
  BY <1>1 DEF BlockInv, HeightsInv
<1> QED BY <1>1, <1>2, <1>3, StepKeepsInv

LEMMA TrackUnprocessedKeepsInv ==
  ASSUME BlockInv, NEW t \in pending, TrackUnprocessed(t)
  PROVE  BlockInv'
<1> DEFINE save == {Row(UnprocessedId(B, t), InTx(t), NoVal)}
<1>1. /\ open /\ open' /\ pending' = pending \ {t}
      /\ UNCHANGED <<chain, height, db, todo, failed, thrown>>
      /\ \/ aborted' = TRUE /\ rows' = rows
         \/ rows' = Upserted(save) /\ aborted' = aborted
  BY DEF TrackUnprocessed
<1>2. Ids(save) = {UnprocessedId(B, t)}
  BY RowId DEF Ids
<1>3. OwnBlock(save)
  BY OwnRow DEF UnprocessedId
<1> HIDE DEF save
<1>4. CASE aborted' = TRUE /\ rows' = rows
  <2>1. ProgressInv'
    BY <1>1, <1>4, ProgressKept DEF BlockInv
  <2>2. \A i \in DOMAIN rows' : i[2] \in 0 .. B
    BY <1>1, <1>4 DEF BlockInv, HeightsInv
  <2> QED BY <1>1, <1>4, <2>1, <2>2, StepKeepsInv
<1>5. CASE rows' = Upserted(save) /\ aborted' = aborted
  <2>1. DOMAIN rows' = DOMAIN rows \cup {UnprocessedId(B, t)}
    BY <1>2, <1>5, UpsertedRows
  <2>2. ProgressInv'
    BY <1>1, <1>5, <2>1, ProgressKept DEF BlockInv
  <2>3. \A i \in DOMAIN rows' : i[2] \in 0 .. B
    BY <1>1, <1>3, <1>5, OwnIds
  <2>4. \A u \in failed' : u \in pending' \/ aborted' \/ UnprocessedId(B, u) \in DOMAIN rows'
    BY <1>1, <1>5, <2>1 DEF BlockInv, RecordInv
  <2> QED BY <1>1, <2>1, <2>2, <2>3, <2>4, StepKeepsInv
<1> QED BY <1>1, <1>4, <1>5

\* Every message of the block that is committed has its rows, or its
\* transaction a record.
LEMMA CommitCompletes ==
  ASSUME BlockInv, CommitBlock, NEW t \in DOMAIN chain[B]
  PROVE  /\ <<"transactions", B, t, 0, 0>> \in DOMAIN rows
         /\ t \notin failed =>
              \A m \in DOMAIN chain[B][t].msgs : \A k \in {0} \cup KnownSubs(chain[B][t].msgs[m]) :
                <<"messages", B, t, m, k>> \in DOMAIN rows
<1>1. open /\ todo = {} /\ ~ aborted /\ Wraps
  BY DEF CommitBlock
<1>2. t \in DOMAIN Block(B) /\ Tx(t) = chain[B][t]
  BY DEF Block, Tx
<1>3. /\ TxDone(t) /\ \A m \in DOMAIN Tx(t).msgs : MessageDone(t, m) /\ SubsDone(t, m)
  BY <1>1, <1>2 DEF BlockInv, ProgressInv
<1>4. TxId(t) \in DOMAIN rows
  BY <1>1, <1>2, <1>3 DEF Wraps, TxDone
<1>5. ASSUME t \notin failed, NEW m \in DOMAIN Tx(t).msgs, NEW k \in {0} \cup KnownSubs(Msg(t, m))
      PROVE  <<"messages", B, t, m, k>> \in DOMAIN rows
  <2>1. CASE k = 0
    <3>1. MessageRowId(t, m) \in DOMAIN rows
      BY <1>1, <1>3, <1>5 DEF MessageDone
    <3> QED BY <3>1, <2>1 DEF MessageRowId, Id
  <2>2. CASE k \in KnownSubs(Msg(t, m))
    <3>1. Msg(t, m).subs # <<>>
      BY <2>2 DEF KnownSubs
    <3>2. Msg(t, m).type = "MsgExec"
      <4>1. chain \in Chains /\ B \in DOMAIN chain
        BY <1>1 DEF BlockInv, HeightInv
      <4>2. MessageOK(Msg(t, m))
        BY <1>2, <1>5, <4>1, ChainsOK DEF TxOK, Msg
      <4> QED BY <3>1, <4>2 DEF MessageOK
    <3>3. SubMessageId(t, m, k) \in DOMAIN rows
      BY <1>1, <1>3, <1>5, <2>2, <3>2 DEF SubsDone
    <3> QED BY <3>3 DEF SubMessageId, Id
  <2> QED BY <1>5, <2>1, <2>2
<1> QED BY <1>2, <1>4, <1>5 DEF TxId, Id, Msg

LEMMA CommitBlockKeepsInv ==
  ASSUME BlockInv, CommitBlock
  PROVE  BlockInv'
<1>1. /\ open /\ todo = {} /\ pending = {} /\ ~ aborted /\ ~ open'
      /\ height' = B /\ db' = rows /\ thrown' = thrown \cup {<<B, t>> : t \in failed}
      /\ chain' = chain
  BY DEF CommitBlock
<1>2. height \in Nat /\ B = height + 1 /\ height' = height + 1
  BY <1>1 DEF BlockInv, HeightInv, B
<1>3. HeightInv' /\ HeightsInv'
  BY <1>1, <1>2 DEF BlockInv, HeightInv, HeightsInv
<1>4. DOMAIN db \subseteq DOMAIN db'
  BY <1>1 DEF BlockInv, RecordInv
<1>5. \A t \in failed : UnprocessedId(B, t) \in DOMAIN db'
  BY <1>1 DEF BlockInv, RecordInv
<1>6. RecordInv'
  <2> SUFFICES ASSUME NEW x \in thrown' PROVE UnprocessedId(x[1], x[2]) \in DOMAIN db'
    BY <1>1 DEF RecordInv, UnprocessedId
  <2>1. CASE x \in thrown
    BY <2>1, <1>4 DEF BlockInv, RecordInv
  <2>2. ASSUME NEW t \in failed, x = <<B, t>> PROVE UnprocessedId(x[1], x[2]) \in DOMAIN db'
    BY <2>2, <1>5
  <2> QED BY <1>1, <2>1, <2>2
<1>7. ProgressInv'
  BY <1>1 DEF ProgressInv
<1>8. DoneInv'
  <2> SUFFICES ASSUME NEW b \in 1 .. height', NEW t \in DOMAIN chain[b]
               PROVE  /\ <<"transactions", b, t, 0, 0>> \in DOMAIN db'
                      /\ UnprocessedId(b, t) \notin DOMAIN db' =>
                           \A m \in DOMAIN chain[b][t].msgs :
                             \A k \in {0} \cup KnownSubs(chain[b][t].msgs[m]) :
                               <<"messages", b, t, m, k>> \in DOMAIN db'
    BY <1>1 DEF DoneInv, UnprocessedId, KnownSubs
  <2>1. CASE b \in 1 .. height
    BY <2>1, <1>4 DEF BlockInv, DoneInv
  <2>2. CASE b = B
    BY <2>2, <1>1, <1>5, CommitCompletes
  <2> QED BY <2>1, <2>2, <1>2
<1> QED BY <1>3, <1>6, <1>7, <1>8 DEF BlockInv

LEMMA BlockInvNext == BlockInv /\ [Next]_vars => BlockInv'
<1> SUFFICES ASSUME BlockInv, [Next]_vars PROVE BlockInv'
  OBVIOUS
<1>1. CASE BeginBlock
  BY <1>1, BeginBlockKeepsInv
<1>2. CASE Call
  <2>1. PICK c \in todo :
          \/ HandlerReturns(c) \/ HandlerThrows(c) \/ StatementFails(c)
          \/ FilterFails(c) \/ HandlerEscapes(c)
    BY <1>2 DEF Call
  <2>2. CASE FilterFails(c) \/ HandlerEscapes(c)
    BY <2>2, ClosedKeepsInv DEF FilterFails, HandlerEscapes, Exit
  <2> QED BY <2>1, <2>2, HandlerReturnsKeepsInv, HandlerThrowsKeepsInv, StatementFailsKeepsInv
<1>3. CASE \E t \in pending : TrackUnprocessed(t)
  BY <1>3, TrackUnprocessedKeepsInv
<1>4. CASE CommitBlock
  BY <1>4, CommitBlockKeepsInv
<1>5. CASE WrapFails \/ MetadataFails \/ Crash
  BY <1>5, ClosedKeepsInv DEF WrapFails, MetadataFails, Crash, Exit
<1>6. CASE UNCHANGED vars
  <2>1. UNCHANGED <<chain, height, db, open, todo, rows, aborted, pending, failed, thrown>>
    BY <1>6 DEF vars, work
  <2>2. CASE open
    <3>1. ProgressInv'
      BY <2>1, <2>2, ProgressKept DEF BlockInv
    <3> QED BY <2>1, <2>2, <3>1, StepKeepsInv DEF BlockInv, HeightsInv, RecordInv
  <2>3. CASE ~ open
    BY <2>1, <2>3, ClosedKeepsInv
  <2> QED BY <2>2, <2>3
<1> QED BY <1>1, <1>2, <1>3, <1>4, <1>5, <1>6 DEF Next, IndexBlock

LEMMA BlockInvHolds == Spec => []BlockInv
<1> QED BY BlockInvInit, BlockInvNext, PTL DEF Spec

-----------------------------------------------------------------------------
(* Theorems.                                                                 *)

\* attemptHandling does not wait for the record of a failure, yet no block in
\* which a handler threw is committed without it: a record that cannot be
\* written has cost the block its transaction.
THEOREM FailuresLeaveRecords == Spec => []FailuresAreRecorded
<1>1. BlockInv => FailuresAreRecorded
  BY DEF BlockInv, RecordInv, FailuresAreRecorded, Unrecorded
<1> QED BY <1>1, BlockInvHolds, PTL

\* Wherever handlers throw, statements fail or the process dies: the database
\* has nothing of a block that is not committed, every transaction of those that
\* are, and every message, those inside an authorisation included, of the
\* transactions without a record of failure.
THEOREM BlocksAreComplete == Spec => []CommittedBlocksAreComplete
<1>1. BlockInv => CommittedBlocksAreComplete
  <2> SUFFICES ASSUME BlockInv PROVE CommittedBlocksAreComplete
    OBVIOUS
  <2>1. \A i \in DOMAIN db : i[2] <= height
    BY DEF BlockInv, HeightsInv, HeightInv
  <2>2. ASSUME NEW x \in Committed
        PROVE  x[1] \in 1 .. height /\ x[2] \in DOMAIN chain[x[1]]
    BY DEF Committed, TxsOf
  <2>3. \A x \in Committed : <<"transactions", x[1], x[2], 0, 0>> \in DOMAIN db
    BY <2>2 DEF BlockInv, DoneInv
  <2>4. ASSUME NEW x \in Unrecorded, NEW m \in DOMAIN TxAt(x).msgs,
               NEW k \in {0} \cup KnownSubs(TxAt(x).msgs[m])
        PROVE  <<"messages", x[1], x[2], m, k>> \in DOMAIN db
    BY <2>2, <2>4 DEF BlockInv, DoneInv, Unrecorded, TxAt
  <2> QED BY <2>1, <2>3, <2>4 DEF CommittedBlocksAreComplete
<1> QED BY <1>1, BlockInvHolds, PTL

=============================================================================
