-------------------------- MODULE BlockRowsProofs ---------------------------
(***************************************************************************)
(* Proofs about the rows that BlockHandlers leaves: what they say can be   *)
(* read off the blocks, balances and tokens add up, rewards reach their    *)
(* claims and contracts have the interface that they resemble.             *)
(*                                                                         *)
(* First the facts about SumFunctionOnSet: a sum over a finite set does    *)
(* not depend on the order in which it is taken, splits at disjoint sets   *)
(* and moves along an injection.  What holds for all finite sets is proved *)
(* by looking at a smallest one for which it fails.                        *)
(***************************************************************************)
EXTENDS BlockHandlersProofs, FiniteSetTheorems

-----------------------------------------------------------------------------
(* Sums over finite sets. *)

LEMMA SmallestSet ==
  ASSUME NEW S, IsFiniteSet(S), NEW Bad \in SUBSET SUBSET S, Bad # {}
  PROVE  \E T \in Bad : \A U \in Bad : U \subseteq T => U = T
<1>1. FiniteSubsetsOf(S) = SUBSET S
  BY FS_FiniteSubsetsOfFinite
<1>2. IsWellFoundedOn(StrictSubsetOrdering(S), SUBSET S)
  BY <1>1, FS_StrictSubsetOrderingWellFounded
<1>3. PICK T \in Bad : \A U \in Bad : ~ (<<U, T>> \in StrictSubsetOrdering(S))
  BY <1>2, WFMin
<1>4. ASSUME NEW U \in Bad, U \subseteq T, U # T PROVE FALSE
  <2>1. <<U, T>> \in (SUBSET S) \X (SUBSET S)
    OBVIOUS
  <2> QED BY <1>3, <1>4, <2>1 DEF StrictSubsetOrdering
<1> QED BY <1>4

-----------------------------------------------------------------------------
(* The recursive function behind a sum exists, and its values on the       *)
(* subsets are the sums over them.                                         *)

Summand(f, g, s) ==
  IF s = {} THEN 0 ELSE f[CHOOSE x \in s : TRUE] + g[s \ {CHOOSE x \in s : TRUE}]
AreSums(g, f, S) == g = [s \in SUBSET S |-> Summand(f, g, s)]
SumsOf(f, S) == CHOOSE g : AreSums(g, f, S)

LEMMA SumIs ==
  ASSUME NEW f, NEW S
  PROVE  SumFunctionOnSet(f, S) = SumsOf(f, S)[S]
BY DEF SumFunctionOnSet, FoldFunctionOnSet, MapThenFoldSet, SumsOf, AreSums, Summand

LEMMA SumsAt ==
  ASSUME NEW f, NEW g, NEW S, AreSums(g, f, S), NEW s \in SUBSET S
  PROVE  g[s] = Summand(f, g, s)
BY DEF AreSums

LEMMA SumsAgree ==
  ASSUME NEW f, NEW g, NEW h, NEW S, NEW T, AreSums(g, f, S), AreSums(h, f, T),
         NEW U, U \subseteq S, U \subseteq T, IsFiniteSet(U)
  PROVE  g[U] = h[U]
<1> DEFINE Bad == {V \in SUBSET U : g[V] # h[V]}
<1> SUFFICES ASSUME Bad # {} PROVE FALSE
  OBVIOUS
<1>1. PICK V \in Bad : \A W \in Bad : W \subseteq V => W = V
  <2> HIDE DEF Bad
  <2>1. Bad \in SUBSET SUBSET U
    BY DEF Bad
  <2> QED BY <2>1, SmallestSet
<1>2. V \in SUBSET S /\ V \in SUBSET T
  OBVIOUS
<1>3. g[V] = Summand(f, g, V) /\ h[V] = Summand(f, h, V)
  BY <1>2, SumsAt
<1>4. CASE V = {}
  BY <1>3, <1>4 DEF Summand
<1>5. CASE V # {}
  <2> DEFINE x == CHOOSE x \in V : TRUE
             W == V \ {x}
  <2>1. x \in V
    BY <1>5
  <2>2. W \notin Bad
    BY <1>1, <2>1
  <2>3. g[W] = h[W]
    BY <2>2
  <2>4. g[V] = f[x] + g[W] /\ h[V] = f[x] + h[W]
    BY <1>3, <1>5 DEF Summand
  <2> QED BY <2>3, <2>4
<1> QED BY <1>4, <1>5

LEMMA SumsExist ==
  ASSUME NEW f, NEW S, IsFiniteSet(S)
  PROVE  \E g : AreSums(g, f, S)
<1> DEFINE Bad == {T \in SUBSET S : ~ \E g : AreSums(g, f, T)}
<1> SUFFICES ASSUME Bad # {} PROVE FALSE
  OBVIOUS
<1>1. PICK T \in Bad : \A U \in Bad : U \subseteq T => U = T
  <2> HIDE DEF Bad
  <2>1. Bad \in SUBSET SUBSET S
    BY DEF Bad
  <2> QED BY <2>1, SmallestSet
<1>2. ASSUME NEW U \in SUBSET T, U # T
      PROVE  AreSums(SumsOf(f, U), f, U)
  <2>1. \E g : AreSums(g, f, U)
    BY <1>1, <1>2
  <2> QED BY <2>1 DEF SumsOf
<1> DEFINE part(U) == SumsOf(f, U)[U]
           x(U) == CHOOSE x \in U : TRUE
           all == [U \in SUBSET T |->
                     IF U = {} THEN 0 ELSE f[x(U)] + part(U \ {x(U)})]
<1>3. ASSUME NEW U \in SUBSET T, U # T
      PROVE  all[U] = part(U)
  <2> DEFINE V == U \ {x(U)}
  <2>1. SumsOf(f, U)[U] = Summand(f, SumsOf(f, U), U)
    BY <1>2, <1>3, SumsAt
  <2>2. CASE U = {}
    BY <2>1, <2>2 DEF Summand
  <2>3. CASE U # {}
    <3>1. V \in SUBSET U /\ V \in SUBSET T /\ V # T /\ IsFiniteSet(V)
      <4>1. IsFiniteSet(U)
        BY <1>3, FS_Subset
      <4> QED BY <1>3, <2>3, <4>1, FS_Subset
    <3>2. AreSums(SumsOf(f, V), f, V) /\ AreSums(SumsOf(f, U), f, U)
      BY <1>2, <1>3, <3>1
    <3>3. SumsOf(f, U)[V] = SumsOf(f, V)[V]
      <4> HIDE DEF V
      <4> QED BY <3>1, <3>2, SumsAgree
    <3>4. SumsOf(f, U)[U] = f[x(U)] + SumsOf(f, U)[V]
      BY <2>1, <2>3 DEF Summand
    <3> QED BY <2>3, <3>3, <3>4
  <2> QED BY <2>2, <2>3
<1>4. ASSUME NEW U \in SUBSET T
      PROVE  all[U] = Summand(f, all, U)
  <2>1. CASE U = {}
    BY <2>1 DEF Summand
  <2>2. CASE U # {}
    <3> DEFINE V == U \ {x(U)}
    <3>1. V \in SUBSET T /\ V # T
      BY <2>2
    <3>2. all[V] = part(V)
      BY <1>3, <3>1
    <3> HIDE DEF part
    <3>3. all[U] = f[x(U)] + part(V)
      BY <2>2
    <3> HIDE DEF all
    <3> QED BY <2>2, <3>2, <3>3 DEF Summand
  <2> QED BY <2>1, <2>2
<1>5. AreSums(all, f, T)
  <2>1. all = [U \in SUBSET T |-> all[U]]
    OBVIOUS
  <2> HIDE DEF all
  <2>2. [U \in SUBSET T |-> all[U]] = [U \in SUBSET T |-> Summand(f, all, U)]
    BY <1>4
  <2> QED BY <2>1, <2>2 DEF AreSums
<1> QED BY <1>1, <1>5

-----------------------------------------------------------------------------
(* The facts. *)

LEMMA SumOfNone ==
  ASSUME NEW f
  PROVE  SumFunctionOnSet(f, {}) = 0
<1>1. AreSums(SumsOf(f, {}), f, {})
  BY SumsExist, FS_EmptySet DEF SumsOf
<1> QED BY <1>1, SumsAt, SumIs DEF Summand

LEMMA SumOfSome ==
  ASSUME NEW f, NEW S, IsFiniteSet(S), S # {}
  PROVE  \E x \in S : SumFunctionOnSet(f, S) = f[x] + SumFunctionOnSet(f, S \ {x})
<1> DEFINE x == CHOOSE x \in S : TRUE
           T == S \ {x}
<1>1. x \in S
  OBVIOUS
<1>2. IsFiniteSet(T) /\ T \subseteq S
  BY FS_RemoveElement
<1>3. AreSums(SumsOf(f, S), f, S) /\ AreSums(SumsOf(f, T), f, T)
  BY <1>2, SumsExist DEF SumsOf
<1>4. SumsOf(f, S)[T] = SumsOf(f, T)[T]
  <2> HIDE DEF T
  <2> QED BY <1>2, <1>3, SumsAgree
<1>5. SumsOf(f, S)[S] = Summand(f, SumsOf(f, S), S)
  BY <1>3, SumsAt
<1>6. SumsOf(f, S)[S] = f[x] + SumsOf(f, S)[T]
  BY <1>5 DEF Summand
<1> QED BY <1>1, <1>4, <1>6, SumIs

LEMMA SumIsInt ==
  ASSUME NEW f, NEW S, IsFiniteSet(S), \A x \in S : f[x] \in Int
  PROVE  SumFunctionOnSet(f, S) \in Int
<1> DEFINE Bad == {T \in SUBSET S : SumFunctionOnSet(f, T) \notin Int}
<1> SUFFICES ASSUME Bad # {} PROVE FALSE
  OBVIOUS
<1>1. PICK T \in Bad : \A U \in Bad : U \subseteq T => U = T
  <2> HIDE DEF Bad
  <2>1. Bad \in SUBSET SUBSET S
    BY DEF Bad
  <2> QED BY <2>1, SmallestSet
<1>2. T # {} /\ IsFiniteSet(T)
  <2>1. SumFunctionOnSet(f, {}) \in Int
    BY SumOfNone
  <2>2. IsFiniteSet(T)
    BY FS_Subset
  <2> QED BY <2>1, <2>2
<1>3. PICK x \in T : SumFunctionOnSet(f, T) = f[x] + SumFunctionOnSet(f, T \ {x})
  BY <1>2, SumOfSome
<1>4. SumFunctionOnSet(f, T \ {x}) \in Int /\ f[x] \in Int
  BY <1>1
<1> QED BY <1>3, <1>4

\* Any element may be taken out first.
LEMMA SumTakes ==
  ASSUME NEW f, NEW S, IsFiniteSet(S), \A x \in S : f[x] \in Int, NEW a \in S
  PROVE  SumFunctionOnSet(f, S) = f[a] + SumFunctionOnSet(f, S \ {a})
<1> DEFINE sum(T) == SumFunctionOnSet(f, T)
           Bad == {T \in SUBSET S : \E x \in T : sum(T) # f[x] + sum(T \ {x})}
<1> SUFFICES ASSUME Bad # {} PROVE FALSE
  OBVIOUS
<1>1. PICK T \in Bad : \A U \in Bad : U \subseteq T => U = T
  <2> HIDE DEF Bad
  <2>1. Bad \in SUBSET SUBSET S
    BY DEF Bad
  <2> QED BY <2>1, SmallestSet
<1>2. PICK x \in T : sum(T) # f[x] + sum(T \ {x})
  OBVIOUS
<1>3. PICK c \in T : sum(T) = f[c] + sum(T \ {c})
  BY FS_Subset, SumOfSome
<1>4. x # c
  BY <1>2, <1>3
<1>5. T \ {c} \notin Bad /\ T \ {x} \notin Bad
  BY <1>1
<1>6. sum(T \ {c}) = f[x] + sum((T \ {c}) \ {x}) /\ sum(T \ {x}) = f[c] + sum((T \ {x}) \ {c})
  BY <1>4, <1>5
<1>7. (T \ {c}) \ {x} = (T \ {x}) \ {c}
  OBVIOUS
<1>8. f[x] \in Int /\ f[c] \in Int /\ sum((T \ {x}) \ {c}) \in Int
  <2>1. IsFiniteSet((T \ {x}) \ {c})
    BY FS_Subset
  <2>2. f[x] \in Int /\ f[c] \in Int
    OBVIOUS
  <2>3. sum((T \ {x}) \ {c}) \in Int
    BY <2>1, SumIsInt
  <2> QED BY <2>2, <2>3
<1> DEFINE rest == sum((T \ {x}) \ {c})
<1>9. /\ sum(T) = f[c] + (f[x] + rest) /\ sum(T) # f[x] + (f[c] + rest)
  BY <1>2, <1>3, <1>6, <1>7
<1>10. f[x] \in Int /\ f[c] \in Int /\ rest \in Int
  BY <1>8
<1> HIDE DEF sum, rest
<1> QED BY <1>9, <1>10

LEMMA SumOfUnion ==
  ASSUME NEW f, NEW S, NEW T, IsFiniteSet(S), IsFiniteSet(T), S \cap T = {},
         \A x \in S \cup T : f[x] \in Int
  PROVE  SumFunctionOnSet(f, S \cup T) = SumFunctionOnSet(f, S) + SumFunctionOnSet(f, T)
<1> DEFINE sum(U) == SumFunctionOnSet(f, U)
           Bad == {U \in SUBSET S : sum(U \cup T) # sum(U) + sum(T)}
<1> SUFFICES ASSUME Bad # {} PROVE FALSE
  OBVIOUS
<1>1. PICK U \in Bad : \A V \in Bad : V \subseteq U => V = U
  <2> HIDE DEF Bad
  <2>1. Bad \in SUBSET SUBSET S
    BY DEF Bad
  <2> QED BY <2>1, SmallestSet
<1>2. IsFiniteSet(U) /\ IsFiniteSet(U \cup T)
  <2>1. IsFiniteSet(U)
    BY FS_Subset
  <2> QED BY <2>1, FS_Union
<1>3. sum(T) \in Int /\ sum(U) \in Int
  BY <1>2, SumIsInt
<1>4. U # {}
  <2>1. sum({}) = 0
    BY SumOfNone
  <2>2. {} \cup T = T
    OBVIOUS
  <2> HIDE DEF sum
  <2> QED BY <1>3, <2>1, <2>2
<1>5. PICK x \in U : TRUE
  BY <1>4
<1>6. sum(U) = f[x] + sum(U \ {x}) /\ sum(U \cup T) = f[x] + sum((U \cup T) \ {x})
  BY <1>2, SumTakes
<1>7. (U \cup T) \ {x} = (U \ {x}) \cup T
  OBVIOUS
<1>8. sum((U \ {x}) \cup T) = sum(U \ {x}) + sum(T)
  BY <1>1
<1>9. f[x] \in Int /\ sum(U \ {x}) \in Int
  <2>1. IsFiniteSet(U \ {x})
    BY <1>2, FS_Subset
  <2>2. f[x] \in Int
    OBVIOUS
  <2>3. sum(U \ {x}) \in Int
    BY <2>1, SumIsInt
  <2> QED BY <2>2, <2>3
<1>10. sum(U \cup T) # sum(U) + sum(T)
  OBVIOUS
<1> DEFINE less == sum(U \ {x})
           other == sum(T)
<1>11. f[x] + (less + other) # (f[x] + less) + other
  BY <1>6, <1>7, <1>8, <1>10
<1>12. f[x] \in Int /\ less \in Int /\ other \in Int
  BY <1>3, <1>9
<1> HIDE DEF sum, less, other
<1> QED BY <1>11, <1>12

\* Along an injection, with the sign kept or turned.
LEMMA SumOfImage ==
  ASSUME NEW f, NEW g, NEW h, NEW S, IsFiniteSet(S), NEW sign \in {1, -1},
         \A x, y \in S : h[x] = h[y] => x = y,
         \A x \in S : f[x] \in Int /\ g[h[x]] = sign * f[x]
  PROVE  SumFunctionOnSet(g, {h[x] : x \in S}) = sign * SumFunctionOnSet(f, S)
<1> DEFINE image(U) == {h[x] : x \in U}
           Bad == {U \in SUBSET S : SumFunctionOnSet(g, image(U)) # sign * SumFunctionOnSet(f, U)}
<1> SUFFICES ASSUME Bad # {} PROVE FALSE
  OBVIOUS
<1>1. PICK U \in Bad : \A V \in Bad : V \subseteq U => V = U
  <2> HIDE DEF Bad
  <2>1. Bad \in SUBSET SUBSET S
    BY DEF Bad
  <2> QED BY <2>1, SmallestSet
<1>2. IsFiniteSet(U) /\ IsFiniteSet(image(U))
  <2>1. IsFiniteSet(U)
    BY FS_Subset
  <2>2. [x \in U |-> h[x]] \in Surjection(U, image(U))
    BY DEF Surjection
  <2>3. IsFiniteSet(image(U))
    <3> HIDE DEF image
    <3> QED BY <2>1, <2>2, FS_Surjection
  <2> QED BY <2>1, <2>3
<1>3. U # {}
  <2>1. image({}) = {}
    OBVIOUS
  <2>2. SumFunctionOnSet(g, image({})) = 0
    BY <2>1, SumOfNone
  <2>3. SumFunctionOnSet(f, {}) = 0
    BY SumOfNone
  <2>4. sign * 0 = 0
    OBVIOUS
  <2> QED BY <2>2, <2>3, <2>4
<1>4. PICK x \in U : TRUE
  BY <1>3
<1>5. SumFunctionOnSet(f, U) = f[x] + SumFunctionOnSet(f, U \ {x})
  BY <1>2, SumTakes
<1>6. h[x] \in image(U) /\ image(U) \ {h[x]} = image(U \ {x})
  OBVIOUS
<1>7. \A z \in image(U) : g[z] \in Int
  OBVIOUS
<1>8. SumFunctionOnSet(g, image(U)) = g[h[x]] + SumFunctionOnSet(g, image(U) \ {h[x]})
  <2> HIDE DEF image
  <2> QED BY <1>2, <1>6, <1>7, SumTakes
<1>9. SumFunctionOnSet(g, image(U \ {x})) = sign * SumFunctionOnSet(f, U \ {x})
  BY <1>1
<1>10. f[x] \in Int /\ g[h[x]] = sign * f[x] /\ SumFunctionOnSet(f, U \ {x}) \in Int
  <2>1. IsFiniteSet(U \ {x})
    BY <1>2, FS_Subset
  <2> QED BY <2>1, SumIsInt
<1>11. SumFunctionOnSet(g, image(U)) # sign * SumFunctionOnSet(f, U)
  OBVIOUS
<1> DEFINE less == SumFunctionOnSet(f, U \ {x})
<1>12. sign * f[x] + sign * less # sign * (f[x] + less)
  BY <1>5, <1>6, <1>8, <1>9, <1>10, <1>11
<1>13. f[x] \in Int /\ less \in Int
  BY <1>10
<1> HIDE DEF less
<1> QED BY <1>12, <1>13

-----------------------------------------------------------------------------
(***************************************************************************)
(* What the rows say.  A row fits the blocks if what its handler put into  *)
(* it can be read off them.                                                *)
(***************************************************************************)

TheTx(ch, b, t) == b \in DOMAIN ch /\ t \in DOMAIN ch[b]
TheMsg(ch, b, t, m) == TheTx(ch, b, t) /\ m \in DOMAIN ch[b][t].msgs
Logged(ch, b, t, m, e) ==
  TheMsg(ch, b, t, m) /\ ch[b][t].ok /\ e \in DOMAIN ch[b][t].msgs[m].events
TypeOf == [spend |-> "coin_spent", receive |-> "coin_received"]
SignOf == [spend |-> -1, receive |-> 1, cw20_debit |-> -1, cw20_credit |-> 1]

ChangeFits(ch, i, v) ==
  \E m \in DOMAIN ch[i[2]][i[3]].msgs :
    /\ Logged(ch, i[2], i[3], m, i[4])
    /\ LET ev == ch[i[2]][i[3]].msgs[m].events[i[4]]
       IN  /\ ev.type = TypeOf[i[1]] /\ Parsed(ev) = "one" /\ i[5] \in DOMAIN ev.moves
           /\ v.who = ev.moves[i[5]].who /\ v.amount = SignOf[i[1]] * ev.moves[i[5]].amount
FeeFits(ch, i, v) ==
  /\ i[4] = 0 /\ i[5] = 0
  /\ v.who # None /\ v.who = ch[i[2]][i[3]].signer /\ v.amount = 0 - ch[i[2]][i[3]].fee
  /\ \E m \in DOMAIN ch[i[2]][i[3]].msgs : \E e \in DOMAIN ch[i[2]][i[3]].msgs[m].events :
       /\ Logged(ch, i[2], i[3], m, e)
       /\ ch[i[2]][i[3]].msgs[m].events[e].type \in {"coin_spent", "coin_received"}
       /\ Parsed(ch[i[2]][i[3]].msgs[m].events[e]) = "one"
TransferFits(ch, i, v) ==
  /\ i[5] = 0 /\ TheMsg(ch, i[2], i[3], i[4])
  /\ v.amount = SignOf[i[1]] * ch[i[2]][i[3]].msgs[i[4]].amount
ContractFits(ch, v) ==
  LET j == v.instantiatedBy
  IN  /\ TheMsg(ch, j[2], j[3], j[4])
      /\ v.interface = GetJaccardResult(ch[j[2]][j[3]].msgs[j[4]].payload)
ClaimFits(ch, i, v) ==
  LET msg == ch[i[2]][i[3]].msgs[i[4]]
  IN  /\ i[5] = 0 /\ v.who = msg.to
      /\ \E e \in DOMAIN msg.events : Logged(ch, i[2], i[3], i[4], e) /\ Asked(msg, msg.events[e])
Fits(ch, i, v) ==
  /\ i = <<i[1], i[2], i[3], i[4], i[5]>>
  /\ DOMAIN v = DOMAIN NoVal /\ v.amount \in Int
  /\ i[1] \in {"spend", "receive"} => ChangeFits(ch, i, v)
  /\ i[1] = "fees" => FeeFits(ch, i, v)
  /\ i[1] \in {"cw20_debit", "cw20_credit"} => TransferFits(ch, i, v)
  /\ i[1] = "contracts" => ContractFits(ch, v)
  /\ i[1] = "dist_delegator_claims" => ClaimFits(ch, i, v)

Watched == {"cw20_debit", "cw20_credit", "dist_delegator_claims"}
Sound(saves) == IsFiniteSet(saves) /\ \A s \in saves : Fits(chain, s.id, s.val)
Quiet(saves) == \A s \in saves : s.id[1] \notin Watched

LEMMA RowParts ==
  ASSUME NEW id, NEW refs, NEW val
  PROVE  Row(id, refs, val).id = id /\ Row(id, refs, val).val = val
  BY DEF Row

LEMMA Values ==
  /\ DOMAIN NoVal = {"msg", "who", "amount", "code", "interface", "instantiatedBy"}
  /\ NoVal.amount \in Int
  /\ \A m : DOMAIN Of(m) = DOMAIN NoVal /\ Of(m).amount \in Int
  /\ \A m, a, x : /\ DOMAIN Amount(m, a, x) = DOMAIN NoVal
                  /\ Amount(m, a, x).who = a /\ Amount(m, a, x).amount = x
<1>1. DOMAIN NoVal = {"msg", "who", "amount", "code", "interface", "instantiatedBy"}
  BY DEF NoVal
<1>2. NoVal.amount = 0
  BY DEF NoVal
<1>3. \A m : DOMAIN Of(m) = DOMAIN NoVal /\ Of(m).amount = NoVal.amount
  BY DEF Of
<1>4. \A m, a, x : DOMAIN Amount(m, a, x) = DOMAIN NoVal
  BY DEF Amount
<1>5. \A m, a, x : Amount(m, a, x).who = a /\ Amount(m, a, x).amount = x
  BY <1>1 DEF Amount
<1> QED BY <1>1, <1>2, <1>3, <1>4, <1>5

LEMMA SoundUnion ==
  /\ Sound({}) /\ Quiet({})
  /\ \A S, T : Sound(S) /\ Sound(T) => Sound(S \cup T)
  /\ \A S, T : Quiet(S) /\ Quiet(T) => Quiet(S \cup T)
<1>1. ASSUME NEW S, NEW T, Sound(S), Sound(T) PROVE Sound(S \cup T)
  <2>1. IsFiniteSet(S \cup T)
    BY <1>1, FS_Union DEF Sound
  <2> QED BY <1>1, <2>1 DEF Sound
<1> QED BY <1>1, FS_EmptySet DEF Sound, Quiet

LEMMA SoundFamily ==
  ASSUME NEW K, IsFiniteSet(K), NEW f, \A k \in K : Sound(f[k])
  PROVE  Sound(UNION {f[k] : k \in K})
<1>1. IsFiniteSet({f[k] : k \in K})
  <2>1. [k \in K |-> f[k]] \in Surjection(K, {f[k] : k \in K})
    BY DEF Surjection
  <2> QED BY <2>1, FS_Surjection
<1>2. IsFiniteSet(UNION {f[k] : k \in K})
  <2>1. \A T \in {f[k] : k \in K} : IsFiniteSet(T)
    BY DEF Sound
  <2> QED BY <1>1, <2>1, FS_UNION
<1> QED BY <1>2 DEF Sound

LEMMA SoundRow ==
  ASSUME NEW id, NEW refs, NEW val, Fits(chain, id, val)
  PROVE  Sound({Row(id, refs, val)})
<1>1. IsFiniteSet({Row(id, refs, val)})
  BY FS_Singleton
<1>2. \A s \in {Row(id, refs, val)} : s.id = id /\ s.val = val
  BY RowParts
<1> QED BY <1>1, <1>2 DEF Sound

\* Rows of tables of which nothing more is said
Plain(id) ==
  /\ id = <<id[1], id[2], id[3], id[4], id[5]>>
  /\ id[1] \notin {"spend", "receive", "fees", "cw20_debit", "cw20_credit", "contracts",
                   "dist_delegator_claims"}

LEMMA PlainRow ==
  ASSUME NEW id, Plain(id), NEW refs, NEW val, DOMAIN val = DOMAIN NoVal, val.amount \in Int
  PROVE  Sound({Row(id, refs, val)}) /\ Quiet({Row(id, refs, val)})
<1>1. Fits(chain, id, val)
  BY DEF Plain, Fits
<1>2. id[1] \notin Watched
  BY DEF Plain, Watched
<1> QED BY <1>1, <1>2, SoundRow, RowParts DEF Quiet

LEMMA PlainRows ==
  ASSUME NEW id, Plain(id), NEW refs
  PROVE  Sound({Row(id, refs, NoVal)}) /\ Quiet({Row(id, refs, NoVal)})
  BY PlainRow, Values

LEMMA PlainIds ==
  /\ Plain(BlockId) /\ \A t : Plain(TxId(t)) /\ \A m : Plain(MessageRowId(t, m))
  /\ \A t, m, k : Plain(SubMessageId(t, m, k))
  /\ \A t, m, e : Plain(EventId(t, m, e))
  /\ \A a : Plain(AccountId(a)) /\ Plain(AgentId(a))
  /\ \A b, t : Plain(UnprocessedId(b, t))
  BY DEF Plain, Id, BlockId, TxId, MessageRowId, SubMessageId, EventId, AccountId, AgentId,
         UnprocessedId

LEMMA ChangeIsSound ==
  ASSUME NEW id, NEW t, NEW m, NEW e, NEW a, NEW x, NEW refs, Fits(chain, id, Amount(m, a, x))
  PROVE  /\ Sound(Change(id, t, m, e, a, x, refs))
         /\ id[1] \notin Watched => Quiet(Change(id, t, m, e, a, x, refs))
<1> DEFINE account == Row(AccountId(a), {}, NoVal)
           change == Row(id, refs \cup InTx(t) \cup {AccountId(a), EventId(t, m, e)},
                         Amount(m, a, x))
<1>1. Change(id, t, m, e, a, x, refs) = {account} \cup {change}
  BY DEF Change
<1>2. Sound({account}) /\ Quiet({account})
  BY PlainRows, PlainIds
<1>3. Sound({change})
  BY SoundRow
<1>4. id[1] \notin Watched => Quiet({change})
  BY RowParts DEF Quiet
<1> HIDE DEF account, change
<1> QED BY <1>1, <1>2, <1>3, <1>4, SoundUnion

LEMMA PlainMessageRow ==
  ASSUME NEW table, NEW t, NEW m, NEW refs, NEW val, DOMAIN val = DOMAIN NoVal, val.amount \in Int,
         table \notin {"spend", "receive", "fees", "cw20_debit", "cw20_credit", "contracts",
                       "dist_delegator_claims"}
  PROVE  Sound(MessageRow(table, t, m, refs, val)) /\ Quiet(MessageRow(table, t, m, refs, val))
<1>1. Plain(Id(table, t, m, 0))
  BY DEF Plain, Id
<1> QED BY <1>1, PlainRow DEF MessageRow

-----------------------------------------------------------------------------
(* The calls of a block have their transaction, message and event in it.     *)

CallAt(c) == Logged(chain, B, c[2], c[3], c[4])
SpecialNames ==
  {"handleNativeBalanceDecrement", "handleNativeBalanceIncrement", "handleDistDelegatorClaim",
   "handleDelegatorWithdrawRewardEvent"}

LEMMA EventsCalled ==
  ASSUME NEW c \in EventCalls, BlockInv, open
  PROVE  /\ c = <<4, c[2], c[3], c[4], c[5]>> /\ c[5] \in DOMAIN Handlers /\ CallAt(c)
         /\ FilterEvent(Handlers[c[5]], Msg(c[2], c[3]), Event(c[2], c[3], c[4]))
         /\ Name(c) = Handlers[c[5]].name
<1>1. PICK x \in WrapEvent :
        \E n \in DOMAIN Handlers :
          /\ FilterEvent(Handlers[n], Msg(x[1], x[2]), Event(x[1], x[2], x[3]))
          /\ c = <<4, x[1], x[2], x[3], n>>
  BY DEF EventCalls
<1>2. /\ x[1] \in DOMAIN Block(B) /\ Tx(x[1]).ok /\ x[2] \in DOMAIN Tx(x[1]).msgs
      /\ x[3] \in DOMAIN Msg(x[1], x[2]).events
  BY DEF WrapEvent
<1>3. B \in DOMAIN chain
  BY DEF BlockInv, HeightInv
<1>4. c[1] = 4 /\ c[2] = x[1] /\ c[3] = x[2] /\ c[4] = x[3]
  BY <1>1
<1>5. CallAt(c)
  BY <1>2, <1>3, <1>4 DEF CallAt, Logged, TheMsg, TheTx, Msg, Tx, Block
<1>6. Name(c) = Handlers[c[5]].name
  BY <1>4 DEF Name
<1> QED BY <1>1, <1>4, <1>5, <1>6

LEMMA HandlerNumbers ==
  /\ DOMAIN Handlers = 1 .. 17
  /\ \A n \in DOMAIN Handlers :
       /\ Handlers[n].name = "handleNativeBalanceDecrement" => n = 9
       /\ Handlers[n].name = "handleNativeBalanceIncrement" => n = 10
       /\ Handlers[n].name = "handleDistDelegatorClaim" => n = 3
       /\ Handlers[n].name = "handleDelegatorWithdrawRewardEvent" => n = 7
  /\ Handlers[3] = Handler("handleDistDelegatorClaim", "withdraw_rewards",
                           "MsgWithdrawDelegatorReward", Anything)
  /\ Handlers[7] = Handler("handleDelegatorWithdrawRewardEvent", "withdraw_rewards", Anything,
                           Anything)
  /\ Handlers[9] = Handler("handleNativeBalanceDecrement", "coin_spent", Anything, Anything)
  /\ Handlers[10] = Handler("handleNativeBalanceIncrement", "coin_received", Anything, Anything)
  BY DEF Handlers, Handler

LEMMA EventNames ==
  ASSUME NEW c \in IndexBlockData
  PROVE  c \in EventCalls \/ Name(c) \in {"handleBlock", "handleTransaction", "handleMessage",
                                          "handleAuthzExec"}
  BY DEF IndexBlockData, BlockCalls, TxCalls, MsgCalls, AuthzCalls, Name

LEMMA SpecialCalls ==
  ASSUME NEW c \in IndexBlockData, BlockInv, open
  PROVE  /\ Name(c) \in SpecialNames => CallAt(c) /\ c \in EventCalls
         /\ Name(c) = "handleNativeBalanceDecrement" =>
              c[5] = 9 /\ Event(c[2], c[3], c[4]).type = "coin_spent"
         /\ Name(c) = "handleNativeBalanceIncrement" =>
              c[5] = 10 /\ Event(c[2], c[3], c[4]).type = "coin_received"
         /\ Name(c) = "handleDistDelegatorClaim" =>
              c[5] = 3 /\ Asked(Msg(c[2], c[3]), Event(c[2], c[3], c[4]))
         /\ Name(c) = "handleDelegatorWithdrawRewardEvent" =>
              c[5] = 7 /\ Event(c[2], c[3], c[4]).type = "withdraw_rewards"
<1>1. CASE Name(c) \notin SpecialNames
  BY <1>1 DEF SpecialNames
<1>2. CASE Name(c) \in SpecialNames
  <2>1. c \in EventCalls
    BY <1>2, EventNames DEF SpecialNames
  <2>2. /\ c[5] \in DOMAIN Handlers /\ CallAt(c) /\ Name(c) = Handlers[c[5]].name
        /\ FilterEvent(Handlers[c[5]], Msg(c[2], c[3]), Event(c[2], c[3], c[4]))
    BY <2>1, EventsCalled
  <2>3. /\ Name(c) = "handleNativeBalanceDecrement" => c[5] = 9
        /\ Name(c) = "handleNativeBalanceIncrement" => c[5] = 10
        /\ Name(c) = "handleDistDelegatorClaim" => c[5] = 3
        /\ Name(c) = "handleDelegatorWithdrawRewardEvent" => c[5] = 7
    BY <2>2, HandlerNumbers
  <2>4. c[5] = 9 => Event(c[2], c[3], c[4]).type = "coin_spent"
    BY <2>2, HandlerNumbers DEF FilterEvent, Handler, Anything
  <2>5. c[5] = 10 => Event(c[2], c[3], c[4]).type = "coin_received"
    BY <2>2, HandlerNumbers DEF FilterEvent, Handler, Anything
  <2>6. c[5] = 3 => Asked(Msg(c[2], c[3]), Event(c[2], c[3], c[4]))
    BY <2>2, HandlerNumbers DEF FilterEvent, Handler, Anything, Asked
  <2>7. c[5] = 7 => Event(c[2], c[3], c[4]).type = "withdraw_rewards"
    BY <2>2, HandlerNumbers DEF FilterEvent, Handler, Anything
  <2> QED BY <2>1, <2>2, <2>3, <2>4, <2>5, <2>6, <2>7
<1> QED BY <1>1, <1>2

-----------------------------------------------------------------------------
(* The invariants. *)

Debit(i) == <<"cw20_debit", i[2], i[3], i[4], i[5]>>
Credit(i) == <<"cw20_credit", i[2], i[3], i[4], i[5]>>
Paired(ids) ==
  \A i \in ids : /\ i[1] = "cw20_credit" => Debit(i) \in ids
                 /\ i[1] = "cw20_debit" => Credit(i) \in ids
TableInv(ch, table) ==
  /\ IsFiniteSet(DOMAIN table) /\ Paired(DOMAIN table)
  /\ \A i \in DOMAIN table : Fits(ch, i, table[i])

\* The tables are finite, their rows fit, no credit of a transfer is without its
\* debit, and the rows of earlier blocks stay as they are.
TablesInv ==
  /\ TableInv(chain, db)
  /\ open => /\ TableInv(chain, rows)
             /\ \A i \in DOMAIN rows : i[2] \notin {0, B} => i \in DOMAIN db /\ rows[i] = db[i]

HandlerOf == [spend |-> 9, receive |-> 10]
ChangesSaved(ch, ids, b, t, m, e, table) ==
  LET ev == ch[b][t].msgs[m].events[e]
  IN  ev.type = TypeOf[table] /\ Parsed(ev) = "one" =>
        /\ <<"fees", b, t, 0, 0>> \in ids
        /\ \A k \in DOMAIN ev.moves : <<table, b, t, e, k>> \in ids
ChangesDone(ch, b, calls, lost, ids) ==
  \A t \in DOMAIN ch[b] : ch[b][t].ok => \A m \in DOMAIN ch[b][t].msgs :
    \A e \in DOMAIN ch[b][t].msgs[m].events : \A table \in {"spend", "receive"} :
      <<4, t, m, e, HandlerOf[table]>> \in calls \/ t \in lost
        \/ ChangesSaved(ch, ids, b, t, m, e, table)
Recorded(ids, b) == {i[3] : i \in {j \in ids : j = UnprocessedId(b, j[3])}}

\* The rows of what an event moved are there once its handlers are called.
ChangesInv ==
  /\ open /\ ~ aborted => ChangesDone(chain, B, todo, failed, DOMAIN rows)
  /\ \A b \in 1 .. height : ChangesDone(chain, b, {}, Recorded(DOMAIN db, b), DOMAIN db)

\* No other withdrawal of the transaction names the validator of this one.
Single(ch, b, t, m, e) ==
  /\ Logged(ch, b, t, m, e) /\ Asked(ch[b][t].msgs[m], ch[b][t].msgs[m].events[e])
  /\ \A n \in DOMAIN ch[b][t].msgs : \A f \in DOMAIN ch[b][t].msgs[n].events :
       LET ev == ch[b][t].msgs[n].events[f]
       IN  ev.type = "withdraw_rewards" /\ Last(ev.moves).who = ch[b][t].msgs[m].to
             => n = m /\ f = e
ClaimId(b, t, m) == <<"dist_delegator_claims", b, t, m, 0>>
ClaimDone(ch, b, calls, lost, table, t, m, e) ==
  LET claim == ClaimId(b, t, m)
      first == <<4, t, m, e, 3>>
      second == <<4, t, m, e, 7>>
  IN  /\ first \in calls => second \in calls /\ claim \notin DOMAIN table
      /\ claim \in DOMAIN table =>
           IF second \in calls THEN table[claim].amount = -1
           ELSE t \in lost \/ table[claim].amount = Reward(ch[b][t].msgs[m].events[e])
ClaimsDone(ch, b, calls, lost, table) ==
  \A t \in DOMAIN ch[b] : \A m \in DOMAIN ch[b][t].msgs : \A e \in DOMAIN ch[b][t].msgs[m].events :
    Single(ch, b, t, m, e) => ClaimDone(ch, b, calls, lost, table, t, m, e)

\* A claim is saved before its reward is met and has it afterwards.
RewardsInv ==
  /\ open /\ ~ aborted => ClaimsDone(chain, B, todo, failed, rows)
  /\ \A b \in 1 .. height : ClaimsDone(chain, b, {}, Recorded(DOMAIN db, b), db)

-----------------------------------------------------------------------------
(* Every handler saves rows that fit.                                        *)

LEMMA ListedIsFinite ==
  ASSUME NEW s, Listed(s)
  PROVE  IsFiniteSet(DOMAIN s)
<1>1. DOMAIN s = 1 .. Len(s) /\ 1 \in Int /\ Len(s) \in Int
  BY ListedDomain
<1> QED BY <1>1, FS_Interval

LEMMA BlocksOK ==
  ASSUME BlockInv, NEW b \in DOMAIN chain, NEW t \in DOMAIN chain[b]
  PROVE  TxOK(chain[b][t]) /\ b \in Int /\ t \in Int
<1>1. chain \in Chains
  BY DEF BlockInv, HeightInv
<1>2. DOMAIN chain = 1 .. Len(chain) /\ DOMAIN chain[b] = 1 .. Len(chain[b])
      /\ Len(chain) \in Nat /\ Len(chain[b]) \in Nat
  BY <1>1, ChainsOK, ListedDomain
<1> QED BY <1>1, <1>2, ChainsOK

LEMMA EventIsOK ==
  ASSUME NEW t, NEW m, NEW e, BlockInv, Logged(chain, B, t, m, e)
  PROVE  /\ chain[B][t] = Tx(t) /\ chain[B][t].msgs[m] = Msg(t, m)
         /\ chain[B][t].msgs[m].events[e] = Event(t, m, e)
         /\ m \in DOMAIN Tx(t).msgs /\ e \in DOMAIN Msg(t, m).events
         /\ t \in Int /\ m \in Int /\ e \in Int
         /\ Tx(t).fee \in Int /\ MessageOK(Msg(t, m)) /\ MovesOK(Event(t, m, e).moves)
<1>1. /\ chain[B][t] = Tx(t) /\ chain[B][t].msgs[m] = Msg(t, m)
      /\ chain[B][t].msgs[m].events[e] = Event(t, m, e)
  BY DEF Tx, Msg, Event, Block
<1>2. /\ B \in DOMAIN chain /\ t \in DOMAIN chain[B] /\ m \in DOMAIN Tx(t).msgs
      /\ e \in DOMAIN Msg(t, m).events
  BY <1>1 DEF Logged, TheMsg, TheTx
<1>3. TxOK(Tx(t)) /\ t \in Int
  BY <1>1, <1>2, BlocksOK
<1>4. MessageOK(Msg(t, m)) /\ Tx(t).fee \in Int /\ m \in Int
  BY <1>2, <1>3, ListedDomain DEF TxOK, Msg
<1>5. EventsOK(Msg(t, m))
  BY <1>4 DEF MessageOK
<1>6. MovesOK(Event(t, m, e).moves) /\ e \in Int
  BY <1>2, <1>5, ListedDomain DEF EventsOK, Event
<1> QED BY <1>1, <1>2, <1>3, <1>4, <1>6

LEMMA FeesAreSound ==
  ASSUME NEW t, NEW m, NEW e, BlockInv, Logged(chain, B, t, m, e),
         Event(t, m, e).type \in {"coin_spent", "coin_received"}, Parsed(Event(t, m, e)) = "one"
  PROVE  Sound(SaveFees(t, m, e)) /\ Quiet(SaveFees(t, m, e))
<1> DEFINE v == Amount(m, Tx(t).signer, 0 - Tx(t).fee)
           id == FeeId(t, e)
<1>1. CASE Tx(t).signer = None
  BY <1>1, SoundUnion DEF SaveFees
<1>2. CASE Tx(t).signer # None
  <2>1. id = <<"fees", B, t, 0, 0>>
    BY DEF FeeId, Id
  <2>2. v.who = Tx(t).signer /\ v.amount = 0 - Tx(t).fee /\ DOMAIN v = DOMAIN NoVal
        /\ v.amount \in Int
    <3>1. Tx(t).fee \in Int
      BY EventIsOK
    <3> QED BY <3>1, Values
  <2> HIDE DEF id, v
  <2>3. FeeFits(chain, id, v)
    <3>1. id[2] = B /\ id[3] = t /\ id[4] = 0 /\ id[5] = 0
      BY <2>1
    <3>2. /\ m \in DOMAIN chain[B][t].msgs /\ e \in DOMAIN chain[B][t].msgs[m].events
          /\ chain[B][t] = Tx(t) /\ chain[B][t].msgs[m].events[e] = Event(t, m, e)
      BY EventIsOK
    <3> QED BY <1>2, <2>2, <3>1, <3>2 DEF FeeFits
  <2>4. Fits(chain, id, v) /\ id[1] \notin Watched
    BY <2>1, <2>2, <2>3 DEF Fits, Watched
  <2> QED BY <1>2, <2>4, ChangeIsSound DEF SaveFees, id, v
<1> QED BY <1>1, <1>2

LEMMA MovesAreSound ==
  ASSUME NEW t, NEW m, NEW e, BlockInv, Logged(chain, B, t, m, e),
         NEW table \in {"spend", "receive"}, Event(t, m, e).type = TypeOf[table]
  PROVE  /\ Sound(SaveMoves(t, m, e, table, SignOf[table]))
         /\ Quiet(SaveMoves(t, m, e, table, SignOf[table]))
<1> DEFINE ev == Event(t, m, e)
           sign == SignOf[table]
           id(k) == Id(table, t, MessageIdOfEvent(m, e), k)
           v(k) == Amount(m, ev.moves[k].who, sign * ev.moves[k].amount)
           change(k) == Change(id(k), t, m, e, ev.moves[k].who, sign * ev.moves[k].amount, {})
           all == [k \in DOMAIN ev.moves |-> change(k)]
<1>1. CASE Parsed(ev) # "one"
  BY <1>1, SoundUnion DEF SaveMoves
<1>2. CASE Parsed(ev) = "one"
  <2>1. MovesOK(ev.moves)
    BY EventIsOK
  <2>2. IsFiniteSet(DOMAIN ev.moves)
    BY <2>1, ListedIsFinite DEF MovesOK
  <2>3. ASSUME NEW k \in DOMAIN ev.moves PROVE Sound(change(k)) /\ Quiet(change(k))
    <3>1. id(k) = <<table, B, t, e, k>>
      BY DEF Id, MessageIdOfEvent
    <3>2. v(k).who = ev.moves[k].who /\ v(k).amount = sign * ev.moves[k].amount
          /\ DOMAIN v(k) = DOMAIN NoVal
      BY Values
    <3>3. v(k).amount \in Int
      <4>1. ev.moves[k].amount \in Int
        BY <2>1 DEF MovesOK
      <4>2. sign \in {1, -1}
        BY DEF SignOf
      <4> HIDE DEF sign, ev
      <4> QED BY <3>2, <4>1, <4>2
    <3> HIDE DEF id, v
    <3>4. ChangeFits(chain, id(k), v(k))
      <4>1. /\ id(k)[1] = table /\ id(k)[2] = B /\ id(k)[3] = t /\ id(k)[4] = e /\ id(k)[5] = k
        BY <3>1
      <4>2. m \in DOMAIN chain[B][t].msgs /\ chain[B][t].msgs[m].events[e] = ev
        BY EventIsOK
      <4> QED BY <1>2, <3>2, <4>1, <4>2 DEF ChangeFits
    <3>5. Fits(chain, id(k), v(k)) /\ id(k)[1] \notin Watched
      BY <3>1, <3>2, <3>3, <3>4 DEF Fits, Watched
    <3> QED BY <3>5, ChangeIsSound DEF id, v
  <2>4. Sound(UNION {all[k] : k \in DOMAIN ev.moves})
    <3>1. \A k \in DOMAIN ev.moves : Sound(all[k])
      BY <2>3
    <3> HIDE DEF all
    <3> QED BY <2>2, <3>1, SoundFamily
  <2>5. {all[k] : k \in DOMAIN ev.moves} = {change(k) : k \in DOMAIN ev.moves}
    OBVIOUS
  <2>6. Quiet(UNION {change(k) : k \in DOMAIN ev.moves})
    <3> HIDE DEF change
    <3> QED BY <2>3 DEF Quiet
  <2>7. Sound(SaveFees(t, m, e)) /\ Quiet(SaveFees(t, m, e))
    BY <1>2, FeesAreSound DEF TypeOf
  <2>8. SaveMoves(t, m, e, table, sign)
          = SaveFees(t, m, e) \cup UNION {change(k) : k \in DOMAIN ev.moves}
    BY <1>2 DEF SaveMoves
  <2> HIDE DEF all, change, sign
  <2>9. Sound(UNION {change(k) : k \in DOMAIN ev.moves})
    BY <2>4, <2>5
  <2>10. Sound(SaveMoves(t, m, e, table, sign)) /\ Quiet(SaveMoves(t, m, e, table, sign))
    BY <2>6, <2>7, <2>8, <2>9, SoundUnion
  <2> QED BY <2>10 DEF sign
<1> QED BY <1>1, <1>2

LEMMA AuthzIsSound ==
  ASSUME NEW t, NEW m, IsFiniteSet(DOMAIN Msg(t, m).subs)
  PROVE  Sound(HandleAuthzExec(t, m)) /\ Quiet(HandleAuthzExec(t, m))
<1> DEFINE sub(k) == {Row(SubMessageId(t, m, k), InTx(t), NoVal)}
           join(k) == {Row(Id("authz_exec_messages", t, m, k),
                           {Id("authz_execs", t, m, 0), SubMessageId(t, m, k)}, NoVal)}
           pair(k) == {Row(SubMessageId(t, m, k), InTx(t), NoVal),
                       Row(Id("authz_exec_messages", t, m, k),
                           {Id("authz_execs", t, m, 0), SubMessageId(t, m, k)}, NoVal)}
           known == {j \in DOMAIN Msg(t, m).subs :
                       /\ Msg(t, m).subs[j] = "known" /\ Precede(j, BadSubs(Msg(t, m)))}
           all == [k \in known |-> pair(k)]
<1>1. Sound(HandleMessage(t, m)) /\ Quiet(HandleMessage(t, m))
  BY PlainRows, PlainIds, SoundUnion DEF HandleMessage
<1>2. ASSUME NEW k PROVE Sound(pair(k)) /\ Quiet(pair(k))
  <2>1. Plain(Id("authz_exec_messages", t, m, k))
    BY DEF Plain, Id
  <2>2. Sound(sub(k)) /\ Quiet(sub(k)) /\ Sound(join(k)) /\ Quiet(join(k))
    BY <2>1, PlainRows, PlainIds
  <2>3. pair(k) = sub(k) \cup join(k)
    OBVIOUS
  <2> HIDE DEF pair, sub, join
  <2> QED BY <2>2, <2>3, SoundUnion
<1>3. IsFiniteSet(known)
  BY FS_Subset
<1>4. Sound(UNION {pair(k) : k \in known})
  <2>1. \A k \in known : Sound(all[k])
    BY <1>2
  <2>2. {all[k] : k \in known} = {pair(k) : k \in known}
    OBVIOUS
  <2> HIDE DEF all, known, pair
  <2>3. Sound(UNION {all[k] : k \in known})
    BY <1>3, <2>1, SoundFamily
  <2> QED BY <2>2, <2>3
<1>5. Quiet(UNION {pair(k) : k \in known})
  <2> HIDE DEF pair
  <2> QED BY <1>2 DEF Quiet
<1>6. Sound(MessageRow("authz_execs", t, m, {}, NoVal))
      /\ Quiet(MessageRow("authz_execs", t, m, {}, NoVal))
  BY PlainMessageRow, Values
<1>7. CASE Msg(t, m).decodes
  <2>1. HandleAuthzExec(t, m) = HandleMessage(t, m) \cup MessageRow("authz_execs", t, m, {}, NoVal)
                                \cup UNION {pair(k) : k \in known}
    BY <1>7 DEF HandleAuthzExec
  <2> DEFINE own == HandleMessage(t, m) \cup MessageRow("authz_execs", t, m, {}, NoVal)
             subs == UNION {pair(k) : k \in known}
  <2>2. Sound(own) /\ Quiet(own)
    BY <1>1, <1>6, SoundUnion
  <2>3. HandleAuthzExec(t, m) = own \cup subs
    BY <2>1
  <2> HIDE DEF own, subs
  <2>4. Sound(subs) /\ Quiet(subs)
    BY <1>4, <1>5 DEF subs
  <2> QED BY <2>2, <2>3, <2>4, SoundUnion
<1>8. CASE ~ Msg(t, m).decodes
  BY <1>8, SoundUnion DEF HandleAuthzExec
<1> QED BY <1>7, <1>8

LEMMA TransfersAreSound ==
  ASSUME NEW t, NEW m, NEW e, BlockInv, Logged(chain, B, t, m, e)
  PROVE  /\ \A a : Sound(SaveCw20(t, m, e, "cw20_debit", a, 0 - Msg(t, m).amount))
         /\ \A a : Sound(SaveCw20(t, m, e, "cw20_credit", a, Msg(t, m).amount))
         /\ \A a : LET saves == SaveCw20(t, m, e, "cw20_burn", a, 0 - Msg(t, m).amount)
                   IN  Sound(saves) /\ Quiet(saves)
         /\ \A a : LET saves == SaveCw20(t, m, e, "cw20_mint", a, Msg(t, m).amount)
                   IN  Sound(saves) /\ Quiet(saves)
<1>1. /\ Msg(t, m).amount \in Int /\ chain[B][t].msgs[m] = Msg(t, m) /\ TheMsg(chain, B, t, m)
  BY EventIsOK DEF MessageOK, Logged
<1>2. ASSUME NEW table \in {"cw20_debit", "cw20_credit", "cw20_burn", "cw20_mint"},
             NEW a, NEW x \in Int,
             table \in {"cw20_debit", "cw20_credit"} => x = SignOf[table] * Msg(t, m).amount
      PROVE  Sound(SaveCw20(t, m, e, table, a, x))
             /\ (table \notin Watched => Quiet(SaveCw20(t, m, e, table, a, x)))
  <2> DEFINE id == Id(table, t, m, 0)
             v == Amount(m, a, x)
  <2>1. id = <<table, B, t, m, 0>>
    BY DEF Id
  <2>2. v.amount = x /\ DOMAIN v = DOMAIN NoVal
    BY Values
  <2> HIDE DEF id, v
  <2>3. table \in {"cw20_debit", "cw20_credit"} => TransferFits(chain, id, v)
    BY <1>1, <1>2, <2>1, <2>2 DEF TransferFits
  <2>4. Fits(chain, id, v) /\ id[1] = table
    BY <1>2, <2>1, <2>2, <2>3 DEF Fits
  <2> QED BY <2>4, ChangeIsSound DEF SaveCw20, id, v
<1>3. /\ 0 - Msg(t, m).amount = SignOf["cw20_debit"] * Msg(t, m).amount
      /\ Msg(t, m).amount = SignOf["cw20_credit"] * Msg(t, m).amount
      /\ 0 - Msg(t, m).amount \in Int
  BY <1>1 DEF SignOf
<1>4. "cw20_burn" \notin Watched /\ "cw20_mint" \notin Watched
  BY DEF Watched
<1> QED BY <1>1, <1>2, <1>3, <1>4

LEMMA InstantiateIsSound ==
  ASSUME NEW t, NEW m, NEW e, BlockInv, Logged(chain, B, t, m, e)
  PROVE  /\ Sound(HandleContractInstantiateEvent(t, m))
         /\ Quiet(HandleContractInstantiateEvent(t, m))
<1> DEFINE v == ContractRow(t, m)
           id == ContractOf(t, m)
<1>1. Sound(MessageRow("instantiate_contract_messages", t, m, {}, NoVal))
      /\ Quiet(MessageRow("instantiate_contract_messages", t, m, {}, NoVal))
  BY PlainMessageRow, Values
<1>2. /\ id = <<"contracts", 0, Msg(t, m).contract, 0, 0>>
      /\ InstantiateId(t, m) = <<"instantiate_contract_messages", B, t, m, 0>>
  BY DEF ContractOf, ContractId, InstantiateId, Id
<1>3. /\ DOMAIN v = DOMAIN NoVal /\ v.amount = NoVal.amount
      /\ v.interface = GetJaccardResult(Msg(t, m).payload) /\ v.instantiatedBy = InstantiateId(t, m)
  <2>1. v = [NoVal EXCEPT !.interface = GetJaccardResult(Msg(t, m).payload),
                          !.instantiatedBy = InstantiateId(t, m)]
    BY DEF ContractRow
  <2> HIDE DEF v
  <2> QED BY <2>1, Values
<1>4. ContractFits(chain, v)
  <2>1. TheMsg(chain, B, t, m) /\ chain[B][t].msgs[m] = Msg(t, m)
    BY EventIsOK DEF Logged
  <2> HIDE DEF v
  <2> QED BY <1>2, <1>3, <2>1 DEF ContractFits
<1> HIDE DEF v, id
<1>5. Fits(chain, id, v) /\ id[1] \notin Watched
  BY <1>2, <1>3, <1>4, Values DEF Fits, Watched
<1>6. \A r : Sound({Row(id, r, v)}) /\ Quiet({Row(id, r, v)})
  BY <1>5, SoundRow, RowParts DEF Quiet
<1>7. Sound(SaveContractEvent(t, m)) /\ Quiet(SaveContractEvent(t, m))
  <2>1. SaveContractEvent(t, m) = {} \/ \E r : SaveContractEvent(t, m) = {Row(id, r, v)}
    <3> DEFINE codes == IF StoredCode(Msg(t, m).code) = {} \/ Msg(t, m).payload = NullPayload THEN {}
                        ELSE {CHOOSE r \in StoredCode(Msg(t, m).code) : TRUE}
               saved(r) == Row(id, {r, InstantiateId(t, m)}, v)
    <3>1. SaveContractEvent(t, m) = {saved(r) : r \in codes}
      BY DEF SaveContractEvent, id, v
    <3>2. codes = {} \/ \E r : codes = {r}
      OBVIOUS
    <3> HIDE DEF codes
    <3>3. CASE codes = {}
      BY <3>1, <3>3
    <3>4. ASSUME NEW r, codes = {r} PROVE SaveContractEvent(t, m) = {saved(r)}
      BY <3>1, <3>4
    <3> QED BY <3>2, <3>3, <3>4
  <2> QED BY <1>6, <2>1, SoundUnion
<1> QED BY <1>1, <1>7, SoundUnion DEF HandleContractInstantiateEvent

LEMMA RegistrationIsSound ==
  ASSUME NEW t, NEW m, NEW e
  PROVE  /\ Sound(HandleAlmanacRegistration(t, m, e))
         /\ Quiet(HandleAlmanacRegistration(t, m, e))
<1> DEFINE ev == Event(t, m, e)
           record == Id("almanac_records", t, MessageIdOfEvent(m, e), 0)
           agent == AgentId(Head(ev.moves).who)
           registration == Id("almanac_registrations", t, MessageIdOfEvent(m, e), 0)
           first == {Row(agent, {}, NoVal)}
           second == {Row(record, InTx(t), NoVal)}
           third == {Row(registration, InTx(t) \cup {agent, record, ContractOf(t, m)}, NoVal)}
           known == IF ContractOf(t, m) \notin DOMAIN rows THEN {} ELSE second \cup third
<1>1. Plain(record) /\ Plain(registration) /\ Plain(agent)
  BY PlainIds DEF Plain, Id
<1>2. Sound(first) /\ Quiet(first) /\ Sound(second) /\ Quiet(second) /\ Sound(third) /\ Quiet(third)
  BY <1>1, PlainRows
<1>3. HandleAlmanacRegistration(t, m, e) = {}
      \/ HandleAlmanacRegistration(t, m, e) = first \cup known
  <2>1. second \cup third = {Row(record, InTx(t), NoVal),
                 Row(registration, InTx(t) \cup {agent, record, ContractOf(t, m)}, NoVal)}
    OBVIOUS
  <2> QED BY <2>1 DEF HandleAlmanacRegistration
<1> HIDE DEF first, second, third
<1>4. Sound(known) /\ Quiet(known)
  BY <1>2, SoundUnion
<1> HIDE DEF known
<1> QED BY <1>2, <1>3, <1>4, SoundUnion

LEMMA ClaimIsSound ==
  ASSUME NEW t, NEW m, NEW e, BlockInv, Logged(chain, B, t, m, e), Asked(Msg(t, m), Event(t, m, e))
  PROVE  Sound(HandleDistDelegatorClaim(t, m))
<1> DEFINE id == Id("dist_delegator_claims", t, m, 0)
           v == Amount(m, Msg(t, m).to, -1)
<1>1. id = <<"dist_delegator_claims", B, t, m, 0>>
  BY DEF Id
<1>2. v.who = Msg(t, m).to /\ v.amount \in Int /\ DOMAIN v = DOMAIN NoVal
  BY Values
<1> HIDE DEF id, v
<1>3. ClaimFits(chain, id, v)
  BY <1>1, <1>2, EventIsOK DEF ClaimFits
<1>4. Fits(chain, id, v)
  BY <1>1, <1>2, <1>3 DEF Fits
<1> QED BY <1>4, SoundRow DEF HandleDistDelegatorClaim, MessageRow, id, v

\* A reward changes the amount of one claim of its validator.
Paid(i, x) == [rows[i] EXCEPT !.amount = x]
LEMMA RewardSaves ==
  ASSUME NEW t, NEW m, NEW e
  PROVE  LET ev == Event(t, m, e)
             saves == HandleDelegatorWithdrawRewardEvent(t, m, e)
             claims == ClaimsOf(t, Last(ev.moves).who)
         IN  \/ saves = {} /\ (~ Rewarded(ev) \/ claims = {} \/ Last(ev.moves).coin = "bad")
             \/ /\ Rewarded(ev) /\ Last(ev.moves).coin # "bad"
                /\ \E i \in claims :
                     saves = {Row(i, {}, Paid(i, Last(ev.moves).amount))}
<1> DEFINE ev == Event(t, m, e)
           claims == IF Rewarded(ev) THEN ClaimsOf(t, Last(ev.moves).who) ELSE {}
           i == CHOOSE i \in claims : TRUE
<1>1. CASE claims = {} \/ Last(ev.moves).coin = "bad"
  BY <1>1 DEF HandleDelegatorWithdrawRewardEvent
<1>2. CASE ~ (claims = {} \/ Last(ev.moves).coin = "bad")
  <2>1. Rewarded(ev) /\ i \in ClaimsOf(t, Last(ev.moves).who)
    BY <1>2
  <2>2. HandleDelegatorWithdrawRewardEvent(t, m, e)
          = {Row(i, {}, Paid(i, Last(ev.moves).amount))}
    BY <1>2 DEF HandleDelegatorWithdrawRewardEvent, Paid
  <2> HIDE DEF i
  <2> QED BY <1>2, <2>1, <2>2
<1> QED BY <1>1, <1>2

LEMMA RewardIsSound ==
  ASSUME NEW t, NEW m, NEW e, BlockInv, Logged(chain, B, t, m, e), TableInv(chain, rows)
  PROVE  Sound(HandleDelegatorWithdrawRewardEvent(t, m, e))
<1> DEFINE ev == Event(t, m, e)
           x == Last(ev.moves).amount
<1>1. CASE HandleDelegatorWithdrawRewardEvent(t, m, e) = {}
  BY <1>1, SoundUnion
<1>2. ASSUME NEW i \in ClaimsOf(t, Last(ev.moves).who), Rewarded(ev),
             HandleDelegatorWithdrawRewardEvent(t, m, e) = {Row(i, {}, Paid(i, x))}
      PROVE  Sound(HandleDelegatorWithdrawRewardEvent(t, m, e))
  <2> DEFINE v == Paid(i, x)
  <2>1. i \in DOMAIN rows /\ i[1] = "dist_delegator_claims"
    BY <1>2 DEF ClaimsOf, Claims
  <2>2. Fits(chain, i, rows[i])
    BY <2>1 DEF TableInv
  <2>3. x \in Int
    <3>1. MovesOK(ev.moves) /\ ev.moves # <<>>
      BY <1>2, EventIsOK DEF Rewarded
    <3>2. Len(ev.moves) \in DOMAIN ev.moves
      BY <3>1, ListedDomain DEF MovesOK
    <3> QED BY <3>1, <3>2 DEF MovesOK, Last
  <2>4. DOMAIN v = DOMAIN NoVal /\ v.amount \in Int /\ v.who = rows[i].who
    <3>1. DOMAIN rows[i] = DOMAIN NoVal
      BY <2>2 DEF Fits
    <3> HIDE DEF x
    <3> QED BY <2>3, <3>1, Values DEF Paid
  <2> HIDE DEF v
  <2>5. ClaimFits(chain, i, v)
    BY <2>1, <2>2, <2>4 DEF Fits, ClaimFits
  <2>6. Fits(chain, i, v)
    BY <2>1, <2>2, <2>4, <2>5 DEF Fits
  <2> QED BY <1>2, <2>6, SoundRow DEF v
<1> HIDE DEF x
<1> QED BY <1>1, <1>2, RewardSaves DEF x

LEMMA SavesAreSound ==
  ASSUME NEW c \in IndexBlockData, BlockInv, open, TableInv(chain, rows)
  PROVE  /\ Sound(Saves(c))
         /\ Name(c) \notin {"handleCw20BalanceTransfer", "handleDistDelegatorClaim",
                            "handleDelegatorWithdrawRewardEvent"} => Quiet(Saves(c))
<1> DEFINE t == c[2]
           m == c[3]
           e == c[4]
           Both(saves) == Sound(saves) /\ Quiet(saves)
<1>1. /\ Both(HandleBlock) /\ Both(HandleTransaction(t)) /\ Both(HandleMessage(t, m))
      /\ Both(HandleEvent(t, m, e))
  <2>1. Both(HandleBlock) /\ Both(HandleTransaction(t)) /\ Both(HandleMessage(t, m))
    BY PlainRows, PlainIds, SoundUnion DEF HandleBlock, HandleTransaction, HandleMessage
  <2>2. Both(HandleEvent(t, m, e))
    BY PlainRow, PlainIds, Values DEF HandleEvent
  <2> QED BY <2>1, <2>2
<1>2. /\ Both(HandleExecuteContractEvent(t, m)) /\ Both(HandleLegacyBridgeSwap(t, m))
      /\ Both(HandleCw20Transfer(t, m)) /\ Both(HandleContractStoreEvent(t, m))
      /\ Both(HandleGovProposalVote(t, m)) /\ Both(HandleNativeTransfer(t, m))
      /\ Both(HandleIBCTransfer(t, m, e))
  <2>1. DOMAIN [NoVal EXCEPT !.code = Msg(t, m).code] = DOMAIN NoVal
        /\ [NoVal EXCEPT !.code = Msg(t, m).code].amount \in Int
    BY Values
  <2>2. Both(HandleContractStoreEvent(t, m))
    BY <2>1, PlainMessageRow DEF HandleContractStoreEvent
  <2>3. /\ Both(HandleExecuteContractEvent(t, m)) /\ Both(HandleLegacyBridgeSwap(t, m))
        /\ Both(HandleCw20Transfer(t, m))
    BY PlainMessageRow, Values, SoundUnion
       DEF HandleExecuteContractEvent, HandleLegacyBridgeSwap, HandleCw20Transfer
  <2>4. /\ Both(HandleGovProposalVote(t, m)) /\ Both(HandleNativeTransfer(t, m))
        /\ Both(HandleIBCTransfer(t, m, e))
    BY PlainMessageRow, Values DEF HandleGovProposalVote, HandleNativeTransfer, HandleIBCTransfer
  <2> QED BY <2>2, <2>3, <2>4
<1>3. CASE c \in EventCalls
  <2>1. Logged(chain, B, t, m, e)
    BY <1>3, EventsCalled DEF CallAt
  <2>2. CASE Name(c) = "handleNativeBalanceDecrement"
    <3>1. Both(SaveMoves(t, m, e, "spend", -1))
      BY <2>1, <2>2, SpecialCalls, MovesAreSound DEF TypeOf, SignOf
    <3> QED BY <2>2, <3>1, SoundUnion DEF Saves, SavesIfComplete, HandleNativeBalanceDecrement
  <2>3. CASE Name(c) = "handleNativeBalanceIncrement"
    <3>1. Both(SaveMoves(t, m, e, "receive", 1))
      BY <2>1, <2>3, SpecialCalls, MovesAreSound DEF TypeOf, SignOf
    <3> QED BY <2>3, <3>1, SoundUnion DEF Saves, SavesIfComplete, HandleNativeBalanceIncrement
  <2>4. Sound(HandleCw20BalanceTransfer(t, m, e)) /\ Both(HandleCw20BalanceBurn(t, m, e))
        /\ Both(HandleCw20BalanceMint(t, m, e))
    BY <2>1, TransfersAreSound, SoundUnion
       DEF HandleCw20BalanceTransfer, HandleCw20BalanceBurn, HandleCw20BalanceMint
  <2>5. Both(HandleContractInstantiateEvent(t, m)) /\ Both(HandleAlmanacRegistration(t, m, e))
    BY <2>1, InstantiateIsSound, RegistrationIsSound
  <2>6. Name(c) = "handleDistDelegatorClaim" => Sound(HandleDistDelegatorClaim(t, m))
    BY <2>1, SpecialCalls, ClaimIsSound
  <2>7. Sound(HandleDelegatorWithdrawRewardEvent(t, m, e))
    BY <2>1, RewardIsSound
  <2>8. CASE Name(c) \notin {"handleNativeBalanceDecrement", "handleNativeBalanceIncrement"}
    <3>1. /\ c \notin BlockCalls \cup TxCalls \cup MsgCalls \cup AuthzCalls
          /\ Name(c) # "handleAuthzExec"
      <4>1. c[1] = 4 /\ Name(c) = Handlers[c[5]].name /\ c[5] \in DOMAIN Handlers
        BY <1>3, EventsCalled
      <4>2. \A n \in DOMAIN Handlers : Handlers[n].name # "handleAuthzExec"
        BY DEF Handlers, Handler
      <4> QED BY <4>1, <4>2 DEF BlockCalls, TxCalls, MsgCalls, AuthzCalls
    <3>2. Name(c) \in HandlerNames
      BY CallsHaveNames
    <3> HIDE DEF t, m, e
    <3>3. /\ Sound(SavesIfComplete(c))
          /\ Name(c) \notin {"handleCw20BalanceTransfer", "handleDistDelegatorClaim",
                            "handleDelegatorWithdrawRewardEvent"} => Quiet(SavesIfComplete(c))
      BY <1>1, <1>2, <2>4, <2>5, <2>6, <2>7, <2>8, <3>1, <3>2
         DEF SavesIfComplete, HandlerNames, t, m, e
    <3> QED BY <3>3, SoundUnion DEF Saves
  <2> QED BY <2>2, <2>3, <2>8
<1>4. CASE c \notin EventCalls
  <2>1. Name(c) \in {"handleBlock", "handleTransaction", "handleMessage", "handleAuthzExec"}
    BY <1>4, EventNames
  <2>2. Name(c) = "handleAuthzExec" => Both(HandleAuthzExec(t, m))
    <3> SUFFICES ASSUME Name(c) = "handleAuthzExec" PROVE Both(HandleAuthzExec(t, m))
      OBVIOUS
    <3>1. c \in AuthzCalls
      BY <1>4 DEF IndexBlockData, BlockCalls, TxCalls, MsgCalls, Name
    <3>2. t \in DOMAIN Block(B) /\ m \in DOMAIN Tx(t).msgs
      <4>1. PICK d \in MsgCalls : c = <<3, d[2], d[3], 0, 1>>
        BY <3>1 DEF AuthzCalls
      <4>2. d[2] \in DOMAIN Block(B) /\ d[3] \in DOMAIN Tx(d[2]).msgs
        BY DEF MsgCalls
      <4> QED BY <4>1, <4>2
    <3>3. B \in DOMAIN chain /\ Block(B) = chain[B] /\ Tx(t) = chain[B][t]
      BY DEF BlockInv, HeightInv, Block, Tx
    <3>4. TxOK(Tx(t))
      BY <3>2, <3>3, BlocksOK
    <3>5. MessageOK(Msg(t, m))
      BY <3>2, <3>4 DEF TxOK, Msg
    <3> QED BY <3>5, ListedIsFinite, AuthzIsSound DEF MessageOK
  <2> HIDE DEF t, m, e
  <2>3. Both(SavesIfComplete(c))
    BY <1>1, <2>1, <2>2 DEF SavesIfComplete, t, m, e
  <2> QED BY <2>3, SoundUnion DEF Saves
<1> QED BY <1>3, <1>4

-----------------------------------------------------------------------------
(* The tables keep rows that fit, credits with their debits, and the rows of *)
(* earlier blocks.                                                           *)

LEMMA IdsOfUnion ==
  /\ Ids({}) = {}
  /\ \A S, T : Ids(S \cup T) = Ids(S) \cup Ids(T)
  /\ \A id, refs, val : Ids({Row(id, refs, val)}) = {id}
<1>1. \A id, refs, val : Row(id, refs, val).id = id
  BY RowParts
<1> QED BY <1>1 DEF Ids

LEMMA QuietIsPaired ==
  ASSUME NEW saves, Quiet(saves)
  PROVE  Paired(Ids(saves))
  BY DEF Quiet, Watched, Paired, Ids

LEMMA CreditAndDebit ==
  /\ \A i, j : (i[2] = j[2] /\ i[3] = j[3] /\ i[4] = j[4] /\ i[5] = j[5]) =>
       Debit(i) = Debit(j) /\ Credit(i) = Credit(j)
  /\ \A t, m : /\ Debit(Id("cw20_credit", t, m, 0)) = Id("cw20_debit", t, m, 0)
               /\ Credit(Id("cw20_debit", t, m, 0)) = Id("cw20_credit", t, m, 0)
  BY DEF Debit, Credit, Id

LEMMA TransferIsPaired ==
  ASSUME NEW t, NEW m, NEW e
  PROVE  Paired(Ids(HandleCw20BalanceTransfer(t, m, e)))
<1> DEFINE credit == Id("cw20_credit", t, m, 0)
           debit == Id("cw20_debit", t, m, 0)
<1>1. \A id, a, x, refs : Ids(Change(id, t, m, e, a, x, refs)) = {AccountId(a), id}
  BY RowParts DEF Change, Ids
<1>2. Ids(HandleCw20BalanceTransfer(t, m, e))
        = {AccountId(Msg(t, m).to), credit, AccountId(Msg(t, m).from), debit}
  <2>1. \A table, a, x : Ids(SaveCw20(t, m, e, table, a, x)) = {AccountId(a), Id(table, t, m, 0)}
    BY <1>1 DEF SaveCw20
  <2>2. Ids(HandleCw20BalanceTransfer(t, m, e))
          = {AccountId(Msg(t, m).to), credit} \cup {AccountId(Msg(t, m).from), debit}
    <3>1. \A a, x : /\ Ids(SaveCw20(t, m, e, "cw20_credit", a, x)) = {AccountId(a), credit}
                   /\ Ids(SaveCw20(t, m, e, "cw20_debit", a, x)) = {AccountId(a), debit}
      BY <2>1
    <3> HIDE DEF credit, debit
    <3> QED BY <3>1, IdsOfUnion DEF HandleCw20BalanceTransfer
  <2> QED BY <2>2
<1>3. \A a : AccountId(a)[1] \notin {"cw20_credit", "cw20_debit"}
  BY DEF AccountId
<1>4. /\ credit[1] = "cw20_credit" /\ debit[1] = "cw20_debit"
      /\ Debit(credit) = debit /\ Credit(debit) = credit
  BY CreditAndDebit DEF Id
<1> HIDE DEF credit, debit
<1> QED BY <1>2, <1>3, <1>4 DEF Paired

LEMMA SavesArePaired ==
  ASSUME NEW c \in IndexBlockData, BlockInv, open, TableInv(chain, rows)
  PROVE  Paired(Ids(Saves(c)))
<1> DEFINE t == c[2]
           m == c[3]
           e == c[4]
<1>1. CASE Name(c) \notin {"handleCw20BalanceTransfer", "handleDistDelegatorClaim",
                           "handleDelegatorWithdrawRewardEvent"}
  BY <1>1, SavesAreSound, QuietIsPaired
<1>2. Paired({})
  BY DEF Paired
<1>3. CASE Name(c) = "handleCw20BalanceTransfer"
  <2>1. Saves(c) = {} \/ Saves(c) = HandleCw20BalanceTransfer(t, m, e)
    BY <1>3 DEF Saves, SavesIfComplete
  <2> QED BY <1>2, <2>1, TransferIsPaired, IdsOfUnion
<1>4. ASSUME NEW i, i[1] = "dist_delegator_claims" PROVE Paired({i})
  BY <1>4 DEF Paired
<1>5. CASE Name(c) = "handleDistDelegatorClaim"
  <2>1. Saves(c) = {} \/ Saves(c) = HandleDistDelegatorClaim(t, m)
    BY <1>5 DEF Saves, SavesIfComplete
  <2>2. Ids(HandleDistDelegatorClaim(t, m)) = {Id("dist_delegator_claims", t, m, 0)}
    BY IdsOfUnion DEF HandleDistDelegatorClaim, MessageRow
  <2>3. Id("dist_delegator_claims", t, m, 0)[1] = "dist_delegator_claims"
    BY DEF Id
  <2>4. Paired(Ids(HandleDistDelegatorClaim(t, m)))
    BY <1>4, <2>2, <2>3
  <2>5. Paired(Ids({}))
    BY <1>2, IdsOfUnion
  <2> QED BY <2>1, <2>4, <2>5
<1>6. CASE Name(c) = "handleDelegatorWithdrawRewardEvent"
  <2>1. Saves(c) = {} \/ Saves(c) = HandleDelegatorWithdrawRewardEvent(t, m, e)
    BY <1>6 DEF Saves, SavesIfComplete
  <2>2. \/ HandleDelegatorWithdrawRewardEvent(t, m, e) = {}
        \/ \E i \in Claims : Ids(HandleDelegatorWithdrawRewardEvent(t, m, e)) = {i}
    <3>1. \/ HandleDelegatorWithdrawRewardEvent(t, m, e) = {}
          \/ \E i \in ClaimsOf(t, Last(Event(t, m, e).moves).who) :
               \E v : HandleDelegatorWithdrawRewardEvent(t, m, e) = {Row(i, {}, v)}
      BY RewardSaves
    <3> QED BY <3>1, IdsOfUnion DEF ClaimsOf
  <2>3. \A i \in Claims : i[1] = "dist_delegator_claims"
    BY DEF Claims
  <2> QED BY <1>2, <1>4, <2>1, <2>2, <2>3, IdsOfUnion
<1> QED BY <1>1, <1>3, <1>5, <1>6

LEMMA UpsertedAt ==
  ASSUME NEW saves, NEW i \in DOMAIN Upserted(saves)
  PROVE  /\ i \in Ids(saves) => \E s \in saves : s.id = i /\ Upserted(saves)[i] = s.val
         /\ i \notin Ids(saves) => i \in DOMAIN rows /\ Upserted(saves)[i] = rows[i]
<1>1. CASE i \in Ids(saves)
  <2>1. Upserted(saves)[i] = (CHOOSE s \in saves : s.id = i).val
    BY <1>1 DEF Upserted
  <2>2. \E s \in saves : s.id = i
    BY <1>1 DEF Ids
  <2> QED BY <1>1, <2>1, <2>2
<1>2. CASE i \notin Ids(saves)
  BY <1>2 DEF Upserted
<1> QED BY <1>1, <1>2

LEMMA UpsertKeepsTable ==
  ASSUME NEW saves, Sound(saves), Paired(Ids(saves)), TableInv(chain, rows)
  PROVE  TableInv(chain, Upserted(saves))
<1> DEFINE table == Upserted(saves)
<1>1. DOMAIN table = DOMAIN rows \cup Ids(saves)
  BY UpsertedRows
<1>2. IsFiniteSet(Ids(saves))
  <2>1. [s \in saves |-> s.id] \in Surjection(saves, Ids(saves))
    BY DEF Surjection, Ids
  <2> QED BY <2>1, FS_Surjection DEF Sound
<1>3. IsFiniteSet(DOMAIN table)
  BY <1>1, <1>2, FS_Union DEF TableInv
<1>4. Paired(DOMAIN table)
  BY <1>1 DEF TableInv, Paired
<1>5. ASSUME NEW i \in DOMAIN table PROVE Fits(chain, i, table[i])
  <2>1. CASE i \in Ids(saves)
    <3>1. PICK s \in saves : s.id = i /\ table[i] = s.val
      BY <1>5, <2>1, UpsertedAt
    <3> QED BY <3>1 DEF Sound
  <2>2. CASE i \notin Ids(saves)
    <3>1. i \in DOMAIN rows /\ table[i] = rows[i]
      BY <1>5, <2>2, UpsertedAt
    <3> QED BY <3>1 DEF TableInv
  <2> QED BY <2>1, <2>2
<1> HIDE DEF table
<1>6. TableInv(chain, table)
  BY <1>3, <1>4, <1>5 DEF TableInv
<1> QED BY <1>6 DEF table

LEMMA UpsertKeepsHistory ==
  ASSUME NEW saves, OwnBlock(saves), NEW i \in DOMAIN Upserted(saves), i[2] \notin {0, B}
  PROVE  i \in DOMAIN rows /\ Upserted(saves)[i] = rows[i]
<1>1. i \notin Ids(saves)
  BY DEF OwnBlock, Ids
<1> QED BY <1>1, UpsertedAt

\* What a step within a block can be
RecordSave(t) == {Row(UnprocessedId(B, t), InTx(t), NoVal)}
Kept == todo' = todo /\ rows' = rows
Lost == todo' \subseteq todo /\ rows' = rows /\ aborted'
Made(c) ==
  /\ c \in todo /\ IsNext(c) /\ todo' = todo \ {c} /\ rows' = Upserted(Saves(c))
  /\ Throws(c) => c[2] \in failed'
Noted(t) == todo' = todo /\ rows' = Upserted(RecordSave(t))
Inside ==
  /\ open /\ open' /\ UNCHANGED <<chain, height, db>>
  /\ failed \subseteq failed' /\ (aborted => aborted')
  /\ Kept \/ Lost \/ (\E c \in todo : Made(c)) \/ (\E t : Noted(t))

LEMMA StepCases ==
  ASSUME [Next]_vars
  PROVE  \/ BeginBlock \/ CommitBlock \/ Inside
         \/ ~ open' /\ UNCHANGED <<chain, height, db>>
<1>1. CASE Call
  <2>1. PICK c \in todo :
          \/ HandlerReturns(c) \/ HandlerThrows(c) \/ StatementFails(c)
          \/ FilterFails(c) \/ HandlerEscapes(c)
    BY <1>1 DEF Call
  <2>2. CASE FilterFails(c) \/ HandlerEscapes(c)
    BY <2>2 DEF FilterFails, HandlerEscapes, Exit
  <2>3. CASE HandlerReturns(c)
    <3>1. Made(c)
      BY <2>3 DEF HandlerReturns, Called, Reached, Made
    <3> QED BY <2>3, <3>1 DEF HandlerReturns, Called, Reached, Inside
  <2>4. CASE HandlerThrows(c)
    <3>1. Made(c)
      BY <2>4 DEF HandlerThrows, Called, Reached, Failing, Made
    <3> QED BY <2>4, <3>1 DEF HandlerThrows, Called, Reached, Failing, Inside
  <2>5. CASE StatementFails(c)
    BY <2>5 DEF StatementFails, Called, Reached, Failing, Lost, Inside
  <2> QED BY <2>1, <2>2, <2>3, <2>4, <2>5
<1>2. CASE \E t \in pending : TrackUnprocessed(t)
  <2>1. PICK t \in pending : TrackUnprocessed(t)
    BY <1>2
  <2>2. Noted(t) \/ Lost
    BY <2>1 DEF TrackUnprocessed, Noted, Lost, RecordSave
  <2> QED BY <2>1, <2>2 DEF TrackUnprocessed, Inside
<1>3. CASE WrapFails \/ MetadataFails \/ Crash
  BY <1>3 DEF WrapFails, MetadataFails, Crash, Exit
<1>4. CASE UNCHANGED vars
  BY <1>4 DEF vars, work, Inside, Kept
<1> QED BY <1>1, <1>2, <1>3, <1>4 DEF Next, IndexBlock

LEMMA RecordIsSound ==
  ASSUME NEW t
  PROVE  /\ Sound(RecordSave(t)) /\ Quiet(RecordSave(t)) /\ OwnBlock(RecordSave(t))
         /\ Ids(RecordSave(t)) = {UnprocessedId(B, t)}
<1>1. UnprocessedId(B, t)[2] = B
  BY DEF UnprocessedId
<1> QED BY <1>1, PlainRows, PlainIds, OwnRow, IdsOfUnion DEF RecordSave

LEMMA TablesInvNext ==
  ASSUME BlockInv, TablesInv, [Next]_vars
  PROVE  TablesInv'
<1>1. CASE BeginBlock
  <2>1. open' /\ chain' = chain /\ db' = db /\ rows' = db
    BY <1>1 DEF BeginBlock
  <2> QED BY <2>1 DEF TablesInv
<1>2. CASE CommitBlock
  <2>1. open /\ ~ open' /\ chain' = chain /\ db' = rows
    BY <1>2 DEF CommitBlock
  <2> QED BY <2>1 DEF TablesInv
<1>3. CASE ~ open' /\ UNCHANGED <<chain, height, db>>
  BY <1>3 DEF TablesInv
<1>4. CASE Inside
  <2>1. open /\ UNCHANGED <<chain, height, db>> /\ B' = B
    BY <1>4 DEF Inside, B
  <2>2. TableInv(chain, rows)
        /\ \A i \in DOMAIN rows : i[2] \notin {0, B} => i \in DOMAIN db /\ rows[i] = db[i]
    BY <2>1 DEF TablesInv
  <2>3. ASSUME NEW saves, Sound(saves), OwnBlock(saves), Paired(Ids(saves)), rows' = Upserted(saves)
        PROVE  TableInv(chain, rows')
               /\ \A i \in DOMAIN rows' : i[2] \notin {0, B} => i \in DOMAIN db /\ rows'[i] = db[i]
    <3>1. TableInv(chain, rows')
      BY <2>2, <2>3, UpsertKeepsTable
    <3> QED BY <2>2, <2>3, <3>1, UpsertKeepsHistory
  <2>4. TableInv(chain, rows')
        /\ \A i \in DOMAIN rows' : i[2] \notin {0, B} => i \in DOMAIN db /\ rows'[i] = db[i]
    <3>1. CASE rows' = rows
      BY <2>2, <3>1
    <3>2. ASSUME NEW c \in todo, Made(c)
          PROVE  Sound(Saves(c)) /\ OwnBlock(Saves(c)) /\ Paired(Ids(Saves(c)))
                 /\ rows' = Upserted(Saves(c))
      <4>1. c \in IndexBlockData
        BY <2>1 DEF BlockInv, ProgressInv
      <4> QED BY <2>1, <2>2, <3>2, <4>1, SavesAreSound, OwnSaves, SavesArePaired DEF Made
    <3>3. ASSUME NEW t, Noted(t)
          PROVE  Sound(RecordSave(t)) /\ OwnBlock(RecordSave(t)) /\ Paired(Ids(RecordSave(t)))
                 /\ rows' = Upserted(RecordSave(t))
      BY <3>3, RecordIsSound, QuietIsPaired DEF Noted
    <3>4. Kept \/ Lost \/ (\E c \in todo : Made(c)) \/ (\E t : Noted(t))
      BY <1>4 DEF Inside
    <3>5. CASE Kept \/ Lost
      BY <3>1, <3>5 DEF Kept, Lost
    <3>6. CASE \E c \in todo : Made(c)
      BY <2>3, <3>2, <3>6
    <3>7. CASE \E t : Noted(t)
      BY <2>3, <3>3, <3>7
    <3> QED BY <3>4, <3>5, <3>6, <3>7
  <2> QED BY <2>1, <2>4 DEF TablesInv
<1> QED BY <1>1, <1>2, <1>3, <1>4, StepCases

-----------------------------------------------------------------------------
(* Every event has its calls. *)

LEMMA EventIsCalled ==
  ASSUME NEW t, NEW m, NEW e, Logged(chain, B, t, m, e), NEW n \in DOMAIN Handlers,
         FilterEvent(Handlers[n], Msg(t, m), Event(t, m, e))
  PROVE  <<4, t, m, e, n>> \in IndexBlockData
<1>1. t \in DOMAIN Block(B) /\ Tx(t).ok /\ m \in DOMAIN Tx(t).msgs /\ e \in DOMAIN Msg(t, m).events
  BY DEF Logged, TheMsg, TheTx, Block, Tx, Msg
<1>2. <<t, m, e>> \in WrapEvent
  BY <1>1 DEF WrapEvent
<1> DEFINE x == <<t, m, e>>
<1>3. <<4, x[1], x[2], x[3], n>> \in EventCalls
  <2>1. n \in {k \in DOMAIN Handlers :
                FilterEvent(Handlers[k], Msg(x[1], x[2]), Event(x[1], x[2], x[3]))}
    OBVIOUS
  <2> HIDE DEF x
  <2> QED BY <1>2, <2>1 DEF EventCalls, x
<1> QED BY <1>3 DEF IndexBlockData

LEMMA EventIsCalledIn ==
  ASSUME NEW t, NEW m, NEW e, Logged(chain, B, t, m, e)
  PROVE  /\ \A table \in {"spend", "receive"} :
              chain[B][t].msgs[m].events[e].type = TypeOf[table] =>
                <<4, t, m, e, HandlerOf[table]>> \in IndexBlockData
         /\ Event(t, m, e).type = "withdraw_rewards" => <<4, t, m, e, 7>> \in IndexBlockData
<1>1. chain[B][t].msgs[m].events[e] = Event(t, m, e)
  BY DEF Event, Msg, Tx, Block
<1>2. Event(t, m, e).type = "coin_spent" => FilterEvent(Handlers[9], Msg(t, m), Event(t, m, e))
  BY HandlerNumbers DEF Handler, FilterEvent, Anything
<1>3. Event(t, m, e).type = "coin_received" => FilterEvent(Handlers[10], Msg(t, m), Event(t, m, e))
  BY HandlerNumbers DEF Handler, FilterEvent, Anything
<1>4. Event(t, m, e).type = "withdraw_rewards" =>
        FilterEvent(Handlers[7], Msg(t, m), Event(t, m, e))
  BY HandlerNumbers DEF Handler, FilterEvent, Anything
<1>5. 7 \in DOMAIN Handlers /\ 9 \in DOMAIN Handlers /\ 10 \in DOMAIN Handlers
  BY HandlerNumbers
<1>6. \A n \in DOMAIN Handlers : FilterEvent(Handlers[n], Msg(t, m), Event(t, m, e)) =>
        <<4, t, m, e, n>> \in IndexBlockData
  BY EventIsCalled
<1>7. ASSUME NEW table \in {"spend", "receive"}, Event(t, m, e).type = TypeOf[table]
      PROVE  <<4, t, m, e, HandlerOf[table]>> \in IndexBlockData
  BY <1>2, <1>3, <1>5, <1>6, <1>7 DEF TypeOf, HandlerOf
<1> QED BY <1>1, <1>4, <1>5, <1>6, <1>7

LEMMA ChangeCall ==
  ASSUME NEW t, NEW m, NEW e, NEW table \in {"spend", "receive"}, NEW c,
         c = <<4, t, m, e, HandlerOf[table]>>
  PROVE  /\ Saves(c) = SaveMoves(t, m, e, table, SignOf[table])
         /\ ~ Throws(c) /\ Parsed(Event(t, m, e)) = "one" => Tx(t).signer # None
<1>1. Name(c) = (IF table = "spend" THEN "handleNativeBalanceDecrement"
                 ELSE "handleNativeBalanceIncrement")
  <2>1. Name(c) = Handlers[HandlerOf[table]].name
    BY DEF Name
  <2> QED BY <2>1, HandlerNumbers DEF HandlerOf, Handler
<1>2. ~ Incomplete(c) /\ ~ BigIntThrows(c)
  BY <1>1 DEF Incomplete, NeedsFields, BigIntThrows, Cw20Balances
<1>3. SavesIfComplete(c) = SaveMoves(t, m, e, table, SignOf[table])
  <2>1. CASE table = "spend"
    <3>1. SavesIfComplete(c) = HandleNativeBalanceDecrement(t, m, e)
      BY <1>1, <2>1 DEF SavesIfComplete
    <3> QED BY <2>1, <3>1 DEF HandleNativeBalanceDecrement, SignOf
  <2>2. CASE table = "receive"
    <3>1. SavesIfComplete(c) = HandleNativeBalanceIncrement(t, m, e)
      BY <1>1, <2>2 DEF SavesIfComplete
    <3> QED BY <2>2, <3>1 DEF HandleNativeBalanceIncrement, SignOf
  <2> QED BY <2>1, <2>2
<1>4. ~ Throws(c) /\ Parsed(Event(t, m, e)) = "one" => Tx(t).signer # None
  BY <1>1 DEF Throws, Cw20Balances
<1> QED BY <1>2, <1>3, <1>4 DEF Saves

LEMMA ChangeIds ==
  ASSUME NEW id, NEW t, NEW m, NEW e, NEW a, NEW x, NEW refs
  PROVE  id \in Ids(Change(id, t, m, e, a, x, refs))
  BY RowParts DEF Change, Ids

LEMMA MovesSaved ==
  ASSUME NEW t, NEW m, NEW e, NEW table \in {"spend", "receive"}, NEW c,
         c = <<4, t, m, e, HandlerOf[table]>>, ~ Throws(c)
  PROVE  ChangesSaved(chain, Ids(Saves(c)), B, t, m, e, table)
<1> DEFINE ev == Event(t, m, e)
           change(k) == Change(Id(table, t, MessageIdOfEvent(m, e), k), t, m, e,
                               ev.moves[k].who, SignOf[table] * ev.moves[k].amount, {})
           changes == UNION {change(k) : k \in DOMAIN ev.moves}
<1>1. chain[B][t].msgs[m].events[e] = ev
  BY DEF Event, Msg, Tx, Block
<1> SUFFICES ASSUME Parsed(ev) = "one"
             PROVE  /\ <<"fees", B, t, 0, 0>> \in Ids(Saves(c))
                    /\ \A k \in DOMAIN ev.moves : <<table, B, t, e, k>> \in Ids(Saves(c))
  BY <1>1 DEF ChangesSaved
<1>2. Tx(t).signer # None
  BY ChangeCall
<1>3. Saves(c) = SaveFees(t, m, e) \cup changes
  <2>1. Saves(c) = SaveMoves(t, m, e, table, SignOf[table])
    BY ChangeCall
  <2> QED BY <2>1 DEF SaveMoves
<1>4. <<"fees", B, t, 0, 0>> \in Ids(SaveFees(t, m, e))
  <2>1. FeeId(t, e) \in Ids(SaveFees(t, m, e))
    BY <1>2, ChangeIds DEF SaveFees
  <2> QED BY <2>1 DEF FeeId, Id
<1>5. ASSUME NEW k \in DOMAIN ev.moves PROVE <<table, B, t, e, k>> \in Ids(changes)
  <2>1. Id(table, t, MessageIdOfEvent(m, e), k) \in Ids(change(k))
    BY ChangeIds
  <2>2. \A s \in change(k) : s \in changes
    BY <1>5
  <2>3. Id(table, t, MessageIdOfEvent(m, e), k) = <<table, B, t, e, k>>
    BY DEF Id, MessageIdOfEvent
  <2> HIDE DEF change, changes
  <2> QED BY <2>1, <2>2, <2>3 DEF Ids
<1> HIDE DEF changes, ev
<1> QED BY <1>3, <1>4, <1>5, IdsOfUnion

LEMMA ChangesStay ==
  ASSUME NEW ch, NEW b, NEW t, NEW m, NEW e, NEW table, NEW ids, NEW more, ids \subseteq more,
         ChangesSaved(ch, ids, b, t, m, e, table)
  PROVE  ChangesSaved(ch, more, b, t, m, e, table)
  BY DEF ChangesSaved

LEMMA ChangesDoneStays ==
  ASSUME NEW ch, NEW b, NEW calls, NEW lost, NEW ids, NEW calls2, NEW lost2, NEW ids2,
         calls \subseteq calls2, lost \subseteq lost2, ids \subseteq ids2,
         ChangesDone(ch, b, calls, lost, ids)
  PROVE  ChangesDone(ch, b, calls2, lost2, ids2)
  BY ChangesStay DEF ChangesDone

\* The transactions of the block that is committed with failures have a record.
LEMMA FailedAreRecorded ==
  ASSUME BlockInv, CommitBlock
  PROVE  failed \subseteq Recorded(DOMAIN rows, B)
<1> SUFFICES ASSUME NEW t \in failed PROVE t \in Recorded(DOMAIN rows, B)
  OBVIOUS
<1>1. UnprocessedId(B, t) \in DOMAIN rows
  BY DEF BlockInv, RecordInv, CommitBlock
<1>2. UnprocessedId(B, t)[3] = t
  BY DEF UnprocessedId
<1> QED BY <1>1, <1>2 DEF Recorded

LEMMA ChangesInvNext ==
  ASSUME BlockInv, ChangesInv, [Next]_vars
  PROVE  ChangesInv'
<1>1. CASE BeginBlock
  <2>1. /\ open' /\ ~ aborted' /\ todo' = IndexBlockData /\ UNCHANGED <<chain, height, db>>
        /\ B' = B /\ B \in Nat
    BY <1>1 DEF BeginBlock, B, BlockInv, HeightInv
  <2>2. B \in DOMAIN chain
    <3>1. height < Len(chain) /\ height \in Nat /\ chain \in Chains
      BY <1>1 DEF BeginBlock, BlockInv, HeightInv
    <3> QED BY <3>1, ChainsOK, ListedDomain DEF B
  <2>3. ASSUME NEW t \in DOMAIN chain[B], chain[B][t].ok, NEW m \in DOMAIN chain[B][t].msgs,
               NEW e \in DOMAIN chain[B][t].msgs[m].events, NEW table \in {"spend", "receive"}
        PROVE  <<4, t, m, e, HandlerOf[table]>> \in IndexBlockData
                 \/ \A ids : ChangesSaved(chain, ids, B, t, m, e, table)
    <3>1. Logged(chain, B, t, m, e)
      BY <2>2, <2>3 DEF Logged, TheMsg, TheTx
    <3> QED BY <3>1, EventIsCalledIn DEF ChangesSaved
  <2>4. ChangesDone(chain, B, IndexBlockData, failed', DOMAIN rows')
    BY <2>3 DEF ChangesDone
  <2> QED BY <2>1, <2>4 DEF ChangesInv
<1>2. CASE CommitBlock
  <2>1. /\ open /\ ~ aborted /\ todo = {} /\ ~ open' /\ db' = rows /\ height' = B /\ chain' = chain
        /\ height \in Nat /\ B = height + 1
    BY <1>2 DEF CommitBlock, BlockInv, HeightInv, B
  <2>2. ASSUME NEW b \in 1 .. B
        PROVE  ChangesDone(chain, b, {}, Recorded(DOMAIN rows, b), DOMAIN rows)
    <3>1. CASE b = B
      <4>1. ChangesDone(chain, B, {}, failed, DOMAIN rows)
        BY <2>1 DEF ChangesInv
      <4>2. failed \subseteq Recorded(DOMAIN rows, B)
        BY <1>2, FailedAreRecorded
      <4> QED BY <3>1, <4>1, <4>2, ChangesDoneStays
    <3>2. CASE b # B
      <4>1. b \in 1 .. height
        BY <2>1, <3>2
      <4>2. ChangesDone(chain, b, {}, Recorded(DOMAIN db, b), DOMAIN db)
        BY <4>1 DEF ChangesInv
      <4>3. DOMAIN db \subseteq DOMAIN rows
        BY <2>1 DEF BlockInv, RecordInv
      <4>4. Recorded(DOMAIN db, b) \subseteq Recorded(DOMAIN rows, b)
        BY <4>3 DEF Recorded
      <4> QED BY <4>2, <4>3, <4>4, ChangesDoneStays
    <3> QED BY <3>1, <3>2
  <2> QED BY <2>1, <2>2 DEF ChangesInv
<1>3. CASE ~ open' /\ UNCHANGED <<chain, height, db>>
  BY <1>3 DEF ChangesInv
<1>4. CASE Inside
  <2>1. /\ open /\ UNCHANGED <<chain, height, db>> /\ B' = B
        /\ failed \subseteq failed' /\ (aborted => aborted')
    BY <1>4 DEF Inside, B
  <2>2. ASSUME ~ aborted' PROVE ChangesDone(chain, B, todo', failed', DOMAIN rows')
    <3>1. ChangesDone(chain, B, todo, failed, DOMAIN rows)
      BY <2>1, <2>2 DEF ChangesInv
    <3>2. CASE Kept
      BY <2>1, <3>1, <3>2, ChangesDoneStays DEF Kept
    <3>3. CASE \E t : Noted(t)
      <4>1. todo' = todo /\ DOMAIN rows \subseteq DOMAIN rows'
        BY <3>3, UpsertedRows DEF Noted
      <4> QED BY <2>1, <3>1, <4>1, ChangesDoneStays
    <3>4. CASE \E c \in todo : Made(c)
      <4>1. PICK c \in todo : Made(c)
        BY <3>4
      <4>2. /\ todo' = todo \ {c} /\ DOMAIN rows' = DOMAIN rows \cup Ids(Saves(c))
            /\ (Throws(c) => c[2] \in failed')
        BY <4>1, UpsertedRows DEF Made
      <4>3. ASSUME NEW t \in DOMAIN chain[B], chain[B][t].ok, NEW m \in DOMAIN chain[B][t].msgs,
                   NEW e \in DOMAIN chain[B][t].msgs[m].events, NEW table \in {"spend", "receive"},
                   <<4, t, m, e, HandlerOf[table]>> \notin todo', t \notin failed'
            PROVE  ChangesSaved(chain, DOMAIN rows', B, t, m, e, table)
        <5>1. CASE <<4, t, m, e, HandlerOf[table]>> \notin todo
          <6>1. ChangesSaved(chain, DOMAIN rows, B, t, m, e, table)
            BY <2>1, <3>1, <4>3, <5>1 DEF ChangesDone
          <6> QED BY <4>2, <6>1, ChangesStay
        <5>2. CASE c = <<4, t, m, e, HandlerOf[table]>>
          <6>1. ~ Throws(c)
            BY <4>2, <4>3, <5>2
          <6>2. ChangesSaved(chain, Ids(Saves(c)), B, t, m, e, table)
            BY <5>2, <6>1, MovesSaved
          <6> QED BY <4>2, <6>2, ChangesStay
        <5> QED BY <4>2, <4>3, <5>1, <5>2
      <4> QED BY <4>3 DEF ChangesDone
    <3>5. ~ Lost
      BY <2>2 DEF Lost
    <3> QED BY <1>4, <3>2, <3>3, <3>4, <3>5 DEF Inside
  <2> QED BY <2>1, <2>2 DEF ChangesInv
<1> QED BY <1>1, <1>2, <1>3, <1>4, StepCases

-----------------------------------------------------------------------------
(* Claims and their rewards. *)

LEMMA SingleFacts ==
  ASSUME NEW t, NEW m, NEW e, BlockInv, Single(chain, B, t, m, e)
  PROVE  /\ Logged(chain, B, t, m, e) /\ Asked(Msg(t, m), Event(t, m, e))
         /\ Event(t, m, e).moves # <<>> /\ Last(Event(t, m, e).moves).who = Msg(t, m).to
         /\ Last(Event(t, m, e).moves).coin \in {"one", "empty", "bad"}
         /\ Last(Event(t, m, e).moves).amount \in Int
         /\ \A n, f : /\ Logged(chain, B, t, n, f) /\ Event(t, n, f).type = "withdraw_rewards"
                      /\ Last(Event(t, n, f).moves).who = Msg(t, m).to
                      => n = m /\ f = e
<1>1. Logged(chain, B, t, m, e) /\ Asked(Msg(t, m), Event(t, m, e))
  BY DEF Single, Event, Msg, Tx, Block
<1>2. EventsOK(Msg(t, m)) /\ e \in DOMAIN Msg(t, m).events /\ MovesOK(Event(t, m, e).moves)
  BY <1>1, EventIsOK DEF MessageOK
<1>3. Event(t, m, e).moves # <<>> /\ Last(Event(t, m, e).moves).who = Msg(t, m).to
  BY <1>1, <1>2 DEF EventsOK, Event
<1>4. /\ Last(Event(t, m, e).moves).coin \in {"one", "empty", "bad"}
      /\ Last(Event(t, m, e).moves).amount \in Int
  BY <1>2, <1>3, ListedDomain DEF MovesOK, Last
<1>5. ASSUME NEW n, NEW f, Logged(chain, B, t, n, f), Event(t, n, f).type = "withdraw_rewards",
             Last(Event(t, n, f).moves).who = Msg(t, m).to
      PROVE  n = m /\ f = e
  <2>1. n \in DOMAIN chain[B][t].msgs /\ f \in DOMAIN chain[B][t].msgs[n].events
    BY <1>5 DEF Logged, TheMsg
  <2>2. chain[B][t].msgs[n].events[f] = Event(t, n, f) /\ chain[B][t].msgs[m] = Msg(t, m)
    BY DEF Event, Msg, Tx, Block
  <2> QED BY <1>5, <2>1, <2>2 DEF Single
<1> QED BY <1>1, <1>3, <1>4, <1>5

\* A claim names the validator of a withdrawal of its message.
LEMMA ClaimOfWithdrawal ==
  ASSUME BlockInv, TableInv(chain, rows), NEW i \in DOMAIN rows, i[1] = "dist_delegator_claims",
         i[2] = B
  PROVE  /\ i = ClaimId(B, i[3], i[4]) /\ rows[i].who = Msg(i[3], i[4]).to
         /\ \E f : /\ Logged(chain, B, i[3], i[4], f)
                   /\ Event(i[3], i[4], f).type = "withdraw_rewards"
                   /\ Last(Event(i[3], i[4], f).moves).who = Msg(i[3], i[4]).to
<1>1. Fits(chain, i, rows[i])
  BY DEF TableInv
<1>2. ClaimFits(chain, i, rows[i]) /\ i = <<i[1], i[2], i[3], i[4], i[5]>>
  BY <1>1 DEF Fits
<1>3. chain[B][i[3]].msgs[i[4]] = Msg(i[3], i[4])
      /\ \A f : Msg(i[3], i[4]).events[f] = Event(i[3], i[4], f)
  BY DEF Event, Msg, Tx, Block
<1>4. i[5] = 0 /\ rows[i].who = Msg(i[3], i[4]).to
  BY <1>2, <1>3 DEF ClaimFits
<1>5. PICK f : Logged(chain, B, i[3], i[4], f) /\ Asked(Msg(i[3], i[4]), Event(i[3], i[4], f))
  BY <1>2, <1>3 DEF ClaimFits
<1>6. EventsOK(Msg(i[3], i[4])) /\ f \in DOMAIN Msg(i[3], i[4]).events
  BY <1>5, EventIsOK DEF MessageOK
<1>7. Last(Event(i[3], i[4], f).moves).who = Msg(i[3], i[4]).to
  BY <1>5, <1>6 DEF EventsOK, Event
<1>8. Event(i[3], i[4], f).type = "withdraw_rewards"
  BY <1>5 DEF Asked
<1>9. i = ClaimId(B, i[3], i[4])
  BY <1>2, <1>4 DEF ClaimId
<1> QED BY <1>4, <1>5, <1>7, <1>8, <1>9

\* Which calls save a claim
LEMMA ClaimSavers ==
  ASSUME BlockInv, open, TableInv(chain, rows), NEW c \in IndexBlockData,
         NEW i \in Ids(Saves(c)), i[1] = "dist_delegator_claims"
  PROVE  \/ /\ Name(c) = "handleDistDelegatorClaim" /\ i = ClaimId(B, c[2], c[3])
         \/ /\ Name(c) = "handleDelegatorWithdrawRewardEvent"
            /\ i \in ClaimsOf(c[2], Last(Event(c[2], c[3], c[4]).moves).who)
<1> DEFINE t == c[2]
           m == c[3]
           e == c[4]
<1>1. ~ Quiet(Saves(c))
  BY DEF Quiet, Watched, Ids
<1>2. CASE Name(c) = "handleCw20BalanceTransfer"
  <2>1. Saves(c) = {} \/ Saves(c) = HandleCw20BalanceTransfer(t, m, e)
    BY <1>2 DEF Saves, SavesIfComplete
  <2>2. \A table, a, x : Ids(SaveCw20(t, m, e, table, a, x)) = {AccountId(a), Id(table, t, m, 0)}
    BY RowParts DEF Change, SaveCw20, Ids
  <2>3. Ids(HandleCw20BalanceTransfer(t, m, e))
          = {AccountId(Msg(t, m).to), Id("cw20_credit", t, m, 0)}
            \cup {AccountId(Msg(t, m).from), Id("cw20_debit", t, m, 0)}
    BY <2>2, IdsOfUnion DEF HandleCw20BalanceTransfer
  <2>4. \A a : AccountId(a)[1] # "dist_delegator_claims"
    BY DEF AccountId
  <2>5. \A table : Id(table, t, m, 0)[1] = table
    BY DEF Id
  <2> QED BY <2>1, <2>3, <2>4, <2>5, IdsOfUnion
<1>3. CASE Name(c) = "handleDistDelegatorClaim"
  <2>1. Saves(c) = {} \/ Saves(c) = HandleDistDelegatorClaim(t, m)
    BY <1>3 DEF Saves, SavesIfComplete
  <2>2. Ids(HandleDistDelegatorClaim(t, m)) = {ClaimId(B, t, m)}
    BY IdsOfUnion DEF HandleDistDelegatorClaim, MessageRow, ClaimId, Id
  <2> QED BY <1>3, <2>1, <2>2, IdsOfUnion
<1>4. CASE Name(c) = "handleDelegatorWithdrawRewardEvent"
  <2>1. Saves(c) = {} \/ Saves(c) = HandleDelegatorWithdrawRewardEvent(t, m, e)
    BY <1>4 DEF Saves, SavesIfComplete
  <2>2. \/ HandleDelegatorWithdrawRewardEvent(t, m, e) = {}
        \/ \E j \in ClaimsOf(t, Last(Event(t, m, e).moves).who) :
             \E v : HandleDelegatorWithdrawRewardEvent(t, m, e) = {Row(j, {}, v)}
    BY RewardSaves
  <2> QED BY <1>4, <2>1, <2>2, IdsOfUnion
<1> QED BY <1>1, <1>2, <1>3, <1>4, SavesAreSound

\* A call that is neither of the two of a withdrawal leaves its claim alone.
LEMMA OthersLeaveClaim ==
  ASSUME BlockInv, open, TableInv(chain, rows), NEW t, NEW m, NEW e, Single(chain, B, t, m, e),
         NEW c \in IndexBlockData, c # <<4, t, m, e, 3>>, c # <<4, t, m, e, 7>>
  PROVE  ClaimId(B, t, m) \notin Ids(Saves(c))
<1> DEFINE claim == ClaimId(B, t, m)
<1> SUFFICES ASSUME claim \in Ids(Saves(c)) PROVE FALSE
  OBVIOUS
<1>1. claim[1] = "dist_delegator_claims" /\ claim[2] = B /\ claim[3] = t /\ claim[4] = m
  BY DEF ClaimId
<1> HIDE DEF claim
<1>2. CASE Name(c) = "handleDistDelegatorClaim" /\ claim = ClaimId(B, c[2], c[3])
  <2>1. c[2] = t /\ c[3] = m
    BY <1>1, <1>2 DEF ClaimId
  <2>2. /\ CallAt(c) /\ c \in EventCalls /\ c[5] = 3
        /\ Asked(Msg(c[2], c[3]), Event(c[2], c[3], c[4]))
    BY <1>2, SpecialCalls DEF SpecialNames
  <2>3. Logged(chain, B, t, m, c[4]) /\ Asked(Msg(t, m), Event(t, m, c[4]))
    BY <2>1, <2>2 DEF CallAt
  <2>4. EventsOK(Msg(t, m)) /\ c[4] \in DOMAIN Msg(t, m).events
    BY <2>3, EventIsOK DEF MessageOK
  <2>5. Last(Event(t, m, c[4]).moves).who = Msg(t, m).to
    BY <2>3, <2>4 DEF EventsOK, Event
  <2>6. c[4] = e
    BY <2>3, <2>5, SingleFacts DEF Asked
  <2>7. c = <<4, c[2], c[3], c[4], c[5]>>
    BY <2>2, EventsCalled
  <2> QED BY <2>1, <2>2, <2>6, <2>7
<1>3. CASE /\ Name(c) = "handleDelegatorWithdrawRewardEvent"
           /\ claim \in ClaimsOf(c[2], Last(Event(c[2], c[3], c[4]).moves).who)
  <2>1. /\ c[2] = t /\ claim \in DOMAIN rows
        /\ rows[claim].who = Last(Event(c[2], c[3], c[4]).moves).who
    BY <1>1, <1>3 DEF ClaimsOf, Claims
  <2>2. /\ CallAt(c) /\ c \in EventCalls /\ c[5] = 7
        /\ Event(c[2], c[3], c[4]).type = "withdraw_rewards"
    BY <1>3, SpecialCalls DEF SpecialNames
  <2>3. rows[claim].who = Msg(t, m).to
    BY <1>1, <2>1, ClaimOfWithdrawal
  <2>4. Logged(chain, B, t, c[3], c[4])
    BY <2>1, <2>2 DEF CallAt
  <2>5. c[3] = m /\ c[4] = e
    <3> DEFINE n == c[3]
               f == c[4]
    <3>1. Logged(chain, B, t, n, f) /\ Event(t, n, f).type = "withdraw_rewards"
          /\ Last(Event(t, n, f).moves).who = Msg(t, m).to
      BY <2>1, <2>2, <2>3, <2>4
    <3> HIDE DEF n, f
    <3>2. n = m /\ f = e
      BY <3>1, SingleFacts
    <3> QED BY <3>2 DEF n, f
  <2>6. c = <<4, c[2], c[3], c[4], c[5]>>
    BY <2>2, EventsCalled
  <2> QED BY <2>1, <2>2, <2>5, <2>6
<1> QED BY <1>1, <1>2, <1>3, ClaimSavers

LEMMA ClaimDoneStays ==
  ASSUME NEW ch, NEW b, NEW calls, NEW lost, NEW table, NEW lost2, NEW table2, NEW t, NEW m, NEW e,
         ClaimDone(ch, b, calls, lost, table, t, m, e), lost \subseteq lost2,
         ClaimId(b, t, m) \in DOMAIN table2 =>
           /\ ClaimId(b, t, m) \in DOMAIN table
           /\ table2[ClaimId(b, t, m)] = table[ClaimId(b, t, m)]
  PROVE  ClaimDone(ch, b, calls, lost2, table2, t, m, e)
  BY DEF ClaimDone

\* The call that saves the claim
LEMMA ClaimIsSaved ==
  ASSUME BlockInv, open, TableInv(chain, rows), todo \subseteq IndexBlockData,
         NEW t, NEW m, NEW e, Single(chain, B, t, m, e),
         ClaimDone(chain, B, todo, failed, rows, t, m, e), NEW c, c = <<4, t, m, e, 3>>, Made(c)
  PROVE  ClaimDone(chain, B, todo', failed', rows', t, m, e)
<1> DEFINE claim == ClaimId(B, t, m)
<1>1. c \in todo /\ todo' = todo \ {c} /\ rows' = Upserted(Saves(c)) /\ c \in IndexBlockData
  BY DEF Made
<1>2. <<4, t, m, e, 7>> \in todo' /\ c \notin todo' /\ claim \notin DOMAIN rows
  BY <1>1 DEF ClaimDone
<1>3. ASSUME claim \in DOMAIN rows' PROVE rows'[claim].amount = -1
  <2>1. claim \in Ids(Saves(c)) /\ \E s \in Saves(c) : s.id = claim /\ rows'[claim] = s.val
    BY <1>1, <1>2, <1>3, UpsertedAt
  <2>2. Name(c) = "handleDistDelegatorClaim"
    BY HandlerNumbers DEF Name, Handler
  <2>3. Saves(c) = {} \/ Saves(c) = HandleDistDelegatorClaim(t, m)
    BY <2>2 DEF Saves, SavesIfComplete
  <2>4. rows'[claim] = Amount(m, Msg(t, m).to, -1)
    BY <2>1, <2>3, RowParts DEF HandleDistDelegatorClaim, MessageRow
  <2> QED BY <2>4, Values
<1> HIDE DEF claim
<1> QED BY <1>2, <1>3 DEF ClaimDone, claim

\* The call that brings the reward
LEMMA RewardIsPaid ==
  ASSUME BlockInv, open, TableInv(chain, rows), todo \subseteq IndexBlockData,
         NEW t, NEW m, NEW e, Single(chain, B, t, m, e),
         ClaimDone(chain, B, todo, failed, rows, t, m, e), NEW c, c = <<4, t, m, e, 7>>, Made(c)
  PROVE  ClaimDone(chain, B, todo', failed', rows', t, m, e)
<1> DEFINE claim == ClaimId(B, t, m)
           ev == Event(t, m, e)
           saves == HandleDelegatorWithdrawRewardEvent(t, m, e)
<1>1. /\ c \in todo /\ IsNext(c) /\ todo' = todo \ {c} /\ rows' = Upserted(Saves(c))
      /\ c \in IndexBlockData /\ (Throws(c) => t \in failed')
  BY DEF Made
<1>2. <<4, t, m, e, 3>> \notin todo
  <2> DEFINE d == <<4, t, m, e, 3>>
  <2> SUFFICES ASSUME d \in todo PROVE FALSE
    OBVIOUS
  <2>1. Precedes(c, d)
    BY <1>1 DEF IsNext
  <2>2. PICK k \in 1 .. 5 : c[k] < d[k]
    BY <2>1 DEF Precedes
  <2>3. t \in Int /\ m \in Int /\ e \in Int
    BY SingleFacts, EventIsOK
  <2>4. /\ c[1] = 4 /\ d[1] = 4 /\ c[2] = t /\ d[2] = t /\ c[3] = m /\ d[3] = m
        /\ c[4] = e /\ d[4] = e /\ c[5] = 7 /\ d[5] = 3
    OBVIOUS
  <2> HIDE DEF d
  <2> QED BY <2>2, <2>3, <2>4
<1>3. c \notin todo' /\ <<4, t, m, e, 3>> \notin todo'
  BY <1>1, <1>2
<1>4. Name(c) = "handleDelegatorWithdrawRewardEvent"
  BY HandlerNumbers DEF Name, Handler
<1>5. Saves(c) = saves
  BY <1>4 DEF Saves, SavesIfComplete, Incomplete, NeedsFields, BigIntThrows, Cw20Balances
<1>6. claim[1] = "dist_delegator_claims" /\ claim[2] = B /\ claim[3] = t /\ claim[4] = m
  BY DEF ClaimId
<1> HIDE DEF claim
<1>7. chain[B][t].msgs[m].events[e] = ev
  BY DEF Event, Msg, Tx, Block
<1>8. ASSUME claim \in DOMAIN rows' PROVE t \in failed' \/ rows'[claim].amount = Reward(ev)
  <2>1. claim \in DOMAIN rows
    <3>1. CASE claim \in Ids(Saves(c))
      BY <1>1, <1>4, <1>6, <3>1, ClaimSavers DEF ClaimsOf, Claims
    <3>2. CASE claim \notin Ids(Saves(c))
      BY <1>1, <1>8, <3>2, UpsertedAt
    <3> QED BY <3>1, <3>2
  <2>2. rows[claim].amount = -1
    BY <1>1, <2>1 DEF ClaimDone, claim
  <2>3. rows[claim].who = Msg(t, m).to
    BY <1>6, <2>1, ClaimOfWithdrawal
  <2>4. /\ ev.moves # <<>> /\ Last(ev.moves).who = Msg(t, m).to
        /\ Last(ev.moves).coin \in {"one", "empty", "bad"}
    BY SingleFacts
  <2>5. claim \in ClaimsOf(t, Last(ev.moves).who)
    BY <1>6, <2>1, <2>3, <2>4 DEF ClaimsOf, Claims
  <2>6. CASE saves = {}
    <3>1. rows'[claim] = rows[claim]
      BY <1>1, <1>5, <1>8, <2>6, UpsertedAt, IdsOfUnion
    <3>2. CASE Last(ev.moves).coin = "empty"
      BY <2>2, <3>1, <3>2 DEF Reward
    <3>3. CASE Last(ev.moves).coin = "bad"
      <4>1. Rewarded(ev)
        BY <2>4, <3>3 DEF Rewarded
      <4>2. Throws(c)
        BY <1>4, <2>5, <3>3, <4>1 DEF Throws, Cw20Balances
      <4> QED BY <1>1, <4>2
    <3>4. CASE Last(ev.moves).coin = "one"
      <4>1. Rewarded(ev)
        BY <2>4, <3>4 DEF Rewarded
      <4>2. PICK i \in ClaimsOf(t, Last(ev.moves).who) : saves # {}
        BY <2>5, <3>4, <4>1 DEF HandleDelegatorWithdrawRewardEvent
      <4> QED BY <2>6, <4>2
    <3> QED BY <2>4, <3>2, <3>3, <3>4
  <2>7. CASE saves # {}
    <3>1. Rewarded(ev) /\ Last(ev.moves).coin # "bad"
      BY <2>7, RewardSaves
    <3>2. PICK i \in ClaimsOf(t, Last(ev.moves).who) :
            saves = {Row(i, {}, Paid(i, Last(ev.moves).amount))}
      BY <2>7, RewardSaves
    <3>3. /\ i \in DOMAIN rows /\ i[1] = "dist_delegator_claims" /\ i[2] = B /\ i[3] = t
          /\ rows[i].who = Last(ev.moves).who
      BY DEF ClaimsOf, Claims
    <3>4. i = claim
      <4>1. i = ClaimId(B, t, i[4]) /\ rows[i].who = Msg(t, i[4]).to
            /\ \E f : /\ Logged(chain, B, t, i[4], f) /\ Event(t, i[4], f).type = "withdraw_rewards"
                      /\ Last(Event(t, i[4], f).moves).who = Msg(t, i[4]).to
        BY <3>3, ClaimOfWithdrawal
      <4>2. i[4] = m
        BY <2>4, <3>3, <4>1, SingleFacts
      <4> QED BY <4>1, <4>2 DEF claim
    <3>5. rows'[claim] = Paid(claim, Last(ev.moves).amount)
      <4>1. Ids(Saves(c)) = {claim}
        BY <1>5, <3>2, <3>4, IdsOfUnion
      <4>2. \E s \in Saves(c) : s.id = claim /\ rows'[claim] = s.val
        BY <1>1, <1>8, <4>1, UpsertedAt
      <4> QED BY <1>5, <3>2, <3>4, <4>2, RowParts
    <3>6. DOMAIN rows[claim] = DOMAIN NoVal
      BY <2>1 DEF TableInv, Fits
    <3>7. rows'[claim].amount = Last(ev.moves).amount
      BY <3>5, <3>6, Values DEF Paid
    <3>8. Last(ev.moves).coin = "one"
      BY <2>4, <3>1 DEF Rewarded
    <3> QED BY <3>7, <3>8 DEF Reward
  <2> QED BY <2>6, <2>7
<1> QED BY <1>3, <1>7, <1>8 DEF ClaimDone, claim

LEMMA ClaimsDoneStays ==
  ASSUME NEW ch, NEW b, NEW calls, NEW lost, NEW table, NEW lost2, NEW table2,
         ClaimsDone(ch, b, calls, lost, table), lost \subseteq lost2,
         \A t, m : ClaimId(b, t, m) \in DOMAIN table2 =>
                     /\ ClaimId(b, t, m) \in DOMAIN table
                     /\ table2[ClaimId(b, t, m)] = table[ClaimId(b, t, m)]
  PROVE  ClaimsDone(ch, b, calls, lost2, table2)
<1> SUFFICES ASSUME NEW t \in DOMAIN ch[b], NEW m \in DOMAIN ch[b][t].msgs,
                    NEW e \in DOMAIN ch[b][t].msgs[m].events, Single(ch, b, t, m, e)
             PROVE  ClaimDone(ch, b, calls, lost2, table2, t, m, e)
  BY DEF ClaimsDone
<1>1. ClaimDone(ch, b, calls, lost, table, t, m, e)
  BY DEF ClaimsDone
<1> QED BY <1>1, ClaimDoneStays

LEMMA ClaimsBegin ==
  ASSUME BlockInv, BeginBlock
  PROVE  ClaimsDone(chain, B, IndexBlockData, {}, db)
<1> SUFFICES ASSUME NEW t \in DOMAIN chain[B], NEW m \in DOMAIN chain[B][t].msgs,
                    NEW e \in DOMAIN chain[B][t].msgs[m].events, Single(chain, B, t, m, e)
             PROVE  ClaimDone(chain, B, IndexBlockData, {}, db, t, m, e)
  BY DEF ClaimsDone
<1>1. height \in Nat /\ \A i \in DOMAIN db : i[2] \in 0 .. height
  BY DEF BlockInv, HeightInv, HeightsInv
<1>2. B \notin 0 .. height
  BY <1>1 DEF B
<1>3. ClaimId(B, t, m)[2] = B
  BY DEF ClaimId
<1>4. ClaimId(B, t, m) \notin DOMAIN db
  BY <1>1, <1>2, <1>3
<1>5. Logged(chain, B, t, m, e)
  BY DEF Single
<1>6. Event(t, m, e).type = "withdraw_rewards"
  BY DEF Single, Asked, Event, Msg, Tx, Block
<1>7. <<4, t, m, e, 7>> \in IndexBlockData
  BY <1>5, <1>6, EventIsCalledIn
<1> QED BY <1>4, <1>7 DEF ClaimDone

LEMMA ClaimsCommitted ==
  ASSUME BlockInv, TablesInv, RewardsInv, CommitBlock, NEW b \in 1 .. B
  PROVE  ClaimsDone(chain, b, {}, Recorded(DOMAIN rows, b), rows)
<1>1. /\ open /\ ~ aborted /\ todo = {} /\ height \in Nat /\ B = height + 1
  BY DEF CommitBlock, BlockInv, HeightInv, B
<1>2. CASE b = B
  <2>1. ClaimsDone(chain, B, {}, failed, rows)
    BY <1>1 DEF RewardsInv
  <2>2. failed \subseteq Recorded(DOMAIN rows, B)
    BY FailedAreRecorded
  <2> QED BY <1>2, <2>1, <2>2, ClaimsDoneStays
<1>3. CASE b # B
  <2>1. b \in 1 .. height /\ b \notin {0, B}
    BY <1>1, <1>3
  <2>2. ClaimsDone(chain, b, {}, Recorded(DOMAIN db, b), db)
    BY <2>1 DEF RewardsInv
  <2>3. DOMAIN db \subseteq DOMAIN rows
    BY <1>1 DEF BlockInv, RecordInv
  <2>4. Recorded(DOMAIN db, b) \subseteq Recorded(DOMAIN rows, b)
    BY <2>3 DEF Recorded
  <2>5. \A t, m : ClaimId(b, t, m)[2] = b
    BY DEF ClaimId
  <2>6. \A i \in DOMAIN rows : i[2] \notin {0, B} => i \in DOMAIN db /\ rows[i] = db[i]
    BY <1>1 DEF TablesInv
  <2>7. \A t, m : ClaimId(b, t, m) \in DOMAIN rows =>
          ClaimId(b, t, m) \in DOMAIN db /\ rows[ClaimId(b, t, m)] = db[ClaimId(b, t, m)]
    BY <2>1, <2>5, <2>6
  <2> QED BY <2>2, <2>4, <2>7, ClaimsDoneStays
<1> QED BY <1>2, <1>3

LEMMA ClaimsKept ==
  ASSUME BlockInv, TablesInv, Inside, ~ aborted', ClaimsDone(chain, B, todo, failed, rows)
  PROVE  ClaimsDone(chain, B, todo', failed', rows')
<1>1. open /\ failed \subseteq failed' /\ todo \subseteq IndexBlockData /\ TableInv(chain, rows)
  BY DEF Inside, BlockInv, ProgressInv, TablesInv
<1>2. CASE Kept
  BY <1>1, <1>2, ClaimsDoneStays DEF Kept
<1>3. CASE \E t : Noted(t)
  <2>1. PICK t : Noted(t)
    BY <1>3
  <2>2. todo' = todo /\ rows' = Upserted(RecordSave(t))
    BY <2>1 DEF Noted
  <2>3. \A u, m : ClaimId(B, u, m) \notin Ids(RecordSave(t))
    BY RecordIsSound DEF ClaimId, UnprocessedId
  <2>4. \A u, m : ClaimId(B, u, m) \in DOMAIN rows' =>
          ClaimId(B, u, m) \in DOMAIN rows /\ rows'[ClaimId(B, u, m)] = rows[ClaimId(B, u, m)]
    BY <2>2, <2>3, UpsertedAt
  <2> QED BY <1>1, <2>2, <2>4, ClaimsDoneStays
<1>4. CASE \E c \in todo : Made(c)
  <2>1. PICK c \in todo : Made(c)
    BY <1>4
  <2>2. c \in IndexBlockData /\ todo' = todo \ {c} /\ rows' = Upserted(Saves(c))
    BY <1>1, <2>1 DEF Made
  <2> SUFFICES ASSUME NEW t \in DOMAIN chain[B], NEW m \in DOMAIN chain[B][t].msgs,
                      NEW e \in DOMAIN chain[B][t].msgs[m].events, Single(chain, B, t, m, e)
               PROVE  ClaimDone(chain, B, todo', failed', rows', t, m, e)
    BY DEF ClaimsDone
  <2>3. ClaimDone(chain, B, todo, failed, rows, t, m, e)
    BY DEF ClaimsDone
  <2>4. CASE c = <<4, t, m, e, 3>>
    BY <1>1, <2>1, <2>3, <2>4, ClaimIsSaved
  <2>5. CASE c = <<4, t, m, e, 7>>
    BY <1>1, <2>1, <2>3, <2>5, RewardIsPaid
  <2>6. CASE c # <<4, t, m, e, 3>> /\ c # <<4, t, m, e, 7>>
    <3>1. ClaimId(B, t, m) \notin Ids(Saves(c))
      BY <1>1, <2>2, <2>6, OthersLeaveClaim
    <3>2. ClaimId(B, t, m) \in DOMAIN rows' =>
            ClaimId(B, t, m) \in DOMAIN rows /\ rows'[ClaimId(B, t, m)] = rows[ClaimId(B, t, m)]
      BY <2>2, <3>1, UpsertedAt
    <3>3. ClaimDone(chain, B, todo, failed', rows', t, m, e)
      BY <1>1, <2>3, <3>2, ClaimDoneStays
    <3>4. /\ <<4, t, m, e, 3>> \in todo' <=> <<4, t, m, e, 3>> \in todo
          /\ <<4, t, m, e, 7>> \in todo' <=> <<4, t, m, e, 7>> \in todo
      BY <2>2, <2>6
    <3> QED BY <3>3, <3>4 DEF ClaimDone
  <2> QED BY <2>4, <2>5, <2>6
<1>5. ~ Lost
  BY DEF Lost
<1> QED BY <1>2, <1>3, <1>4, <1>5 DEF Inside

LEMMA RewardsInvNext ==
  ASSUME BlockInv, TablesInv, RewardsInv, [Next]_vars
  PROVE  RewardsInv'
<1>1. CASE BeginBlock
  <2>1. /\ open' /\ ~ aborted' /\ todo' = IndexBlockData /\ failed' = {} /\ rows' = db
        /\ UNCHANGED <<chain, height, db>> /\ B' = B
    BY <1>1 DEF BeginBlock, B
  <2>2. ClaimsDone(chain, B, IndexBlockData, {}, db)
    BY <1>1, ClaimsBegin
  <2> QED BY <2>1, <2>2 DEF RewardsInv
<1>2. CASE CommitBlock
  <2>1. ~ open' /\ db' = rows /\ height' = B /\ chain' = chain
    BY <1>2 DEF CommitBlock
  <2>2. \A b \in 1 .. B : ClaimsDone(chain, b, {}, Recorded(DOMAIN rows, b), rows)
    BY <1>2, ClaimsCommitted
  <2> QED BY <2>1, <2>2 DEF RewardsInv
<1>3. CASE ~ open' /\ UNCHANGED <<chain, height, db>>
  BY <1>3 DEF RewardsInv
<1>4. CASE Inside
  <2>1. /\ open /\ UNCHANGED <<chain, height, db>> /\ B' = B /\ (aborted => aborted')
    BY <1>4 DEF Inside, B
  <2>2. ASSUME ~ aborted' PROVE ClaimsDone(chain, B, todo', failed', rows')
    <3>1. ClaimsDone(chain, B, todo, failed, rows)
      BY <2>1, <2>2 DEF RewardsInv
    <3> QED BY <1>4, <2>2, <3>1, ClaimsKept
  <2> QED BY <2>1, <2>2 DEF RewardsInv
<1> QED BY <1>1, <1>2, <1>3, <1>4, StepCases

-----------------------------------------------------------------------------
(* The invariants together. *)

LengthInv == height <= Len(chain)
HandlersInv == BlockInv /\ LengthInv /\ TablesInv /\ ChangesInv /\ RewardsInv

LEMMA LengthInvNext ==
  ASSUME BlockInv, LengthInv, [Next]_vars
  PROVE  LengthInv'
<1>1. CASE CommitBlock
  <2>1. height' = B /\ chain' = chain /\ B \in DOMAIN chain /\ chain \in Chains
    BY <1>1 DEF CommitBlock, BlockInv, HeightInv
  <2> QED BY <2>1, ChainsOK, ListedDomain DEF LengthInv
<1>2. CASE UNCHANGED <<chain, height>>
  BY <1>2 DEF LengthInv
<1> QED BY <1>1, <1>2, StepCases DEF BeginBlock, Inside

LEMMA HandlersInvHolds == Spec => []HandlersInv
<1>1. Init => HandlersInv
  <2> SUFFICES ASSUME Init PROVE HandlersInv
    OBVIOUS
  <2>1. BlockInv
    BY BlockInvInit
  <2>2. ~ open /\ db = <<>> /\ height = 0
    BY DEF Init, Empty
  <2>3. DOMAIN db = {}
    BY <2>2
  <2>4. TableInv(chain, db)
    BY <2>3, FS_EmptySet DEF TableInv, Paired
  <2>5. TablesInv
    BY <2>2, <2>4 DEF TablesInv
  <2>6. ChangesInv /\ RewardsInv
    BY <2>2 DEF ChangesInv, RewardsInv
  <2>7. LengthInv
    <3>1. Len(chain) \in Nat
      BY ChainsOK, ListedDomain DEF Init
    <3> QED BY <2>2, <3>1 DEF LengthInv
  <2> QED BY <2>1, <2>5, <2>6, <2>7 DEF HandlersInv
<1>2. HandlersInv /\ [Next]_vars => HandlersInv'
  BY BlockInvNext, LengthInvNext, TablesInvNext, ChangesInvNext, RewardsInvNext DEF HandlersInv
<1> QED BY <1>1, <1>2, PTL DEF Spec

-----------------------------------------------------------------------------
(* Theorems about what the rows say.                                         *)

LEMMA UnrecordedAt ==
  ASSUME HandlersInv, NEW x \in Unrecorded
  PROVE  /\ x = <<x[1], x[2]>> /\ x[1] \in 1 .. height
         /\ x[1] \in DOMAIN chain /\ x[2] \in DOMAIN chain[x[1]]
         /\ TheTx(chain, x[1], x[2]) /\ TxOK(TxAt(x)) /\ TableInv(chain, db)
         /\ x[2] \notin Recorded(DOMAIN db, x[1])
<1>1. /\ x = <<x[1], x[2]>> /\ x[1] \in 1 .. height /\ x[2] \in DOMAIN chain[x[1]]
      /\ UnprocessedId(x[1], x[2]) \notin DOMAIN db
  BY DEF Unrecorded, Committed, TxsOf
<1>2. x[1] \in DOMAIN chain
  BY <1>1, ChainsOK, ListedDomain DEF HandlersInv, BlockInv, HeightInv, LengthInv
<1>3. TxOK(TxAt(x))
  BY <1>1, <1>2, BlocksOK DEF HandlersInv, TxAt
<1>4. x[2] \notin Recorded(DOMAIN db, x[1])
  BY <1>1 DEF Recorded
<1> QED BY <1>1, <1>2, <1>3, <1>4 DEF TheTx, HandlersInv, TablesInv

LEMMA EventsOf ==
  ASSUME HandlersInv, NEW x \in Unrecorded, NEW type
  PROVE  /\ \A y \in Events(x, type) :
              y = <<y[1], y[2]>> /\ Logged(chain, x[1], x[2], y[1], y[2])
                /\ EventAt(x, y).type = type
         /\ \A m, e : Logged(chain, x[1], x[2], m, e)
                        /\ chain[x[1]][x[2]].msgs[m].events[e].type = type =>
              << m, e >> \in Events(x, type)
<1>1. TheTx(chain, x[1], x[2])
  BY UnrecordedAt
<1>2. ASSUME NEW y \in Events(x, type)
      PROVE  y = <<y[1], y[2]>> /\ Logged(chain, x[1], x[2], y[1], y[2])
               /\ EventAt(x, y).type = type
  <2> DEFINE msgs == TxAt(x).msgs
             found(m) == {<<m, e>> : e \in {k \in DOMAIN msgs[m].events :
                                               msgs[m].events[k].type = type}}
  <2>1. TxAt(x).ok /\ \E m \in DOMAIN msgs : y \in found(m)
    BY <1>2 DEF Events
  <2>2. PICK m \in DOMAIN msgs : y \in found(m)
    BY <2>1
  <2>3. PICK e \in DOMAIN msgs[m].events : msgs[m].events[e].type = type /\ y = <<m, e>>
    BY <2>2
  <2>4. y[1] = m /\ y[2] = e
    BY <2>3
  <2> QED BY <1>1, <2>1, <2>3, <2>4 DEF EventAt, TxAt, Logged, TheMsg
<1>3. ASSUME NEW m, NEW e, Logged(chain, x[1], x[2], m, e),
             chain[x[1]][x[2]].msgs[m].events[e].type = type
      PROVE  << m, e >> \in Events(x, type)
  <2> DEFINE msgs == TxAt(x).msgs
             found(n) == {<<n, f>> : f \in {k \in DOMAIN msgs[n].events :
                                               msgs[n].events[k].type = type}}
  <2>1. TxAt(x).ok /\ m \in DOMAIN msgs /\ e \in DOMAIN msgs[m].events
        /\ msgs[m].events[e].type = type
    BY <1>3 DEF TxAt, Logged, TheMsg
  <2>2. << m, e >> \in found(m)
    BY <2>1
  <2>3. Events(x, type) = UNION {found(n) : n \in DOMAIN msgs}
    BY <2>1 DEF Events
  <2> HIDE DEF msgs, found
  <2> QED BY <2>1, <2>2, <2>3
<1> QED BY <1>2, <1>3

LEMMA EventIn ==
  ASSUME HandlersInv, NEW x \in Unrecorded, NEW y, Logged(chain, x[1], x[2], y[1], y[2])
  PROVE  /\ MessageOK(TxAt(x).msgs[y[1]]) /\ EventsOK(TxAt(x).msgs[y[1]])
         /\ MovesOK(EventAt(x, y).moves)
         /\ y[1] \in DOMAIN TxAt(x).msgs /\ y[2] \in DOMAIN TxAt(x).msgs[y[1]].events
         /\ EventAt(x, y) = chain[x[1]][x[2]].msgs[y[1]].events[y[2]]
<1>1. y[1] \in DOMAIN TxAt(x).msgs /\ y[2] \in DOMAIN TxAt(x).msgs[y[1]].events
  BY DEF Logged, TheMsg, TxAt
<1>2. MessageOK(TxAt(x).msgs[y[1]]) /\ EventsOK(TxAt(x).msgs[y[1]])
  BY <1>1, UnrecordedAt DEF TxOK, MessageOK
<1> QED BY <1>1, <1>2 DEF EventsOK, EventAt, TxAt

LEMMA RewardsReach ==
  ASSUME HandlersInv
  PROVE  RewardsReachClaims
<1> SUFFICES ASSUME NEW x \in Unrecorded, OneValidatorEach(x), NEW y \in Withdrawals(x),
                    ClaimId(x[1], x[2], y[1]) \in DOMAIN db
             PROVE  db[ClaimId(x[1], x[2], y[1])].amount = Reward(EventAt(x, y))
  BY DEF RewardsReachClaims, ClaimId
<1> DEFINE b == x[1]
           t == x[2]
           m == y[1]
           e == y[2]
           msg == TxAt(x).msgs[m]
           claim == ClaimId(b, t, m)
<1>1. /\ y = <<m, e>> /\ Logged(chain, b, t, m, e) /\ EventAt(x, y).type = "withdraw_rewards"
  BY EventsOf DEF Withdrawals
<1>2. EventsOK(msg) /\ e \in DOMAIN msg.events /\ EventAt(x, y) = msg.events[e]
  BY <1>1, EventIn DEF EventAt
<1>3. Asked(msg, EventAt(x, y))
  <2>1. Fits(chain, claim, db[claim])
    BY UnrecordedAt DEF TableInv
  <2>2. ClaimFits(chain, claim, db[claim])
    BY <2>1 DEF Fits, ClaimId
  <2>3. msg.type = "MsgWithdrawDelegatorReward"
    BY <2>2 DEF ClaimFits, ClaimId, Asked, TxAt
  <2> QED BY <1>1, <2>3 DEF Asked
<1>4. Validator(x, y) = msg.to
  BY <1>2, <1>3 DEF EventsOK, Validator
<1>5. ASSUME NEW n \in DOMAIN chain[b][t].msgs, NEW f \in DOMAIN chain[b][t].msgs[n].events,
             chain[b][t].msgs[n].events[f].type = "withdraw_rewards",
             Last(chain[b][t].msgs[n].events[f].moves).who = msg.to
      PROVE  n = m /\ f = e
  <2>1. Logged(chain, b, t, n, f)
    BY <1>1, <1>5 DEF Logged, TheMsg
  <2>2. << n, f >> \in Withdrawals(x)
    BY <1>5, <2>1, EventsOf DEF Withdrawals
  <2>3. Validator(x, << n, f >>) = msg.to
    BY <1>5 DEF Validator, EventAt, TxAt
  <2>4. << n, f >> = y
    BY <1>4, <2>2, <2>3 DEF OneValidatorEach
  <2> QED BY <1>1, <2>4
<1>6. Single(chain, b, t, m, e)
  BY <1>1, <1>2, <1>3, <1>5 DEF Single, TxAt
<1>7. ClaimsDone(chain, b, {}, Recorded(DOMAIN db, b), db)
  BY UnrecordedAt DEF HandlersInv, RewardsInv
<1>8. ClaimDone(chain, b, {}, Recorded(DOMAIN db, b), db, t, m, e)
  BY <1>1, <1>6, <1>7 DEF ClaimsDone, Logged, TheMsg, TheTx
<1>9. t \notin Recorded(DOMAIN db, b)
  BY UnrecordedAt
<1>10. chain[b][t].msgs[m].events[e] = EventAt(x, y)
  BY DEF EventAt, TxAt
<1> QED BY <1>8, <1>9, <1>10 DEF ClaimDone

-----------------------------------------------------------------------------
(* Totals of rows. *)

LEMMA Amounts ==
  ASSUME HandlersInv, NEW S, S \subseteq DOMAIN db
  PROVE  /\ IsFiniteSet(S) /\ Total(S) \in Int
         /\ \A i \in S : /\ [j \in DOMAIN db |-> db[j].amount][i] = db[i].amount
                        /\ db[i].amount \in Int
<1> DEFINE f == [j \in DOMAIN db |-> db[j].amount]
<1>1. TableInv(chain, db)
  BY DEF HandlersInv, TablesInv
<1>2. IsFiniteSet(S)
  BY <1>1, FS_Subset DEF TableInv
<1>3. \A i \in S : f[i] = db[i].amount /\ db[i].amount \in Int
  BY <1>1 DEF TableInv, Fits
<1> HIDE DEF f
<1>4. SumFunctionOnSet(f, S) \in Int
  BY <1>2, <1>3, SumIsInt
<1> QED BY <1>2, <1>3, <1>4 DEF Total, f

LEMMA TotalOfUnion ==
  ASSUME HandlersInv, NEW S, NEW T, S \subseteq DOMAIN db, T \subseteq DOMAIN db, S \cap T = {}
  PROVE  Total(S \cup T) = Total(S) + Total(T)
<1> DEFINE f == [j \in DOMAIN db |-> db[j].amount]
<1>1. IsFiniteSet(S) /\ IsFiniteSet(T) /\ \A i \in S \cup T : f[i] \in Int
  BY Amounts
<1> HIDE DEF f
<1>2. SumFunctionOnSet(f, S \cup T) = SumFunctionOnSet(f, S) + SumFunctionOnSet(f, T)
  BY <1>1, SumOfUnion
<1> QED BY <1>2 DEF Total, f

LEMMA TokensConserved ==
  ASSUME HandlersInv
  PROVE  Cw20Conserved
<1> SUFFICES ASSUME NEW c \in Contracts
             PROVE  Tokens(c, {"cw20_credit", "cw20_debit", "cw20_mint", "cw20_burn"})
                      = Tokens(c, {"cw20_mint", "cw20_burn"})
  BY DEF Cw20Conserved
<1> DEFINE all == TokenRows(c, {"cw20_credit", "cw20_debit", "cw20_mint", "cw20_burn"})
           made == TokenRows(c, {"cw20_mint", "cw20_burn"})
           credits == TokenRows(c, {"cw20_credit"})
           debits == TokenRows(c, {"cw20_debit"})
           f == [j \in DOMAIN db |-> db[j].amount]
           h == [i \in credits |-> Debit(i)]
<1>1. \A tables : TokenRows(c, tables) \subseteq DOMAIN db
  BY DEF TokenRows
<1>2. all = made \cup (credits \cup debits)
  BY DEF TokenRows
<1>3. credits \cap debits = {} /\ made \cap (credits \cup debits) = {}
  BY DEF TokenRows
<1>4. TableInv(chain, db)
  BY DEF HandlersInv, TablesInv
<1>5. ASSUME NEW i \in DOMAIN db, i[1] \in {"cw20_credit", "cw20_debit"}
      PROVE  /\ i = <<i[1], i[2], i[3], i[4], 0>>
             /\ db[i].amount = SignOf[i[1]] * chain[i[2]][i[3]].msgs[i[4]].amount
  <2>1. Fits(chain, i, db[i])
    BY <1>4 DEF TableInv
  <2> QED BY <1>5, <2>1 DEF Fits, TransferFits
<1>6. ASSUME NEW i \in credits
      PROVE  /\ Debit(i) \in debits /\ i = Credit(Debit(i))
             /\ db[i].amount \in Int /\ db[Debit(i)].amount = (-1) * db[i].amount
  <2> DEFINE msg == chain[i[2]][i[3]].msgs[i[4]]
  <2>1. i \in DOMAIN db /\ i[1] = "cw20_credit" /\ msg.contract = c
    BY DEF TokenRows
  <2>2. Debit(i) \in DOMAIN db
    BY <1>4, <2>1 DEF TableInv, Paired
  <2>3. /\ Debit(i)[1] = "cw20_debit" /\ Debit(i)[2] = i[2] /\ Debit(i)[3] = i[3]
        /\ Debit(i)[4] = i[4] /\ Debit(i)[5] = i[5]
    BY DEF Debit
  <2>4. Debit(i) \in debits
    BY <2>1, <2>2, <2>3 DEF TokenRows
  <2>5. i = Credit(Debit(i))
    <3>1. i = <<i[1], i[2], i[3], i[4], 0>>
      BY <1>5, <2>1
    <3> QED BY <2>1, <2>3, <3>1 DEF Credit
  <2>6. db[i].amount = SignOf["cw20_credit"] * msg.amount
    BY <1>5, <2>1
  <2>7. db[Debit(i)].amount = SignOf["cw20_debit"] * msg.amount
    BY <1>5, <2>2, <2>3
  <2>8. msg.amount \in Int
    <3>1. Fits(chain, i, db[i])
      BY <1>4, <2>1 DEF TableInv
    <3>2. TheMsg(chain, i[2], i[3], i[4])
      BY <2>1, <3>1 DEF Fits, TransferFits
    <3>3. TxOK(chain[i[2]][i[3]])
      BY <3>2, BlocksOK DEF HandlersInv, TheMsg, TheTx
    <3> QED BY <3>2, <3>3 DEF TheMsg, TxOK, MessageOK
  <2> HIDE DEF msg
  <2>9. SignOf["cw20_credit"] = 1 /\ SignOf["cw20_debit"] = -1
    BY DEF SignOf
  <2>10. db[i].amount = msg.amount /\ db[Debit(i)].amount = (-1) * msg.amount
    BY <2>6, <2>7, <2>8, <2>9
  <2> QED BY <2>4, <2>5, <2>8, <2>10
<1>7. ASSUME NEW j \in debits
      PROVE  Credit(j) \in credits /\ Debit(Credit(j)) = j
  <2>1. j \in DOMAIN db /\ j[1] = "cw20_debit" /\ chain[j[2]][j[3]].msgs[j[4]].contract = c
    BY DEF TokenRows
  <2>2. Credit(j) \in DOMAIN db
    BY <1>4, <2>1 DEF TableInv, Paired
  <2>3. /\ Credit(j)[1] = "cw20_credit" /\ Credit(j)[2] = j[2] /\ Credit(j)[3] = j[3]
        /\ Credit(j)[4] = j[4] /\ Credit(j)[5] = j[5]
    BY DEF Credit
  <2>4. Credit(j) \in credits
    BY <2>1, <2>2, <2>3 DEF TokenRows
  <2>5. j = <<j[1], j[2], j[3], j[4], 0>>
    BY <1>5, <2>1
  <2> QED BY <2>1, <2>3, <2>4, <2>5 DEF Debit
<1> HIDE DEF all, made, credits, debits
<1>8. debits = {h[i] : i \in credits}
  <2>1. \A i \in credits : h[i] = Debit(i)
    OBVIOUS
  <2> HIDE DEF h
  <2>2. \A j \in debits : \E i \in credits : j = h[i]
    BY <1>7, <2>1
  <2>3. \A i \in credits : h[i] \in debits
    BY <1>6, <2>1
  <2> QED BY <2>2, <2>3
<1>9. credits \subseteq DOMAIN db /\ debits \subseteq DOMAIN db /\ made \subseteq DOMAIN db
  BY <1>1 DEF credits, debits, made
<1>10. Total(debits) = (-1) * Total(credits)
  <2>1. IsFiniteSet(credits)
    BY <1>9, Amounts
  <2>2. \A i \in credits : f[i] = db[i].amount /\ f[Debit(i)] = db[Debit(i)].amount
    BY <1>6, <1>9
  <2>3. \A i \in credits : h[i] = Debit(i)
    OBVIOUS
  <2>4. \A i \in credits : f[i] \in Int /\ f[h[i]] = (-1) * f[i]
    <3> HIDE DEF f, h
    <3> QED BY <1>6, <2>2, <2>3
  <2>5. \A i, j \in credits : h[i] = h[j] => i = j
    <3> HIDE DEF h
    <3> QED BY <1>6, <2>3
  <2> HIDE DEF f, h
  <2>6. SumFunctionOnSet(f, {h[i] : i \in credits}) = (-1) * SumFunctionOnSet(f, credits)
    BY <2>1, <2>4, <2>5, SumOfImage
  <2>7. SumFunctionOnSet(f, debits) = (-1) * SumFunctionOnSet(f, credits)
    BY <1>8, <2>6
  <2> QED BY <2>7 DEF Total, f
<1>11. Total(all) = Total(made) + Total(credits \cup debits)
       /\ Total(credits \cup debits) = Total(credits) + Total(debits)
  BY <1>2, <1>3, <1>9, TotalOfUnion
<1>12. Total(credits) \in Int /\ Total(made) \in Int
  BY <1>9, Amounts
<1>13. Total(all) = Total(made)
  BY <1>10, <1>11, <1>12
<1> QED BY <1>13 DEF Tokens, all, made

-----------------------------------------------------------------------------
(* The interface that a payload resembles. *)

First(payload) == Better(Uncertainty, Structs[1], payload)
Second(payload) == Better(First(payload), Structs[2], payload)

\* The fold over the interfaces, as the function that the library makes of it
Highest(s) == CHOOSE x \in s : \A y \in s : x >= y
Score(g, s, payload) ==
  IF s = {} THEN Uncertainty
  ELSE Better(g[s \ {Highest(s)}], Structs[Highest(s)], payload)
AreScores(g, payload) == g = [s \in SUBSET DOMAIN Structs |-> Score(g, s, payload)]
Scores(payload) == CHOOSE g : AreScores(g, payload)

LEMMA ResultIs ==
  ASSUME NEW payload
  PROVE  GetJaccardResult(payload) = Scores(payload)[DOMAIN Structs].interface
  BY DEF GetJaccardResult, FoldLeft, MapThenFoldSet, Max, Scores, AreScores, Score, Highest

LEMMA StructsAre ==
  /\ DOMAIN Structs = {1, 2} /\ ToSet(Structs) = {Structs[1], Structs[2]}
  /\ Structs[1].interface = "CW20" /\ Structs[2].interface = "LegacyBridgeSwap"
  /\ Structs[1].types = CW20Structure /\ Structs[2].types = LegacyBridgeSwapStructure
<1>1. DOMAIN Structs = {1, 2}
  BY DEF Structs
<1>2. ToSet(Structs) = {Structs[1], Structs[2]}
  BY <1>1 DEF ToSet
<1> QED BY <1>1, <1>2 DEF Structs

LEMMA ResultOfTwo ==
  ASSUME NEW payload
  PROVE  GetJaccardResult(payload) = Second(payload).interface
<1> DEFINE alone == Better(Uncertainty, Structs[2], payload)
           witness == [s \in SUBSET {1, 2} |->
                         IF s = {} THEN Uncertainty ELSE IF s = {1} THEN First(payload)
                         ELSE IF s = {2} THEN alone ELSE Second(payload)]
<1>1. /\ Highest({1}) = 1 /\ Highest({2}) = 2 /\ Highest({1, 2}) = 2
      /\ {1} \ {1} = {} /\ {2} \ {2} = {} /\ {1, 2} \ {2} = {1}
  BY DEF Highest
<1>2. SUBSET {1, 2} = {{}, {1}, {2}, {1, 2}}
  OBVIOUS
<1>3. /\ witness[{}] = Uncertainty /\ witness[{1}] = First(payload)
      /\ witness[{2}] = alone /\ witness[{1, 2}] = Second(payload)
  BY <1>2
<1>4. \A s \in SUBSET {1, 2} : witness[s] = Score(witness, s, payload)
  <2> HIDE DEF witness
  <2>1. Score(witness, {}, payload) = Uncertainty
    BY DEF Score
  <2>2. Score(witness, {1}, payload) = First(payload)
    BY <1>1, <1>3 DEF Score, First
  <2>3. Score(witness, {2}, payload) = alone
    BY <1>1, <1>3 DEF Score
  <2>4. Score(witness, {1, 2}, payload) = Second(payload)
    BY <1>1, <1>3 DEF Score, Second
  <2> QED BY <1>2, <1>3, <2>1, <2>2, <2>3, <2>4
<1>5. AreScores(witness, payload)
  <2>1. witness = [s \in SUBSET {1, 2} |-> witness[s]]
    OBVIOUS
  <2> HIDE DEF witness
  <2>2. witness = [s \in SUBSET {1, 2} |-> Score(witness, s, payload)]
    BY <1>4, <2>1
  <2> QED BY <2>2, StructsAre DEF AreScores
<1> DEFINE g == Scores(payload)
<1>6. AreScores(g, payload)
  <2>1. \E f : AreScores(f, payload)
    BY <1>5
  <2> QED BY <2>1 DEF Scores
<1> HIDE DEF g, witness
<1>7. \A s \in SUBSET {1, 2} : g[s] = Score(g, s, payload)
  BY <1>6, StructsAre DEF AreScores
<1>8. g[{}] = Uncertainty
  BY <1>7 DEF Score
<1>9. g[{1}] = First(payload)
  BY <1>1, <1>7, <1>8 DEF Score, First
<1>10. g[{1, 2}] = Second(payload)
  BY <1>1, <1>7, <1>9 DEF Score, Second
<1> QED BY <1>10, ResultIs, StructsAre DEF g

LEMMA TypesAreFinite ==
  ASSUME NEW types \in {CW20Structure, LegacyBridgeSwapStructure}
  PROVE  IsFiniteSet(DOMAIN types) /\ DOMAIN types # {}
<1>1. CASE types = CW20Structure
  <2> DEFINE names == <<"name", "symbol", "decimals", "initial_balances", "mint">>
  <2>1. DOMAIN types = {"name", "symbol", "decimals", "initial_balances", "mint"}
    BY <1>1 DEF CW20Structure
  <2>2. names \in Surjection(1 .. 5, DOMAIN types)
    BY <2>1 DEF Surjection
  <2>3. IsFiniteSet(1 .. 5)
    <3>1. 1 \in Int /\ 5 \in Int
      OBVIOUS
    <3> QED BY <3>1, FS_Interval
  <2> QED BY <2>1, <2>2, <2>3, FS_Surjection
<1>2. CASE types = LegacyBridgeSwapStructure
  <2> DEFINE names == <<"cap", "reverse_aggregated_allowance",
                        "reverse_aggregated_allowance_approver_cap", "lower_swap_limit",
                        "upper_swap_limit", "swap_fee", "paused_since_block", "denom",
                        "next_swap_id">>
  <2>1. DOMAIN types = {"cap", "reverse_aggregated_allowance",
                        "reverse_aggregated_allowance_approver_cap", "lower_swap_limit",
                        "upper_swap_limit", "swap_fee", "paused_since_block", "denom",
                        "next_swap_id"}
    BY <1>2 DEF LegacyBridgeSwapStructure
  <2>2. names \in Surjection(1 .. 9, DOMAIN types)
    BY <2>1 DEF Surjection
  <2>3. IsFiniteSet(1 .. 9)
    <3>1. 1 \in Int /\ 9 \in Int
      OBVIOUS
    <3> QED BY <3>1, FS_Interval
  <2> QED BY <2>1, <2>2, <2>3, FS_Surjection
<1> QED BY <1>1, <1>2

\* A score lies between the names in common and twice as many.
LEMMA ScoreBounds ==
  ASSUME NEW payload, IsFiniteSet(DOMAIN payload), NEW k \in {1, 2}
  PROVE  LET struct == Structs[k]
             shared == Shared(payload, struct)
             match == Match(payload, struct.types)
             union == UnionSize(payload, struct.types)
         IN  /\ shared \in Nat /\ match \in Nat /\ union \in Nat \ {0}
             /\ shared <= match /\ match <= 2 * shared /\ union = AllNames(payload, struct)
<1> DEFINE types == Structs[k].types
           common == DOMAIN payload \cap DOMAIN types
           all == DOMAIN types \cup DOMAIN payload
<1>1. IsFiniteSet(DOMAIN types) /\ DOMAIN types # {}
  BY StructsAre, TypesAreFinite
<1>2. IsFiniteSet(common)
  BY FS_Intersection
<1>3. SameType(payload, types) \in SUBSET common
  BY DEF SameType, Named
<1>4. /\ IsFiniteSet(SameType(payload, types))
      /\ Cardinality(SameType(payload, types)) <= Cardinality(common)
  BY <1>2, <1>3, FS_Subset
<1>5. Cardinality(common) \in Nat /\ Cardinality(SameType(payload, types)) \in Nat
  BY <1>2, <1>4, FS_CardinalityType
<1>6. IsFiniteSet(all) /\ all # {}
  BY <1>1, FS_Union
<1>7. Cardinality(all) \in Nat \ {0}
  BY <1>6, FS_CardinalityType, FS_EmptySet
<1>8. all = DOMAIN payload \cup DOMAIN types
  OBVIOUS
<1>9. /\ Shared(payload, Structs[k]) = Cardinality(common)
      /\ Match(payload, types) = Cardinality(common) + Cardinality(SameType(payload, types))
      /\ UnionSize(payload, types) = Cardinality(all)
      /\ AllNames(payload, Structs[k]) = Cardinality(all)
  BY <1>8 DEF Shared, Match, Named, UnionSize, AllNames
<1> HIDE DEF common, all
<1>10. /\ Match(payload, types) \in Nat /\ Shared(payload, Structs[k]) <= Match(payload, types)
       /\ Match(payload, types) <= 2 * Shared(payload, Structs[k])
  BY <1>4, <1>5, <1>9
<1> QED BY <1>5, <1>7, <1>9, <1>10

LEMMA BetterIs ==
  ASSUME NEW best, NEW struct, NEW payload
  PROVE  LET match == Match(payload, struct.types)
             union == UnionSize(payload, struct.types)
             better == Better(best, struct, payload)
         IN  IF match * best.union > best.match * union
             THEN /\ better.interface = struct.interface
                  /\ better.match = match /\ better.union = union
             ELSE better = best
  BY DEF Better

LEMMA ResultFits ==
  ASSUME NEW payload, IsFiniteSet(DOMAIN payload), NEW struct \in ToSet(Structs)
  PROVE  LET result == GetJaccardResult(payload)
         IN  /\ result = struct.interface => 4 * Shared(payload, struct) > AllNames(payload, struct)
             /\ Resembles(payload, struct) => result = struct.interface
<1> DEFINE n1 == Shared(payload, Structs[1])
           n2 == Shared(payload, Structs[2])
           m1 == Match(payload, Structs[1].types)
           m2 == Match(payload, Structs[2].types)
           u1 == UnionSize(payload, Structs[1].types)
           u2 == UnionSize(payload, Structs[2].types)
           first == First(payload)
           result == GetJaccardResult(payload)
<1>1. /\ n1 \in Nat /\ m1 \in Nat /\ u1 \in Nat \ {0} /\ n1 <= m1 /\ m1 <= 2 * n1
      /\ u1 = AllNames(payload, Structs[1])
  BY ScoreBounds
<1>2. /\ n2 \in Nat /\ m2 \in Nat /\ u2 \in Nat \ {0} /\ n2 <= m2 /\ m2 <= 2 * n2
      /\ u2 = AllNames(payload, Structs[2])
  BY ScoreBounds
<1>3. Uncertainty.match = 1 /\ Uncertainty.union = 2 /\ Uncertainty.interface = "Uncertain"
  BY DEF Uncertainty, Uncertain
<1>4. IF m1 * 2 > 1 * u1 THEN first.interface = "CW20" /\ first.match = m1 /\ first.union = u1
                         ELSE first = Uncertainty
  BY <1>3, BetterIs, StructsAre DEF First
<1>5. IF m2 * first.union > first.match * u2 THEN result = "LegacyBridgeSwap"
                                             ELSE result = first.interface
  BY BetterIs, ResultOfTwo, StructsAre DEF Second
<1>6. /\ Resembles(payload, Structs[1]) => 2 * n1 > u1 /\ n1 * u2 > 2 * n2 * u1
      /\ Resembles(payload, Structs[2]) => 2 * n2 > u2 /\ n2 * u1 > 2 * n1 * u2
  <2>1. Structs[1] \in ToSet(Structs) /\ Structs[2] \in ToSet(Structs) /\ Structs[1] # Structs[2]
    BY StructsAre
  <2> QED BY <1>1, <1>2, <2>1 DEF Resembles
<1> HIDE DEF n1, n2, m1, m2, u1, u2, first, result
<1>7. CASE m1 * 2 > u1
  <2>1. first.interface = "CW20" /\ first.match = m1 /\ first.union = u1
    BY <1>1, <1>4, <1>7
  <2>2. 4 * n1 > u1
    BY <1>1, <1>7
  <2>3. CASE m2 * u1 > m1 * u2
    <3>1. result = "LegacyBridgeSwap"
      BY <1>5, <2>1, <2>3
    <3>2. 4 * n2 > u2
      <4>1. m1 * 2 * u2 >= u1 * u2
        BY <1>1, <1>2, <1>7
      <4>2. 2 * m2 * u1 > u2 * u1
        BY <1>1, <1>2, <2>3, <4>1
      <4>3. 2 * m2 > u2
        BY <1>1, <1>2, <4>2
      <4> QED BY <1>2, <4>3
    <3>3. ~ (n1 * u2 > 2 * n2 * u1)
      <4>1. 2 * n2 * u1 >= m2 * u1
        BY <1>1, <1>2
      <4>2. m1 * u2 >= n1 * u2
        BY <1>1, <1>2
      <4> QED BY <1>1, <1>2, <2>3, <4>1, <4>2
    <3> QED BY <1>2, <1>6, <3>1, <3>2, <3>3, StructsAre DEF result, n1, n2
  <2>4. CASE ~ (m2 * u1 > m1 * u2)
    <3>1. result = "CW20"
      BY <1>5, <2>1, <2>4
    <3>2. ~ (n2 * u1 > 2 * n1 * u2)
      <4>1. 2 * n1 * u2 >= m1 * u2
        BY <1>1, <1>2
      <4>2. m2 * u1 >= n2 * u1
        BY <1>1, <1>2
      <4> QED BY <1>1, <1>2, <2>4, <4>1, <4>2
    <3> QED BY <1>1, <1>6, <2>2, <3>1, <3>2, StructsAre DEF result, n1, n2
  <2> QED BY <2>3, <2>4
<1>8. CASE ~ (m1 * 2 > u1)
  <2>1. first = Uncertainty
    BY <1>1, <1>4, <1>8
  <2>2. ~ (2 * n1 > u1)
    BY <1>1, <1>8
  <2>3. CASE m2 * 2 > u2
    <3>1. result = "LegacyBridgeSwap"
      BY <1>2, <1>3, <1>5, <2>1, <2>3
    <3>2. 4 * n2 > u2
      BY <1>2, <2>3
    <3> QED BY <1>2, <1>6, <2>2, <3>1, <3>2, StructsAre DEF result, n1, n2
  <2>4. CASE ~ (m2 * 2 > u2)
    <3>1. result = "Uncertain"
      BY <1>2, <1>3, <1>5, <2>1, <2>4
    <3>2. ~ (2 * n2 > u2)
      BY <1>2, <2>4
    <3> QED BY <1>6, <2>2, <3>1, <3>2, StructsAre DEF result
  <2> QED BY <2>3, <2>4
<1> QED BY <1>7, <1>8

LEMMA FoundInterfacesFit ==
  ASSUME HandlersInv
  PROVE  InterfacesFit
<1> SUFFICES ASSUME NEW c \in DOMAIN db, c[1] = "contracts", NEW struct \in ToSet(Structs)
             PROVE  LET payload == PayloadOf(db[c].instantiatedBy)
                    IN  /\ db[c].interface = struct.interface =>
                             4 * Shared(payload, struct) > AllNames(payload, struct)
                        /\ Resembles(payload, struct) => db[c].interface = struct.interface
  BY DEF InterfacesFit
<1> DEFINE j == db[c].instantiatedBy
           payload == PayloadOf(j)
<1>1. Fits(chain, c, db[c])
  BY DEF HandlersInv, TablesInv, TableInv
<1>2. TheMsg(chain, j[2], j[3], j[4]) /\ db[c].interface = GetJaccardResult(payload)
  BY <1>1 DEF Fits, ContractFits, PayloadOf
<1>3. TxOK(chain[j[2]][j[3]])
  BY <1>2, BlocksOK DEF HandlersInv, TheMsg, TheTx
<1>4. IsFiniteSet(DOMAIN payload)
  BY <1>2, <1>3 DEF TheMsg, TxOK, MessageOK, PayloadOf
<1> HIDE DEF payload
<1>5. /\ GetJaccardResult(payload) = struct.interface =>
           4 * Shared(payload, struct) > AllNames(payload, struct)
      /\ Resembles(payload, struct) => GetJaccardResult(payload) = struct.interface
  BY <1>4, ResultFits
<1> QED BY <1>2, <1>5 DEF payload

-----------------------------------------------------------------------------
(* The changes of a balance add up. *)

LEMMA WholeOf ==
  ASSUME HandlersInv, NEW x \in Unrecorded, NEW type
  PROVE  /\ \A y \in Whole(x, type) :
              /\ y = <<y[1], y[2]>> /\ Logged(chain, x[1], x[2], y[1], y[2])
              /\ EventAt(x, y).type = type /\ Parsed(EventAt(x, y)) = "one"
         /\ \A m, e : /\ Logged(chain, x[1], x[2], m, e)
                      /\ chain[x[1]][x[2]].msgs[m].events[e].type = type
                      /\ Parsed(chain[x[1]][x[2]].msgs[m].events[e]) = "one"
                      => << m, e >> \in Whole(x, type)
<1>1. ASSUME NEW m, NEW e, Logged(chain, x[1], x[2], m, e),
             chain[x[1]][x[2]].msgs[m].events[e].type = type,
             Parsed(chain[x[1]][x[2]].msgs[m].events[e]) = "one"
      PROVE  << m, e >> \in Whole(x, type)
  <2>1. << m, e >> \in Events(x, type)
    BY <1>1, EventsOf
  <2>2. EventAt(x, << m, e >>) = chain[x[1]][x[2]].msgs[m].events[e]
    BY DEF EventAt, TxAt
  <2> QED BY <1>1, <2>1, <2>2 DEF Whole
<1>2. \A y \in Whole(x, type) : y \in Events(x, type) /\ Parsed(EventAt(x, y)) = "one"
  BY DEF Whole
<1>3. \A y \in Events(x, type) :
        /\ y = <<y[1], y[2]>> /\ Logged(chain, x[1], x[2], y[1], y[2])
        /\ EventAt(x, y).type = type
  BY EventsOf
<1> QED BY <1>1, <1>2, <1>3

LEMMA PlaceIs ==
  ASSUME HandlersInv, NEW x \in Unrecorded, NEW type, NEW a, NEW p \in PlacesOf(x, type, a)
  PROVE  /\ p = <<p[1], p[2], p[3]>> /\ Logged(chain, x[1], x[2], p[1], p[2])
         /\ EventAt(x, p).type = type /\ Parsed(EventAt(x, p)) = "one"
         /\ p[3] \in DOMAIN EventAt(x, p).moves
         /\ MoveAt(x, p).who = a /\ MoveAt(x, p).amount \in Int
<1> DEFINE at(y) == {<<y[1], y[2], k>> : k \in DOMAIN EventAt(x, y).moves}
<1>1. p \in Places(x, type) /\ MoveAt(x, p).who = a
  BY DEF PlacesOf
<1>2. PICK y \in Whole(x, type) : p \in at(y)
  <2>1. Places(x, type) = UNION {at(y) : y \in Whole(x, type)}
    BY DEF Places
  <2> HIDE DEF at
  <2> QED BY <1>1, <2>1
<1>3. PICK k \in DOMAIN EventAt(x, y).moves : p = <<y[1], y[2], k>>
  BY <1>2
<1>4. p[1] = y[1] /\ p[2] = y[2] /\ p[3] = k
  BY <1>3
<1>5. /\ Logged(chain, x[1], x[2], p[1], p[2])
      /\ EventAt(x, y).type = type /\ Parsed(EventAt(x, y)) = "one"
  <2>1. /\ Logged(chain, x[1], x[2], y[1], y[2])
        /\ EventAt(x, y).type = type /\ Parsed(EventAt(x, y)) = "one"
    BY WholeOf
  <2> QED BY <1>4, <2>1
<1>6. EventAt(x, p) = EventAt(x, y)
  BY <1>4 DEF EventAt
<1>7. MovesOK(EventAt(x, p).moves)
  BY <1>5, EventIn
<1>8. MoveAt(x, p) = EventAt(x, p).moves[p[3]] /\ p[3] \in DOMAIN EventAt(x, p).moves
  BY <1>3, <1>4, <1>6 DEF MoveAt
<1>9. MoveAt(x, p).amount \in Int
  BY <1>7, <1>8 DEF MovesOK
<1> QED BY <1>1, <1>3, <1>4, <1>5, <1>6, <1>8, <1>9

LEMMA PlaceOf ==
  ASSUME HandlersInv, NEW x \in Unrecorded, NEW type, NEW a, NEW p, p = <<p[1], p[2], p[3]>>,
         Logged(chain, x[1], x[2], p[1], p[2]), EventAt(x, p).type = type,
         Parsed(EventAt(x, p)) = "one", p[3] \in DOMAIN EventAt(x, p).moves, MoveAt(x, p).who = a
  PROVE  p \in PlacesOf(x, type, a)
<1> DEFINE y == <<p[1], p[2]>>
           at == {<<y[1], y[2], k>> : k \in DOMAIN EventAt(x, y).moves}
<1>1. y[1] = p[1] /\ y[2] = p[2]
  OBVIOUS
<1>2. EventAt(x, y) = EventAt(x, p)
  BY <1>1 DEF EventAt
<1>3. chain[x[1]][x[2]].msgs[p[1]].events[p[2]] = EventAt(x, p)
  BY DEF EventAt, TxAt
<1>4. y \in Whole(x, type)
  BY <1>3, WholeOf
<1>5. p \in at
  BY <1>1, <1>2
<1>6. p \in Places(x, type)
  BY <1>4, <1>5 DEF Places
<1> QED BY <1>6 DEF PlacesOf

\* What an event of an unrecorded transaction moved has its rows.
LEMMA MovesHaveRows ==
  ASSUME HandlersInv, NEW x \in Unrecorded, NEW table \in {"spend", "receive"}, NEW m, NEW e,
         Logged(chain, x[1], x[2], m, e),
         chain[x[1]][x[2]].msgs[m].events[e].type = TypeOf[table],
         Parsed(chain[x[1]][x[2]].msgs[m].events[e]) = "one"
  PROVE  /\ <<"fees", x[1], x[2], 0, 0>> \in DOMAIN db
         /\ \A k \in DOMAIN chain[x[1]][x[2]].msgs[m].events[e].moves :
              <<table, x[1], x[2], e, k>> \in DOMAIN db
<1>1. ChangesDone(chain, x[1], {}, Recorded(DOMAIN db, x[1]), DOMAIN db)
  BY UnrecordedAt DEF HandlersInv, ChangesInv
<1>2. x[2] \notin Recorded(DOMAIN db, x[1])
  BY UnrecordedAt
<1>3. ChangesSaved(chain, DOMAIN db, x[1], x[2], m, e, table)
  BY <1>1, <1>2 DEF ChangesDone, Logged, TheMsg, TheTx
<1> QED BY <1>3 DEF ChangesSaved

LEMMA OnlyMessage ==
  ASSUME HandlersInv, NEW x \in Unrecorded, OneMessage(x), NEW m, NEW e,
         Logged(chain, x[1], x[2], m, e)
  PROVE  m = 1
<1>1. Listed(TxAt(x).msgs) /\ m \in DOMAIN TxAt(x).msgs
  BY UnrecordedAt DEF TxOK, Logged, TheMsg, TxAt
<1> QED BY <1>1, ListedDomain DEF OneMessage

\* The row of a move and the move of a row
LEMMA RowOfMove ==
  ASSUME HandlersInv, NEW x \in Unrecorded, OneMessage(x), NEW table \in {"spend", "receive"},
         NEW p, p = <<1, p[2], p[3]>>, <<table, x[1], x[2], p[2], p[3]>> \in DOMAIN db
  PROVE  LET v == db[<<table, x[1], x[2], p[2], p[3]>>]
         IN  /\ Logged(chain, x[1], x[2], 1, p[2]) /\ EventAt(x, p).type = TypeOf[table]
             /\ Parsed(EventAt(x, p)) = "one" /\ p[3] \in DOMAIN EventAt(x, p).moves
             /\ v.who = MoveAt(x, p).who /\ v.amount = SignOf[table] * MoveAt(x, p).amount
<1> DEFINE i == <<table, x[1], x[2], p[2], p[3]>>
           v == db[i]
           event(m) == chain[x[1]][x[2]].msgs[m].events[p[2]]
<1>1. i[1] = table /\ i[2] = x[1] /\ i[3] = x[2] /\ i[4] = p[2] /\ i[5] = p[3]
  OBVIOUS
<1>2. Fits(chain, i, v)
  BY UnrecordedAt DEF TableInv
<1> HIDE DEF i, v
<1>3. ChangeFits(chain, i, v)
  BY <1>1, <1>2 DEF Fits
<1>4. PICK m : /\ Logged(chain, x[1], x[2], m, p[2])
               /\ event(m).type = TypeOf[table] /\ Parsed(event(m)) = "one"
               /\ p[3] \in DOMAIN event(m).moves
               /\ v.who = event(m).moves[p[3]].who
               /\ v.amount = SignOf[table] * event(m).moves[p[3]].amount
  BY <1>1, <1>3 DEF ChangeFits
<1>5. m = 1
  BY <1>4, OnlyMessage
<1>6. p[1] = 1
  OBVIOUS
<1>7. EventAt(x, p) = event(1) /\ MoveAt(x, p) = event(1).moves[p[3]]
  BY <1>6 DEF EventAt, MoveAt, TxAt
<1> HIDE DEF event
<1> QED BY <1>4, <1>5, <1>7 DEF i, v

LEMMA MoveOfChange ==
  ASSUME HandlersInv, NEW x \in Unrecorded, OneMessage(x), NEW a,
         NEW table \in {"spend", "receive"}, NEW i \in ChangesIn({table}, x, a)
  PROVE  /\ i = <<table, x[1], x[2], i[4], i[5]>>
         /\ <<1, i[4], i[5]>> \in PlacesOf(x, TypeOf[table], a)
<1> DEFINE p == <<1, i[4], i[5]>>
<1>1. i \in DOMAIN db /\ i[1] = table /\ i[2] = x[1] /\ i[3] = x[2] /\ db[i].who = a
  BY DEF ChangesIn
<1>2. Fits(chain, i, db[i])
  BY <1>1, UnrecordedAt DEF TableInv
<1>3. i = <<table, x[1], x[2], i[4], i[5]>>
  BY <1>1, <1>2 DEF Fits
<1>4. p[1] = 1 /\ p[2] = i[4] /\ p[3] = i[5] /\ p = <<1, p[2], p[3]>>
  OBVIOUS
<1> HIDE DEF p
<1>5. i = <<table, x[1], x[2], p[2], p[3]>>
  BY <1>3, <1>4
<1>6. /\ Logged(chain, x[1], x[2], 1, p[2]) /\ EventAt(x, p).type = TypeOf[table]
      /\ Parsed(EventAt(x, p)) = "one" /\ p[3] \in DOMAIN EventAt(x, p).moves
      /\ MoveAt(x, p).who = a
  BY <1>1, <1>4, <1>5, RowOfMove
<1>7. p \in PlacesOf(x, TypeOf[table], a)
  BY <1>4, <1>6, PlaceOf
<1> QED BY <1>3, <1>7 DEF p

LEMMA ChangeOfMove ==
  ASSUME HandlersInv, NEW x \in Unrecorded, OneMessage(x), NEW a,
         NEW table \in {"spend", "receive"}, NEW p \in PlacesOf(x, TypeOf[table], a)
  PROVE  LET i == <<table, x[1], x[2], p[2], p[3]>>
         IN  /\ p = <<1, p[2], p[3]>> /\ i \in ChangesIn({table}, x, a)
             /\ db[i].amount = SignOf[table] * MoveAt(x, p).amount
<1> DEFINE i == <<table, x[1], x[2], p[2], p[3]>>
<1>1. /\ p = <<p[1], p[2], p[3]>> /\ Logged(chain, x[1], x[2], p[1], p[2])
      /\ EventAt(x, p).type = TypeOf[table] /\ Parsed(EventAt(x, p)) = "one"
      /\ p[3] \in DOMAIN EventAt(x, p).moves /\ MoveAt(x, p).who = a
  BY PlaceIs
<1>2. p = <<1, p[2], p[3]>>
  <2>1. p[1] = 1
    BY <1>1, OnlyMessage
  <2> QED BY <1>1, <2>1
<1>3. chain[x[1]][x[2]].msgs[p[1]].events[p[2]] = EventAt(x, p)
  BY DEF EventAt, TxAt
<1>4. i \in DOMAIN db
  BY <1>1, <1>3, MovesHaveRows
<1>5. i[1] = table /\ i[2] = x[1] /\ i[3] = x[2]
  OBVIOUS
<1>6. db[i].who = a /\ db[i].amount = SignOf[table] * MoveAt(x, p).amount
  BY <1>1, <1>2, <1>4, RowOfMove
<1> HIDE DEF i
<1>7. i \in ChangesIn({table}, x, a)
  BY <1>4, <1>5, <1>6 DEF ChangesIn
<1> QED BY <1>2, <1>6, <1>7 DEF i

LEMMA ChangesAreMoves ==
  ASSUME HandlersInv, NEW x \in Unrecorded, OneMessage(x), NEW a,
         NEW table \in {"spend", "receive"}
  PROVE  /\ Total(ChangesIn({table}, x, a)) = SignOf[table] * Moved(x, TypeOf[table], a)
         /\ Moved(x, TypeOf[table], a) \in Int
<1> DEFINE type == TypeOf[table]
           changes == ChangesIn({table}, x, a)
           places == PlacesOf(x, type, a)
           f == [p \in Places(x, type) |-> MoveAt(x, p).amount]
           g == [j \in DOMAIN db |-> db[j].amount]
           h == [p \in places |-> <<table, x[1], x[2], p[2], p[3]>>]
           back == [i \in changes |-> <<1, i[4], i[5]>>]
<1>1. changes \subseteq DOMAIN db
  BY DEF ChangesIn
<1>2. ASSUME NEW i \in changes
      PROVE  i = <<table, x[1], x[2], i[4], i[5]>> /\ <<1, i[4], i[5]>> \in places
  <2>1. i = <<table, x[1], x[2], i[4], i[5]>>
    BY MoveOfChange
  <2>2. <<1, i[4], i[5]>> \in places
    BY MoveOfChange
  <2> QED BY <2>1, <2>2
<1>3. ASSUME NEW p \in places
      PROVE  /\ p = <<1, p[2], p[3]>> /\ h[p] \in changes
             /\ db[h[p]].amount = SignOf[table] * MoveAt(x, p).amount
  <2> DEFINE i == <<table, x[1], x[2], p[2], p[3]>>
  <2>1. h[p] = i
    OBVIOUS
  <2>2. /\ p = <<1, p[2], p[3]>> /\ i \in changes
        /\ db[i].amount = SignOf[table] * MoveAt(x, p).amount
    BY ChangeOfMove
  <2> HIDE DEF h, i
  <2> QED BY <2>1, <2>2
<1>4. \A p \in places : f[p] = MoveAt(x, p).amount /\ f[p] \in Int
  <2>1. \A p \in places : p \in Places(x, type)
    BY DEF PlacesOf
  <2> QED BY <2>1, PlaceIs
<1>5. \A p \in places : g[h[p]] = db[h[p]].amount
  BY <1>1, <1>3
<1>6. \A p \in places : h[p] = <<table, x[1], x[2], p[2], p[3]>>
  OBVIOUS
<1>7. back \in [changes -> places] /\ \A i \in changes : back[i] = <<1, i[4], i[5]>>
  BY <1>2
<1> HIDE DEF type, changes, places, f, g, h, back
<1>8. \A p \in places : back[h[p]] = p
  <2> SUFFICES ASSUME NEW p \in places PROVE back[h[p]] = p
    OBVIOUS
  <2>1. h[p][4] = p[2] /\ h[p][5] = p[3]
    BY <1>6
  <2> QED BY <1>3, <1>7, <2>1
<1>9. IsFiniteSet(places)
  <2>1. IsFiniteSet(changes)
    BY <1>1, Amounts
  <2>2. back \in Surjection(changes, places)
    BY <1>3, <1>7, <1>8 DEF Surjection
  <2> QED BY <2>1, <2>2, FS_Surjection
<1>10. \A p, q \in places : h[p] = h[q] => p = q
  BY <1>8
<1>11. \A p \in places : f[p] \in Int /\ g[h[p]] = SignOf[table] * f[p]
  BY <1>3, <1>4, <1>5
<1>12. SignOf[table] \in {1, -1}
  BY DEF SignOf
<1>13. SumFunctionOnSet(g, {h[p] : p \in places}) = SignOf[table] * SumFunctionOnSet(f, places)
  BY <1>9, <1>10, <1>11, <1>12, SumOfImage
<1>14. changes = {h[p] : p \in places}
  <2>1. ASSUME NEW i \in changes PROVE \E p \in places : i = h[p]
    <3> DEFINE p == <<1, i[4], i[5]>>
    <3>1. p \in places /\ p[2] = i[4] /\ p[3] = i[5]
      BY <1>2
    <3> HIDE DEF p
    <3>2. h[p] = <<table, x[1], x[2], i[4], i[5]>>
      BY <1>6, <3>1
    <3> QED BY <1>2, <3>1, <3>2
  <2> QED BY <1>3, <2>1
<1>15. SumFunctionOnSet(g, changes) = SignOf[table] * SumFunctionOnSet(f, places)
  BY <1>13, <1>14
<1>16. SumFunctionOnSet(f, places) \in Int
  BY <1>4, <1>9, SumIsInt
<1> QED BY <1>15, <1>16 DEF Total, Moved, changes, places, f, g, type

LEMMA FeeIsPaid ==
  ASSUME HandlersInv, NEW x \in Unrecorded, NEW a \in Accounts
  PROVE  Total(ChangesIn({"fees"}, x, a)) = 0 - FeePaid(x, a) /\ FeePaid(x, a) \in Int
<1> DEFINE fee == <<"fees", x[1], x[2], 0, 0>>
           fees == ChangesIn({"fees"}, x, a)
           g == [j \in DOMAIN db |-> db[j].amount]
           whole == Whole(x, "coin_spent") \cup Whole(x, "coin_received")
           tx == TxAt(x)
<1>1. tx.fee \in Int
  BY UnrecordedAt DEF TxOK
<1>2. FeePaid(x, a) \in Int
  BY <1>1 DEF FeePaid
<1>3. ASSUME NEW i \in DOMAIN db, i[1] = "fees", i[2] = x[1], i[3] = x[2]
      PROVE  /\ i = fee /\ db[i].who = tx.signer /\ db[i].amount = 0 - tx.fee /\ whole # {}
  <2>1. Fits(chain, i, db[i])
    BY <1>3, UnrecordedAt DEF TableInv
  <2>2. FeeFits(chain, i, db[i]) /\ i = <<i[1], i[2], i[3], i[4], i[5]>>
    BY <1>3, <2>1 DEF Fits
  <2>3. i[4] = 0 /\ i[5] = 0 /\ db[i].who = tx.signer /\ db[i].amount = 0 - tx.fee
    BY <1>3, <2>2 DEF FeeFits, TxAt
  <2>4. PICK m, e : /\ Logged(chain, x[1], x[2], m, e)
                    /\ chain[x[1]][x[2]].msgs[m].events[e].type \in {"coin_spent", "coin_received"}
                    /\ Parsed(chain[x[1]][x[2]].msgs[m].events[e]) = "one"
    BY <1>3, <2>2 DEF FeeFits
  <2>5. << m, e >> \in whole
    BY <2>4, WholeOf
  <2>6. i = fee
    BY <1>3, <2>2, <2>3
  <2> HIDE DEF whole, fee
  <2> QED BY <2>3, <2>5, <2>6
<1>4. fees \subseteq DOMAIN db /\ \A i \in fees : i[1] = "fees" /\ i[2] = x[1] /\ i[3] = x[2]
                                                  /\ db[i].who = a
  BY DEF ChangesIn
<1>5. CASE fees = {}
  <2>1. ~ (tx.signer = a /\ whole # {})
    <3> SUFFICES ASSUME tx.signer = a, whole # {} PROVE FALSE
      OBVIOUS
    <3>1. PICK table \in {"spend", "receive"} : Whole(x, TypeOf[table]) # {}
      BY DEF TypeOf
    <3> DEFINE y == CHOOSE y \in Whole(x, TypeOf[table]) : TRUE
    <3>2. /\ Logged(chain, x[1], x[2], y[1], y[2])
          /\ EventAt(x, y).type = TypeOf[table] /\ Parsed(EventAt(x, y)) = "one"
      <4>1. y \in Whole(x, TypeOf[table])
        BY <3>1
      <4> HIDE DEF y
      <4> QED BY <4>1, WholeOf
    <3>3. EventAt(x, y) = chain[x[1]][x[2]].msgs[y[1]].events[y[2]]
      BY DEF EventAt, TxAt
    <3>4. fee \in DOMAIN db
      BY <3>2, <3>3, MovesHaveRows
    <3>5. fee[1] = "fees" /\ fee[2] = x[1] /\ fee[3] = x[2]
      OBVIOUS
    <3> HIDE DEF fee, whole, y
    <3>6. db[fee].who = a
      BY <1>3, <3>4, <3>5
    <3>7. fee \in fees
      BY <3>4, <3>5, <3>6 DEF ChangesIn
    <3> QED BY <1>5, <3>7
  <2>2. FeePaid(x, a) = 0
    BY <2>1 DEF FeePaid
  <2>3. Total(fees) = 0
    BY <1>5, SumOfNone DEF Total
  <2> QED BY <2>2, <2>3
<1>6. CASE fees # {}
  <2>1. PICK i \in fees : TRUE
    BY <1>6
  <2> HIDE DEF fee, whole
  <2>2. \A j \in fees : j = fee /\ db[j].who = tx.signer /\ db[j].amount = 0 - tx.fee /\ whole # {}
    BY <1>3, <1>4
  <2>3. fees = {fee} /\ fee \in DOMAIN db
    BY <1>4, <2>1, <2>2
  <2>4. tx.signer = a /\ whole # {} /\ db[fee].amount = 0 - tx.fee
    BY <1>4, <2>1, <2>2, <2>3
  <2>5. FeePaid(x, a) = tx.fee
    BY <2>4 DEF FeePaid, whole
  <2>6. g[fee] = db[fee].amount
    BY <2>3
  <2>7. SumFunctionOnSet(g, {fee}) = g[fee]
    <3>1. IsFiniteSet({fee}) /\ fee \in {fee} /\ {fee} \ {fee} = {}
      BY FS_Singleton
    <3>2. \A j \in {fee} : g[j] \in Int
      BY <1>1, <2>4, <2>6
    <3> HIDE DEF g
    <3>3. SumFunctionOnSet(g, {fee}) = g[fee] + SumFunctionOnSet(g, {fee} \ {fee})
      BY <3>1, <3>2, SumTakes
    <3>4. SumFunctionOnSet(g, {fee} \ {fee}) = 0
      BY <3>1, SumOfNone
    <3> QED BY <3>2, <3>3, <3>4
  <2>8. Total(fees) = db[fee].amount
    <3> HIDE DEF fees
    <3> QED BY <2>3, <2>6, <2>7 DEF Total
  <2> QED BY <1>2, <2>4, <2>5, <2>8
<1> QED BY <1>2, <1>5, <1>6

LEMMA ChangesAddUp ==
  ASSUME HandlersInv
  PROVE  BalancesAddUp
<1> SUFFICES ASSUME NEW a \in Accounts, NEW x \in Unrecorded, OneMessage(x)
             PROVE  Total(ChangesIn({"spend", "receive", "fees"}, x, a))
                      = Moved(x, "coin_received", a) - Moved(x, "coin_spent", a) - FeePaid(x, a)
  BY DEF BalancesAddUp
<1> DEFINE all == ChangesIn({"spend", "receive", "fees"}, x, a)
           spent == ChangesIn({"spend"}, x, a)
           received == ChangesIn({"receive"}, x, a)
           fees == ChangesIn({"fees"}, x, a)
<1>1. /\ all = spent \cup (received \cup fees) /\ spent \cap (received \cup fees) = {}
      /\ received \cap fees = {}
      /\ spent \subseteq DOMAIN db /\ received \subseteq DOMAIN db /\ fees \subseteq DOMAIN db
  BY DEF ChangesIn
<1>2. /\ Total(spent) = SignOf["spend"] * Moved(x, TypeOf["spend"], a)
      /\ Moved(x, TypeOf["spend"], a) \in Int
      /\ Total(received) = SignOf["receive"] * Moved(x, TypeOf["receive"], a)
      /\ Moved(x, TypeOf["receive"], a) \in Int
  BY ChangesAreMoves
<1>3. Total(fees) = 0 - FeePaid(x, a) /\ FeePaid(x, a) \in Int
  BY FeeIsPaid
<1> HIDE DEF all, spent, received, fees
<1>4. Total(all) = Total(spent) + (Total(received) + Total(fees))
  <2>1. received \cup fees \subseteq DOMAIN db
    BY <1>1
  <2>2. Total(spent \cup (received \cup fees)) = Total(spent) + Total(received \cup fees)
    BY <1>1, <2>1, TotalOfUnion
  <2>3. Total(received \cup fees) = Total(received) + Total(fees)
    BY <1>1, TotalOfUnion
  <2> QED BY <1>1, <2>2, <2>3
<1>5. /\ SignOf["spend"] = -1 /\ SignOf["receive"] = 1
      /\ TypeOf["spend"] = "coin_spent" /\ TypeOf["receive"] = "coin_received"
  BY DEF SignOf, TypeOf
<1>6. Total(all) = Moved(x, "coin_received", a) - Moved(x, "coin_spent", a) - FeePaid(x, a)
  BY <1>2, <1>3, <1>4, <1>5
<1> QED BY <1>6 DEF all

-----------------------------------------------------------------------------
(* Theorems.                                                                 *)

\* However the calls of a block throw, fail and are made again after a crash: in
\* a transaction with one message and without a record of failure, the rows that
\* the two balance handlers and their fee leave of an account are what the events
\* moved, less one fee.
THEOREM BalancesFollowTheChain == Spec => []BalancesAddUp
<1> QED BY ChangesAddUp, HandlersInvHolds, PTL

\* A CW20 transfer, whose credit and debit are rows of one call, neither makes nor
\* destroys tokens of a contract, failures and restarts included.
THEOREM TransfersConserveTokens == Spec => []Cw20Conserved
<1> QED BY TokensConserved, HandlersInvHolds, PTL

\* The reward event, whose handler looks its claim up by transaction and validator,
\* finds the claim of its own message, which the call before it saved.
THEOREM RewardsReachTheirClaims == Spec => []RewardsReachClaims
<1> QED BY RewardsReach, HandlersInvHolds, PTL

\* A contract's row has the interface of the payload it was instantiated with: one
\* the payload resembles, and none with which it has a quarter of the names or less
\* in common.
THEOREM ContractsHaveTheirInterface == Spec => []InterfacesFit
<1> QED BY FoundInterfacesFit, HandlersInvHolds, PTL
=============================================================================
