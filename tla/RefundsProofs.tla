---------------------------- MODULE RefundsProofs ----------------------------
(***************************************************************************)
(* An approved return has exactly one refund, and the order bounds what is *)
(* returned and refunded as far as the checks reach without a lock, for    *)
(* any number of returns, refunds, requests and amounts.                   *)
(***************************************************************************)
EXTENDS Refunds, FiniteSetTheorems, WellFoundedInduction, TLAPS

---------------------------------------------------------------------------
(* What the proofs need to know of SumFunctionOnSet of the community modules: *)
(* that it is defined on finite sets, that the order of summation does not    *)
(* matter, and how a sum changes with its set and its function.  A finite set *)
(* has no infinite descent, so what fails for some set fails for a smallest   *)
(* one (WFMin): that is the only induction used.                              *)

First(s) == CHOOSE x \in s : TRUE

\* What the recursive function of a fold over S satisfies.
Folds(g, f, S) == g = [s \in SUBSET S |-> IF s = {} THEN 0 ELSE f[First(s)] + g[s \ {First(s)}]]

\* A set of finite sets that is not empty has a member that no other is part of.
LEMMA Smallest ==
  ASSUME NEW S, IsFiniteSet(S), NEW C, C \subseteq SUBSET S, C # {}
  PROVE  \E T \in C : \A U \in C : U \subseteq T => U = T
<1>1. IsWellFoundedOn(StrictSubsetOrdering(S), SUBSET S)
  BY FS_StrictSubsetOrderingWellFounded, FS_FiniteSubsetsOfFinite
<1>2. PICK T \in C : \A U \in C : ~ (<<U, T>> \in StrictSubsetOrdering(S))
  BY <1>1, WFMin
<1>3. QED
  BY <1>2 DEF StrictSubsetOrdering

LEMMA FirstIn ==
  ASSUME NEW s, s # {}
  PROVE  First(s) \in s
  BY DEF First

\* Two such functions agree wherever both are defined.
LEMMA FoldsAgree ==
  ASSUME NEW f, NEW S, IsFiniteSet(S), NEW A, NEW B, NEW g, NEW h, Folds(g, f, A), Folds(h, f, B),
         S \subseteq A, S \subseteq B
  PROVE  g[S] = h[S]
<1> DEFINE C == {T \in SUBSET S : g[T] # h[T]}
<1>1. SUFFICES ASSUME C # {} PROVE FALSE
  OBVIOUS
<1>2. PICK T \in C : \A U \in C : U \subseteq T => U = T
  <2>1. C \subseteq SUBSET S
    OBVIOUS
  <2> HIDE DEF C
  <2>2. QED
    BY <1>1, <2>1, Smallest
<1>3. T \in SUBSET A /\ T \in SUBSET B
  OBVIOUS
<1>4. T # {}
  BY <1>3 DEF Folds
<1>5. First(T) \in T /\ T \ {First(T)} \in SUBSET S /\ T \ {First(T)} # T
  BY <1>4, FirstIn
<1>6. g[T \ {First(T)}] = h[T \ {First(T)}]
  BY <1>2, <1>5
<1>7. g[T] = f[First(T)] + g[T \ {First(T)}]
  BY <1>3, <1>4 DEF Folds
<1>8. h[T] = f[First(T)] + h[T \ {First(T)}]
  BY <1>3, <1>4 DEF Folds
<1>9. QED
  BY <1>6, <1>7, <1>8

LEMMA FoldsExist ==
  ASSUME NEW f, NEW S, IsFiniteSet(S)
  PROVE  \E g : Folds(g, f, S)
<1> DEFINE C == {T \in SUBSET S : ~ \E g : Folds(g, f, T)}
<1>1. SUFFICES ASSUME C # {} PROVE FALSE
  OBVIOUS
<1>2. PICK T \in C : \A U \in C : U \subseteq T => U = T
  <2>1. C \subseteq SUBSET S
    OBVIOUS
  <2> HIDE DEF C
  <2>2. QED
    BY <1>1, <2>1, Smallest
<1> DEFINE Rest(s) == s \ {First(s)}
           Chosen(s) == CHOOSE h : Folds(h, f, s)
           g == [s \in SUBSET T |-> IF s = {} THEN 0 ELSE f[First(s)] + Chosen(Rest(s))[Rest(s)]]
<1>3. ASSUME NEW s \in SUBSET T, s # {}
      PROVE  Rest(s) \in SUBSET T /\ Folds(Chosen(Rest(s)), f, Rest(s))
  <2>1. Rest(s) \in SUBSET S /\ Rest(s) \subseteq T /\ Rest(s) # T
    BY <1>3, FirstIn
  <2>2. \E h : Folds(h, f, Rest(s))
    BY <1>2, <2>1
  <2>3. QED
    BY <2>1, <2>2
<1>4. ASSUME NEW s \in SUBSET T, s # {}
      PROVE  g[Rest(s)] = Chosen(Rest(s))[Rest(s)]
  <2> DEFINE u == Rest(s)
  <2> HIDE DEF Chosen
  <2>1. u \in SUBSET T /\ Folds(Chosen(u), f, u) /\ IsFiniteSet(u)
    BY <1>3, <1>4, FS_Subset
  <2>2. CASE u = {}
    <3>1. Chosen(u)[u] = 0
      BY <2>1, <2>2 DEF Folds
    <3>2. QED
      BY <3>1, <2>1, <2>2
  <2>3. CASE u # {}
    <3>1. Rest(u) \in SUBSET T /\ Folds(Chosen(Rest(u)), f, Rest(u))
      BY <1>3, <2>1, <2>3
    <3>2. Chosen(u)[u] = f[First(u)] + Chosen(u)[Rest(u)]
      BY <2>1, <2>3 DEF Folds
    <3>3. IsFiniteSet(Rest(u)) /\ Rest(u) \subseteq u
      BY <2>1, FS_Subset
    <3>4. Chosen(u)[Rest(u)] = Chosen(Rest(u))[Rest(u)]
      BY <2>1, <3>1, <3>3, FoldsAgree
    <3>5. g[u] = f[First(u)] + Chosen(Rest(u))[Rest(u)]
      BY <2>1, <2>3
    <3>6. QED
      BY <3>2, <3>4, <3>5
  <2>4. QED
    BY <2>2, <2>3
<1>5. g = [s \in SUBSET T |-> IF s = {} THEN 0 ELSE f[First(s)] + g[Rest(s)]]
  <2> HIDE DEF Chosen
  <2>1. ASSUME NEW s \in SUBSET T
        PROVE  g[s] = IF s = {} THEN 0 ELSE f[First(s)] + g[Rest(s)]
    <3>1. CASE s = {}
      BY <3>1
    <3>2. CASE s # {}
      BY <1>4, <3>2
    <3>3. QED
      BY <3>1, <3>2
  <2>2. QED
    BY <2>1
<1>6. Folds(g, f, T)
  BY <1>5 DEF Folds
<1>7. QED
  BY <1>6, <1>2

\* A sum over a finite set is the value there of such a function.
LEMMA SumFolds ==
  ASSUME NEW f, NEW S, IsFiniteSet(S), NEW A, NEW g, Folds(g, f, A), S \subseteq A
  PROVE  SumFunctionOnSet(f, S) = g[S]
<1> DEFINE iter == CHOOSE h : Folds(h, f, S)
<1>1. SumFunctionOnSet(f, S) = iter[S]
  BY DEF SumFunctionOnSet, FoldFunctionOnSet, MapThenFoldSet, Folds, First
<1>2. Folds(iter, f, S)
  BY FoldsExist
<1>3. QED
  BY <1>1, <1>2, FoldsAgree

LEMMA SumEmpty ==
  ASSUME NEW f
  PROVE  SumFunctionOnSet(f, {}) = 0
<1>1. IsFiniteSet({})
  BY FS_EmptySet
<1>2. PICK g : Folds(g, f, {})
  BY <1>1, FoldsExist
<1>3. SumFunctionOnSet(f, {}) = g[{}]
  BY <1>1, <1>2, SumFolds
<1>4. QED
  BY <1>2, <1>3 DEF Folds

LEMMA SumFirst ==
  ASSUME NEW f, NEW S, IsFiniteSet(S), S # {}
  PROVE  /\ First(S) \in S
         /\ SumFunctionOnSet(f, S) = f[First(S)] + SumFunctionOnSet(f, S \ {First(S)})
<1> DEFINE R == S \ {First(S)}
<1>1. First(S) \in S /\ IsFiniteSet(R)
  BY FirstIn, FS_Subset
<1>2. PICK g : Folds(g, f, S)
  BY FoldsExist
<1>3. SumFunctionOnSet(f, S) = g[S]
  BY <1>2, SumFolds
<1>4. SumFunctionOnSet(f, R) = g[R]
  BY <1>1, <1>2, SumFolds
<1>5. g[S] = f[First(S)] + g[R]
  BY <1>2 DEF Folds
<1>6. QED
  BY <1>1, <1>3, <1>4, <1>5

\* Sums of integers are integers, and of naturals naturals.
LEMMA SumType ==
  ASSUME NEW f, NEW S, IsFiniteSet(S), \A x \in S : f[x] \in Int
  PROVE  /\ SumFunctionOnSet(f, S) \in Int
         /\ (\A x \in S : f[x] >= 0) => SumFunctionOnSet(f, S) >= 0
<1> DEFINE Good(T) == /\ SumFunctionOnSet(f, T) \in Int
                      /\ (\A x \in S : f[x] >= 0) => SumFunctionOnSet(f, T) >= 0
           C == {T \in SUBSET S : ~ Good(T)}
<1>1. SUFFICES ASSUME C # {} PROVE FALSE
  OBVIOUS
<1>2. PICK T \in C : \A U \in C : U \subseteq T => U = T
  <2>1. C \subseteq SUBSET S
    OBVIOUS
  <2> HIDE DEF C
  <2>2. QED
    BY <1>1, <2>1, Smallest
<1>3. T # {}
  BY SumEmpty
<1>4. IsFiniteSet(T)
  BY FS_Subset
<1>5. First(T) \in T /\ SumFunctionOnSet(f, T) = f[First(T)] + SumFunctionOnSet(f, T \ {First(T)})
  BY <1>3, <1>4, SumFirst
<1>6. Good(T \ {First(T)})
  BY <1>2, <1>5
<1>7. Good(T)
  BY <1>5, <1>6
<1>8. QED
  BY <1>2, <1>7

\* Any element may be summed first.
LEMMA SumRemove ==
  ASSUME NEW f, NEW S, IsFiniteSet(S), \A x \in S : f[x] \in Int, NEW y \in S
  PROVE  SumFunctionOnSet(f, S) = f[y] + SumFunctionOnSet(f, S \ {y})
<1> DEFINE Free(T, z) == SumFunctionOnSet(f, T) = f[z] + SumFunctionOnSet(f, T \ {z})
           C == {T \in SUBSET S : \E z \in T : ~ Free(T, z)}
<1>1. SUFFICES ASSUME C # {} PROVE FALSE
  OBVIOUS
<1>2. PICK T \in C : \A U \in C : U \subseteq T => U = T
  <2>1. C \subseteq SUBSET S
    OBVIOUS
  <2> HIDE DEF C
  <2>2. QED
    BY <1>1, <2>1, Smallest
<1>3. PICK z \in T : ~ Free(T, z)
  OBVIOUS
<1>4. PICK x \in T : Free(T, x)
  BY <1>3, FS_Subset, SumFirst
<1>5. x # z /\ x \in S /\ z \in S /\ f[x] \in Int /\ f[z] \in Int
  BY <1>3, <1>4
<1>6. ASSUME NEW u \in T, NEW v \in T, u # v
      PROVE  Free(T \ {u}, v)
  <2>1. T \ {u} \in SUBSET S /\ T \ {u} \subseteq T /\ T \ {u} # T /\ v \in T \ {u}
    BY <1>6
  <2>2. T \ {u} \notin C
    BY <1>2, <2>1
  <2>3. QED
    BY <2>1, <2>2
<1>7. SumFunctionOnSet(f, (T \ {x}) \ {z}) \in Int
  BY FS_Subset, SumType
<1>8. SumFunctionOnSet(f, T \ {x}) = f[z] + SumFunctionOnSet(f, (T \ {x}) \ {z})
  BY <1>5, <1>6
<1>9. SumFunctionOnSet(f, T \ {z}) = f[x] + SumFunctionOnSet(f, (T \ {x}) \ {z})
  <2>1. (T \ {x}) \ {z} = (T \ {z}) \ {x}
    OBVIOUS
  <2>2. QED
    BY <1>5, <1>6, <2>1
<1>10. SumFunctionOnSet(f, T) = f[x] + SumFunctionOnSet(f, T \ {x})
  BY <1>4
<1>11. SumFunctionOnSet(f, T) # f[z] + SumFunctionOnSet(f, T \ {z})
  BY <1>3
<1>12. QED
  BY <1>5, <1>7, <1>8, <1>9, <1>10, <1>11

LEMMA SumAdd ==
  ASSUME NEW f, NEW S, IsFiniteSet(S), NEW y, y \notin S, f[y] \in Int, \A x \in S : f[x] \in Int
  PROVE  SumFunctionOnSet(f, S \cup {y}) = f[y] + SumFunctionOnSet(f, S)
<1>1. IsFiniteSet(S \cup {y}) /\ (S \cup {y}) \ {y} = S
  BY FS_AddElement
<1>2. QED
  BY <1>1, SumRemove

\* Only the values on the set matter.
LEMMA SumSame ==
  ASSUME NEW f, NEW g, NEW S, IsFiniteSet(S), \A x \in S : f[x] = g[x]
  PROVE  SumFunctionOnSet(f, S) = SumFunctionOnSet(g, S)
<1> DEFINE C == {T \in SUBSET S : SumFunctionOnSet(f, T) # SumFunctionOnSet(g, T)}
<1>1. SUFFICES ASSUME C # {} PROVE FALSE
  OBVIOUS
<1>2. PICK T \in C : \A U \in C : U \subseteq T => U = T
  <2>1. C \subseteq SUBSET S
    OBVIOUS
  <2> HIDE DEF C
  <2>2. QED
    BY <1>1, <2>1, Smallest
<1>3. T # {} /\ IsFiniteSet(T)
  BY SumEmpty, FS_Subset
<1>4. /\ First(T) \in T
      /\ SumFunctionOnSet(f, T) = f[First(T)] + SumFunctionOnSet(f, T \ {First(T)})
      /\ SumFunctionOnSet(g, T) = g[First(T)] + SumFunctionOnSet(g, T \ {First(T)})
  BY <1>3, SumFirst
<1>5. SumFunctionOnSet(f, T \ {First(T)}) = SumFunctionOnSet(g, T \ {First(T)})
  BY <1>2, <1>4
<1>6. QED
  BY <1>2, <1>4, <1>5

\* A part of a sum of naturals is not larger than the sum.
LEMMA SumPart ==
  ASSUME NEW f, NEW S, IsFiniteSet(S), NEW R, R \subseteq S, \A x \in S : f[x] \in Nat
  PROVE  SumFunctionOnSet(f, R) <= SumFunctionOnSet(f, S)
<1> DEFINE C == {T \in SUBSET S : R \subseteq T /\ ~ SumFunctionOnSet(f, R) <= SumFunctionOnSet(f, T)}
<1>1. SUFFICES ASSUME C # {} PROVE FALSE
  OBVIOUS
<1>2. PICK T \in C : \A U \in C : U \subseteq T => U = T
  <2>1. C \subseteq SUBSET S
    OBVIOUS
  <2> HIDE DEF C
  <2>2. QED
    BY <1>1, <2>1, Smallest
<1>3. IsFiniteSet(R) /\ IsFiniteSet(T)
  BY FS_Subset
<1>4. SumFunctionOnSet(f, R) \in Int
  BY <1>3, SumType
<1>5. PICK y \in T \ R : TRUE
  <2>1. R \subseteq T /\ R # T
    BY <1>4
  <2>2. QED
    BY <2>1
<1>6. SumFunctionOnSet(f, T) = f[y] + SumFunctionOnSet(f, T \ {y})
  BY <1>3, SumRemove
<1>7. SumFunctionOnSet(f, T \ {y}) \in Int
  BY <1>3, FS_Subset, SumType
<1>8. SumFunctionOnSet(f, R) <= SumFunctionOnSet(f, T \ {y})
  BY <1>2, <1>5
<1>9. f[y] \in Nat
  OBVIOUS
<1>10. QED
  BY <1>2, <1>4, <1>6, <1>7, <1>8, <1>9

\* With values that are not negative, a sum over fewer elements is not greater,
\* also when the values elsewhere have changed.
LEMMA SumFewer ==
  ASSUME NEW f, NEW g, NEW S, IsFiniteSet(S), NEW R, R \subseteq S,
         \A x \in S : f[x] \in Nat, \A x \in R : g[x] = f[x]
  PROVE  SumFunctionOnSet(g, R) <= SumFunctionOnSet(f, S)
<1>1. IsFiniteSet(R)
  BY FS_Subset
<1>2. SumFunctionOnSet(g, R) = SumFunctionOnSet(f, R)
  BY <1>1, SumSame
<1>3. SumFunctionOnSet(f, R) <= SumFunctionOnSet(f, S)
  BY SumPart
<1>4. QED
  BY <1>2, <1>3

\* One element more adds at most its value.
LEMMA SumOneMore ==
  ASSUME NEW f, NEW g, NEW S, IsFiniteSet(S), NEW y, y \notin S, NEW R, R \subseteq S \cup {y},
         g[y] \in Nat, \A x \in S : f[x] \in Nat /\ g[x] = f[x]
  PROVE  SumFunctionOnSet(g, R) <= SumFunctionOnSet(f, S) + g[y]
<1>1. IsFiniteSet(S \cup {y}) /\ \A x \in S \cup {y} : g[x] \in Nat
  BY FS_AddElement
<1>2. SumFunctionOnSet(g, R) <= SumFunctionOnSet(g, S \cup {y})
  BY <1>1, SumPart
<1>3. SumFunctionOnSet(g, S \cup {y}) = g[y] + SumFunctionOnSet(g, S)
  BY SumAdd
<1>4. SumFunctionOnSet(g, S) = SumFunctionOnSet(f, S)
  BY SumSame
<1>5. SumFunctionOnSet(f, S) \in Int
  BY SumType
<1>6. QED
  BY <1>2, <1>3, <1>4, <1>5

---------------------------------------------------------------------------

Statuses == {"pending", "rejected"} \cup Granted

RefundsOf(r) == {f \in Refund : refunds[f].return = r}

\* What a request in flight has read: a sum that its own units or money fit under,
\* a transition of a return that exists, or an action on a refund that does.
ReadInv ==
  \A q \in Request :
    /\ req[q].pc \in {"requesting", "refunding"} => req[q].n \in Nat /\ req[q].read \in Int
    /\ req[q].pc = "requesting" => req[q].read + req[q].n <= Bought
    /\ req[q].pc = "refunding" => req[q].read + req[q].n <= Total
    /\ req[q].pc = "deciding" =>
         /\ req[q].row \in Requested
         /\ req[q].read \in Statuses
         /\ req[q].action \in TRANSITIONS[req[q].read]
    /\ req[q].pc = "acting" => req[q].row \in Created /\ req[q].action \in {"process", "fail"}

\* A row of refunds that has not been created belongs to no return.
Uncreated == \A f \in Refund : refunds[f].status = None => refunds[f].return = None

IInv ==
  /\ TypeOK
  /\ req = [q \in Request |-> req[q]]
  /\ ReadInv
  /\ Uncreated
  /\ OneRefundPerReturn
  /\ WithinOrder

LEMMA Amounts ==
  ASSUME NEW n \in Nat
  PROVE  Price * n \in Nat
  BY RefundsAssumption

\* A new refund for a return r is added to those of r, and to no other return's.
LEMMA RefundAdded ==
  ASSUME TypeOK, Uncreated, NEW f \in Refund, NEW a \in Nat, NEW r \in Return \cup {None}, Create(f, a, r)
  PROVE  /\ refunds' \in [Refund -> [status : {None, "pending", "processed", "failed"},
                                     amount : Nat, return : Return \cup {None}]]
         /\ Created' = Created \cup {f}
         /\ Uncreated'
         /\ \A s \in Return : RefundsOf(s)' = IF s = r THEN RefundsOf(s) \cup {f} ELSE RefundsOf(s)
         /\ refunds[f].status = None /\ refunds'[f].amount = a /\ refunds'[f].return = r
         /\ \A g \in Refund \ {f} : refunds'[g] = refunds[g]
<1>1. refunds' = [refunds EXCEPT ![f] = [status |-> "pending", amount |-> a, return |-> r]] /\ refunds[f].status = None
  BY DEF Create, Created
<1>2. refunds[f].return = None
  BY <1>1 DEF Uncreated
<1>3. refunds' \in [Refund -> [status : {None, "pending", "processed", "failed"},
                                     amount : Nat, return : Return \cup {None}]]
  BY <1>1 DEF TypeOK
<1>4. refunds'[f].status = "pending" /\ refunds'[f].amount = a /\ refunds'[f].return = r /\ \A g \in Refund \ {f} : refunds'[g] = refunds[g]
  BY <1>1 DEF TypeOK
<1>5. Created' = Created \cup {f}
  BY <1>4, RefundsAssumption DEF Created
<1>6. Uncreated'
  BY <1>4, RefundsAssumption DEF Uncreated
<1>7. ASSUME NEW s \in Return
      PROVE  RefundsOf(s)' = IF s = r THEN RefundsOf(s) \cup {f} ELSE RefundsOf(s)
  <2>1. s # None
    BY RefundsAssumption
  <2>2. CASE s = r
    BY <1>4, <2>2 DEF RefundsOf
  <2>3. CASE s # r
    BY <1>2, <1>4, <2>1, <2>3 DEF RefundsOf
  <2>4. QED
    BY <2>2, <2>3
<1>8. QED
  BY <1>1, <1>3, <1>4, <1>5, <1>6, <1>7

\* OneRefundPerReturn in terms of RefundsOf.
LEMMA OneRefund ==
  OneRefundPerReturn <=>
    \A r \in Return \ torn : IF returns[r].status \in Granted THEN \E f \in Refund : RefundsOf(r) = {f}
                                                              ELSE RefundsOf(r) = {}
  BY DEF OneRefundPerReturn, RefundsOf

\* The terms of the two sums: the units of the returns, the amounts of the refunds.
Qty == [r \in Return |-> returns[r].qty]
Money == [f \in Refund |-> refunds[f].amount]

Counted(R) == {r \in R : returns[r].status \in Granted \cup {"pending"}}

ByHand == {f \in Refund \ (unseen \cup reinstated) : refunds[f].return = None}

LEMMA Sums ==
  /\ \A R : Returned(R) = SumFunctionOnSet(Qty, Counted(R))
  /\ \A F : Refunded(F) = SumFunctionOnSet(Money, Open(F))
  /\ UnitsWithinBought <=> SumFunctionOnSet(Qty, Counted(Return \ (crowded \cup torn))) <= Bought
  /\ MoneyWithinTotal <=> SumFunctionOnSet(Money, Open(ByHand)) <= Total
  BY DEF Returned, Refunded, Qty, Money, Counted, ByHand, UnitsWithinBought, MoneyWithinTotal

LEMMA SumTypes ==
  ASSUME TypeOK
  PROVE  /\ \A r \in Return : Qty[r] \in Nat
         /\ \A f \in Refund : Money[f] \in Nat
         /\ \A R \in SUBSET Return : IsFiniteSet(Counted(R)) /\ Returned(R) \in Nat
         /\ \A F \in SUBSET Refund : IsFiniteSet(Open(F)) /\ Refunded(F) \in Nat
<1>1. (\A r \in Return : Qty[r] \in Nat) /\ (\A f \in Refund : Money[f] \in Nat)
  BY DEF TypeOK, Qty, Money
<1>2. ASSUME NEW R \in SUBSET Return
      PROVE  IsFiniteSet(Counted(R)) /\ Returned(R) \in Nat
  <2>1. Counted(R) \subseteq Return
    BY DEF Counted
  <2>2. IsFiniteSet(Counted(R))
    BY <2>1, FS_Subset, RefundsAssumption
  <2>3. \A r \in Counted(R) : Qty[r] \in Int /\ Qty[r] >= 0
    BY <1>1, <2>1
  <2>4. SumFunctionOnSet(Qty, Counted(R)) \in Int /\ SumFunctionOnSet(Qty, Counted(R)) >= 0
    BY <2>2, <2>3, SumType
  <2>5. QED
    BY <2>2, <2>4, Sums
<1>3. ASSUME NEW F \in SUBSET Refund
      PROVE  IsFiniteSet(Open(F)) /\ Refunded(F) \in Nat
  <2>1. Open(F) \subseteq Refund
    BY DEF Open
  <2>2. IsFiniteSet(Open(F))
    BY <2>1, FS_Subset, RefundsAssumption
  <2>3. \A f \in Open(F) : Money[f] \in Int /\ Money[f] >= 0
    BY <1>1, <2>1
  <2>4. SumFunctionOnSet(Money, Open(F)) \in Int /\ SumFunctionOnSet(Money, Open(F)) >= 0
    BY <2>2, <2>3, SumType
  <2>5. QED
    BY <2>2, <2>4, Sums
<1>4. QED
  BY <1>1, <1>2, <1>3

\* A step that adds nothing to what is counted, and changes no quantity of it,
\* keeps the units within what was bought.
LEMMA UnitsKept ==
  ASSUME TypeOK, WithinOrder,
         \A r \in Return \ (crowded' \cup torn') : returns'[r].status \in Granted \cup {"pending"} =>
            /\ r \notin crowded \cup torn
            /\ returns[r].status \in Granted \cup {"pending"}
            /\ returns'[r].qty = returns[r].qty
  PROVE  UnitsWithinBought'
<1> DEFINE S == Counted(Return \ (crowded \cup torn))
           R == Counted(Return \ (crowded \cup torn))'
<1>1. R \subseteq S /\ \A r \in R : Qty'[r] = Qty[r]
  BY DEF Counted, Qty
<1>2. IsFiniteSet(S) /\ \A r \in S : Qty[r] \in Nat
  BY SumTypes DEF Counted
<1>3. SumFunctionOnSet(Qty, S) <= Bought /\ SumFunctionOnSet(Qty, S) \in Int
  <2>1. Returned(Return \ (crowded \cup torn)) \in Nat
    BY SumTypes
  <2>2. QED
    BY <2>1, Sums DEF WithinOrder
<1>4. UnitsWithinBought' <=> SumFunctionOnSet(Qty', R) <= Bought
  BY DEF UnitsWithinBought, Returned, Qty, Counted
<1> HIDE DEF S, R
<1>5. SumFunctionOnSet(Qty', R) \in Int
  <2>1. IsFiniteSet(R)
    BY <1>1, <1>2, FS_Subset
  <2>2. \A r \in R : Qty'[r] \in Int
    BY <1>1, <1>2
  <2>3. QED
    BY <2>1, <2>2, SumType
<1>6. SumFunctionOnSet(Qty', R) <= SumFunctionOnSet(Qty, S)
  BY <1>1, <1>2, SumFewer
<1>7. QED
  BY <1>3, <1>4, <1>5, <1>6, RefundsAssumption

\* The same of the refunds made by hand.
LEMMA MoneyKept ==
  ASSUME TypeOK, WithinOrder,
         \A f \in Refund \ (unseen' \cup reinstated') :
            /\ refunds'[f].status \in {"pending", "processed"}
            /\ refunds'[f].return = None
            => /\ f \notin unseen \cup reinstated
               /\ refunds[f].status \in {"pending", "processed"}
               /\ refunds[f].return = None
               /\ refunds'[f].amount = refunds[f].amount
  PROVE  MoneyWithinTotal'
<1> DEFINE S == Open(ByHand)
           R == Open(ByHand)'
<1>1. R \subseteq S /\ \A f \in R : Money'[f] = Money[f]
  BY DEF Open, ByHand, Money
<1>2. IsFiniteSet(S) /\ \A f \in S : Money[f] \in Nat
  BY SumTypes DEF Open, ByHand
<1>3. SumFunctionOnSet(Money, S) <= Total /\ SumFunctionOnSet(Money, S) \in Int
  <2>1. Refunded(ByHand) \in Nat
    BY SumTypes DEF ByHand
  <2>2. QED
    BY <2>1, Sums DEF WithinOrder
<1>4. MoneyWithinTotal' <=> SumFunctionOnSet(Money', R) <= Total
  BY DEF MoneyWithinTotal, Refunded, Money, ByHand
<1> HIDE DEF S, R
<1>5. SumFunctionOnSet(Money', R) \in Int
  <2>1. IsFiniteSet(R)
    BY <1>1, <1>2, FS_Subset
  <2>2. \A f \in R : Money'[f] \in Int
    BY <1>1, <1>2
  <2>3. QED
    BY <2>1, <2>2, SumType
<1>6. SumFunctionOnSet(Money', R) <= SumFunctionOnSet(Money, S)
  BY <1>1, <1>2, SumFewer
<1>7. QED
  BY <1>3, <1>4, <1>5, <1>6, RefundsAssumption

\* A return that is added to those whose sum was checked.
LEMMA ReturnAdded ==
  ASSUME TypeOK, NEW r \in Return, returns[r].status = None, NEW n \in Nat, Returned(Return) + n <= Bought,
         returns'[r].qty = n, \A s \in Return \ {r} : returns'[s] = returns[s]
  PROVE  UnitsWithinBought'
<1> DEFINE S == Counted(Return)
           R == Counted(Return \ (crowded \cup torn))'
<1>1. r \notin S /\ R \subseteq S \cup {r} /\ Qty'[r] = n /\ \A s \in S : Qty'[s] = Qty[s]
  BY RefundsAssumption DEF Counted, Qty, Granted
<1>2. IsFiniteSet(S) /\ (\A s \in S : Qty[s] \in Nat) /\ Returned(Return) \in Nat
  BY SumTypes DEF Counted
<1>3. Returned(Return) = SumFunctionOnSet(Qty, S)
  BY Sums
<1>4. UnitsWithinBought' <=> SumFunctionOnSet(Qty', R) <= Bought
  BY DEF UnitsWithinBought, Returned, Qty, Counted
<1> HIDE DEF S, R
<1>5. SumFunctionOnSet(Qty', R) <= SumFunctionOnSet(Qty, S) + Qty'[r]
  BY <1>1, <1>2, SumOneMore
<1>6. SumFunctionOnSet(Qty', R) \in Int
  <2>1. IsFiniteSet(R)
    BY <1>1, <1>2, FS_AddElement, FS_Subset
  <2>2. \A s \in R : Qty'[s] \in Nat
    BY <1>1, <1>2
  <2>3. QED
    BY <2>1, <2>2, SumType
<1>7. QED
  BY <1>1, <1>2, <1>3, <1>4, <1>5, <1>6, RefundsAssumption

\* A refund that is added to those whose sum was checked.
LEMMA RefundByHandAdded ==
  ASSUME TypeOK, NEW f \in Refund, refunds[f].status = None, NEW n \in Nat, Refunded(Refund) + n <= Total,
         refunds'[f].amount = n, \A g \in Refund \ {f} : refunds'[g] = refunds[g]
  PROVE  MoneyWithinTotal'
<1> DEFINE S == Open(Refund)
           R == Open(ByHand)'
<1>1. f \notin S /\ R \subseteq S \cup {f} /\ Money'[f] = n /\ \A g \in S : Money'[g] = Money[g]
  BY RefundsAssumption DEF Open, ByHand, Money
<1>2. IsFiniteSet(S) /\ (\A g \in S : Money[g] \in Nat) /\ Refunded(Refund) \in Nat
  BY SumTypes DEF Open
<1>3. Refunded(Refund) = SumFunctionOnSet(Money, S)
  BY Sums
<1>4. MoneyWithinTotal' <=> SumFunctionOnSet(Money', R) <= Total
  BY DEF MoneyWithinTotal, Refunded, Money, ByHand
<1> HIDE DEF S, R
<1>5. SumFunctionOnSet(Money', R) <= SumFunctionOnSet(Money, S) + Money'[f]
  BY <1>1, <1>2, SumOneMore
<1>6. SumFunctionOnSet(Money', R) \in Int
  <2>1. IsFiniteSet(R)
    BY <1>1, <1>2, FS_AddElement, FS_Subset
  <2>2. \A g \in R : Money'[g] \in Nat
    BY <1>1, <1>2
  <2>3. QED
    BY <2>1, <2>2, SumType
<1>7. QED
  BY <1>1, <1>2, <1>3, <1>4, <1>5, <1>6, RefundsAssumption

LEMMA InitOK ==
  ASSUME Init
  PROVE  IInv
<1>1. \A r \in Return : returns[r].status = None /\ RefundsOf(r) = {}
  BY RefundsAssumption DEF Init, RefundsOf
<1>2. OneRefundPerReturn
  BY <1>1, OneRefund, RefundsAssumption DEF Granted
<1>3. TypeOK
  BY DEF Init, TypeOK
<1>4. req = [q \in Request |-> req[q]] /\ ReadInv
  BY DEF Init, Idle, ReadInv
<1>5. Uncreated
  BY DEF Init, Uncreated
<1>6. WithinOrder
  <2>1. Counted(Return \ (crowded \cup torn)) = {} /\ Open(ByHand) = {}
    BY RefundsAssumption DEF Init, Counted, Open, ByHand, Granted
  <2>2. \A f : SumFunctionOnSet(f, {}) = 0
    BY SumEmpty
  <2>3. QED
    BY <2>1, <2>2, Sums, RefundsAssumption DEF WithinOrder
<1>7. QED
  BY <1>2, <1>3, <1>4, <1>5, <1>6 DEF IInv

\* A request that starts changes no row.
LEMMA StartOK ==
  ASSUME IInv, NEW q \in Request, NEW pc, NEW row, NEW action, NEW read, NEW n,
         Start(q, pc, row, action, read, n),
         pc \in {"requesting", "refunding"} => n \in Nat /\ read \in Int,
         pc = "requesting" => read + n <= Bought,
         pc = "refunding" => read + n <= Total,
         pc = "deciding" => row \in Requested /\ read \in Statuses /\ action \in TRANSITIONS[read],
         pc = "acting" => row \in Created /\ action \in {"process", "fail"}
  PROVE  IInv'
<1>1. /\ req' = [req EXCEPT ![q] = [pc |-> pc, row |-> row, action |-> action, read |-> read, n |-> n]]
      /\ UNCHANGED <<returns, refunds, torn, crowded, unseen, reinstated>>
  BY DEF Start, hist
<1>2. TypeOK' /\ Uncreated' /\ OneRefundPerReturn' /\ Requested' = Requested /\ Created' = Created
  BY <1>1 DEF IInv, TypeOK, Uncreated, OneRefundPerReturn, Requested, Created
<1>3. req' = [p \in Request |-> req'[p]]
  BY <1>1 DEF IInv
<1>4. req'[q] = [pc |-> pc, row |-> row, action |-> action, read |-> read, n |-> n]
      /\ \A p \in Request \ {q} : req'[p] = req[p]
  BY <1>1 DEF IInv
<1>5. ReadInv'
  BY <1>2, <1>4 DEF IInv, ReadInv
<1>6. WithinOrder'
  BY <1>1 DEF IInv, WithinOrder, UnitsWithinBought, MoneyWithinTotal, Returned, Refunded, Open
<1>7. QED
  BY <1>2, <1>3, <1>5, <1>6 DEF IInv

\* A request that ends leaves the others as they were; rows are only added.
LEMMA EndOK ==
  ASSUME IInv, NEW q \in Request, End(q), Requested \subseteq Requested', Created \subseteq Created'
  PROVE  req' = [p \in Request |-> req'[p]] /\ ReadInv'
<1>1. req' = [req EXCEPT ![q] = Idle]
  BY DEF End
<1>2. req' = [p \in Request |-> req'[p]]
  BY <1>1 DEF IInv
<1>3. req'[q] = Idle /\ \A p \in Request \ {q} : req'[p] = req[p]
  BY <1>1 DEF IInv
<1>4. Idle.pc = "idle"
  BY DEF Idle
<1>5. ReadInv'
  BY <1>3, <1>4 DEF IInv, ReadInv
<1>6. QED
  BY <1>2, <1>5

LEMMA InsertReturnOK ==
  ASSUME IInv, NEW q \in Request, InsertReturn(q)
  PROVE  IInv'
<1>1. PICK r \in Return \ Requested :
           /\ returns' = [returns EXCEPT ![r] = [status |-> "pending", qty |-> req[q].n]]
           /\ crowded' = IF Returned(Return) # req[q].read THEN crowded \cup {r} ELSE crowded
  BY DEF InsertReturn
<1>2. req[q].n \in Nat /\ End(q) /\ UNCHANGED <<refunds, torn, unseen, reinstated>>
  BY DEF InsertReturn, IInv, ReadInv
<1>3. /\ returns'[r] = [status |-> "pending", qty |-> req[q].n]
      /\ \A s \in Return \ {r} : returns'[s] = returns[s]
  BY <1>1 DEF IInv, TypeOK
<1>4. TypeOK'
  BY <1>1, <1>2 DEF IInv, TypeOK
<1>5. Uncreated' /\ Created' = Created /\ \A s \in Return : RefundsOf(s)' = RefundsOf(s)
  BY <1>2 DEF IInv, Uncreated, Created, RefundsOf
<1>6. Requested \subseteq Requested'
  BY <1>3, RefundsAssumption DEF Requested
<1>7. returns[r].status = None
  BY DEF Requested
<1>8. OneRefundPerReturn'
  <2>1. ASSUME NEW s \in Return \ torn'
        PROVE  IF returns'[s].status \in Granted THEN \E f \in Refund : RefundsOf(s)' = {f} ELSE RefundsOf(s)' = {}
    <3>1. s \in Return \ torn
      BY <1>2
    <3>2. CASE s = r
      BY <1>3, <1>5, <1>7, <3>1, <3>2, OneRefund, RefundsAssumption DEF IInv, Granted
    <3>3. CASE s # r
      BY <1>3, <1>5, <3>1, <3>3, OneRefund DEF IInv
    <3>4. QED
      BY <3>2, <3>3
  <2>2. QED
    BY <2>1 DEF OneRefundPerReturn, RefundsOf
<1>9. UnitsWithinBought'
  <2>1. CASE Returned(Return) # req[q].read
    BY <1>1, <1>2, <1>3, <2>1, UnitsKept DEF IInv
  <2>2. CASE Returned(Return) = req[q].read
    BY <1>2, <1>3, <1>7, <2>2, ReturnAdded DEF IInv, ReadInv, InsertReturn
  <2>3. QED
    BY <2>1, <2>2
<1>10. MoneyWithinTotal'
  BY <1>2 DEF IInv, WithinOrder, MoneyWithinTotal, Refunded, Open
<1>11. QED
  BY <1>2, <1>4, <1>5, <1>6, <1>8, <1>9, <1>10, EndOK DEF IInv, WithinOrder

LEMMA DecideOK ==
  ASSUME IInv, NEW q \in Request, Decide(q)
  PROVE  IInv'
<1> DEFINE r == req[q].row
           a == req[q].action
<1>1. /\ r \in Requested /\ r \in Return
      /\ req[q].read \in Statuses /\ a \in TRANSITIONS[req[q].read]
  BY DEF Decide, IInv, ReadInv, Requested
<1>2. /\ returns' = [returns EXCEPT ![r].status = Decided[a]]
      /\ torn' = IF returns[r].status # req[q].read THEN torn \cup {r} ELSE torn
      /\ End(q) /\ UNCHANGED <<crowded, unseen, reinstated>>
  BY DEF Decide
<1>3. /\ a \in {"approve", "reject", "receive", "complete"}
      /\ Decided[a] \in {"approved", "rejected", "received", "completed"}
      /\ a = "approve" => req[q].read = "pending" /\ Decided[a] \in Granted
      /\ a = "reject" => req[q].read = "pending" /\ Decided[a] = "rejected"
      /\ a \in {"receive", "complete"} => req[q].read \in Granted /\ Decided[a] \in Granted
  BY <1>1 DEF TRANSITIONS, Decided, Statuses, Granted
<1>4. returns'[r].status = Decided[a] /\ \A s \in Return \ {r} : returns'[s] = returns[s]
  BY <1>1, <1>2 DEF IInv, TypeOK
<1>5. returns' \in [Return -> [status : {None, "pending", "rejected"} \cup Granted, qty : Nat]]
  BY <1>1, <1>2, <1>3 DEF IInv, TypeOK, Granted
<1>6. Requested \subseteq Requested'
  BY <1>3, <1>4, RefundsAssumption DEF Requested
<1>7. torn \subseteq torn' /\ torn' \subseteq Return /\ (r \notin torn' => returns[r].status = req[q].read)
  BY <1>1, <1>2 DEF IInv, TypeOK
<1>8. UnitsWithinBought'
  <2>1. r \notin torn' => returns[r].status \in Granted \cup {"pending"}
    BY <1>1, <1>3, <1>7 DEF Granted
  <2>2. returns'[r].qty = returns[r].qty
    BY <1>1, <1>2 DEF IInv, TypeOK
  <2>3. QED
    BY <1>2, <1>4, <1>7, <2>1, <2>2, UnitsKept DEF IInv
<1>9. CASE a = "approve"
  <2>1. PICK f \in Refund : Create(f, Price * returns[r].qty, r)
    BY <1>9 DEF Decide
  <2>2. Price * returns[r].qty \in Nat
    BY <1>1, Amounts DEF IInv, TypeOK
  <2>3. /\ refunds' \in [Refund -> [status : {None, "pending", "processed", "failed"},
                                    amount : Nat, return : Return \cup {None}]]
        /\ Created' = Created \cup {f} /\ Uncreated'
        /\ \A s \in Return : RefundsOf(s)' = IF s = r THEN RefundsOf(s) \cup {f} ELSE RefundsOf(s)
        /\ refunds'[f].return = r /\ \A g \in Refund \ {f} : refunds'[g] = refunds[g]
    BY <1>1, <2>1, <2>2, RefundAdded DEF IInv
  <2>4. TypeOK'
    BY <1>2, <1>5, <1>7, <2>3 DEF IInv, TypeOK
  <2>5. ASSUME NEW s \in Return \ torn'
        PROVE  IF returns'[s].status \in Granted THEN \E g \in Refund : RefundsOf(s)' = {g} ELSE RefundsOf(s)' = {}
    <3>1. CASE s = r
      <4>1. "pending" \notin Granted
        BY DEF Granted
      <4>2. RefundsOf(r) = {}
        BY <1>1, <1>3, <1>7, <1>9, <3>1, <4>1, OneRefund DEF IInv
      <4>3. QED
        BY <1>3, <1>4, <1>9, <2>3, <3>1, <4>2
    <3>2. CASE s # r
      BY <1>4, <1>7, <2>3, <3>2, OneRefund DEF IInv
    <3>3. QED
      BY <3>1, <3>2
  <2>6. OneRefundPerReturn'
    BY <2>5 DEF OneRefundPerReturn, RefundsOf
  <2>7. MoneyWithinTotal'
    <3>1. r # None
      BY <1>1, RefundsAssumption
    <3>2. QED
      BY <1>2, <2>3, <3>1, MoneyKept DEF IInv
  <2>8. QED
    BY <1>2, <1>6, <1>8, <2>3, <2>4, <2>6, <2>7, EndOK DEF IInv, WithinOrder
<1>10. CASE a # "approve"
  <2>1. UNCHANGED refunds
    BY <1>10 DEF Decide
  <2>2. Uncreated' /\ Created' = Created /\ \A s \in Return : RefundsOf(s)' = RefundsOf(s)
    BY <2>1 DEF IInv, Uncreated, Created, RefundsOf
  <2>3. TypeOK'
    BY <1>2, <1>5, <1>7, <2>1 DEF IInv, TypeOK
  <2>4. ASSUME NEW s \in Return \ torn'
        PROVE  IF returns'[s].status \in Granted THEN \E g \in Refund : RefundsOf(s)' = {g} ELSE RefundsOf(s)' = {}
    <3>1. CASE s = r
      <4>1. "pending" \notin Granted /\ "rejected" \notin Granted
        BY DEF Granted
      <4>2. QED
        BY <1>3, <1>4, <1>7, <1>10, <2>2, <3>1, <4>1, OneRefund DEF IInv
    <3>2. CASE s # r
      BY <1>4, <1>7, <2>2, <3>2, OneRefund DEF IInv
    <3>3. QED
      BY <3>1, <3>2
  <2>5. OneRefundPerReturn'
    BY <2>4 DEF OneRefundPerReturn, RefundsOf
  <2>6. MoneyWithinTotal'
    BY <1>2, <2>1 DEF IInv, WithinOrder, MoneyWithinTotal, Refunded, Open
  <2>7. QED
    BY <1>2, <1>6, <1>8, <2>2, <2>3, <2>5, <2>6, EndOK DEF IInv, WithinOrder
<1>11. QED
  BY <1>9, <1>10

LEMMA InsertRefundOK ==
  ASSUME IInv, NEW q \in Request, InsertRefund(q)
  PROVE  IInv'
<1>1. PICK f \in Refund :
           /\ Create(f, req[q].n, None)
           /\ unseen' = IF Refunded(Refund) # req[q].read THEN unseen \cup {f} ELSE unseen
  BY DEF InsertRefund
<1>2. req[q].n \in Nat /\ End(q) /\ UNCHANGED <<returns, torn, crowded, reinstated>>
  BY DEF InsertRefund, IInv, ReadInv
<1>3. /\ refunds' \in [Refund -> [status : {None, "pending", "processed", "failed"},
                                  amount : Nat, return : Return \cup {None}]]
      /\ Created' = Created \cup {f} /\ Uncreated'
      /\ \A s \in Return : RefundsOf(s)' = IF s = None THEN RefundsOf(s) \cup {f} ELSE RefundsOf(s)
  BY <1>1, <1>2, RefundAdded DEF IInv
<1>4. \A s \in Return : RefundsOf(s)' = RefundsOf(s)
  BY <1>3, RefundsAssumption
<1>5. TypeOK'
  BY <1>1, <1>2, <1>3 DEF IInv, TypeOK
<1>6. Requested' = Requested
  BY <1>2 DEF Requested
<1>7. \A s \in Return \ torn' :
         IF returns'[s].status \in Granted THEN \E g \in Refund : RefundsOf(s)' = {g} ELSE RefundsOf(s)' = {}
  BY <1>2, <1>4, OneRefund DEF IInv
<1>8. OneRefundPerReturn'
  BY <1>7 DEF OneRefundPerReturn, RefundsOf
<1>9. UnitsWithinBought'
  BY <1>2 DEF IInv, WithinOrder, UnitsWithinBought, Returned
<1>10. /\ refunds[f].status = None /\ refunds'[f].amount = req[q].n
       /\ \A g \in Refund \ {f} : refunds'[g] = refunds[g]
  BY <1>1, <1>2, RefundAdded DEF IInv
<1>11. MoneyWithinTotal'
  <2>1. CASE Refunded(Refund) # req[q].read
    BY <1>1, <1>2, <1>10, <2>1, MoneyKept DEF IInv
  <2>2. CASE Refunded(Refund) = req[q].read
    BY <1>2, <1>10, <2>2, RefundByHandAdded DEF IInv, ReadInv, InsertRefund
  <2>3. QED
    BY <2>1, <2>2
<1>12. QED
  BY <1>2, <1>3, <1>5, <1>6, <1>8, <1>9, <1>11, EndOK DEF IInv, WithinOrder

LEMMA ActOK ==
  ASSUME IInv, NEW q \in Request, Act(q)
  PROVE  IInv'
<1> DEFINE f == req[q].row
           new == Acted[req[q].action]
<1>1. f \in Created /\ f \in Refund /\ new \in {"processed", "failed"}
  BY DEF Act, IInv, ReadInv, Created, Acted
<1>2. /\ refunds' = IF new = req[q].read THEN refunds ELSE [refunds EXCEPT ![f].status = new]
      /\ reinstated' \in {reinstated, reinstated \cup {f}}
      /\ End(q) /\ UNCHANGED <<returns, torn, crowded, unseen>>
  BY DEF Act
<1>3. /\ refunds' \in [Refund -> [status : {None, "pending", "processed", "failed"},
                                  amount : Nat, return : Return \cup {None}]]
      /\ \A g \in Refund : refunds'[g].return = refunds[g].return
      /\ refunds'[f].status \in {refunds[f].status, new}
      /\ \A g \in Refund \ {f} : refunds'[g].status = refunds[g].status
  BY <1>1, <1>2 DEF IInv, TypeOK
<1>4. TypeOK'
  BY <1>1, <1>2, <1>3 DEF IInv, TypeOK
<1>5. Created' = Created /\ Requested' = Requested
  BY <1>1, <1>2, <1>3, RefundsAssumption DEF Created, Requested
<1>6. Uncreated'
  BY <1>1, <1>3, RefundsAssumption DEF IInv, Uncreated, Created
<1>7. OneRefundPerReturn'
  BY <1>2, <1>3 DEF IInv, OneRefundPerReturn
<1>8. UnitsWithinBought'
  BY <1>2 DEF IInv, WithinOrder, UnitsWithinBought, Returned
<1>9. MoneyWithinTotal'
  <2>1. refunds[f].status \in {None, "pending", "processed", "failed"}
    BY <1>1 DEF IInv, TypeOK
  <2>2. refunds[f].status # None
    BY <1>1 DEF Created
  <2>3. f \notin reinstated' => refunds'[f].status = "failed" \/ refunds[f].status \in {"pending", "processed"}
    BY <2>1, <2>2 DEF Act
  <2>4. \A g \in Refund : refunds'[g].amount = refunds[g].amount
    BY <1>1, <1>2 DEF IInv, TypeOK
  <2>5. reinstated \subseteq reinstated'
    BY <1>2
  <2>6. QED
    BY <1>1, <1>2, <1>3, <2>3, <2>4, <2>5, MoneyKept DEF IInv
<1>10. QED
  BY <1>2, <1>4, <1>5, <1>6, <1>7, <1>8, <1>9, EndOK DEF IInv, WithinOrder

LEMMA NextOK ==
  ASSUME IInv, [Next]_vars
  PROVE  IInv'
<1>1. CASE UNCHANGED vars
  BY <1>1 DEF vars, hist, IInv, TypeOK, ReadInv, Uncreated, OneRefundPerReturn, Requested, Created,
              WithinOrder, UnitsWithinBought, MoneyWithinTotal, Returned, Refunded, Open
<1>2. ASSUME NEW q \in Request, CheckQuantity(q)
      PROVE  IInv'
  <2>1. PICK n \in 1 .. Bought : /\ Returned(Return) + n <= Bought
                                 /\ Start(q, "requesting", None, None, Returned(Return), n)
    BY <1>2 DEF CheckQuantity
  <2>2. n \in Nat /\ Returned(Return) \in Int
    BY SumTypes, RefundsAssumption DEF IInv
  <2>3. QED
    BY <2>1, <2>2, StartOK
<1>3. ASSUME NEW q \in Request, ReadReturn(q)
      PROVE  IInv'
  <2>1. PICK r \in Requested : \E action \in TRANSITIONS[returns[r].status] :
             Start(q, "deciding", r, action, returns[r].status, 0)
    BY <1>3 DEF ReadReturn
  <2>2. returns[r].status \in Statuses
    BY DEF IInv, TypeOK, Requested, Statuses
  <2>3. QED
    BY <2>1, <2>2, StartOK
<1>4. ASSUME NEW q \in Request, ReadBalance(q)
      PROVE  IInv'
  <2>1. PICK a \in Amount : /\ a <= Total - Refunded(Refund)
                             /\ Start(q, "refunding", None, None, Refunded(Refund), a)
    BY <1>4 DEF ReadBalance
  <2>2. a \in Nat /\ Refunded(Refund) \in Int
    BY SumTypes, RefundsAssumption DEF IInv
  <2>3. Refunded(Refund) + a <= Total
    BY <2>1, <2>2, RefundsAssumption
  <2>4. QED
    BY <2>1, <2>2, <2>3, StartOK
<1>5. ASSUME NEW q \in Request, ReadRefund(q)
      PROVE  IInv'
  <2>1. PICK f \in Created, action \in {"process", "fail"} : Start(q, "acting", f, action, refunds[f].status, 0)
    BY <1>5 DEF ReadRefund
  <2>2. QED
    BY <2>1, StartOK
<1>6. QED
  BY <1>1, <1>2, <1>3, <1>4, <1>5, InsertReturnOK, DecideOK, InsertRefundOK, ActOK DEF Next

\* Returns and refunds stay of their types (refund.py).
THEOREM Typing == Spec => []TypeOK
<1>1. Init => IInv
  BY InitOK
<1>2. IInv /\ [Next]_vars => IInv'
  BY NextOK
<1>3. IInv => TypeOK
  BY DEF IInv
<1>4. QED
  BY <1>1, <1>2, <1>3, PTL DEF Spec

\* From its approval on, a return has one refund and before it none, unless one
\* of its decisions was written over another that decide_return had not seen.
THEOREM RefundedOnce == Spec => []OneRefundPerReturn
<1>1. Init => IInv
  BY InitOK
<1>2. IInv /\ [Next]_vars => IInv'
  BY NextOK
<1>3. IInv => OneRefundPerReturn
  BY DEF IInv
<1>4. QED
  BY <1>1, <1>2, <1>3, PTL DEF Spec

\* No more is given back for an order than was bought and paid, as far as the two
\* checks of refund_service.py reach without a lock.
THEOREM Bounded == Spec => []WithinOrder
<1>1. Init => IInv
  BY InitOK
<1>2. IInv /\ [Next]_vars => IInv'
  BY NextOK
<1>3. IInv => WithinOrder
  BY DEF IInv
<1>4. QED
  BY <1>1, <1>2, <1>3, PTL DEF Spec
=============================================================================
