------------------------ MODULE OrderLifecycleProofs ------------------------
(***************************************************************************)
(* What OrderLifecycle promises, for any finite numbers of orders, sellers *)
(* and customers, and for any requests.                                    *)
(***************************************************************************)
EXTENDS OrderLifecycle, FiniteSetTheorems, WellFoundedInduction, TLAPS

---------------------------------------------------------------------------
(* What the proofs need to know of SumFunctionOnSet of the community modules: *)
(* that it is defined on finite sets, that the order of summation does not    *)
(* matter, and how a sum changes with its set and its function.  A finite set *)
(* has no infinite descent, so what fails for some set fails for a smallest   *)
(* one (WFMin): that is the only induction used.                              *)

First(s) == CHOOSE x \in s : TRUE

\* What the recursive function of a fold over S satisfies.
Folds(g, f, S) == g = [s \in SUBSET S |-> IF s = {} THEN 0 ELSE f[First(s)] + g[s \ {First(s)}]]

\* A set of finite sets that is not empty has a member that no other is part of.
LEMMA Smallest ==
  ASSUME NEW S, IsFiniteSet(S), NEW C, C \subseteq SUBSET S, C # {}
  PROVE  \E T \in C : \A U \in C : U \subseteq T => U = T
<1>1. IsWellFoundedOn(StrictSubsetOrdering(S), SUBSET S)
  BY FS_StrictSubsetOrderingWellFounded, FS_FiniteSubsetsOfFinite
<1>2. PICK T \in C : \A U \in C : ~ (<<U, T>> \in StrictSubsetOrdering(S))
  BY <1>1, WFMin
<1>3. QED
  BY <1>2 DEF StrictSubsetOrdering

LEMMA FirstIn ==
  ASSUME NEW s, s # {}
  PROVE  First(s) \in s
  BY DEF First

\* Two such functions agree wherever both are defined.
LEMMA FoldsAgree ==
  ASSUME NEW f, NEW S, IsFiniteSet(S), NEW A, NEW B, NEW g, NEW h, Folds(g, f, A), Folds(h, f, B),
         S \subseteq A, S \subseteq B
  PROVE  g[S] = h[S]
<1> DEFINE C == {T \in SUBSET S : g[T] # h[T]}
<1>1. SUFFICES ASSUME C # {} PROVE FALSE
  OBVIOUS
<1>2. PICK T \in C : \A U \in C : U \subseteq T => U = T
  <2>1. C \subseteq SUBSET S
    OBVIOUS
  <2> HIDE DEF C
  <2>2. QED
    BY <1>1, <2>1, Smallest
<1>3. T \in SUBSET A /\ T \in SUBSET B
  OBVIOUS
<1>4. T # {}
  BY <1>3 DEF Folds
<1>5. First(T) \in T /\ T \ {First(T)} \in SUBSET S /\ T \ {First(T)} # T
  BY <1>4, FirstIn
<1>6. g[T \ {First(T)}] = h[T \ {First(T)}]
  BY <1>2, <1>5
<1>7. g[T] = f[First(T)] + g[T \ {First(T)}]
  BY <1>3, <1>4 DEF Folds
<1>8. h[T] = f[First(T)] + h[T \ {First(T)}]
  BY <1>3, <1>4 DEF Folds
<1>9. QED
  BY <1>6, <1>7, <1>8

LEMMA FoldsExist ==
  ASSUME NEW f, NEW S, IsFiniteSet(S)
  PROVE  \E g : Folds(g, f, S)
<1> DEFINE C == {T \in SUBSET S : ~ \E g : Folds(g, f, T)}
<1>1. SUFFICES ASSUME C # {} PROVE FALSE
  OBVIOUS
<1>2. PICK T \in C : \A U \in C : U \subseteq T => U = T
  <2>1. C \subseteq SUBSET S
    OBVIOUS
  <2> HIDE DEF C
  <2>2. QED
    BY <1>1, <2>1, Smallest
<1> DEFINE Rest(s) == s \ {First(s)}
           Chosen(s) == CHOOSE h : Folds(h, f, s)
           g == [s \in SUBSET T |-> IF s = {} THEN 0 ELSE f[First(s)] + Chosen(Rest(s))[Rest(s)]]
<1>3. ASSUME NEW s \in SUBSET T, s # {}
      PROVE  Rest(s) \in SUBSET T /\ Folds(Chosen(Rest(s)), f, Rest(s))
  <2>1. Rest(s) \in SUBSET S /\ Rest(s) \subseteq T /\ Rest(s) # T
    BY <1>3, FirstIn
  <2>2. \E h : Folds(h, f, Rest(s))
    BY <1>2, <2>1
  <2>3. QED
    BY <2>1, <2>2
<1>4. ASSUME NEW s \in SUBSET T, s # {}
      PROVE  g[Rest(s)] = Chosen(Rest(s))[Rest(s)]
  <2> DEFINE u == Rest(s)
  <2> HIDE DEF Chosen
  <2>1. u \in SUBSET T /\ Folds(Chosen(u), f, u) /\ IsFiniteSet(u)
    BY <1>3, <1>4, FS_Subset
  <2>2. CASE u = {}
    <3>1. Chosen(u)[u] = 0
      BY <2>1, <2>2 DEF Folds
    <3>2. QED
      BY <3>1, <2>1, <2>2
  <2>3. CASE u # {}
    <3>1. Rest(u) \in SUBSET T /\ Folds(Chosen(Rest(u)), f, Rest(u))
      BY <1>3, <2>1, <2>3
    <3>2. Chosen(u)[u] = f[First(u)] + Chosen(u)[Rest(u)]
      BY <2>1, <2>3 DEF Folds
    <3>3. IsFiniteSet(Rest(u)) /\ Rest(u) \subseteq u
      BY <2>1, FS_Subset
    <3>4. Chosen(u)[Rest(u)] = Chosen(Rest(u))[Rest(u)]
      BY <2>1, <3>1, <3>3, FoldsAgree
    <3>5. g[u] = f[First(u)] + Chosen(Rest(u))[Rest(u)]
      BY <2>1, <2>3
    <3>6. QED
      BY <3>2, <3>4, <3>5
  <2>4. QED
    BY <2>2, <2>3
<1>5. g = [s \in SUBSET T |-> IF s = {} THEN 0 ELSE f[First(s)] + g[Rest(s)]]
  <2> HIDE DEF Chosen
  <2>1. ASSUME NEW s \in SUBSET T
        PROVE  g[s] = IF s = {} THEN 0 ELSE f[First(s)] + g[Rest(s)]
    <3>1. CASE s = {}
      BY <3>1
    <3>2. CASE s # {}
      BY <1>4, <3>2
    <3>3. QED
      BY <3>1, <3>2
  <2>2. QED
    BY <2>1
<1>6. Folds(g, f, T)
  BY <1>5 DEF Folds
<1>7. QED
  BY <1>6, <1>2

\* A sum over a finite set is the value there of such a function.
LEMMA SumFolds ==
  ASSUME NEW f, NEW S, IsFiniteSet(S), NEW A, NEW g, Folds(g, f, A), S \subseteq A
  PROVE  SumFunctionOnSet(f, S) = g[S]
<1> DEFINE iter == CHOOSE h : Folds(h, f, S)
<1>1. SumFunctionOnSet(f, S) = iter[S]
  BY DEF SumFunctionOnSet, FoldFunctionOnSet, MapThenFoldSet, Folds, First
<1>2. Folds(iter, f, S)
  BY FoldsExist
<1>3. QED
  BY <1>1, <1>2, FoldsAgree

LEMMA SumEmpty ==
  ASSUME NEW f
  PROVE  SumFunctionOnSet(f, {}) = 0
<1>1. IsFiniteSet({})
  BY FS_EmptySet
<1>2. PICK g : Folds(g, f, {})
  BY <1>1, FoldsExist
<1>3. SumFunctionOnSet(f, {}) = g[{}]
  BY <1>1, <1>2, SumFolds
<1>4. QED
  BY <1>2, <1>3 DEF Folds

LEMMA SumFirst ==
  ASSUME NEW f, NEW S, IsFiniteSet(S), S # {}
  PROVE  /\ First(S) \in S
         /\ SumFunctionOnSet(f, S) = f[First(S)] + SumFunctionOnSet(f, S \ {First(S)})
<1> DEFINE R == S \ {First(S)}
<1>1. First(S) \in S /\ IsFiniteSet(R)
  BY FirstIn, FS_Subset
<1>2. PICK g : Folds(g, f, S)
  BY FoldsExist
<1>3. SumFunctionOnSet(f, S) = g[S]
  BY <1>2, SumFolds
<1>4. SumFunctionOnSet(f, R) = g[R]
  BY <1>1, <1>2, SumFolds
<1>5. g[S] = f[First(S)] + g[R]
  BY <1>2 DEF Folds
<1>6. QED
  BY <1>1, <1>3, <1>4, <1>5

\* Sums of integers are integers, and of naturals naturals.
LEMMA SumType ==
  ASSUME NEW f, NEW S, IsFiniteSet(S), \A x \in S : f[x] \in Int
  PROVE  /\ SumFunctionOnSet(f, S) \in Int
         /\ (\A x \in S : f[x] >= 0) => SumFunctionOnSet(f, S) >= 0
<1> DEFINE Good(T) == /\ SumFunctionOnSet(f, T) \in Int
                      /\ (\A x \in S : f[x] >= 0) => SumFunctionOnSet(f, T) >= 0
           C == {T \in SUBSET S : ~ Good(T)}
<1>1. SUFFICES ASSUME C # {} PROVE FALSE
  OBVIOUS
<1>2. PICK T \in C : \A U \in C : U \subseteq T => U = T
  <2>1. C \subseteq SUBSET S
    OBVIOUS
  <2> HIDE DEF C
  <2>2. QED
    BY <1>1, <2>1, Smallest
<1>3. T # {}
  BY SumEmpty
<1>4. IsFiniteSet(T)
  BY FS_Subset
<1>5. First(T) \in T /\ SumFunctionOnSet(f, T) = f[First(T)] + SumFunctionOnSet(f, T \ {First(T)})
  BY <1>3, <1>4, SumFirst
<1>6. Good(T \ {First(T)})
  BY <1>2, <1>5
<1>7. Good(T)
  BY <1>5, <1>6
<1>8. QED
  BY <1>2, <1>7

\* Any element may be summed first.
LEMMA SumRemove ==
  ASSUME NEW f, NEW S, IsFiniteSet(S), \A x \in S : f[x] \in Int, NEW y \in S
  PROVE  SumFunctionOnSet(f, S) = f[y] + SumFunctionOnSet(f, S \ {y})
<1> DEFINE Free(T, z) == SumFunctionOnSet(f, T) = f[z] + SumFunctionOnSet(f, T \ {z})
           C == {T \in SUBSET S : \E z \in T : ~ Free(T, z)}
<1>1. SUFFICES ASSUME C # {} PROVE FALSE
  OBVIOUS
<1>2. PICK T \in C : \A U \in C : U \subseteq T => U = T
  <2>1. C \subseteq SUBSET S
    OBVIOUS
  <2> HIDE DEF C
  <2>2. QED
    BY <1>1, <2>1, Smallest
<1>3. PICK z \in T : ~ Free(T, z)
  OBVIOUS
<1>4. PICK x \in T : Free(T, x)
  BY <1>3, FS_Subset, SumFirst
<1>5. x # z /\ x \in S /\ z \in S /\ f[x] \in Int /\ f[z] \in Int
  BY <1>3, <1>4
<1>6. ASSUME NEW u \in T, NEW v \in T, u # v
      PROVE  Free(T \ {u}, v)
  <2>1. T \ {u} \in SUBSET S /\ T \ {u} \subseteq T /\ T \ {u} # T /\ v \in T \ {u}
    BY <1>6
  <2>2. T \ {u} \notin C
    BY <1>2, <2>1
  <2>3. QED
    BY <2>1, <2>2
<1>7. SumFunctionOnSet(f, (T \ {x}) \ {z}) \in Int
  BY FS_Subset, SumType
<1>8. SumFunctionOnSet(f, T \ {x}) = f[z] + SumFunctionOnSet(f, (T \ {x}) \ {z})
  BY <1>5, <1>6
<1>9. SumFunctionOnSet(f, T \ {z}) = f[x] + SumFunctionOnSet(f, (T \ {x}) \ {z})
  <2>1. (T \ {x}) \ {z} = (T \ {z}) \ {x}
    OBVIOUS
  <2>2. QED
    BY <1>5, <1>6, <2>1
<1>10. SumFunctionOnSet(f, T) = f[x] + SumFunctionOnSet(f, T \ {x})
  BY <1>4
<1>11. SumFunctionOnSet(f, T) # f[z] + SumFunctionOnSet(f, T \ {z})
  BY <1>3
<1>12. QED
  BY <1>5, <1>7, <1>8, <1>9, <1>10, <1>11

LEMMA SumAdd ==
  ASSUME NEW f, NEW S, IsFiniteSet(S), NEW y, y \notin S, f[y] \in Int, \A x \in S : f[x] \in Int
  PROVE  SumFunctionOnSet(f, S \cup {y}) = f[y] + SumFunctionOnSet(f, S)
<1>1. IsFiniteSet(S \cup {y}) /\ (S \cup {y}) \ {y} = S
  BY FS_AddElement
<1>2. QED
  BY <1>1, SumRemove

\* Only the values on the set matter.
LEMMA SumSame ==
  ASSUME NEW f, NEW g, NEW S, IsFiniteSet(S), \A x \in S : f[x] = g[x]
  PROVE  SumFunctionOnSet(f, S) = SumFunctionOnSet(g, S)
<1> DEFINE C == {T \in SUBSET S : SumFunctionOnSet(f, T) # SumFunctionOnSet(g, T)}
<1>1. SUFFICES ASSUME C # {} PROVE FALSE
  OBVIOUS
<1>2. PICK T \in C : \A U \in C : U \subseteq T => U = T
  <2>1. C \subseteq SUBSET S
    OBVIOUS
  <2> HIDE DEF C
  <2>2. QED
    BY <1>1, <2>1, Smallest
<1>3. T # {} /\ IsFiniteSet(T)
  BY SumEmpty, FS_Subset
<1>4. /\ First(T) \in T
      /\ SumFunctionOnSet(f, T) = f[First(T)] + SumFunctionOnSet(f, T \ {First(T)})
      /\ SumFunctionOnSet(g, T) = g[First(T)] + SumFunctionOnSet(g, T \ {First(T)})
  BY <1>3, SumFirst
<1>5. SumFunctionOnSet(f, T \ {First(T)}) = SumFunctionOnSet(g, T \ {First(T)})
  BY <1>2, <1>4
<1>6. QED
  BY <1>2, <1>4, <1>5

\* A change of one value changes the sum as much.
LEMMA SumChange ==
  ASSUME NEW f, NEW g, NEW S, IsFiniteSet(S), NEW y \in S,
         \A x \in S : f[x] \in Int /\ g[x] \in Int, \A x \in S \ {y} : g[x] = f[x]
  PROVE  SumFunctionOnSet(g, S) = SumFunctionOnSet(f, S) + (g[y] - f[y])
<1>1. IsFiniteSet(S \ {y})
  BY FS_Subset
<1>2. SumFunctionOnSet(f, S) = f[y] + SumFunctionOnSet(f, S \ {y})
  BY SumRemove
<1>3. SumFunctionOnSet(g, S) = g[y] + SumFunctionOnSet(g, S \ {y})
  BY SumRemove
<1>4. SumFunctionOnSet(f, S \ {y}) = SumFunctionOnSet(g, S \ {y})
  BY <1>1, SumSame
<1>5. SumFunctionOnSet(f, S \ {y}) \in Int
  BY <1>1, SumType
<1>6. QED
  BY <1>2, <1>3, <1>4, <1>5

---------------------------------------------------------------------------

OrdersOf(x) == {o \in Orders : x \in PartiesOf[o]}

Seen == [count : [Parties -> Nat], amount : [Parties -> Int],
         unread : SUBSET Parties, status : Statuses, sale : BOOLEAN]

\* No request has read more orders of a party than were ever credited to it.
ReadCredits ==
  \A r \in Requests, x \in Parties : seen[r].count[x] <= SumFunctionOnSet(credits, OrdersOf(x))

\* Two requests at work share neither an order nor a party.
Apart ==
  \A r, q \in Requests : r # q /\ phase[r] \in Running /\ phase[q] \in Running =>
    order[q] # order[r] /\ PartiesOf[order[q]] \cap PartiesOf[order[r]] = {}

\* What request r has read is still so.
Current(r) ==
  /\ phase[r] # "linked" =>
       /\ seen[r].status = status[order[r]]
       /\ goal[r] \in Transitions[seen[r].status] \cup ({"cancelled"} \cap {seen[r].status})
  /\ seen[r].unread \subseteq PartiesOf[order[r]]
  /\ \A x \in PartiesOf[order[r]] \ seen[r].unread : seen[r].count[x] = count[x] /\ seen[r].amount[x] = amount[x]
  /\ phase[r] \in {"sale", "writing"} => seen[r].unread = {}
  /\ phase[r] = "writing" => seen[r].sale = (order[r] \in sales)

ReadsCurrent == \A r \in Requests : phase[r] \in Running => Current(r)

Quiet == SaleMeansDelivered /\ CountersMatchSales /\ Apart /\ ReadsCurrent

IInv == TypeOK /\ NoCreditWithoutDelivery /\ ReadCredits /\ (met \/ Quiet)

---------------------------------------------------------------------------
LEMMA StatusFacts ==
  /\ Transitions \in [Statuses -> SUBSET Statuses]
  /\ Transitions["delivered"] = {}
  /\ \A s \in Statuses : s \notin Transitions[s]
  BY DEF Transitions, Statuses

LEMMA FiniteFacts ==
  /\ \A x : IsFiniteSet(OrdersOf(x))
  /\ \A x : TypeOK => IsFiniteSet(SalesOf(x))
  /\ \A o \in Orders : PartiesOf[o] \subseteq Parties /\ IsFiniteSet(PartiesOf[o])
  BY OrderLifecycleAssumption, FS_Subset DEF OrdersOf, SalesOf, TypeOK

LEMMA NothingIsSeen == Nothing \in Seen
  BY DEF Nothing, Seen, Statuses

\* What a SELECT adds to what was seen.
LEMMA SeenOK ==
  ASSUME NEW s \in Seen
  PROVE  /\ \A P \in SUBSET Parties, st \in Statuses : [s EXCEPT !.unread = P, !.status = st] \in Seen
         /\ \A b \in BOOLEAN : [s EXCEPT !.sale = b] \in Seen
         /\ \A x \in Parties, n \in Nat, a \in Int :
              [s EXCEPT !.count[x] = n, !.amount[x] = a, !.unread = @ \ {x}] \in Seen
         /\ \A x \in Parties, n \in Nat, a \in Int, P \in SUBSET Parties :
              [s EXCEPT !.count[x] = n, !.amount[x] = a, !.unread = P] \in Seen
  BY DEF Seen

LEMMA SeenType ==
  TypeOK => seen \in [Requests -> Seen]
  BY DEF TypeOK, Seen

LEMMA CreditsOf ==
  ASSUME NEW c \in [Orders -> Nat], NEW x
  PROVE  SumFunctionOnSet(c, OrdersOf(x)) \in Nat
<1>1. IsFiniteSet(OrdersOf(x)) /\ \A o \in OrdersOf(x) : c[o] \in Nat
  BY FiniteFacts DEF OrdersOf
<1>2. SumFunctionOnSet(c, OrdersOf(x)) \in Int /\ SumFunctionOnSet(c, OrdersOf(x)) >= 0
  BY <1>1, SumType
<1>3. QED
  BY <1>2

LEMMA InitOK == Init => IInv
<1> SUFFICES ASSUME Init PROVE IInv
  OBVIOUS
<1>1. TypeOK
  <2>1. seen \in [Requests -> Seen]
    BY NothingIsSeen DEF Init
  <2>2. status \in [Orders -> Statuses]
    BY OrderLifecycleAssumption DEF Init
  <2>3. goal \in [Requests -> Statuses] /\ phase \in [Requests -> Phases]
    BY DEF Init, Statuses, Phases
  <2>4. count \in [Parties -> Nat] /\ amount \in [Parties -> Int] /\ credits \in [Orders -> Nat]
    BY DEF Init
  <2>5. QED
    BY <2>1, <2>2, <2>3, <2>4 DEF Init, TypeOK, Seen
<1>2. NoCreditWithoutDelivery /\ ReadCredits
  <2>1. \A x \in Parties : count[x] = 0 /\ \A r \in Requests : seen[r].count[x] = 0
    BY DEF Init, Nothing
  <2>2. \A x : SumFunctionOnSet(credits, OrdersOf(x)) \in Nat
    BY <1>1, CreditsOf DEF TypeOK
  <2>3. QED
    BY <2>1, <2>2 DEF NoCreditWithoutDelivery, ReadCredits, OrdersOf
<1>4. SaleMeansDelivered
  BY OrderLifecycleAssumption DEF Init, SaleMeansDelivered
<1>5. CountersMatchSales
  <2>1. \A x : SalesOf(x) = {}
    BY DEF Init, SalesOf
  <2>2. QED
    BY <2>1, FS_EmptySet, SumEmpty DEF Init, CountersMatchSales
<1>6. Apart /\ ReadsCurrent
  BY DEF Init, Apart, ReadsCurrent, Running
<1>7. QED
  BY <1>1, <1>2, <1>4, <1>5, <1>6 DEF IInv, Quiet

---------------------------------------------------------------------------
(* Types *)

\* What a commit makes of a counter, field by field.
LEMMA Delivered ==
  ASSUME TypeOK, NEW r \in Requests, CommitDelivery(r)
  PROVE  /\ count' \in [Parties -> Nat] /\ amount' \in [Parties -> Int]
         /\ \A x \in Parties \ PartiesOf[order[r]] : count'[x] = count[x] /\ amount'[x] = amount[x]
         /\ \A x \in PartiesOf[order[r]] : /\ count'[x] = seen[r].count[x] + 1
                                           /\ amount'[x] = Assigned(seen[r].amount[x], seen[r].amount[x] + Total[order[r]], amount[x])
<1>1. order[r] \in Orders /\ PartiesOf[order[r]] \subseteq Parties /\ Total[order[r]] \in Nat
  BY OrderLifecycleAssumption DEF TypeOK
<1>2. seen[r].count \in [Parties -> Nat] /\ seen[r].amount \in [Parties -> Int]
  BY DEF TypeOK
<1>3. /\ count' = [x \in Parties |-> IF x \in PartiesOf[order[r]]
                     THEN Assigned(seen[r].count[x], seen[r].count[x] + 1, count[x]) ELSE count[x]]
      /\ amount' = [x \in Parties |-> IF x \in PartiesOf[order[r]]
                     THEN Assigned(seen[r].amount[x], seen[r].amount[x] + Total[order[r]], amount[x]) ELSE amount[x]]
  BY DEF CommitDelivery, WriteCounters
<1>4. \A n, m \in Nat : Assigned(n, n + 1, m) = n + 1
  BY DEF Assigned
<1>5. \A a, b, c \in Int : Assigned(a, b, c) \in Int
  BY DEF Assigned
<1>6. ASSUME NEW x \in Parties
      PROVE  count'[x] \in Nat /\ amount'[x] \in Int
  <2>1. seen[r].count[x] \in Nat /\ count[x] \in Nat /\ seen[r].amount[x] \in Int /\ amount[x] \in Int
    BY <1>2 DEF TypeOK
  <2>2. seen[r].count[x] + 1 \in Nat /\ seen[r].amount[x] + Total[order[r]] \in Int
    BY <1>1, <2>1
  <2>3. QED
    BY <1>3, <1>4, <1>5, <2>1, <2>2
<1>7. count' \in [Parties -> Nat] /\ amount' \in [Parties -> Int]
  BY <1>3, <1>6
<1>8. ASSUME NEW x \in PartiesOf[order[r]]
      PROVE  /\ count'[x] = seen[r].count[x] + 1
             /\ amount'[x] = Assigned(seen[r].amount[x], seen[r].amount[x] + Total[order[r]], amount[x])
  <2>1. x \in Parties /\ seen[r].count[x] \in Nat /\ count[x] \in Nat
    BY <1>1, <1>2 DEF TypeOK
  <2>2. Assigned(seen[r].count[x], seen[r].count[x] + 1, count[x]) = seen[r].count[x] + 1
    BY <1>4, <2>1
  <2>3. QED
    BY <1>3, <2>1, <2>2
<1>9. QED
  BY <1>3, <1>7, <1>8

LEMMA Reversed ==
  ASSUME TypeOK, NEW r \in Requests, CommitReversal(r)
  PROVE  /\ count' \in [Parties -> Nat] /\ amount' \in [Parties -> Int]
         /\ \A x \in Parties : count'[x] <= count[x] \/ count'[x] <= seen[r].count[x]
<1>1. order[r] \in Orders /\ PartiesOf[order[r]] \subseteq Parties /\ Total[order[r]] \in Nat
  BY OrderLifecycleAssumption DEF TypeOK
<1>2. seen[r].count \in [Parties -> Nat] /\ seen[r].amount \in [Parties -> Int]
  BY DEF TypeOK
<1>3. /\ count' = [x \in Parties |-> IF x \in PartiesOf[order[r]]
                     THEN Assigned(seen[r].count[x], LessOne(seen[r].count[x]), count[x]) ELSE count[x]]
      /\ amount' = [x \in Parties |-> IF x \in PartiesOf[order[r]]
                     THEN Assigned(seen[r].amount[x], seen[r].amount[x] - Total[order[r]], amount[x]) ELSE amount[x]]
  BY DEF CommitReversal, WriteCounters
<1>4. \A n, m \in Nat : LET new == Assigned(n, LessOne(n), m) IN new \in Nat /\ (new <= m \/ new <= n)
  BY DEF Assigned, LessOne
<1>5. \A a, b, c \in Int : Assigned(a, b, c) \in Int
  BY DEF Assigned
<1>6. ASSUME NEW x \in Parties
      PROVE  count'[x] \in Nat /\ amount'[x] \in Int /\ (count'[x] <= count[x] \/ count'[x] <= seen[r].count[x])
  <2>1. seen[r].count[x] \in Nat /\ count[x] \in Nat /\ seen[r].amount[x] \in Int /\ amount[x] \in Int
    BY <1>2 DEF TypeOK
  <2>2. CASE x \in PartiesOf[order[r]]
    <3>1. seen[r].amount[x] - Total[order[r]] \in Int
      BY <1>1, <2>1
    <3>2. QED
      BY <1>3, <1>4, <1>5, <2>1, <2>2, <3>1
  <2>3. CASE x \notin PartiesOf[order[r]]
    BY <1>3, <2>1, <2>3
  <2>4. QED
    BY <2>2, <2>3
<1>7. QED
  BY <1>3, <1>6

LEMMA SetStatusType ==
  ASSUME TypeOK, NEW r \in Requests, SetStatus(r)
  PROVE  /\ status' \in [Orders -> Statuses]
         /\ phase' \in [Requests -> Phases]
         /\ order' = order /\ goal' = goal /\ seen' = seen /\ met' = met
         /\ status'[order[r]] = Assigned(seen[r].status, goal[r], status[order[r]])
         /\ \A o \in Orders \ {order[r]} : status'[o] = status[o]
         /\ phase'[r] = "done" /\ \A q \in Requests \ {r} : phase'[q] = phase[q]
<1>1. seen[r].status \in Statuses /\ goal[r] \in Statuses /\ order[r] \in Orders
  BY DEF TypeOK
<1>2. Assigned(seen[r].status, goal[r], status[order[r]]) \in Statuses
  BY <1>1 DEF TypeOK, Assigned
<1>3. QED
  BY <1>1, <1>2 DEF TypeOK, SetStatus, Goto, Phases

LEMMA TypeOKNext ==
  ASSUME TypeOK, NEW r \in Requests, Step(r)
  PROVE  TypeOK'
<1> USE DEF tables
<1>1. CASE Begin(r)
  <2>1. PICK g \in Goals :
          /\ goal' = [goal EXCEPT ![r] = IF g = "delete" THEN "cancelled" ELSE g]
          /\ phase' = [phase EXCEPT ![r] = "counters"] \/ phase' = [phase EXCEPT ![r] = "done"] \/ phase' = [phase EXCEPT ![r] = "failed"]
          /\ \/ seen' = seen
             \/ seen' = [seen EXCEPT ![r].unread = IF phase[r] = "linked" THEN @ ELSE PartiesOf[order[r]],
                                     ![r].status = status[order[r]]]
    BY <1>1 DEF Begin, Goto
  <2>2. goal' \in [Requests -> Statuses]
    BY <2>1, OrderLifecycleAssumption DEF TypeOK, Statuses
  <2>3. phase' \in [Requests -> Phases]
    BY <2>1 DEF TypeOK, Phases, Running
  <2>4. seen' \in [Requests -> Seen]
    <3>1. PartiesOf[order[r]] \in SUBSET Parties /\ status[order[r]] \in Statuses
      BY OrderLifecycleAssumption DEF TypeOK
    <3>2. PICK P \in SUBSET Parties : P = IF phase[r] = "linked" THEN seen[r].unread ELSE PartiesOf[order[r]]
      BY <3>1 DEF TypeOK
    <3>3. seen[r] \in Seen /\ [seen[r] EXCEPT !.unread = P, !.status = status[order[r]]] \in Seen
      BY <3>1, SeenType, SeenOK
    <3>4. seen' = seen \/ seen' = [seen EXCEPT ![r] = [seen[r] EXCEPT !.unread = P, !.status = status[order[r]]]]
      BY <2>1, <3>2, SeenType DEF Seen
    <3>5. QED
      BY <3>3, <3>4, SeenType
  <2>5. met' \in BOOLEAN
    BY <1>1 DEF Begin, TypeOK
  <2>6. QED
    BY <1>1, <2>2, <2>3, <2>4, <2>5 DEF Begin, TypeOK, Seen
<1>2. CASE ReadParty(r)
  <2>1. PICK x \in seen[r].unread :
          seen' = [seen EXCEPT ![r].count[x] = count[x], ![r].amount[x] = amount[x], ![r].unread = @ \ {x}]
    BY <1>2 DEF ReadParty
  <2>2. x \in Parties /\ count[x] \in Nat /\ amount[x] \in Int
    BY DEF TypeOK
  <2>3. seen' \in [Requests -> Seen]
    <3>1. [seen[r] EXCEPT !.count[x] = count[x], !.amount[x] = amount[x], !.unread = @ \ {x}] \in Seen
      BY <2>2, SeenType, SeenOK
    <3>2. QED
      BY <2>1, <3>1, SeenType
  <2>4. phase' \in [Requests -> Phases]
    BY <1>2 DEF ReadParty, Goto, TypeOK, Phases, Running
  <2>5. QED
    BY <1>2, <2>3, <2>4 DEF ReadParty, TypeOK, Seen
<1>3. CASE ReadSale(r)
  <2>1. seen' \in [Requests -> Seen]
    <3>1. PICK b \in BOOLEAN : seen' = [seen EXCEPT ![r].sale = b]
      <4>1. seen' = [seen EXCEPT ![r].sale = (order[r] \in sales)]
        BY <1>3 DEF ReadSale
      <4>2. (order[r] \in sales) \in BOOLEAN
        BY SMT
      <4>3. QED
        BY <4>1, <4>2, Zenon
    <3>2. [seen[r] EXCEPT !.sale = b] \in Seen
      BY SeenType, SeenOK
    <3>3. QED
      BY <3>1, <3>2, SeenType
  <2>2. QED
    BY <1>3, <2>1 DEF ReadSale, Goto, TypeOK, Phases, Running, Seen
<1>4. CASE CommitDelivery(r)
  <2>1. SetStatus(r) /\ sales' = sales \cup {order[r]} /\ credits' = [credits EXCEPT ![order[r]] = @ + 1]
    BY <1>4 DEF CommitDelivery
  <2>2. QED
    BY <1>4, <2>1, Delivered, SetStatusType DEF TypeOK
<1>5. CASE RejectDelivery(r) \/ Abort(r)
  BY <1>5 DEF RejectDelivery, Abort, Goto, TypeOK, Phases
<1>6. CASE CommitReversal(r)
  <2>1. SetStatus(r) /\ sales' = sales \ {order[r]} /\ credits' = credits
    BY <1>6 DEF CommitReversal
  <2>2. QED
    BY <1>6, <2>1, Reversed, SetStatusType DEF TypeOK
<1>7. CASE CommitStatus(r)
  <2>1. SetStatus(r)
    BY <1>7 DEF CommitStatus
  <2>2. QED
    BY <1>7, <2>1, SetStatusType DEF CommitStatus, TypeOK
<1>8. CASE ReadLinked(r)
  <2>1. PICK x \in PartiesOf[order[r]] :
          seen' = [seen EXCEPT ![r].count[x] = count[x], ![r].amount[x] = amount[x],
                               ![r].unread = PartiesOf[order[r]] \ {x}]
    BY <1>8 DEF ReadLinked
  <2>2. x \in Parties /\ count[x] \in Nat /\ amount[x] \in Int /\ PartiesOf[order[r]] \ {x} \in SUBSET Parties
    BY OrderLifecycleAssumption DEF TypeOK
  <2>3. seen' \in [Requests -> Seen]
    <3>1. [seen[r] EXCEPT !.count[x] = count[x], !.amount[x] = amount[x], !.unread = PartiesOf[order[r]] \ {x}] \in Seen
      BY <2>2, SeenType, SeenOK
    <3>2. QED
      BY <2>1, <3>1, SeenType
  <2>4. phase' \in [Requests -> Phases]
    BY <1>8 DEF ReadLinked, Goto, TypeOK, Phases, Running
  <2>5. met' \in BOOLEAN
    BY <1>8 DEF ReadLinked, TypeOK
  <2>6. QED
    BY <1>8, <2>3, <2>4, <2>5 DEF ReadLinked, TypeOK, Seen
<1>9. QED
  BY <1>1, <1>2, <1>3, <1>4, <1>5, <1>6, <1>7, <1>8 DEF Step

---------------------------------------------------------------------------
(* Credits *)

\* Credits only grow.
LEMMA CreditsGrow ==
  ASSUME TypeOK, TypeOK', NEW r \in Requests, Step(r), NEW x \in Parties
  PROVE  SumFunctionOnSet(credits, OrdersOf(x)) <= SumFunctionOnSet(credits', OrdersOf(x))
<1>1. SumFunctionOnSet(credits, OrdersOf(x)) \in Nat
  BY CreditsOf DEF TypeOK
<1>2. CASE credits' = credits
  BY <1>1, <1>2
<1>3. CASE CommitDelivery(r)
  <2>1. order[r] \in Orders /\ credits' = [credits EXCEPT ![order[r]] = @ + 1]
    BY <1>3 DEF CommitDelivery, TypeOK
  <2>2. IsFiniteSet(OrdersOf(x)) /\ OrdersOf(x) \subseteq Orders
    BY FiniteFacts DEF OrdersOf
  <2>3. \A o \in Orders : credits[o] \in Nat /\ credits'[o] \in Nat
    BY DEF TypeOK
  <2>4. \A o \in Orders \ {order[r]} : credits'[o] = credits[o]
    BY <2>1 DEF TypeOK
  <2>5. credits'[order[r]] = credits[order[r]] + 1
    BY <2>1 DEF TypeOK
  <2>6. CASE order[r] \in OrdersOf(x)
    <3>1. SumFunctionOnSet(credits', OrdersOf(x)) = SumFunctionOnSet(credits, OrdersOf(x)) + (credits'[order[r]] - credits[order[r]])
      BY <2>2, <2>3, <2>4, <2>6, SumChange
    <3>2. QED
      BY <1>1, <2>1, <2>3, <2>5, <3>1
  <2>7. CASE order[r] \notin OrdersOf(x)
    <3>1. SumFunctionOnSet(credits', OrdersOf(x)) = SumFunctionOnSet(credits, OrdersOf(x))
      BY <2>2, <2>4, <2>7, SumSame
    <3>2. QED
      BY <1>1, <3>1
  <2>8. QED
    BY <2>6, <2>7
<1>4. QED
  BY <1>2, <1>3 DEF Step, ReadLinked, Begin, ReadParty, ReadSale, RejectDelivery, CommitReversal, CommitStatus, Abort, tables

\* A delivery adds one credit to each of its parties.
LEMMA CreditsAdded ==
  ASSUME TypeOK, TypeOK', NEW r \in Requests, CommitDelivery(r), NEW x \in PartiesOf[order[r]]
  PROVE  SumFunctionOnSet(credits', OrdersOf(x)) = SumFunctionOnSet(credits, OrdersOf(x)) + 1
<1>1. order[r] \in Orders /\ credits' = [credits EXCEPT ![order[r]] = @ + 1]
  BY DEF CommitDelivery, TypeOK
<1>2. IsFiniteSet(OrdersOf(x)) /\ OrdersOf(x) \subseteq Orders /\ order[r] \in OrdersOf(x)
  BY <1>1, FiniteFacts DEF OrdersOf
<1>3. \A o \in Orders : credits[o] \in Nat /\ credits'[o] \in Nat
  BY DEF TypeOK
<1>4. credits'[order[r]] = credits[order[r]] + 1 /\ \A o \in Orders \ {order[r]} : credits'[o] = credits[o]
  BY <1>1 DEF TypeOK
<1>5. SumFunctionOnSet(credits', OrdersOf(x)) = SumFunctionOnSet(credits, OrdersOf(x)) + (credits'[order[r]] - credits[order[r]])
  BY <1>2, <1>3, <1>4, SumChange
<1>6. QED
  BY <1>1, <1>3, <1>4, <1>5, CreditsOf DEF TypeOK

\* What a step does to what the requests have seen of a counter.
LEMMA SeenCounts ==
  ASSUME TypeOK, NEW r \in Requests, Step(r), NEW q \in Requests, NEW x \in Parties
  PROVE  seen'[q].count[x] \in {seen[q].count[x], count[x]}
<1>1. CASE seen' = seen
  BY <1>1
<1>2. CASE Begin(r)
  BY <1>1, <1>2, SeenType DEF Begin, Seen
<1>3. CASE ReadParty(r)
  <2>1. PICK y \in seen[r].unread :
          seen' = [seen EXCEPT ![r].count[y] = count[y], ![r].amount[y] = amount[y], ![r].unread = @ \ {y}]
    BY <1>3 DEF ReadParty
  <2>2. QED
    BY <2>1, SeenType DEF Seen
<1>4. CASE ReadSale(r)
  BY <1>4, SeenType DEF ReadSale, Seen
<1>5. CASE ReadLinked(r)
  <2>1. PICK y \in PartiesOf[order[r]] :
          seen' = [seen EXCEPT ![r].count[y] = count[y], ![r].amount[y] = amount[y],
                               ![r].unread = PartiesOf[order[r]] \ {y}]
    BY <1>5 DEF ReadLinked
  <2>2. QED
    BY <2>1, SeenType DEF Seen
<1>6. QED
  BY <1>1, <1>2, <1>3, <1>4, <1>5 DEF Step, CommitDelivery, RejectDelivery, CommitReversal, CommitStatus, Abort, SetStatus

LEMMA CreditNext ==
  ASSUME TypeOK, TypeOK', NoCreditWithoutDelivery, ReadCredits, NEW r \in Requests, Step(r)
  PROVE  NoCreditWithoutDelivery' /\ ReadCredits'
<1> DEFINE Credit(x) == SumFunctionOnSet(credits, OrdersOf(x))
<1>1. ASSUME NEW x \in Parties
      PROVE  /\ Credit(x) \in Nat /\ Credit(x)' \in Nat /\ Credit(x) <= Credit(x)'
             /\ count[x] \in Nat /\ count[x] <= Credit(x)
             /\ \A q \in Requests : seen[q].count[x] \in Nat /\ seen[q].count[x] <= Credit(x)
  <2>1. OrdersOf(x)' = OrdersOf(x)
    BY DEF OrdersOf
  <2>2. Credit(x) \in Nat /\ Credit(x)' \in Nat
    BY <2>1, CreditsOf DEF TypeOK
  <2>3. Credit(x) <= Credit(x)'
    BY <2>1, CreditsGrow
  <2>4. count[x] <= Credit(x) /\ \A q \in Requests : seen[q].count[x] <= Credit(x)
    BY DEF NoCreditWithoutDelivery, ReadCredits, OrdersOf
  <2>5. count[x] \in Nat /\ \A q \in Requests : seen[q].count[x] \in Nat
    BY SeenType DEF TypeOK, Seen
  <2>6. QED
    BY <2>2, <2>3, <2>4, <2>5
<1>2. ASSUME NEW x \in Parties
      PROVE  count'[x] <= Credit(x)'
  <2>1. CASE count' = count
    BY <1>1, <2>1
  <2>2. CASE CommitDelivery(r)
    <3>1. CASE x \in PartiesOf[order[r]]
      <4>1. count'[x] = seen[r].count[x] + 1
        BY <2>2, <3>1, Delivered
      <4>2. Credit(x)' = Credit(x) + 1
        BY <2>2, <3>1, CreditsAdded DEF OrdersOf
      <4> HIDE DEF Credit
      <4>3. QED
        BY <1>1, <4>1, <4>2
    <3>2. CASE x \notin PartiesOf[order[r]]
      <4>1. count'[x] = count[x]
        BY <2>2, <3>2, Delivered
      <4> HIDE DEF Credit
      <4>2. QED
        BY <1>1, <4>1
    <3>3. QED
      BY <3>1, <3>2
  <2>3. CASE CommitReversal(r)
    <3>1. count'[x] \in Nat /\ (count'[x] <= count[x] \/ count'[x] <= seen[r].count[x])
      BY <2>3, Reversed
    <3> HIDE DEF Credit
    <3>2. QED
      BY <1>1, <3>1
  <2>4. QED
    BY <2>1, <2>2, <2>3 DEF Step, ReadLinked, Begin, ReadParty, ReadSale, RejectDelivery, CommitStatus, Abort, tables
<1>3. ASSUME NEW q \in Requests, NEW x \in Parties
      PROVE  seen'[q].count[x] <= Credit(x)'
  <2>1. seen'[q].count[x] = seen[q].count[x] \/ seen'[q].count[x] = count[x]
    BY SeenCounts
  <2> HIDE DEF Credit
  <2>2. QED
    BY <1>1, <2>1
<1>4. QED
  BY <1>2, <1>3 DEF NoCreditWithoutDelivery, ReadCredits, OrdersOf

---------------------------------------------------------------------------
(* Agreement of statuses, sales and counters *)

\* A request that ends, and changes at most its own order and its parties, leaves
\* what the others have read as it was.
LEMMA OthersCurrent ==
  ASSUME TypeOK, Apart, ReadsCurrent,
         NEW r \in Requests, phase[r] \in Running, phase'[r] \notin Running,
         \A q \in Requests \ {r} : phase'[q] = phase[q],
         order' = order, goal' = goal, seen' = seen,
         \A o \in Orders \ {order[r]} : status'[o] = status[o] /\ (o \in sales' <=> o \in sales),
         \A x \in Parties \ PartiesOf[order[r]] : count'[x] = count[x] /\ amount'[x] = amount[x]
  PROVE  Apart' /\ ReadsCurrent'
<1>1. Apart'
  BY DEF Apart
<1>2. ASSUME NEW q \in Requests, phase'[q] \in Running
      PROVE  Current(q)'
  <2>1. q # r /\ phase[q] \in Running /\ phase'[q] = phase[q]
    BY <1>2
  <2>2. order[q] \in Orders \ {order[r]} /\ PartiesOf[order[q]] \cap PartiesOf[order[r]] = {}
    BY <2>1 DEF Apart, TypeOK
  <2>3. PartiesOf[order[q]] \subseteq Parties
    BY <2>2, FiniteFacts
  <2>4. Current(q)
    BY <2>1 DEF ReadsCurrent
  <2>5. \A x \in PartiesOf[order[q]] : count'[x] = count[x] /\ amount'[x] = amount[x]
    BY <2>2, <2>3
  <2>6. status'[order[q]] = status[order[q]] /\ (order[q] \in sales') = (order[q] \in sales)
    BY <2>2
  <2>7. QED
    BY <2>1, <2>4, <2>5, <2>6 DEF Current
<1>3. QED
  BY <1>1, <1>2 DEF ReadsCurrent

\* The request that writes, when nobody else has met it: it works on the status
\* of now, by an allowed transition or a DELETE of what is cancelled already.
LEMMA Writing ==
  ASSUME TypeOK, Quiet, NEW r \in Requests, phase[r] = "writing"
  PROVE  /\ phase[r] \in Running
         /\ order[r] \in Orders /\ goal[r] \in Statuses
         /\ seen[r].status = status[order[r]] /\ status[order[r]] \in Statuses
         /\ goal[r] \in Transitions[status[order[r]]] \/ (goal[r] = "cancelled" /\ status[order[r]] = "cancelled")
         /\ seen[r].sale = (order[r] \in sales)
         /\ order[r] \in sales <=> status[order[r]] = "delivered"
         /\ order[r] \notin sales
         /\ \A x \in PartiesOf[order[r]] : seen[r].count[x] = count[x] /\ seen[r].amount[x] = amount[x]
<1>1. Current(r) /\ phase[r] \in Running
  BY DEF Quiet, ReadsCurrent, Running
<1>2. order[r] \in Orders /\ goal[r] \in Statuses /\ status[order[r]] \in Statuses
  BY DEF TypeOK
<1>3. order[r] \in sales <=> status[order[r]] = "delivered"
  BY <1>2 DEF Quiet, SaleMeansDelivered
<1>4. seen[r].status = status[order[r]]
  BY <1>1 DEF Current
<1>5. goal[r] \in Transitions[status[order[r]]] \/ (goal[r] = "cancelled" /\ status[order[r]] = "cancelled")
  BY <1>1, <1>4 DEF Current
<1>6. order[r] \notin sales
  BY <1>3, <1>5, StatusFacts
<1>7. seen[r].unread = {}
  BY <1>1 DEF Current
<1>8. QED
  BY <1>1, <1>2, <1>3, <1>4, <1>5, <1>6, <1>7 DEF Current

LEMMA QuietBegin ==
  ASSUME TypeOK, TypeOK', Quiet, NEW r \in Requests, Begin(r), ~ met'
  PROVE  Quiet'
<1> USE DEF tables
<1>1. /\ phase[r] \in {"idle", "linked"} /\ ~ Meets(r)
      /\ order' = order /\ status' = status /\ sales' = sales /\ count' = count /\ amount' = amount
  BY DEF Begin
<1>2. PICK g \in Goals :
        /\ goal' = [goal EXCEPT ![r] = IF g = "delete" THEN "cancelled" ELSE g]
        /\ \/ /\ Accepts(order[r], g)
              /\ seen' = [seen EXCEPT ![r].unread = IF phase[r] = "linked" THEN @ ELSE PartiesOf[order[r]],
                                      ![r].status = status[order[r]]]
              /\ phase' = [phase EXCEPT ![r] = "counters"]
           \/ /\ phase' = [phase EXCEPT ![r] = "done"] \/ phase' = [phase EXCEPT ![r] = "failed"]
              /\ seen' = seen
  BY DEF Begin, Goto
<1>3. \A q \in Requests \ {r} : phase'[q] = phase[q] /\ goal'[q] = goal[q] /\ seen'[q] = seen[q]
  BY <1>2 DEF TypeOK
<1>4. SaleMeansDelivered' /\ CountersMatchSales'
  BY <1>1 DEF Quiet, SaleMeansDelivered, CountersMatchSales, SalesOf
<1>5. Apart'
  <2>1. \A q \in Requests \ {r} : phase[q] \in Running =>
          order[q] # order[r] /\ PartiesOf[order[q]] \cap PartiesOf[order[r]] = {}
    BY <1>1 DEF Meets
  <2>2. QED
    BY <1>1, <1>3, <2>1 DEF Apart, Quiet
<1>6. ASSUME NEW q \in Requests, phase'[q] \in Running
      PROVE  Current(q)'
  <2>1. CASE q # r
    BY <1>1, <1>3, <1>6, <2>1 DEF Quiet, ReadsCurrent, Current
  <2>2. CASE q = r
    <3>1. phase'[r] = "counters"
      BY <1>2, <1>6, <2>2 DEF TypeOK, Running
    <3>2. /\ Accepts(order[r], g)
          /\ seen' = [seen EXCEPT ![r].unread = IF phase[r] = "linked" THEN @ ELSE PartiesOf[order[r]],
                                  ![r].status = status[order[r]]]
      BY <1>2, <3>1 DEF TypeOK
    <3>3. /\ seen'[r].status = status[order[r]] /\ seen'[r].count = seen[r].count /\ seen'[r].amount = seen[r].amount
          /\ seen'[r].unread = IF phase[r] = "linked" THEN seen[r].unread ELSE PartiesOf[order[r]]
      BY <3>2, SeenType DEF Seen
    <3>4. goal'[r] \in Transitions[status[order[r]]] \cup ({"cancelled"} \cap {status[order[r]]})
      BY <1>2, <3>2 DEF Accepts, TypeOK
    <3>5. /\ seen'[r].unread \subseteq PartiesOf[order[r]]
          /\ \A x \in PartiesOf[order[r]] \ seen'[r].unread : seen[r].count[x] = count[x] /\ seen[r].amount[x] = amount[x]
      <4>1. phase[r] = "linked" => Current(r)
        BY DEF Quiet, ReadsCurrent, Running
      <4>2. QED
        BY <1>1, <3>3, <4>1 DEF Current
    <3>6. QED
      BY <1>1, <2>2, <3>1, <3>3, <3>4, <3>5 DEF Current
  <2>3. QED
    BY <2>1, <2>2
<1>7. QED
  BY <1>4, <1>5, <1>6 DEF Quiet, ReadsCurrent

LEMMA QuietReadLinked ==
  ASSUME TypeOK, TypeOK', Quiet, NEW r \in Requests, ReadLinked(r), ~ met'
  PROVE  Quiet'
<1> USE DEF tables
<1>1. /\ phase[r] = "idle" /\ ~ Meets(r) /\ order' = order /\ goal' = goal
      /\ status' = status /\ sales' = sales /\ count' = count /\ amount' = amount
      /\ phase' = [phase EXCEPT ![r] = "linked"]
  BY DEF ReadLinked, Goto
<1>2. PICK y \in PartiesOf[order[r]] :
        seen' = [seen EXCEPT ![r].count[y] = count[y], ![r].amount[y] = amount[y],
                             ![r].unread = PartiesOf[order[r]] \ {y}]
  BY DEF ReadLinked
<1>3. \A q \in Requests \ {r} : phase'[q] = phase[q] /\ seen'[q] = seen[q]
  BY <1>1, <1>2 DEF TypeOK
<1>4. phase'[r] = "linked"
  BY <1>1 DEF TypeOK
<1>5. SaleMeansDelivered' /\ CountersMatchSales'
  BY <1>1 DEF Quiet, SaleMeansDelivered, CountersMatchSales, SalesOf
<1>6. Apart'
  <2>1. \A q \in Requests \ {r} : phase[q] \in Running =>
          order[q] # order[r] /\ PartiesOf[order[q]] \cap PartiesOf[order[r]] = {}
    BY <1>1 DEF Meets
  <2>2. QED
    BY <1>1, <1>3, <2>1 DEF Apart, Quiet
<1>7. Current(r)'
  <2>1. y \in Parties
    BY OrderLifecycleAssumption DEF TypeOK
  <2>2. /\ seen'[r].unread = PartiesOf[order[r]] \ {y}
        /\ seen'[r].count[y] = count[y] /\ seen'[r].amount[y] = amount[y]
    BY <1>2, <2>1, SeenType DEF Seen
  <2>3. QED
    BY <1>1, <1>4, <2>2 DEF Current
<1>8. ASSUME NEW q \in Requests \ {r}, phase'[q] \in Running
      PROVE  Current(q)'
  BY <1>1, <1>3, <1>8 DEF Quiet, ReadsCurrent, Current
<1>9. QED
  BY <1>5, <1>6, <1>7, <1>8 DEF Quiet, ReadsCurrent

LEMMA QuietReadParty ==
  ASSUME TypeOK, TypeOK', Quiet, NEW r \in Requests, ReadParty(r)
  PROVE  Quiet'
<1> USE DEF tables
<1>1. /\ phase[r] = "counters" /\ order' = order /\ goal' = goal
      /\ status' = status /\ sales' = sales /\ count' = count /\ amount' = amount
      /\ phase' = [phase EXCEPT ![r] = IF Cardinality(seen[r].unread) = 1 THEN "sale" ELSE "counters"]
  BY DEF ReadParty, Goto
<1>2. PICK y \in seen[r].unread :
        seen' = [seen EXCEPT ![r].count[y] = count[y], ![r].amount[y] = amount[y], ![r].unread = @ \ {y}]
  BY DEF ReadParty
<1>3. \A q \in Requests \ {r} : phase'[q] = phase[q] /\ seen'[q] = seen[q]
  BY <1>1, <1>2 DEF TypeOK
<1>4. phase[r] \in Running /\ phase'[r] \in {"counters", "sale"}
  BY <1>1 DEF TypeOK, Running
<1>5. SaleMeansDelivered' /\ CountersMatchSales'
  BY <1>1 DEF Quiet, SaleMeansDelivered, CountersMatchSales, SalesOf
<1>6. Apart'
  BY <1>1, <1>3, <1>4 DEF Apart, Quiet
<1>7. Current(r)'
  <2>1. Current(r)
    BY <1>4 DEF Quiet, ReadsCurrent
  <2>2. /\ seen'[r].status = seen[r].status /\ seen'[r].sale = seen[r].sale
        /\ seen'[r].unread = seen[r].unread \ {y}
        /\ \A x \in Parties : /\ seen'[r].count[x] = IF x = y THEN count[y] ELSE seen[r].count[x]
                              /\ seen'[r].amount[x] = IF x = y THEN amount[y] ELSE seen[r].amount[x]
    BY <1>2, SeenType DEF Seen
  <2>3. order[r] \in Orders /\ PartiesOf[order[r]] \subseteq Parties /\ IsFiniteSet(PartiesOf[order[r]])
    BY FiniteFacts DEF TypeOK
  <2>4. phase'[r] = "sale" => seen'[r].unread = {}
    <3>1. IsFiniteSet(seen[r].unread) /\ IsFiniteSet(seen[r].unread \ {y})
      BY <2>1, <2>3, FS_Subset DEF Current
    <3>2. phase'[r] = "sale" => Cardinality(seen[r].unread) = 1
      BY <1>1 DEF TypeOK
    <3>3. Cardinality(seen[r].unread) = 1 => Cardinality(seen[r].unread \ {y}) = 0
      BY <3>1, FS_RemoveElement
    <3>4. QED
      BY <2>2, <3>1, <3>2, <3>3, FS_EmptySet
  <2>5. \A x \in PartiesOf[order[r]] \ seen'[r].unread : seen'[r].count[x] = count[x] /\ seen'[r].amount[x] = amount[x]
    BY <2>1, <2>2, <2>3 DEF Current
  <2>6. QED
    BY <1>1, <1>4, <2>1, <2>2, <2>4, <2>5 DEF Current
<1>8. ASSUME NEW q \in Requests \ {r}, phase'[q] \in Running
      PROVE  Current(q)'
  BY <1>1, <1>3, <1>8 DEF Quiet, ReadsCurrent, Current
<1>9. QED
  BY <1>5, <1>6, <1>7, <1>8 DEF Quiet, ReadsCurrent

LEMMA QuietReadSale ==
  ASSUME TypeOK, TypeOK', Quiet, NEW r \in Requests, ReadSale(r)
  PROVE  Quiet'
<1> USE DEF tables
<1>1. /\ phase[r] = "sale" /\ order' = order /\ goal' = goal
      /\ status' = status /\ sales' = sales /\ count' = count /\ amount' = amount
      /\ phase' = [phase EXCEPT ![r] = "writing"]
      /\ seen' = [seen EXCEPT ![r].sale = (order[r] \in sales)]
  BY DEF ReadSale, Goto
<1>2. \A q \in Requests \ {r} : phase'[q] = phase[q] /\ seen'[q] = seen[q]
  BY <1>1 DEF TypeOK
<1>3. phase[r] \in Running /\ phase'[r] = "writing"
  BY <1>1 DEF TypeOK, Running
<1>4. SaleMeansDelivered' /\ CountersMatchSales'
  BY <1>1 DEF Quiet, SaleMeansDelivered, CountersMatchSales, SalesOf
<1>5. Apart'
  BY <1>1, <1>2, <1>3 DEF Apart, Quiet
<1>6. Current(r)'
  <2>1. Current(r)
    BY <1>3 DEF Quiet, ReadsCurrent
  <2>2. /\ seen'[r].status = seen[r].status /\ seen'[r].unread = seen[r].unread
        /\ seen'[r].count = seen[r].count /\ seen'[r].amount = seen[r].amount
        /\ seen'[r].sale = (order[r] \in sales)
    BY <1>1, SeenType DEF Seen
  <2>3. QED
    BY <1>1, <1>3, <2>1, <2>2 DEF Current
<1>7. ASSUME NEW q \in Requests \ {r}, phase'[q] \in Running
      PROVE  Current(q)'
  BY <1>1, <1>2, <1>7 DEF Quiet, ReadsCurrent, Current
<1>8. QED
  BY <1>4, <1>5, <1>6, <1>7 DEF Quiet, ReadsCurrent

LEMMA QuietEnd ==
  ASSUME TypeOK, TypeOK', Quiet, NEW r \in Requests, RejectDelivery(r) \/ Abort(r)
  PROVE  Quiet'
<1> USE DEF tables
<1>1. /\ phase[r] \in Running /\ phase' = [phase EXCEPT ![r] = "failed"]
      /\ UNCHANGED <<status, sales, count, amount, order, goal, seen>>
  BY DEF RejectDelivery, Abort, Goto, Running
<1>2. phase'[r] \notin Running /\ \A q \in Requests \ {r} : phase'[q] = phase[q]
  BY <1>1 DEF TypeOK, Running
<1>3. SaleMeansDelivered' /\ CountersMatchSales'
  BY <1>1 DEF Quiet, SaleMeansDelivered, CountersMatchSales, SalesOf
<1>4. Apart' /\ ReadsCurrent'
  BY <1>1, <1>2, OthersCurrent DEF Quiet
<1>5. QED
  BY <1>3, <1>4 DEF Quiet

LEMMA QuietDelivery ==
  ASSUME TypeOK, TypeOK', Quiet, NEW r \in Requests, CommitDelivery(r)
  PROVE  Quiet'
<1>1. /\ phase[r] = "writing" /\ goal[r] = "delivered" /\ SetStatus(r)
      /\ sales' = sales \cup {order[r]}
  BY DEF CommitDelivery
<1>2. phase'[r] \notin Running /\ phase[r] \in Running
  BY <1>1, SetStatusType DEF Running
<1>3. order[r] \in Orders /\ order[r] \notin sales /\ PartiesOf[order[r]] \subseteq Parties
  BY <1>1, Writing, FiniteFacts
<1>4. SaleMeansDelivered'
  <2>1. status'[order[r]] = "delivered"
    BY <1>1, Writing, SetStatusType DEF Assigned
  <2>2. QED
    BY <1>1, <2>1, SetStatusType DEF Quiet, SaleMeansDelivered
<1>5. CountersMatchSales'
  <2>1. ASSUME NEW x \in Parties
        PROVE  /\ count'[x] = Cardinality(SalesOf(x)')
               /\ amount'[x] = SumFunctionOnSet(Total, SalesOf(x)')
    <3>1. count[x] = Cardinality(SalesOf(x)) /\ amount[x] = SumFunctionOnSet(Total, SalesOf(x))
      BY DEF Quiet, CountersMatchSales
    <3>2. CASE x \notin PartiesOf[order[r]]
      <4>1. SalesOf(x)' = SalesOf(x)
        BY <1>1, <3>2 DEF SalesOf
      <4>2. QED
        BY <3>1, <3>2, <4>1, Delivered
    <3>3. CASE x \in PartiesOf[order[r]]
      <4>1. SalesOf(x)' = SalesOf(x) \cup {order[r]} /\ order[r] \notin SalesOf(x) /\ IsFiniteSet(SalesOf(x))
        BY <1>1, <1>3, <3>3, FiniteFacts DEF SalesOf
      <4>2. \A o \in SalesOf(x) \cup {order[r]} : Total[o] \in Int
        BY <1>3, OrderLifecycleAssumption DEF SalesOf, TypeOK
      <4>3. Cardinality(SalesOf(x) \cup {order[r]}) = Cardinality(SalesOf(x)) + 1
        BY <4>1, FS_AddElement
      <4>4. SumFunctionOnSet(Total, SalesOf(x) \cup {order[r]}) = Total[order[r]] + SumFunctionOnSet(Total, SalesOf(x))
        BY <4>1, <4>2, SumAdd
      <4>5. count'[x] = count[x] + 1 /\ amount'[x] = Assigned(amount[x], amount[x] + Total[order[r]], amount[x])
        BY <1>1, <3>3, Delivered, Writing
      <4>6. amount'[x] = Total[order[r]] + amount[x]
        <5>1. amount[x] \in Int /\ Total[order[r]] \in Int
          BY <4>2 DEF TypeOK
        <5>2. QED
          BY <4>5, <5>1 DEF Assigned
      <4>7. QED
        BY <3>1, <4>1, <4>3, <4>4, <4>5, <4>6
    <3>4. QED
      BY <3>2, <3>3
  <2>2. QED
    BY <2>1 DEF CountersMatchSales
<1>6. Apart' /\ ReadsCurrent'
  <2>1. /\ \A o \in Orders \ {order[r]} : status'[o] = status[o] /\ (o \in sales' <=> o \in sales)
        /\ \A q \in Requests \ {r} : phase'[q] = phase[q]
        /\ order' = order /\ goal' = goal /\ seen' = seen
    BY <1>1, SetStatusType
  <2>2. \A x \in Parties \ PartiesOf[order[r]] : count'[x] = count[x] /\ amount'[x] = amount[x]
    BY Delivered
  <2>3. QED
    BY <1>2, <2>1, <2>2, OthersCurrent DEF Quiet
<1>7. QED
  BY <1>4, <1>5, <1>6 DEF Quiet

LEMMA QuietStatus ==
  ASSUME TypeOK, TypeOK', Quiet, NEW r \in Requests, CommitStatus(r)
  PROVE  Quiet'
<1>1. /\ phase[r] = "writing"
      /\ goal[r] = "delivered" => seen[r].sale
      /\ SetStatus(r) /\ UNCHANGED <<sales, count, amount>>
  BY DEF CommitStatus
<1>2. phase'[r] \notin Running /\ phase[r] \in Running
  BY <1>1, SetStatusType DEF Running
<1>3. SaleMeansDelivered'
  <2>1. order[r] \notin sales /\ goal[r] # "delivered" /\ status[order[r]] # "delivered"
    BY <1>1, Writing
  <2>2. status'[order[r]] # "delivered"
    BY <1>1, <2>1, SetStatusType DEF Assigned
  <2>3. QED
    BY <1>1, <2>1, <2>2, SetStatusType DEF Quiet, SaleMeansDelivered
<1>4. CountersMatchSales'
  BY <1>1 DEF Quiet, CountersMatchSales, SalesOf
<1>5. Apart' /\ ReadsCurrent'
  BY <1>1, <1>2, SetStatusType, OthersCurrent DEF Quiet
<1>6. QED
  BY <1>3, <1>4, <1>5 DEF Quiet

\* Until somebody has met somebody, every step keeps the tables in agreement.  A
\* cancellation that reverses a sale does not happen: nobody may ask for it.
LEMMA QuietNext ==
  ASSUME TypeOK, TypeOK', met \/ Quiet, NEW r \in Requests, Step(r)
  PROVE  met' \/ Quiet'
<1> SUFFICES ASSUME ~ met' PROVE Quiet'
  OBVIOUS
<1>1. ~ met /\ Quiet
  <2>1. CASE Begin(r) \/ ReadLinked(r)
    BY <2>1 DEF Begin, ReadLinked
  <2>2. CASE met' = met
    BY <2>2, Zenon
  <2>3. Begin(r) \/ ReadLinked(r) \/ met' = met
    BY DEF Step, ReadParty, ReadSale, RejectDelivery, Abort, CommitDelivery, CommitReversal, CommitStatus, SetStatus
  <2>4. QED
    BY <2>1, <2>2, <2>3
<1>2. CASE CommitReversal(r)
  <2>1. phase[r] = "writing" /\ seen[r].sale
    BY <1>2 DEF CommitReversal
  <2>2. QED
    BY <1>1, <2>1, Writing
<1>3. QED
  BY <1>1, <1>2, QuietReadLinked, QuietBegin, QuietReadParty, QuietReadSale, QuietDelivery, QuietEnd, QuietStatus DEF Step

---------------------------------------------------------------------------
LEMMA Stutter ==
  ASSUME IInv, UNCHANGED vars
  PROVE  IInv'
<1> USE DEF vars
<1>1. TypeOK'
  BY DEF IInv, TypeOK
<1>2. NoCreditWithoutDelivery' /\ ReadCredits'
  BY DEF IInv, NoCreditWithoutDelivery, ReadCredits, OrdersOf
<1>3. Quiet <=> Quiet'
  BY DEF Quiet, SaleMeansDelivered, CountersMatchSales, SalesOf, Apart, ReadsCurrent, Current
<1>4. QED
  BY <1>1, <1>2, <1>3 DEF IInv

LEMMA NextOK ==
  ASSUME IInv, [Next]_vars
  PROVE  IInv'
<1>1. CASE UNCHANGED vars
  BY <1>1, Stutter
<1>2. ASSUME NEW r \in Requests, Step(r)
      PROVE  IInv'
  <2>1. TypeOK'
    BY <1>2, TypeOKNext DEF IInv
  <2>2. NoCreditWithoutDelivery' /\ ReadCredits'
    BY <1>2, <2>1, CreditNext DEF IInv
  <2>3. met' \/ Quiet'
    BY <1>2, <2>1, QuietNext DEF IInv
  <2>4. QED
    BY <2>1, <2>2, <2>3 DEF IInv
<1>3. QED
  BY <1>1, <1>2 DEF Next, Ended

\* The inductive invariant: types, no credit without a delivery, and, until two
\* requests have met, tables that agree and reads that are still so.
THEOREM Invariance == Spec => []IInv
<1>1. Init => IInv
  BY InitOK
<1>2. IInv /\ [Next]_vars => IInv'
  BY NextOK
<1>3. QED
  BY <1>1, <1>2, PTL DEF Spec

\* The counters of sellers and customers are never negative, and every status is
\* one of the six (order_service.py).
THEOREM Typing == Spec => []TypeOK
<1>1. IInv => TypeOK
  BY DEF IInv
<1>2. QED
  BY <1>1, Invariance, PTL

\* docs/ERD.md: sales, delivered orders and counters agree, whatever fails or is
\* deleted, until two requests with something in common overlap.
THEOREM Consistency == Spec => []ConsistentUntilOverlap
<1>1. IInv => ConsistentUntilOverlap
  BY DEF IInv, Quiet, ConsistentUntilOverlap
<1>2. QED
  BY <1>1, Invariance, PTL

\* However requests interleave, no party has more orders than were delivered to it
\* (_finalize_delivery).
THEOREM Credited == Spec => []NoCreditWithoutDelivery
<1>1. IInv => NoCreditWithoutDelivery
  BY DEF IInv
<1>2. QED
  BY <1>1, Invariance, PTL

\* order_state_machine.py: statuses change along its transitions, until requests
\* overlap.
THEOREM Transitioning == Spec => FollowsStateMachine
<1>1. ASSUME IInv, [Next]_vars
      PROVE  [\A o \in Orders : status'[o] # status[o] => met \/ status'[o] \in Transitions[status[o]]]_vars
  <2>1. CASE UNCHANGED vars
    BY <2>1
  <2>2. ASSUME NEW r \in Requests, Step(r), NEW o \in Orders, status'[o] # status[o], ~ met
        PROVE  status'[o] \in Transitions[status[o]]
    <3>1. phase[r] = "writing" /\ SetStatus(r)
      BY <2>2 DEF Step, ReadLinked, Begin, ReadParty, ReadSale, CommitDelivery, RejectDelivery, CommitReversal, CommitStatus, Abort, tables
    <3>2. TypeOK /\ Quiet
      BY <1>1, <2>2 DEF IInv
    <3>3. o = order[r] /\ status'[o] = goal[r]
      BY <2>2, <3>1, <3>2, SetStatusType DEF Assigned
    <3>4. QED
      BY <2>2, <3>1, <3>2, <3>3, Writing
  <2>3. QED
    BY <1>1, <2>1, <2>2 DEF Next, Ended
<1>2. QED
  BY <1>1, Invariance, PTL DEF Spec, FollowsStateMachine
=============================================================================
