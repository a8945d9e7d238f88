--------------------------- MODULE InventoryProofs ---------------------------
(***************************************************************************)
(* Theorems about Inventory, for any number of products, variants, orders  *)
(* and requests, and any set of operations.                                *)
(***************************************************************************)
EXTENDS Inventory, TLAPS

USE DEF Cancels

LEMMA RowFacts ==
  /\ NoUnits \in [Rows -> Int]
  /\ NoUnits \in Units
  /\ Baskets \subseteq Units /\ Deliveries \subseteq Units
  /\ \A b \in Units : b \in [Rows -> Int]
BY InventoryAssumption DEF NoUnits, Units

LEMMA InitInductive == Init => InductiveInv
<1> SUFFICES ASSUME Init PROVE InductiveInv
  OBVIOUS
<1> USE InventoryAssumption DEF Init
<1>1. TypeOK
  BY DEF TypeOK, Documents, Orders, NoUnits, Unread, Ended
<1>2. StockNonNegative /\ SafeRowsFollowLedger
  BY DEF StockNonNegative, SafeRowsFollowLedger, SafeRows
<1>3. HeldRowsAreRead /\ SafeRowsReadUnderLock
  BY DEF HeldRowsAreRead, SafeRowsReadUnderLock, SafeRows
<1>4. PlannedChange /\ StockRequestsNameRows
  BY DEF PlannedChange, StockRequestsNameRows
<1>5. DocumentsInOrder
  BY DEF DocumentsInOrder, Documents, Orders
<1> QED
  BY <1>1, <1>2, <1>3, <1>4, <1>5 DEF InductiveInv

\* What the shared steps of the requests do to the types.
LEMMA WriteType ==
  ASSUME TypeOK, NEW r \in Requests, Write(r)
  PROVE  stock' \in [Rows -> Int] /\ ledger' \in [Rows -> Int]
BY DEF TypeOK, Write, Unread

LEMMA ReleaseType ==
  ASSUME TypeOK, NEW r \in Requests, Release(r)
  PROVE  owner' \in [Rows -> Requests \cup {NoOne}]
BY DEF TypeOK, Release

Phases == Ended \cup {"idle", "reading", "locking", "announcing", "warning"}

LEMMA GotoType ==
  ASSUME TypeOK, NEW r \in Requests, NEW p \in Phases, Goto(r, p)
  PROVE  phase' \in [Requests -> Phases]
BY DEF TypeOK, Goto, Phases

LEMMA RollbackType ==
  ASSUME TypeOK, NEW r \in Requests, Rollback(r)
  PROVE  TypeOK'
BY ReleaseType, GotoType DEF TypeOK, Rollback, documents, session, Phases, Ended

LEMMA BeginType ==
  ASSUME TypeOK, NEW r \in Requests,
         NEW k \in Kinds, NEW t \in Documents \cup Rows, NEW d \in [Rows -> Int],
         NEW p \in Phases, Begin(r, k, t, d, p)
  PROVE  /\ kind' \in [Requests -> Kinds \cup {"none"}]
         /\ target' \in [Requests -> Documents \cup Rows]
         /\ delta' \in [Requests -> [Rows -> Int]]
         /\ phase' \in [Requests -> Phases]
         /\ UNCHANGED <<stock, ledger, outbox, owner>>
<1>1. phase' \in [Requests -> Phases]
  BY GotoType DEF Begin
<1>2. kind' \in [Requests -> Kinds \cup {"none"}]
  BY DEF TypeOK, Begin
<1>3. target' \in [Requests -> Documents \cup Rows]
  BY DEF TypeOK, Begin
<1>4. delta' \in [Requests -> [Rows -> Int]]
  BY DEF TypeOK, Begin
<1> QED
  BY <1>1, <1>2, <1>3, <1>4 DEF Begin

LEMMA SeenType ==
  ASSUME TypeOK, StockNonNegative, NEW r \in Requests, NEW row \in Rows
  PROVE  stock[row] \in Nat
BY DEF TypeOK, StockNonNegative

LEMMA WantedRows ==
  ASSUME NEW r \in Requests
  PROVE  Touched(r) \subseteq Rows /\ Wanted(r) \subseteq Touched(r) \ Held(r)
<1>1. Changed(r) \subseteq Rows
  BY DEF Changed
<1>2. \A v \in Variants : ParentOf[v] \in Rows
  BY InventoryAssumption DEF Rows
<1>3. Touched(r) \subseteq Rows
  BY <1>1, <1>2 DEF Touched
<1> QED
  BY <1>3 DEF Wanted

LEMMA GoodsType ==
  ASSUME TypeOK, NEW d \in Documents
  PROVE  goods[d] \in [Rows -> Int] /\ \A row \in Rows : goods[d][row] >= 0
BY RowFacts DEF TypeOK, Units, NoUnits

LEMMA CountType ==
  ASSUME NEW D, NEW count \in [D -> Nat], NEW x
  PROVE  [count EXCEPT ![x] = @ + 1] \in [D -> Nat]
<1> DEFINE next == [count EXCEPT ![x] = @ + 1]
<1>1. CASE x \notin D
  <2>1. next = count
    BY <1>1
  <2> QED
    BY <2>1
<1>2. CASE x \in D
  <2>1. count[x] + 1 \in Nat
    BY <1>2
  <2> QED
    BY <1>2, <2>1
<1> QED
  BY <1>1, <1>2

LEMMA TypeStep == InductiveInv /\ [Next]_vars => TypeOK'
<1> SUFFICES ASSUME InductiveInv, [Next]_vars PROVE TypeOK'
  OBVIOUS
<1> TypeOK /\ StockNonNegative
  BY DEF InductiveInv
<1>1. CASE UNCHANGED vars
  BY <1>1 DEF TypeOK, vars
<1>2. ASSUME NEW r \in Requests, BeginCreate(r) PROVE TypeOK'
  <2> PICK b \in Baskets : /\ Begin(r, "create", r, [row \in Rows |-> -b[row]], "locking")
                           /\ goods' = [goods EXCEPT ![r] = b]
    BY <1>2 DEF BeginCreate
  <2>1. [row \in Rows |-> -b[row]] \in [Rows -> Int]
    BY RowFacts DEF Units
  <2>2. "create" \in Kinds /\ r \in Documents \cup Rows /\ "locking" \in Phases
    BY <1>2 DEF BeginCreate, Idle, Documents, Orders, Phases
  <2>3. goods' \in [Documents -> Baskets \cup Deliveries \cup {NoUnits}]
    BY DEF TypeOK
  <2> QED
    BY <1>2, <2>1, <2>2, <2>3, BeginType DEF TypeOK, BeginCreate, Phases
<1>3. ASSUME NEW r \in Requests, BeginCancel(r) \/ BeginDelete(r) PROVE TypeOK'
  <2> PICK o \in Orders, k \in Kinds :
        \/ Begin(r, k, o, goods[o], "reading")
        \/ Begin(r, k, o, NoUnits, "failed")
    BY <1>3 DEF BeginCancel, BeginDelete, Refuse, Idle
  <2>1. o \in Documents /\ {"reading", "failed"} \subseteq Phases
    BY <1>3 DEF Documents, Phases, Ended
  <2>2. UNCHANGED <<documents, seen>>
    BY <1>3 DEF BeginCancel, BeginDelete, Refuse
  <2> QED
    BY <2>1, <2>2, BeginType, GoodsType, RowFacts DEF TypeOK, documents, Phases
<1>4. ASSUME NEW r \in Requests, BeginReceive(r) PROVE TypeOK'
  <2> PICK d \in PurchaseOrders :
        \/ Begin(r, "receive", d, goods[d], "reading")
        \/ Begin(r, "receive", d, NoUnits, "failed")
    BY <1>4 DEF BeginReceive, Refuse
  <2>1. "receive" \in Kinds /\ d \in Documents /\ {"reading", "failed"} \subseteq Phases
    BY <1>4 DEF BeginReceive, Idle, Documents, Phases, Ended
  <2>2. UNCHANGED <<documents, seen>>
    BY <1>4 DEF BeginReceive, Refuse
  <2> QED
    BY <2>1, <2>2, BeginType, GoodsType, RowFacts DEF TypeOK, documents, Phases
<1>5. ASSUME NEW r \in Requests, BeginAdjust(r) PROVE TypeOK'
  <2> PICK p \in Products, n \in Adjustments :
        Begin(r, "adjust", p, [NoUnits EXCEPT ![p] = n], "locking")
    BY <1>5 DEF BeginAdjust
  <2>1. [NoUnits EXCEPT ![p] = n] \in [Rows -> Int]
    BY RowFacts, InventoryAssumption
  <2>2. "adjust" \in Kinds /\ p \in Rows /\ "locking" \in Phases
    BY <1>5 DEF BeginAdjust, Idle, Rows, Phases
  <2> QED
    BY <1>5, <2>1, <2>2, BeginType DEF TypeOK, BeginAdjust, documents, Phases
<1>6. ASSUME NEW r \in Requests, BeginEdit(r) PROVE TypeOK'
  <2> PICK row \in Rows, n \in Edits :
        /\ Begin(r, "edit", row, [NoUnits EXCEPT ![row] = n - stock[row]], "locking")
        /\ seen' = [seen EXCEPT ![r][row] = stock[row]]
    BY <1>6 DEF BeginEdit
  <2>1. [NoUnits EXCEPT ![row] = n - stock[row]] \in [Rows -> Int]
    BY RowFacts, InventoryAssumption DEF TypeOK
  <2>2. "edit" \in Kinds /\ "locking" \in Phases
    BY <1>6 DEF BeginEdit, Idle, Phases
  <2>3. seen' \in [Requests -> [Rows -> Nat \cup {Unread}]]
    BY SeenType DEF TypeOK
  <2> QED
    BY <1>6, <2>1, <2>2, <2>3, BeginType DEF TypeOK, BeginEdit, documents, Phases
<1>7. ASSUME NEW r \in Requests, LockRow(r) PROVE TypeOK'
  <2> PICK row \in Rows : /\ owner' = [owner EXCEPT ![row] = r]
                          /\ seen' = [seen EXCEPT ![r][row] = IF @ = Unread THEN stock[row] ELSE @]
    BY <1>7, WantedRows DEF LockRow
  <2>1. seen' \in [Requests -> [Rows -> Nat \cup {Unread}]]
    <3> DEFINE value == IF seen[r][row] = Unread THEN stock[row] ELSE seen[r][row]
    <3>1. value \in Nat \cup {Unread}
      BY SeenType DEF TypeOK
    <3>2. seen' = [seen EXCEPT ![r] = [seen[r] EXCEPT ![row] = value]]
      OBVIOUS
    <3> HIDE DEF value
    <3> QED
      BY <3>1, <3>2 DEF TypeOK
  <2>2. owner' \in [Rows -> Requests \cup {NoOne}]
    BY DEF TypeOK
  <2> QED
    BY <1>7, <2>1, <2>2 DEF TypeOK, LockRow, documents
<1>8. ASSUME NEW r \in Requests, CommitCreate(r) PROVE TypeOK'
  <2>1. status' \in [Documents -> {"none", "open", "cancelled", "ordered", "received"}]
    BY <1>8 DEF TypeOK, CommitCreate
  <2>2. \A e \in outbox' : /\ e.type \in {"stock.low", "inventory.restocked",
                                           "order.created", "order.cancelled"}
                           /\ e.about \in Products \cup Orders
    BY <1>8 DEF TypeOK, CommitCreate, Event, SoldLow, Orders
  <2> QED
    BY <1>8, <2>1, <2>2, WriteType, ReleaseType, GotoType
    DEF TypeOK, CommitCreate, session, Phases, Ended
<1>9. ASSUME NEW r \in Requests, ReadOrderProducts(r) \/ ReadDeliveredProduct(r) PROVE TypeOK'
  <2>1. seen' \in [Requests -> [Rows -> Nat \cup {Unread}]]
    <3>1. CASE ReadOrderProducts(r)
      BY <3>1, SeenType DEF TypeOK, ReadOrderProducts
    <3>2. CASE ReadDeliveredProduct(r)
      <4> PICK p \in Rows : seen' = [seen EXCEPT ![r][p] = stock[p]]
        BY <3>2 DEF ReadDeliveredProduct, Changed
      <4> QED
        BY SeenType DEF TypeOK
    <3> QED
      BY <1>9, <3>1, <3>2
  <2>2. phase' \in [Requests -> Phases]
    BY <1>9 DEF TypeOK, ReadOrderProducts, ReadDeliveredProduct, Goto, Phases
  <2> QED
    BY <1>9, <2>1, <2>2 DEF TypeOK, ReadOrderProducts, ReadDeliveredProduct, documents, Phases
<1>10. ASSUME NEW r \in Requests, CommitCancel(r) PROVE TypeOK'
  <2>1. target[r] \in Orders
    BY <1>10 DEF InductiveInv, PlannedChange, CommitCancel, Ready
  <2>2. /\ status' \in [Documents -> {"none", "open", "cancelled", "ordered", "received"}]
        /\ posted' \in [Documents -> Nat]
    <3>1. status' \in [Documents -> {"none", "open", "cancelled", "ordered", "received"}]
      BY <1>10 DEF TypeOK, CommitCancel
    <3>2. posted' \in [Documents -> Nat]
      <4>1. posted \in [Documents -> Nat] /\ posted' = [posted EXCEPT ![target[r]] = @ + 1]
        BY <1>10 DEF TypeOK, CommitCancel
      <4> QED
        BY <4>1, CountType
    <3> QED
      BY <3>1, <3>2
  <2>3. \A e \in outbox' : /\ e.type \in {"stock.low", "inventory.restocked",
                                           "order.created", "order.cancelled"}
                           /\ e.about \in Products \cup Orders
    BY <1>10, <2>1 DEF TypeOK, CommitCancel, Event
  <2> QED
    BY <1>10, <2>2, <2>3, WriteType, ReleaseType, GotoType
    DEF TypeOK, CommitCancel, session, Phases, Ended
<1>11. ASSUME NEW r \in Requests, CommitReceive(r) PROVE TypeOK'
  <2>1. /\ status' \in [Documents -> {"none", "open", "cancelled", "ordered", "received"}]
        /\ posted' \in [Documents -> Nat]
    <3>1. status' \in [Documents -> {"none", "open", "cancelled", "ordered", "received"}]
      BY <1>11 DEF TypeOK, CommitReceive
    <3>2. posted' \in [Documents -> Nat]
      <4>1. posted \in [Documents -> Nat] /\ posted' = [posted EXCEPT ![target[r]] = @ + 1]
        BY <1>11 DEF TypeOK, CommitReceive
      <4> QED
        BY <4>1, CountType
    <3> QED
      BY <3>1, <3>2
  <2> QED
    BY <1>11, <2>1, WriteType, ReleaseType, GotoType
    DEF TypeOK, CommitReceive, session, Phases, Ended
<1>12. ASSUME NEW r \in Requests, CommitAdjust(r) \/ CommitEdit(r) PROVE TypeOK'
  BY <1>12, WriteType, ReleaseType, GotoType
  DEF TypeOK, CommitAdjust, CommitEdit, documents, session, Phases, Ended
<1>13. ASSUME NEW r \in Requests, RejectCreate(r) \/ RejectAdjust(r) \/ AbortDeadlocked(r)
       PROVE TypeOK'
  BY <1>13, RollbackType DEF RejectCreate, RejectAdjust, AbortDeadlocked
<1>14. ASSUME NEW r \in Requests, AnnounceAdjust(r) \/ AnnounceRestock(r) \/ AnnounceLow(r)
       PROVE TypeOK'
  <2>1. Goto(r, "done") \/ Goto(r, "warning")
    BY <1>14 DEF AnnounceAdjust, AnnounceRestock, AnnounceLow
  <2>2. phase' \in [Requests -> Phases]
    BY <2>1, GotoType DEF Phases, Ended
  <2>3. Restocked(r) \subseteq {Event("inventory.restocked", p) : p \in Products}
    BY DEF Restocked
  <2>4. RunsLow(r) \subseteq {Event("stock.low", p) : p \in Products}
    <3>1. target[r] \in Rows
      BY <1>14 DEF InductiveInv, StockRequestsNameRows, AnnounceAdjust, AnnounceRestock, AnnounceLow
    <3> QED
      BY <3>1, InventoryAssumption DEF RunsLow, ProductOf, Rows
  <2>5. \A e \in outbox' : /\ e.type \in {"stock.low", "inventory.restocked",
                                           "order.created", "order.cancelled"}
                           /\ e.about \in Products \cup Orders
    BY <1>14, <2>3, <2>4 DEF TypeOK, AnnounceAdjust, AnnounceRestock, AnnounceLow, Event
  <2> QED
    BY <1>14, <2>2, <2>5
    DEF TypeOK, AnnounceAdjust, AnnounceRestock, AnnounceLow, documents, session, Phases
<1>15. ASSUME NEW r \in Requests, Crash(r) PROVE TypeOK'
  BY <1>15, ReleaseType, GotoType DEF TypeOK, Crash, documents, session, Phases, Ended
<1>16. CASE Finished
  BY <1>16 DEF TypeOK, Finished, vars
<1> QED
  BY <1>1, <1>2, <1>3, <1>4, <1>5, <1>6, <1>7, <1>8, <1>9, <1>10, <1>11, <1>12, <1>13,
     <1>14, <1>15, <1>16 DEF Next, Start, Continue

-----------------------------------------------------------------------------
\* A request that is ready to write holds every row it changes, has read it,
\* and has seen the current value of the safe ones.
LEMMA ReadyRows ==
  ASSUME InductiveInv, NEW r \in Requests, NEW k, Ready(r, k),
         NEW row \in Rows, delta[r][row] # 0
  PROVE  /\ owner[row] = r
         /\ seen[r][row] \in Nat
         /\ row \in SafeRows => seen[r][row] = stock[row]
<1>1. row \in Touched(r)
  BY DEF Touched, Changed
<1>2. owner[row] = r
  BY <1>1 DEF Ready, Held
<1> QED
  BY <1>2 DEF InductiveInv, TypeOK, HeldRowsAreRead, SafeRowsReadUnderLock

\* A write moves the stock and the ledger of a safe row by the same change.
LEMMA SafeWrite ==
  ASSUME InductiveInv, NEW r \in Requests, NEW k, Ready(r, k), Write(r)
  PROVE  /\ SafeRowsFollowLedger'
         /\ \A row \in SafeRows : /\ stock'[row] = stock[row] + delta[r][row]
                                  /\ ledger'[row] = ledger[row] + delta[r][row]
<1>1. \A row \in SafeRows : /\ stock'[row] = stock[row] + delta[r][row]
                            /\ ledger'[row] = ledger[row] + delta[r][row]
  <2> TAKE row \in SafeRows
  <2>1. row \in Rows
    BY DEF SafeRows
  <2>2. ledger'[row] = ledger[row] + delta[r][row]
    BY <2>1 DEF Write
  <2>3. CASE delta[r][row] = 0
    BY <2>1, <2>2, <2>3 DEF Write, InductiveInv, TypeOK
  <2>4. CASE delta[r][row] # 0
    BY <2>1, <2>2, <2>4, ReadyRows DEF Write
  <2> QED
    BY <2>3, <2>4
<1>2. SafeRowsFollowLedger'
  <2> SUFFICES ASSUME NEW row \in SafeRows
               PROVE  stock'[row] = InitialStock[row] + ledger'[row]
    BY DEF SafeRowsFollowLedger, SafeRows
  <2>1. row \in Rows /\ stock[row] = InitialStock[row] + ledger[row]
    BY DEF InductiveInv, SafeRowsFollowLedger, SafeRows
  <2>2. InitialStock[row] \in Int /\ ledger[row] \in Int /\ delta[r][row] \in Int
    BY <2>1, InventoryAssumption DEF InductiveInv, TypeOK
  <2> QED
    BY <1>1, <2>1, <2>2
<1> QED
  BY <1>1, <1>2

\* A write whose new values are not negative keeps the stock so.
LEMMA NonNegativeWrite ==
  ASSUME InductiveInv, NEW r \in Requests, NEW k, Ready(r, k), Write(r), Sufficient(r)
  PROVE  StockNonNegative'
<1> SUFFICES ASSUME NEW row \in Rows PROVE stock'[row] >= 0
  BY DEF StockNonNegative
<1>1. CASE delta[r][row] = 0
  BY <1>1 DEF Write, InductiveInv, StockNonNegative
<1>2. CASE delta[r][row] # 0
  BY <1>2 DEF Write, Sufficient, Changed
<1> QED
  BY <1>1, <1>2

\* Writes without a check of their own cannot go below zero either: they add
\* units, or they write a value typed by the user.
LEMMA UncheckedWrite ==
  ASSUME InductiveInv, NEW r \in Requests, NEW k \in Cancels \cup {"receive", "edit"}, Ready(r, k)
  PROVE  Sufficient(r)
<1> SUFFICES ASSUME NEW row \in Rows, delta[r][row] # 0
             PROVE  seen[r][row] + delta[r][row] >= 0
  BY DEF Sufficient, Changed
<1>1. seen[r][row] \in Nat
  BY ReadyRows
<1>2. CASE k \in Cancels \cup {"receive"}
  <2>1. target[r] \in Documents /\ delta[r] = goods[target[r]]
    BY <1>2 DEF Ready, InductiveInv, PlannedChange, Documents
  <2> QED
    BY <1>1, <2>1, GoodsType DEF InductiveInv
<1>3. CASE k = "edit"
  BY <1>3 DEF Ready, InductiveInv, PlannedChange
<1> QED
  BY <1>2, <1>3

LEMMA StockStep == InductiveInv /\ [Next]_vars => StockNonNegative' /\ SafeRowsFollowLedger'
<1> SUFFICES ASSUME InductiveInv, [Next]_vars
             PROVE  StockNonNegative' /\ SafeRowsFollowLedger'
  OBVIOUS
<1>1. CASE UNCHANGED <<stock, ledger>>
  BY <1>1 DEF InductiveInv, StockNonNegative, SafeRowsFollowLedger
<1>2. ASSUME NEW r \in Requests,
             CommitCreate(r) \/ CommitCancel(r) \/ CommitReceive(r) \/ CommitAdjust(r) \/ CommitEdit(r)
      PROVE  StockNonNegative' /\ SafeRowsFollowLedger'
  <2> PICK k \in AllKinds : Ready(r, k) /\ Write(r) /\ (k \in {"create", "adjust"} => Sufficient(r))
    BY <1>2 DEF AllKinds, CommitCreate, CommitCancel, CommitReceive, CommitAdjust, CommitEdit
  <2>1. Sufficient(r)
    BY UncheckedWrite DEF AllKinds
  <2> QED
    BY <2>1, SafeWrite, NonNegativeWrite
<1>3. ASSUME NEW r \in Requests, Start(r) \/ Crash(r) PROVE UNCHANGED <<stock, ledger>>
  BY <1>3 DEF Start, Crash, BeginCreate, BeginCancel, BeginDelete, BeginReceive, BeginAdjust, BeginEdit,
              Refuse, Begin
<1>4. ASSUME NEW r \in Requests, Continue(r)
      PROVE  \/ UNCHANGED <<stock, ledger>>
             \/ CommitCreate(r) \/ CommitCancel(r) \/ CommitReceive(r)
             \/ CommitAdjust(r) \/ CommitEdit(r)
  BY <1>4 DEF Continue, LockRow, AbortDeadlocked, RejectCreate, RejectAdjust, Rollback,
              ReadOrderProducts, ReadDeliveredProduct, AnnounceAdjust, AnnounceRestock, AnnounceLow
<1> QED
  BY <1>1, <1>2, <1>3, <1>4 DEF Next, Finished, vars

-----------------------------------------------------------------------------
\* A step of one request leaves the session of every other alone, and the rows
\* another one holds.
LEMMA OthersUntouched ==
  ASSUME InductiveInv, NEW r \in Requests, Start(r) \/ Continue(r) \/ Crash(r),
         NEW q \in Requests, q # r
  PROVE  /\ phase'[q] = phase[q] /\ kind'[q] = kind[q] /\ target'[q] = target[q]
         /\ delta'[q] = delta[q] /\ seen'[q] = seen[q]
         /\ \A row \in Rows : owner'[row] = q <=> owner[row] = q
         /\ \A row \in Rows : owner[row] = q => stock'[row] = stock[row]
<1> USE DEF InductiveInv
<1>1. CASE Start(r)
  BY <1>1 DEF Start, BeginCreate, BeginCancel, BeginDelete, BeginReceive, BeginAdjust, BeginEdit,
              Refuse, Begin, Goto, TypeOK
<1>2. CASE LockRow(r)
  <2> PICK row \in Rows : /\ owner[row] = NoOne
                          /\ owner' = [owner EXCEPT ![row] = r]
                          /\ seen' = [seen EXCEPT ![r][row] = IF @ = Unread THEN stock[row] ELSE @]
    BY <1>2, WantedRows DEF LockRow
  <2>1. \A x \in Rows : owner'[x] = q <=> owner[x] = q
    BY InventoryAssumption DEF TypeOK
  <2> QED
    BY <1>2, <2>1 DEF LockRow, TypeOK
<1>3. CASE ReadOrderProducts(r)
  BY <1>3 DEF ReadOrderProducts, Goto, TypeOK
<1>4. CASE ReadDeliveredProduct(r)
  BY <1>4 DEF ReadDeliveredProduct, Goto, TypeOK
<1>5. CASE Rollback(r) \/ Crash(r)
  BY <1>5, InventoryAssumption DEF Rollback, Crash, Release, Goto, session, TypeOK
<1>6. CASE AnnounceAdjust(r) \/ AnnounceRestock(r) \/ AnnounceLow(r)
  BY <1>6 DEF AnnounceAdjust, AnnounceRestock, AnnounceLow, Goto, session, TypeOK
<1>7. CASE CommitCreate(r) \/ CommitCancel(r) \/ CommitReceive(r) \/ CommitAdjust(r) \/ CommitEdit(r)
  <2> PICK k \in AllKinds : Ready(r, k) /\ Write(r)
    BY <1>7 DEF AllKinds, CommitCreate, CommitCancel, CommitReceive, CommitAdjust, CommitEdit
  <2>1. \A row \in Rows : owner[row] = q => stock'[row] = stock[row]
    BY ReadyRows DEF Write
  <2>2. Release(r) /\ UNCHANGED session /\ (Goto(r, "done") \/ Goto(r, "announcing"))
    BY <1>7 DEF CommitCreate, CommitCancel, CommitReceive, CommitAdjust, CommitEdit
  <2> QED
    BY <2>1, <2>2, InventoryAssumption DEF Release, Goto, session, TypeOK
<1> QED
  BY <1>1, <1>2, <1>3, <1>4, <1>5, <1>6, <1>7
  DEF Continue, RejectCreate, RejectAdjust, AbortDeadlocked

\* What a request itself may hold after a step of its own.
LEMMA HeldStep ==
  ASSUME InductiveInv, NEW r \in Requests, Start(r) \/ Continue(r) \/ Crash(r),
         NEW row \in Rows
  PROVE  /\ owner'[row] = r => phase'[r] = "locking" /\ seen'[r][row] # Unread
         /\ row \in SafeRows =>
              /\ owner'[row] = r => seen'[r][row] = stock'[row]
              /\ phase'[r] \in {"idle", "reading", "locking"} /\ owner'[row] # r =>
                   seen'[r][row] = Unread
<1> USE DEF InductiveInv
<1>1. CASE Start(r)
  <2>1. owner[row] # r /\ owner' = owner
    BY <1>1 DEF Start, BeginCreate, BeginCancel, BeginDelete, BeginReceive, BeginAdjust, BeginEdit, Idle,
                Refuse, Begin, HeldRowsAreRead
  <2>2. row \in SafeRows => seen[r][row] = Unread
    BY <1>1, <2>1 DEF Start, BeginCreate, BeginCancel, BeginDelete, BeginReceive, BeginAdjust, BeginEdit, Idle,
                SafeRowsReadUnderLock
  <2>3. CASE BeginEdit(r)
    <3>1. row \notin SafeRows
      BY <2>3 DEF BeginEdit, Idle, SafeRows, ReadsUnlocked
    <3> QED
      BY <2>1, <3>1
  <2>4. CASE ~BeginEdit(r)
    <3>1. seen' = seen
      BY <1>1, <2>4 DEF Start, BeginCreate, BeginCancel, BeginDelete, BeginReceive, BeginAdjust, Refuse
    <3> QED
      BY <2>1, <2>2, <3>1
  <2> QED
    BY <2>3, <2>4
<1>2. CASE LockRow(r)
  <2> PICK x \in Rows : /\ owner[x] = NoOne
                        /\ owner' = [owner EXCEPT ![x] = r]
                        /\ seen' = [seen EXCEPT ![r][x] = IF @ = Unread THEN stock[x] ELSE @]
    BY <1>2, WantedRows DEF LockRow
  <2>1. phase[r] = "locking" /\ phase' = phase /\ stock' = stock
    BY <1>2 DEF LockRow
  <2>2. CASE row = x
    <3>1. owner'[row] = r /\ owner[row] # r
      BY <2>2, InventoryAssumption DEF TypeOK
    <3>2. seen'[r][row] = IF seen[r][row] = Unread THEN stock[row] ELSE seen[r][row]
      BY <2>2 DEF TypeOK
    <3>3. stock[row] # Unread
      BY SeenType DEF Unread
    <3> QED
      BY <2>1, <3>1, <3>2, <3>3 DEF SafeRowsReadUnderLock
  <2>3. CASE row # x
    <3>1. owner'[row] = owner[row] /\ seen'[r][row] = seen[r][row]
      BY <2>3 DEF TypeOK
    <3> QED
      BY <2>1, <3>1 DEF HeldRowsAreRead, SafeRowsReadUnderLock
  <2> QED
    BY <2>2, <2>3
<1>3. CASE ReadOrderProducts(r) \/ ReadDeliveredProduct(r)
  <2>1. kind[r] \in (Cancels \cup {"receive"}) \cap Kinds /\ phase[r] = "reading"
    BY <1>3 DEF ReadOrderProducts, ReadDeliveredProduct, TypeOK
  <2>2. owner[row] # r /\ owner' = owner
    BY <1>3, <2>1 DEF ReadOrderProducts, ReadDeliveredProduct, HeldRowsAreRead
  <2>3. ASSUME row \in SafeRows PROVE seen'[r][row] = Unread
    <3>1. row \notin Products
      BY <2>1, <2>3 DEF SafeRows, ReadsUnlocked
    <3>2. seen[r][row] = Unread
      BY <2>1, <2>2, <2>3 DEF SafeRowsReadUnderLock
    <3>3. CASE ReadOrderProducts(r)
      BY <3>1, <3>2, <3>3 DEF ReadOrderProducts, TypeOK
    <3>4. CASE ReadDeliveredProduct(r)
      <4>1. Changed(r) \subseteq Products
        <5>1. target[r] \in PurchaseOrders /\ delta[r] = goods[target[r]]
          BY <3>4 DEF ReadDeliveredProduct, PlannedChange
        <5>2. goods[target[r]] \in Deliveries
          BY <5>1 DEF DocumentsInOrder
        <5> QED
          BY <5>1, <5>2, InventoryAssumption DEF Changed, Rows
      <4> PICK p \in Products : seen' = [seen EXCEPT ![r][p] = stock[p]]
        BY <3>4, <4>1 DEF ReadDeliveredProduct
      <4> QED
        BY <3>1, <3>2 DEF TypeOK
    <3> QED
      BY <1>3, <3>3, <3>4
  <2> QED
    BY <2>2, <2>3
<1>4. ASSUME Release(r), phase'[r] \in Ended \cup {"announcing"}
      PROVE  owner'[row] # r /\ phase'[r] \notin {"idle", "reading", "locking"}
  BY <1>4, InventoryAssumption DEF Release, Ended
<1>5. CASE Rollback(r) \/ Crash(r) \/ CommitCreate(r) \/ CommitCancel(r) \/ CommitReceive(r)
           \/ CommitAdjust(r) \/ CommitEdit(r)
  <2>1. Release(r) /\ phase'[r] \in Ended \cup {"announcing"}
    BY <1>5 DEF Rollback, Crash, CommitCreate, CommitCancel, CommitReceive, CommitAdjust,
                CommitEdit, Goto, TypeOK, Ended
  <2> QED
    BY <1>4, <2>1
<1>6. CASE AnnounceAdjust(r) \/ AnnounceRestock(r) \/ AnnounceLow(r)
  <2>1. owner[row] # r /\ owner' = owner
    BY <1>6 DEF AnnounceAdjust, AnnounceRestock, AnnounceLow, HeldRowsAreRead
  <2>2. phase'[r] \in {"done", "warning"}
    BY <1>6 DEF AnnounceAdjust, AnnounceRestock, AnnounceLow, Goto, TypeOK
  <2> QED
    BY <2>1, <2>2
<1> QED
  BY <1>1, <1>2, <1>3, <1>5, <1>6 DEF Continue, RejectCreate, RejectAdjust, AbortDeadlocked

LEMMA LockStep == InductiveInv /\ [Next]_vars => HeldRowsAreRead' /\ SafeRowsReadUnderLock'
<1> SUFFICES ASSUME InductiveInv, [Next]_vars
             PROVE  HeldRowsAreRead' /\ SafeRowsReadUnderLock'
  OBVIOUS
<1>1. CASE UNCHANGED vars
  BY <1>1 DEF vars, InductiveInv, HeldRowsAreRead, SafeRowsReadUnderLock
<1>2. ASSUME NEW r \in Requests, Start(r) \/ Continue(r) \/ Crash(r)
      PROVE  HeldRowsAreRead' /\ SafeRowsReadUnderLock'
  <2> SUFFICES ASSUME NEW q \in Requests, NEW row \in Rows
        PROVE  /\ owner'[row] = q => phase'[q] = "locking" /\ seen'[q][row] # Unread
               /\ row \in SafeRows =>
                    /\ owner'[row] = q => seen'[q][row] = stock'[row]
                    /\ phase'[q] \in {"idle", "reading", "locking"} /\ owner'[row] # q =>
                         seen'[q][row] = Unread
    BY DEF HeldRowsAreRead, SafeRowsReadUnderLock, SafeRows
  <2>1. CASE q = r
    BY <1>2, <2>1, HeldStep
  <2>2. CASE q # r
    BY <1>2, <2>2, OthersUntouched DEF InductiveInv, HeldRowsAreRead, SafeRowsReadUnderLock
  <2> QED
    BY <2>1, <2>2
<1> QED
  BY <1>1, <1>2 DEF Next, Finished

-----------------------------------------------------------------------------
\* What a step of one request does to the documents: the units of a document
\* that exists are settled, and only its own request brings an order to life.
LEMMA DocumentStep ==
  ASSUME InductiveInv, NEW r \in Requests, Start(r) \/ Continue(r) \/ Crash(r)
  PROVE  /\ \A d \in Documents : status[d] # "none" => status'[d] # "none"
         /\ \A q \in Requests \ {r} : status[q] = "none" => status'[q] = "none"
         /\ \A d \in Documents \ {r} : goods'[d] = goods[d]
         /\ status[r] # "none" => goods'[r] = goods[r]
         /\ DocumentsInOrder'
<1> USE DEF InductiveInv
<1>1. r \in Orders /\ r \in Documents /\ r \notin PurchaseOrders
  BY InventoryAssumption DEF Orders, Documents
<1>2. CASE UNCHANGED <<status, goods>> /\ phase'[r] # "idle"
  <2>1. \A q \in Requests : phase'[q] = "idle" => status'[q] = "none"
    BY <1>2, OthersUntouched DEF DocumentsInOrder
  <2> QED
    BY <1>2, <2>1 DEF DocumentsInOrder
<1>3. CASE BeginCreate(r)
  <2>1. status[r] = "none" /\ UNCHANGED status /\ phase'[r] # "idle"
    BY <1>3 DEF BeginCreate, Idle, DocumentsInOrder, Begin, Goto, TypeOK
  <2>2. \A d \in Documents \ {r} : goods'[d] = goods[d]
    BY <1>3 DEF BeginCreate, TypeOK
  <2>3. \A q \in Requests : phase'[q] = "idle" => status'[q] = "none"
    BY <2>1, OthersUntouched DEF DocumentsInOrder
  <2> QED
    BY <1>1, <2>1, <2>2, <2>3 DEF DocumentsInOrder, Documents
<1>4. ASSUME NEW d \in Documents, NEW s \in {"open", "cancelled", "received"},
             status' = [status EXCEPT ![d] = s], UNCHANGED goods,
             phase'[r] # "idle",
             d = r \/ status[d] # "none" \/ d \in PurchaseOrders,
             d \in PurchaseOrders <=> s = "received"
      PROVE  /\ \A x \in Documents : status[x] # "none" => status'[x] # "none"
             /\ \A q \in Requests \ {r} : status[q] = "none" => status'[q] = "none"
             /\ \A x \in Documents \ {r} : goods'[x] = goods[x]
             /\ status[r] # "none" => goods'[r] = goods[r]
             /\ DocumentsInOrder'
  <2>1. \A x \in Documents : status'[x] = IF x = d THEN s ELSE status[x]
    BY <1>4 DEF TypeOK
  <2>2. \A q \in Requests \ {r} : status[q] = "none" => status'[q] = "none"
    BY <1>4, <2>1, InventoryAssumption DEF Documents, Orders
  <2>3. \A q \in Requests : phase'[q] = "idle" => status'[q] = "none"
    BY <1>4, <2>2, OthersUntouched DEF DocumentsInOrder
  <2>4. \A o \in Orders : status'[o] \in {"none", "open", "cancelled"}
    BY <1>4, <2>1, InventoryAssumption DEF DocumentsInOrder, Documents
  <2> QED
    BY <1>4, <2>1, <2>2, <2>3, <2>4 DEF DocumentsInOrder
<1>5. CASE CommitCreate(r)
  <2>1. status' = [status EXCEPT ![r] = "open"] /\ UNCHANGED goods /\ phase'[r] # "idle"
    BY <1>5 DEF CommitCreate, Goto, TypeOK
  <2> QED
    BY <1>1, <1>4, <2>1
<1>6. CASE CommitCancel(r)
  <2>1. /\ status' = [status EXCEPT ![target[r]] = "cancelled"] /\ UNCHANGED goods
        /\ phase'[r] # "idle"
    BY <1>6 DEF CommitCancel, Goto, TypeOK
  <2>2. target[r] \in Orders /\ status[target[r]] # "none"
    BY <1>6 DEF CommitCancel, Ready, PlannedChange
  <2> QED
    BY <1>4, <2>1, <2>2, InventoryAssumption DEF Documents
<1>7. CASE CommitReceive(r)
  <2>1. /\ status' = [status EXCEPT ![target[r]] = "received"] /\ UNCHANGED goods
        /\ phase'[r] # "idle"
    BY <1>7 DEF CommitReceive, Goto, TypeOK
  <2>2. target[r] \in PurchaseOrders
    BY <1>7 DEF CommitReceive, Ready, PlannedChange
  <2> QED
    BY <1>4, <2>1, <2>2 DEF Documents
<1>8. CASE \/ BeginCancel(r) \/ BeginDelete(r) \/ BeginReceive(r) \/ BeginAdjust(r) \/ BeginEdit(r)
           \/ ReadOrderProducts(r) \/ ReadDeliveredProduct(r) \/ Crash(r) \/ Rollback(r)
           \/ CommitAdjust(r) \/ CommitEdit(r)
           \/ AnnounceAdjust(r) \/ AnnounceRestock(r) \/ AnnounceLow(r)
  <2>1. UNCHANGED <<status, goods>>
    BY <1>8 DEF BeginCancel, BeginDelete, BeginReceive, BeginAdjust, BeginEdit, Refuse, ReadOrderProducts,
                ReadDeliveredProduct, Crash, Rollback, CommitAdjust, CommitEdit,
                AnnounceAdjust, AnnounceRestock, AnnounceLow, documents
  <2>2. phase'[r] # "idle"
    BY <1>8 DEF BeginCancel, BeginDelete, BeginReceive, BeginAdjust, BeginEdit, Refuse, Begin,
                ReadOrderProducts, ReadDeliveredProduct, Crash, Rollback, CommitAdjust, CommitEdit,
                AnnounceAdjust, AnnounceRestock, AnnounceLow, Goto, TypeOK
  <2> QED
    BY <1>2, <2>1, <2>2
<1>9. CASE LockRow(r)
  BY <1>2, <1>9 DEF LockRow, documents
<1> QED
  BY <1>3, <1>5, <1>6, <1>7, <1>8, <1>9
  DEF Start, Continue, RejectCreate, RejectAdjust, AbortDeadlocked

\* What one request plans to write, as PlannedChange and StockRequestsNameRows
\* say it of every request.
Planned(q) ==
  /\ phase[q] \in {"reading", "locking"} =>
       /\ kind[q] = "create" => /\ delta[q] = [row \in Rows |-> -goods[q][row]]
                                /\ target[q] = q /\ status[q] = "none"
       /\ kind[q] \in Cancels => /\ delta[q] = goods[target[q]]
                                  /\ target[q] \in Orders /\ status[target[q]] # "none"
       /\ kind[q] = "receive" => /\ delta[q] = goods[target[q]]
                                 /\ target[q] \in PurchaseOrders
       /\ kind[q] \in {"adjust", "edit"} =>
            \A row \in Rows : delta[q][row] # 0 => row = target[q]
       /\ kind[q] = "edit" => \A row \in Rows :
            delta[q][row] # 0 => seen[q][row] \in Nat /\ seen[q][row] + delta[q][row] >= 0
  /\ kind[q] \in {"adjust", "edit"} => target[q] \in Rows

\* A step keeps the plans of the other requests.
LEMMA OthersPlans ==
  ASSUME InductiveInv, NEW r \in Requests, Start(r) \/ Continue(r) \/ Crash(r),
         NEW q \in Requests, q # r
  PROVE  Planned(q)'
<1>1. /\ phase'[q] = phase[q] /\ kind'[q] = kind[q] /\ target'[q] = target[q]
      /\ delta'[q] = delta[q] /\ seen'[q] = seen[q]
  BY OthersUntouched
<1>2. Planned(q)
  BY DEF InductiveInv, PlannedChange, StockRequestsNameRows, Planned
<1>3. CASE phase[q] \in {"reading", "locking"} /\ kind[q] = "create"
  <2>1. goods'[q] = goods[q] /\ status'[q] = "none"
    BY <1>2, <1>3, DocumentStep DEF Planned, Documents, Orders
  <2> QED
    BY <1>1, <1>2, <1>3, <2>1 DEF Planned
<1>4. CASE phase[q] \in {"reading", "locking"} /\ kind[q] \in Cancels
  <2>1. target[q] \in Documents /\ status[target[q]] # "none"
    BY <1>2, <1>4 DEF Planned, Documents
  <2>2. goods'[target[q]] = goods[target[q]] /\ status'[target[q]] # "none"
    BY <2>1, DocumentStep
  <2> QED
    BY <1>1, <1>2, <1>4, <2>2 DEF Planned
<1>5. CASE phase[q] \in {"reading", "locking"} /\ kind[q] = "receive"
  <2>1. target[q] \in Documents \ {r}
    BY <1>2, <1>5, InventoryAssumption DEF Planned, Documents, Orders
  <2>2. goods'[target[q]] = goods[target[q]]
    BY <2>1, DocumentStep
  <2> QED
    BY <1>1, <1>2, <1>5, <2>2 DEF Planned
<1>6. CASE phase[q] \notin {"reading", "locking"} \/ kind[q] \notin Cancels \cup {"create", "receive"}
  BY <1>1, <1>2, <1>6 DEF Planned
<1> QED
  BY <1>3, <1>4, <1>5, <1>6

\* A request that begins plans what its document, or the user, says; one that
\* reads or locks keeps its plan; one that ends has none.
LEMMA OwnPlan ==
  ASSUME InductiveInv, NEW r \in Requests, Start(r) \/ Continue(r) \/ Crash(r)
  PROVE  Planned(r)'
<1> USE DEF InductiveInv
<1>1. Planned(r)
  BY DEF PlannedChange, StockRequestsNameRows, Planned
<1>2. r \in Documents /\ r \in Orders
  BY DEF Documents, Orders
<1>3. ASSUME phase'[r] \notin {"reading", "locking"}, kind'[r] = kind[r], target'[r] = target[r]
      PROVE  Planned(r)'
  BY <1>1, <1>3 DEF Planned
<1>4. CASE BeginCreate(r)
  <2> PICK b \in Baskets : /\ Begin(r, "create", r, [row \in Rows |-> -b[row]], "locking")
                           /\ goods' = [goods EXCEPT ![r] = b]
    BY <1>4 DEF BeginCreate
  <2>1. /\ kind'[r] = "create" /\ target'[r] = r /\ goods'[r] = b
        /\ delta'[r] = [row \in Rows |-> -b[row]]
    BY <1>2 DEF Begin, TypeOK
  <2>2. status'[r] = "none"
    BY <1>4 DEF BeginCreate, Idle, DocumentsInOrder
  <2> QED
    BY <2>1, <2>2 DEF Planned
<1>5. CASE BeginCancel(r) \/ BeginDelete(r)
  <2> PICK o \in Orders, k \in Cancels :
        \/ status[o] \in {"open", "cancelled"} /\ Begin(r, k, o, goods[o], "reading")
        \/ Begin(r, k, o, NoUnits, "failed")
    BY <1>5 DEF BeginCancel, BeginDelete, Refuse
  <2>1. UNCHANGED documents
    BY <1>5 DEF BeginCancel, BeginDelete, Refuse
  <2> QED
    BY <2>1 DEF Begin, Goto, TypeOK, documents, Planned
<1>6. CASE BeginReceive(r)
  <2> PICK d \in PurchaseOrders :
        \/ Begin(r, "receive", d, goods[d], "reading")
        \/ Begin(r, "receive", d, NoUnits, "failed")
    BY <1>6 DEF BeginReceive, Refuse
  <2>1. UNCHANGED documents
    BY <1>6 DEF BeginReceive, Refuse
  <2> QED
    BY <2>1 DEF Begin, Goto, TypeOK, documents, Planned
<1>7. CASE BeginAdjust(r)
  <2> PICK p \in Products, n \in Adjustments :
        Begin(r, "adjust", p, [NoUnits EXCEPT ![p] = n], "locking")
    BY <1>7 DEF BeginAdjust
  <2>1. kind'[r] = "adjust" /\ target'[r] = p /\ delta'[r] = [NoUnits EXCEPT ![p] = n]
    BY DEF Begin, TypeOK
  <2>2. \A row \in Rows : delta'[r][row] # 0 => row = p
    BY <2>1 DEF NoUnits
  <2> QED
    BY <2>1, <2>2 DEF Planned, Rows
<1>8. CASE BeginEdit(r)
  <2> PICK x \in Rows, n \in Edits :
        /\ Begin(r, "edit", x, [NoUnits EXCEPT ![x] = n - stock[x]], "locking")
        /\ seen' = [seen EXCEPT ![r][x] = stock[x]]
    BY <1>8 DEF BeginEdit
  <2>1. kind'[r] = "edit" /\ target'[r] = x /\ delta'[r] = [NoUnits EXCEPT ![x] = n - stock[x]]
    BY DEF Begin, TypeOK
  <2>2. seen'[r][x] = stock[x] /\ stock[x] \in Nat /\ n \in Nat
    BY SeenType, InventoryAssumption DEF TypeOK
  <2>3. ASSUME NEW row \in Rows, delta'[r][row] # 0
        PROVE  row = target'[r] /\ seen'[r][row] \in Nat /\ seen'[r][row] + delta'[r][row] >= 0
    <3>1. row = x /\ delta'[r][row] = n - stock[x]
      BY <2>1, <2>3 DEF NoUnits
    <3> QED
      BY <2>1, <2>2, <3>1
  <2> QED
    BY <2>1, <2>3 DEF Planned
<1>9. CASE LockRow(r) \/ ReadOrderProducts(r) \/ ReadDeliveredProduct(r)
  <2>1. /\ UNCHANGED <<documents, kind, target, delta>>
        /\ phase[r] \in {"reading", "locking"} /\ phase'[r] \in {"reading", "locking"}
    BY <1>9 DEF LockRow, ReadOrderProducts, ReadDeliveredProduct, Goto, TypeOK
  <2>2. CASE kind[r] = "edit"
    <3>1. LockRow(r)
      BY <1>9, <2>2 DEF ReadOrderProducts, ReadDeliveredProduct
    <3> PICK x \in Rows : seen' = [seen EXCEPT ![r][x] = IF @ = Unread THEN stock[x] ELSE @]
      BY <3>1, WantedRows DEF LockRow
    <3>2. \A row \in Rows : seen[r][row] \in Nat => seen'[r][row] = seen[r][row]
      BY DEF TypeOK, Unread
    <3> QED
      BY <1>1, <2>1, <2>2, <3>2 DEF Planned
  <2>3. CASE kind[r] # "edit"
    BY <1>1, <2>1, <2>3 DEF Planned, documents
  <2> QED
    BY <2>2, <2>3
<1>10. CASE Rollback(r) \/ Crash(r)
  BY <1>3, <1>10 DEF Rollback, Crash, session, Goto, TypeOK, Ended
<1>11. CASE \/ CommitCreate(r) \/ CommitCancel(r) \/ CommitReceive(r)
            \/ CommitAdjust(r) \/ CommitEdit(r)
            \/ AnnounceAdjust(r) \/ AnnounceRestock(r) \/ AnnounceLow(r)
  <2>1. UNCHANGED session /\ (Goto(r, "done") \/ Goto(r, "announcing") \/ Goto(r, "warning"))
    BY <1>11 DEF CommitCreate, CommitCancel, CommitReceive, CommitAdjust, CommitEdit,
                 AnnounceAdjust, AnnounceRestock, AnnounceLow
  <2> QED
    BY <1>3, <2>1 DEF session, Goto, TypeOK
<1> QED
  BY <1>4, <1>5, <1>6, <1>7, <1>8, <1>9, <1>10, <1>11
  DEF Start, Continue, RejectCreate, RejectAdjust, AbortDeadlocked

LEMMA PlanStep ==
  InductiveInv /\ [Next]_vars => PlannedChange' /\ StockRequestsNameRows' /\ DocumentsInOrder'
<1> SUFFICES ASSUME InductiveInv, [Next]_vars
             PROVE  PlannedChange' /\ StockRequestsNameRows' /\ DocumentsInOrder'
  OBVIOUS
<1>1. CASE UNCHANGED vars
  BY <1>1 DEF vars, InductiveInv, PlannedChange, StockRequestsNameRows, DocumentsInOrder
<1>2. ASSUME NEW r \in Requests, Start(r) \/ Continue(r) \/ Crash(r)
      PROVE  PlannedChange' /\ StockRequestsNameRows' /\ DocumentsInOrder'
  <2>1. \A q \in Requests : Planned(q)'
    BY <1>2, OwnPlan, OthersPlans
  <2>2. DocumentsInOrder'
    BY <1>2, DocumentStep
  <2> QED
    BY <2>1, <2>2 DEF Planned, PlannedChange, StockRequestsNameRows
<1> QED
  BY <1>1, <1>2 DEF Next, Finished

LEMMA InductiveStep == InductiveInv /\ [Next]_vars => InductiveInv'
BY TypeStep, StockStep, LockStep, PlanStep DEF InductiveInv

THEOREM Invariance == Spec => []InductiveInv
BY InitInductive, InductiveStep, PTL DEF Spec

\* Every variable keeps its type, and a row has at most one holder: the request
\* whose SELECT ... FOR UPDATE or UPDATE took it.
THEOREM Typing == Spec => []TypeOK
BY Invariance, PTL DEF InductiveInv

\* No request, however many run at once and wherever they die, drives the stock
\* of a product or a variant below zero.
THEOREM NoOverselling == Spec => []StockNonNegative
BY Invariance, PTL DEF InductiveInv

\* The stock of every row that all the operations lock before they read it is
\* its initial stock plus its inventory movements: no update is lost.
THEOREM NoLostUpdate == Spec => []SafeRowsFollowLedger
BY Invariance, PTL DEF InductiveInv

-----------------------------------------------------------------------------
(***************************************************************************)
(* Refinement: on the rows read under their lock, the requests behave as   *)
(* AtomicInventory says.                                                   *)
(***************************************************************************)
LEMMA SafeRowsAreRows == SafeRows \subseteq Rows
BY DEF SafeRows

\* A receipt writes product rows and an edit any row; neither is safe then.
LEMMA UnsafeWrite ==
  ASSUME InductiveInv, NEW r \in Requests, NEW k \in {"receive", "edit"}, Ready(r, k),
         NEW row \in SafeRows
  PROVE  delta[r][row] = 0
<1> USE DEF InductiveInv
<1>1. k \in Kinds /\ row \in Rows /\ kind[r] = k
  BY SafeRowsAreRows DEF Ready, TypeOK
<1>2. CASE k = "edit"
  BY <1>1, <1>2 DEF SafeRows, ReadsUnlocked
<1>3. CASE k = "receive"
  <2>1. row \in Variants
    BY <1>1, <1>3 DEF SafeRows, ReadsUnlocked, Rows
  <2>2. target[r] \in PurchaseOrders /\ delta[r] = goods[target[r]]
    BY <1>1, <1>3 DEF Ready, PlannedChange
  <2>3. goods[target[r]] \in Deliveries
    BY <2>2 DEF DocumentsInOrder
  <2> QED
    BY <2>1, <2>2, <2>3, InventoryAssumption
<1> QED
  BY <1>2, <1>3

\* A step that leaves the safe rows, the orders and their units alone.
LEMMA StutterStep ==
  ASSUME \A row \in SafeRows : stock'[row] = stock[row] /\ ledger'[row] = ledger[row],
         \A o \in Orders : status'[o] = status[o] /\ goods'[o] = goods[o]
  PROVE  UNCHANGED Atomic!abstractVars
BY DEF Atomic!abstractVars

LEMMA PlaceStep ==
  ASSUME InductiveInv, NEW r \in Requests, CommitCreate(r)
  PROVE  Atomic!Place(r)
<1> USE DEF InductiveInv
<1>1. /\ Ready(r, "create") /\ Write(r) /\ Sufficient(r) /\ UNCHANGED goods
      /\ status' = [status EXCEPT ![r] = "open"]
  BY DEF CommitCreate
<1>2. delta[r] = [row \in Rows |-> -goods[r][row]] /\ status[r] = "none"
  BY <1>1 DEF Ready, PlannedChange
<1>3. r \in Orders /\ Orders \subseteq Documents
  BY DEF Orders, Documents
<1>4. ASSUME NEW row \in SafeRows
      PROVE  /\ stock'[row] = stock[row] - goods[r][row]
             /\ ledger'[row] = ledger[row] - goods[r][row]
             /\ goods[r][row] <= stock[row]
  <2>1. row \in Rows /\ goods[r][row] \in Int /\ stock[row] \in Nat /\ ledger[row] \in Int
    BY <1>3, SafeRowsAreRows, GoodsType, SeenType DEF TypeOK
  <2>2. stock'[row] = stock[row] + delta[r][row] /\ ledger'[row] = ledger[row] + delta[r][row]
    BY <1>1, SafeWrite
  <2>3. delta[r][row] = -goods[r][row]
    BY <1>2, <2>1
  <2>4. goods[r][row] <= stock[row]
    <3>1. CASE delta[r][row] = 0
      BY <2>1, <2>3, <3>1
    <3>2. CASE delta[r][row] # 0
      <4>1. seen[r][row] = stock[row]
        BY <1>1, <2>1, <3>2, ReadyRows
      <4>2. seen[r][row] + delta[r][row] >= 0
        BY <1>1, <2>1, <3>2 DEF Sufficient, Changed
      <4> QED
        BY <2>1, <2>3, <4>1, <4>2
    <3> QED
      BY <3>1, <3>2
  <2> QED
    BY <2>1, <2>2, <2>3, <2>4
<1>5. \A o \in Orders : status'[o] = IF o = r THEN "open" ELSE status[o]
  BY <1>1, <1>3 DEF TypeOK
<1> QED
  BY <1>1, <1>2, <1>3, <1>4, <1>5 DEF Atomic!Place

LEMMA ReturnStep ==
  ASSUME InductiveInv, NEW r \in Requests, CommitCancel(r)
  PROVE  \E o \in Orders : Atomic!Return(o)
<1> USE DEF InductiveInv
<1> PICK k \in Cancels : Ready(r, k)
  BY DEF CommitCancel
<1>1. /\ Write(r) /\ UNCHANGED goods
      /\ status' = [status EXCEPT ![target[r]] = "cancelled"]
  BY DEF CommitCancel
<1>2. delta[r] = goods[target[r]] /\ target[r] \in Orders /\ status[target[r]] # "none"
  BY DEF Ready, PlannedChange
<1> PICK o \in Orders : o = target[r]
  BY <1>2
<1>3. Orders \subseteq Documents
  BY DEF Documents
<1>4. \A row \in SafeRows : /\ stock'[row] = stock[row] + goods[o][row]
                            /\ ledger'[row] = ledger[row] + goods[o][row]
  BY <1>1, <1>2, SafeWrite
<1>5. \A x \in Orders : status'[x] = IF x = o THEN "cancelled" ELSE status[x]
  BY <1>1, <1>3 DEF TypeOK
<1>6. status[o] \in {"open", "cancelled"}
  BY <1>2 DEF DocumentsInOrder
<1>7. Atomic!Return(o)
  BY <1>1, <1>4, <1>5, <1>6 DEF Atomic!Return
<1> QED
  BY <1>7

LEMMA AdjustStep ==
  ASSUME InductiveInv, NEW r \in Requests, CommitAdjust(r)
  PROVE  Atomic!Adjust
<1> USE DEF InductiveInv
<1>1. Ready(r, "adjust") /\ Write(r) /\ Sufficient(r) /\ UNCHANGED <<status, goods>>
  BY DEF CommitAdjust, documents
<1>2. \A row \in Rows : delta[r][row] # 0 => row = target[r]
  BY <1>1 DEF Ready, PlannedChange
<1>3. \A row \in SafeRows : stock'[row] >= 0
  BY <1>1, NonNegativeWrite, SafeRowsAreRows DEF StockNonNegative
<1>4. ASSUME NEW row \in SafeRows
      PROVE  /\ ledger'[row] - ledger[row] = stock'[row] - stock[row]
             /\ stock'[row] # stock[row] => row = target[r]
  <2>1. stock[row] \in Int /\ ledger[row] \in Int /\ delta[r][row] \in Int /\ row \in Rows
    BY SafeRowsAreRows DEF TypeOK
  <2>2. stock'[row] = stock[row] + delta[r][row] /\ ledger'[row] = ledger[row] + delta[r][row]
    BY <1>1, SafeWrite
  <2> QED
    BY <1>2, <2>1, <2>2
<1> QED
  BY <1>1, <1>3, <1>4 DEF Atomic!Adjust

LEMMA ChooseStep ==
  ASSUME InductiveInv, NEW r \in Requests, BeginCreate(r)
  PROVE  Atomic!Choose(r)
<1>1. r \in Orders /\ Orders \subseteq Documents
  BY DEF Orders, Documents
<1>2. status[r] = "none"
  BY DEF BeginCreate, Idle, InductiveInv, DocumentsInOrder
<1>3. UNCHANGED <<stock, ledger, status>> /\ \A o \in Orders \ {r} : goods'[o] = goods[o]
  BY <1>1 DEF BeginCreate, Begin, InductiveInv, TypeOK
<1> QED
  BY <1>1, <1>2, <1>3 DEF Atomic!Choose

LEMMA RefinedInit == Init => Atomic!Init
<1> SUFFICES ASSUME Init PROVE Atomic!Init
  OBVIOUS
<1>1. \A o \in Orders : status[o] \in {"none", "open"}
  BY InventoryAssumption DEF Init, Documents
<1> QED
  BY <1>1, SafeRowsAreRows DEF Init, Atomic!Init

LEMMA RefinedStep == InductiveInv /\ [Next]_vars => [Atomic!Next]_(Atomic!abstractVars)
<1> SUFFICES ASSUME InductiveInv, [Next]_vars
             PROVE  Atomic!Next \/ UNCHANGED Atomic!abstractVars
  OBVIOUS
<1> USE DEF InductiveInv
<1>1. CASE UNCHANGED <<stock, ledger, status, goods>>
  BY <1>1, StutterStep
<1>2. ASSUME NEW r \in Requests, BeginCreate(r) PROVE Atomic!Next
  BY <1>2, ChooseStep DEF Atomic!Next, Orders
<1>3. ASSUME NEW r \in Requests, CommitCreate(r) PROVE Atomic!Next
  BY <1>3, PlaceStep DEF Atomic!Next, Orders
<1>4. ASSUME NEW r \in Requests, CommitCancel(r) PROVE Atomic!Next
  BY <1>4, ReturnStep DEF Atomic!Next
<1>5. ASSUME NEW r \in Requests, CommitAdjust(r) PROVE Atomic!Next
  BY <1>5, AdjustStep DEF Atomic!Next
<1>6. ASSUME NEW r \in Requests, CommitReceive(r) \/ CommitEdit(r)
      PROVE  UNCHANGED Atomic!abstractVars
  <2> PICK k \in {"receive", "edit"} : Ready(r, k) /\ Write(r)
    BY <1>6 DEF CommitReceive, CommitEdit
  <2>1. ASSUME NEW row \in SafeRows
        PROVE  stock'[row] = stock[row] /\ ledger'[row] = ledger[row]
    <3>1. delta[r][row] = 0 /\ row \in Rows
      BY UnsafeWrite, SafeRowsAreRows
    <3> QED
      BY <3>1 DEF Write, TypeOK
  <2>2. ASSUME NEW o \in Orders PROVE status'[o] = status[o] /\ goods'[o] = goods[o]
    <3>1. CASE CommitReceive(r)
      <4>1. target[r] \in PurchaseOrders
        BY <3>1 DEF CommitReceive, Ready, PlannedChange
      <4>2. o # target[r] /\ o \in Documents
        BY <4>1, InventoryAssumption DEF Documents
      <4> QED
        BY <3>1, <4>2 DEF CommitReceive, TypeOK
    <3>2. CASE CommitEdit(r)
      BY <3>2 DEF CommitEdit, documents
    <3> QED
      BY <1>6, <3>1, <3>2
  <2> QED
    BY <2>1, <2>2, StutterStep
<1>7. ASSUME NEW r \in Requests, Start(r) \/ Continue(r) \/ Crash(r)
      PROVE  \/ UNCHANGED <<stock, ledger, status, goods>>
             \/ BeginCreate(r) \/ CommitCreate(r) \/ CommitCancel(r) \/ CommitReceive(r)
             \/ CommitAdjust(r) \/ CommitEdit(r)
  BY <1>7 DEF Start, Continue, Crash, BeginCancel, BeginDelete, BeginReceive, BeginAdjust, BeginEdit, Refuse,
              Begin, LockRow, AbortDeadlocked, RejectCreate, RejectAdjust, Rollback,
              ReadOrderProducts, ReadDeliveredProduct, AnnounceAdjust, AnnounceRestock,
              AnnounceLow, documents
<1> QED
  BY <1>1, <1>2, <1>3, <1>4, <1>5, <1>6, <1>7 DEF Next, Finished, vars

\* Sales, cancellations and adjustments of the rows that every operation locks
\* before reading are atomic: the concurrent, crashing, deadlocking requests
\* implement AtomicInventory there.
THEOREM Refinement == Spec => ImplementsAtomicInventory
BY RefinedInit, RefinedStep, Invariance, PTL DEF Spec, ImplementsAtomicInventory, Atomic!Spec

-----------------------------------------------------------------------------
(***************************************************************************)
(* The outbox: what it says about orders and about low stock.              *)
(***************************************************************************)
\* Events of different types are different.
LEMMA EventFields ==
  ASSUME NEW t, NEW a
  PROVE  Event(t, a).type = t /\ Event(t, a).about = a
BY DEF Event

LEMMA InitEvents == Init => OrderEventsMatchOrders
<1> SUFFICES ASSUME Init, NEW o \in Requests PROVE outbox = {} /\ status[o] = "none"
  BY DEF OrderEventsMatchOrders
<1>1. o \in Documents /\ o \notin PriorOrders /\ o \notin PurchaseOrders
  BY InventoryAssumption DEF Documents, Orders
<1> QED
  BY <1>1 DEF Init

\* An order event reaches the outbox with the commit that it tells of, and an
\* order changes its status in no other step.
LEMMA EventStep ==
  ASSUME InductiveInv, OrderEventsMatchOrders, [Next]_vars
  PROVE  OrderEventsMatchOrders'
<1> DEFINE Told(o) == /\ Event("order.created", o) \in outbox' <=> status'[o] # "none"
                      /\ Event("order.cancelled", o) \in outbox' <=> status'[o] = "cancelled"
           AsBefore == /\ status' = status
                       /\ \A e \in outbox' \ outbox : e.type \notin {"order.created", "order.cancelled"}
                       /\ outbox \subseteq outbox'
<1> USE DEF InductiveInv
<1>1. AsBefore => OrderEventsMatchOrders'
  BY EventFields DEF OrderEventsMatchOrders
<1>2. CASE UNCHANGED vars
  BY <1>1, <1>2 DEF vars
<1>3. ASSUME NEW r \in Requests, Start(r) \/ Crash(r) PROVE AsBefore
  BY <1>3 DEF Start, Crash, BeginCreate, BeginCancel, BeginDelete, BeginReceive, BeginAdjust, BeginEdit,
              Refuse, Begin, documents
<1>4. ASSUME NEW r \in Requests, Continue(r)
      PROVE  AsBefore \/ CommitCreate(r) \/ CommitCancel(r) \/ CommitReceive(r)
  <2>1. CASE \/ LockRow(r) \/ AbortDeadlocked(r) \/ RejectCreate(r) \/ RejectAdjust(r)
             \/ ReadOrderProducts(r) \/ ReadDeliveredProduct(r) \/ CommitAdjust(r) \/ CommitEdit(r)
    BY <2>1 DEF LockRow, AbortDeadlocked, RejectCreate, RejectAdjust, Rollback,
                ReadOrderProducts, ReadDeliveredProduct, CommitAdjust, CommitEdit, documents
  <2>2. CASE AnnounceAdjust(r) \/ AnnounceRestock(r) \/ AnnounceLow(r)
    <3>1. \A e \in Restocked(r) \cup RunsLow(r) : e.type \in {"inventory.restocked", "stock.low"}
      BY DEF Restocked, RunsLow, Event
    <3> QED
      BY <2>2, <3>1 DEF AnnounceAdjust, AnnounceRestock, AnnounceLow, documents
  <2> QED
    BY <1>4, <2>1, <2>2 DEF Continue
<1>5. ASSUME NEW r \in Requests, CommitCreate(r) PROVE OrderEventsMatchOrders'
  <2> SUFFICES ASSUME NEW o \in Requests PROVE Told(o)
    BY DEF OrderEventsMatchOrders
  <2>1. /\ r \in Documents /\ status'[r] = "open" /\ status[r] = "none"
        /\ o # r => status'[o] = status[o]
    BY <1>5 DEF CommitCreate, Ready, PlannedChange, TypeOK, Documents, Orders
  <2>2. \A e \in {Event("stock.low", p) : p \in SoldLow(r)} : e.type = "stock.low"
    BY EventFields
  <2>3. /\ Event("order.created", o) \in outbox' <=> Event("order.created", o) \in outbox \/ o = r
        /\ Event("order.cancelled", o) \in outbox' <=> Event("order.cancelled", o) \in outbox
    BY <1>5, <2>2, EventFields DEF CommitCreate
  <2> QED
    BY <2>1, <2>3 DEF OrderEventsMatchOrders
<1>6. ASSUME NEW r \in Requests, CommitCancel(r) PROVE OrderEventsMatchOrders'
  <2> SUFFICES ASSUME NEW o \in Requests PROVE Told(o)
    BY DEF OrderEventsMatchOrders
  <2>1. target[r] \in Orders /\ status[target[r]] # "none"
    BY <1>6 DEF CommitCancel, Ready, PlannedChange
  <2>2. /\ status'[target[r]] = "cancelled"
        /\ o # target[r] => status'[o] = status[o]
    BY <1>6, <2>1 DEF CommitCancel, TypeOK, Documents
  <2>3. /\ Event("order.created", o) \in outbox' <=> Event("order.created", o) \in outbox
        /\ Event("order.cancelled", o) \in outbox'
             <=> Event("order.cancelled", o) \in outbox \/ o = target[r]
    BY <1>6, EventFields DEF CommitCancel
  <2> QED
    BY <2>1, <2>2, <2>3 DEF OrderEventsMatchOrders
<1>7. ASSUME NEW r \in Requests, CommitReceive(r) PROVE OrderEventsMatchOrders'
  <2>1. target[r] \in PurchaseOrders
    BY <1>7 DEF CommitReceive, Ready, PlannedChange
  <2>2. \A o \in Requests : status'[o] = status[o]
    BY <1>7, <2>1, InventoryAssumption DEF CommitReceive, TypeOK, Documents, Orders
  <2> QED
    BY <1>7, <2>2 DEF CommitReceive, OrderEventsMatchOrders
<1> QED
  BY <1>1, <1>2, <1>3, <1>4, <1>5, <1>6, <1>7 DEF Next, Finished

\* The outbox tells of an order exactly what its own transaction committed,
\* whatever other requests, rollbacks and crashes come in between.
THEOREM EventsMatchOrders == Spec => []OrderEventsMatchOrders
<1>1. InductiveInv /\ OrderEventsMatchOrders /\ [Next]_vars => OrderEventsMatchOrders'
  BY EventStep
<1> QED
  BY InitEvents, Invariance, <1>1, PTL DEF Spec

\* The first branch: documents only.  What is at or below the threshold, in the
\* table or in a session that will write from it, has been announced.
LowValuesAnnounced ==
  \A p \in Products : InitialStock[p] > LowThreshold =>
    /\ stock[p] <= LowThreshold => Event("stock.low", p) \in outbox
    /\ \A r \in Requests : seen[r][p] # Unread /\ seen[r][p] <= LowThreshold
                             => Event("stock.low", p) \in outbox

OnlyDocuments == Kinds \cap {"adjust", "edit"} = {}
NothingReturns == ~Crashes /\ Kinds \cap (Cancels \cup {"receive"}) = {}

LEMMA EventsStay ==
  ASSUME [Next]_vars
  PROVE  outbox \subseteq outbox'
BY DEF Next, vars, Finished, Start, Continue, Crash, BeginCreate, BeginCancel, BeginDelete, BeginReceive,
       BeginAdjust, BeginEdit, Refuse, Begin, LockRow, AbortDeadlocked, RejectCreate, RejectAdjust,
       Rollback, ReadOrderProducts, ReadDeliveredProduct, CommitCreate, CommitCancel, CommitReceive,
       CommitAdjust, CommitEdit, AnnounceAdjust, AnnounceRestock, AnnounceLow

\* A value that a session holds was held before or is in the table.
LEMMA ReadsTheTable ==
  ASSUME InductiveInv, NEW r \in Requests, Start(r) \/ Continue(r) \/ Crash(r),
         NEW q \in Requests, NEW row \in Rows
  PROVE  seen'[q][row] = seen[q][row] \/ seen'[q][row] = stock[row]
<1> USE DEF InductiveInv, TypeOK
<1>1. CASE UNCHANGED seen
  BY <1>1
<1>2. CASE BeginEdit(r)
  BY <1>2 DEF BeginEdit
<1>3. CASE LockRow(r)
  BY <1>3, WantedRows DEF LockRow
<1>4. CASE ReadOrderProducts(r)
  BY <1>4 DEF ReadOrderProducts
<1>5. CASE ReadDeliveredProduct(r)
  BY <1>5 DEF ReadDeliveredProduct, Changed
<1>6. \/ UNCHANGED seen \/ BeginEdit(r) \/ LockRow(r)
      \/ ReadOrderProducts(r) \/ ReadDeliveredProduct(r)
  BY DEF Start, Continue, Crash, BeginCreate, BeginCancel, BeginDelete, BeginReceive,
         BeginAdjust, Refuse, AbortDeadlocked, RejectCreate, RejectAdjust, Rollback,
         CommitCreate, CommitCancel, CommitReceive, CommitAdjust, CommitEdit,
         AnnounceAdjust, AnnounceRestock, AnnounceLow, session
<1> QED
  BY <1>1, <1>2, <1>3, <1>4, <1>5, <1>6

\* The stock changes in the commits, and only on the rows that the request
\* has planned to change.
LEMMA StockChanges ==
  ASSUME InductiveInv, NEW r \in Requests, Start(r) \/ Continue(r) \/ Crash(r),
         NEW row \in Rows, stock'[row] # stock[row]
  PROVE  \E k \in AllKinds :
           /\ Ready(r, k) /\ k \in Kinds
           /\ delta[r][row] # 0 /\ stock'[row] = seen[r][row] + delta[r][row]
           /\ \/ k = "create" /\ CommitCreate(r)
              \/ k \in Cancels /\ CommitCancel(r)
              \/ k = "receive" /\ CommitReceive(r)
              \/ k = "adjust" /\ CommitAdjust(r)
              \/ k = "edit" /\ CommitEdit(r)
<1>1. \/ CommitCreate(r) \/ CommitCancel(r) \/ CommitReceive(r)
      \/ CommitAdjust(r) \/ CommitEdit(r) \/ UNCHANGED stock
  BY DEF Start, Continue, Crash, BeginCreate, BeginCancel, BeginDelete, BeginReceive,
         BeginAdjust, BeginEdit, Refuse, Begin, LockRow, AbortDeadlocked, RejectCreate, RejectAdjust,
         Rollback, ReadOrderProducts, ReadDeliveredProduct, AnnounceAdjust, AnnounceRestock, AnnounceLow
<1>2. PICK k \in AllKinds :
           /\ Ready(r, k) /\ Write(r)
           /\ \/ k = "create" /\ CommitCreate(r)
              \/ k \in Cancels /\ CommitCancel(r)
              \/ k = "receive" /\ CommitReceive(r)
              \/ k = "adjust" /\ CommitAdjust(r)
              \/ k = "edit" /\ CommitEdit(r)
  BY <1>1 DEF AllKinds, CommitCreate, CommitCancel, CommitReceive, CommitAdjust, CommitEdit
<1>3. k \in Kinds
  BY <1>2 DEF Ready, InductiveInv, TypeOK, AllKinds
<1>4. delta[r][row] # 0 /\ stock'[row] = seen[r][row] + delta[r][row]
  BY <1>2 DEF Write
<1> QED
  BY <1>2, <1>3, <1>4

LEMMA DocumentsAnnounceStep ==
  ASSUME OnlyDocuments, InductiveInv, LowValuesAnnounced, [Next]_vars
  PROVE  LowValuesAnnounced'
<1>1. CASE UNCHANGED vars
  BY <1>1 DEF vars, LowValuesAnnounced
<1>2. CASE Finished
  BY <1>2 DEF Finished, vars, LowValuesAnnounced
<1>3. ASSUME NEW r \in Requests, Start(r) \/ Continue(r) \/ Crash(r)
      PROVE  LowValuesAnnounced'
  <2> SUFFICES ASSUME NEW p \in Products, InitialStock[p] > LowThreshold
               PROVE  /\ stock'[p] <= LowThreshold => Event("stock.low", p) \in outbox'
                      /\ \A q \in Requests : seen'[q][p] # Unread /\ seen'[q][p] <= LowThreshold
                                               => Event("stock.low", p) \in outbox'
    BY DEF LowValuesAnnounced
  <2>1. p \in Rows /\ outbox \subseteq outbox'
    BY EventsStay DEF Rows
  <2>2. ASSUME NEW q \in Requests, seen'[q][p] # Unread, seen'[q][p] <= LowThreshold
        PROVE  Event("stock.low", p) \in outbox'
    BY <1>3, <2>1, <2>2, ReadsTheTable DEF LowValuesAnnounced
  <2>3. ASSUME stock'[p] <= LowThreshold, stock'[p] # stock[p]
        PROVE  Event("stock.low", p) \in outbox'
    <3> PICK k \in AllKinds :
           /\ Ready(r, k) /\ k \in Kinds
           /\ delta[r][p] # 0 /\ stock'[p] = seen[r][p] + delta[r][p]
           /\ \/ k = "create" /\ CommitCreate(r)
              \/ k \in Cancels /\ CommitCancel(r)
              \/ k = "receive" /\ CommitReceive(r)
              \/ k = "adjust" /\ CommitAdjust(r)
              \/ k = "edit" /\ CommitEdit(r)
      BY <1>3, <2>1, <2>3, StockChanges
    <3>1. CASE k = "create"
      <4>1. p \in SoldLow(r)
        BY <2>1, <2>3 DEF SoldLow, Changed
      <4> QED
        BY <3>1, <4>1 DEF CommitCreate
    <3>2. CASE k \in Cancels \cup {"receive"}
      <4>1. target[r] \in Documents /\ delta[r] = goods[target[r]]
        BY <3>2 DEF Ready, InductiveInv, PlannedChange, Documents
      <4>2. delta[r][p] \in Int /\ delta[r][p] >= 0
        BY <2>1, <4>1, GoodsType DEF InductiveInv
      <4>3. seen[r][p] \in Nat
        BY <2>1, ReadyRows
      <4>4. seen[r][p] # Unread /\ seen[r][p] <= LowThreshold
        BY <2>3, <4>2, <4>3, InventoryAssumption DEF Unread
      <4> QED
        BY <2>1, <4>4 DEF LowValuesAnnounced
    <3>3. k \notin {"adjust", "edit"}
      BY DEF OnlyDocuments
    <3> QED
      BY <3>1, <3>2, <3>3 DEF AllKinds
  <2> QED
    BY <2>1, <2>2, <2>3 DEF LowValuesAnnounced
<1> QED
  BY <1>1, <1>2, <1>3 DEF Next

LEMMA InitAnnounced == Init => LowValuesAnnounced /\ LowStockAnnounced
<1> SUFFICES ASSUME Init, NEW p \in Products, InitialStock[p] > LowThreshold
             PROVE  ~(stock[p] <= LowThreshold) /\ \A r \in Requests : seen[r][p] = Unread
  BY DEF LowValuesAnnounced, LowStockAnnounced
<1>1. p \in Rows
  BY DEF Rows
<1> QED
  BY <1>1, InventoryAssumption DEF Init

\* The second branch: no unit comes back.  The rows that fall are those the
\* request itself announces, at once or in its second transaction.
LEMMA SalesAnnounceStep ==
  ASSUME NothingReturns, InductiveInv, LowStockAnnounced, [Next]_vars
  PROVE  LowStockAnnounced'
<1>1. CASE UNCHANGED vars
  BY <1>1 DEF vars, LowStockAnnounced
<1>2. CASE Finished
  BY <1>2 DEF Finished, vars, LowStockAnnounced
<1>3. ASSUME NEW r \in Requests, Start(r) \/ Continue(r) \/ Crash(r)
      PROVE  LowStockAnnounced'
  <2> DEFINE Due(q, p) == phase[q] \in {"announcing", "warning"} /\ ProductOf(target[q]) = p
  <2> SUFFICES ASSUME NEW p \in Products, InitialStock[p] > LowThreshold, stock'[p] <= LowThreshold
               PROVE  Event("stock.low", p) \in outbox' \/ \E q \in Requests : Due(q, p)'
    BY DEF LowStockAnnounced
  <2>1. p \in Rows /\ outbox \subseteq outbox'
    BY EventsStay DEF Rows
  <2>2. ASSUME NEW q \in Requests, q # r, Due(q, p) PROVE Due(q, p)'
    BY <1>3, <2>2, OthersUntouched DEF ProductOf
  <2>3. CASE stock'[p] = stock[p]
    <3>1. CASE Due(r, p)
      <4>1. AnnounceAdjust(r) \/ AnnounceRestock(r) \/ AnnounceLow(r)
        BY <1>3, <3>1
           DEF NothingReturns, Start, Continue, Crash, BeginCreate, BeginCancel, BeginDelete,
               BeginReceive, BeginAdjust, BeginEdit, Idle, LockRow, AbortDeadlocked, Deadlocked,
               Blocked, RejectCreate, RejectAdjust, ReadOrderProducts, ReadDeliveredProduct, Ready,
               CommitCreate, CommitCancel, CommitReceive, CommitAdjust, CommitEdit
      <4>2. CASE AnnounceRestock(r)
        BY <3>1, <4>2 DEF AnnounceRestock, Goto, session, InductiveInv, TypeOK, ProductOf
      <4>3. CASE AnnounceAdjust(r) \/ AnnounceLow(r)
        <5>1. RunsLow(r) = {Event("stock.low", p)}
          BY <2>3, <3>1 DEF RunsLow
        <5> QED
          BY <4>3, <5>1 DEF AnnounceAdjust, AnnounceLow
      <4> QED
        BY <4>1, <4>2, <4>3
    <3>2. CASE ~Due(r, p)
      BY <2>1, <2>2, <2>3, <3>2 DEF LowStockAnnounced
    <3> QED
      BY <3>1, <3>2
  <2>4. CASE stock'[p] # stock[p]
    <3> PICK k \in AllKinds :
           /\ Ready(r, k) /\ k \in Kinds
           /\ delta[r][p] # 0 /\ stock'[p] = seen[r][p] + delta[r][p]
           /\ \/ k = "create" /\ CommitCreate(r)
              \/ k \in Cancels /\ CommitCancel(r)
              \/ k = "receive" /\ CommitReceive(r)
              \/ k = "adjust" /\ CommitAdjust(r)
              \/ k = "edit" /\ CommitEdit(r)
      BY <1>3, <2>1, <2>4, StockChanges
    <3>1. CASE k = "create"
      <4>1. p \in SoldLow(r)
        BY <2>1 DEF SoldLow, Changed
      <4> QED
        BY <3>1, <4>1 DEF CommitCreate
    <3>2. CASE k \in {"adjust", "edit"}
      <4>1. target[r] = p
        BY <2>1, <3>2 DEF Ready, InductiveInv, PlannedChange
      <4>2. ProductOf(p) = p
        BY InventoryAssumption DEF ProductOf
      <4>3. Goto(r, "announcing") /\ UNCHANGED session
        BY <3>2 DEF CommitAdjust, CommitEdit
      <4>4. Due(r, p)'
        BY <4>1, <4>2, <4>3 DEF Goto, session, InductiveInv, TypeOK, ProductOf
      <4> QED
        BY <4>4
    <3>3. k \notin Cancels \cup {"receive"}
      BY DEF NothingReturns
    <3> QED
      BY <3>1, <3>2, <3>3 DEF AllKinds
  <2> QED
    BY <2>3, <2>4
<1> QED
  BY <1>1, <1>2, <1>3 DEF Next

\* A product that falls to its threshold is announced, or about to be, in two
\* kinds of system: one whose stock is written by orders and purchase orders
\* only, crashes and stale writes included, and one in which nothing is
\* returned or received and no process dies between a commit and its events.
THEOREM LowStockIsAnnounced ==
  OnlyDocuments \/ NothingReturns => (Spec => []LowStockAnnounced)
<1>1. ASSUME OnlyDocuments PROVE Spec => []LowStockAnnounced
  <2>1. InductiveInv /\ LowValuesAnnounced /\ [Next]_vars => LowValuesAnnounced'
    BY <1>1, DocumentsAnnounceStep
  <2>2. LowValuesAnnounced => LowStockAnnounced
    BY DEF LowValuesAnnounced, LowStockAnnounced
  <2> QED
    BY InitAnnounced, Invariance, <2>1, <2>2, PTL DEF Spec
<1>2. ASSUME NothingReturns PROVE Spec => []LowStockAnnounced
  <2>1. InductiveInv /\ LowStockAnnounced /\ [Next]_vars => LowStockAnnounced'
    BY <1>2, SalesAnnounceStep
  <2> QED
    BY InitAnnounced, Invariance, <2>1, PTL DEF Spec
<1> QED
  BY <1>1, <1>2
=============================================================================
