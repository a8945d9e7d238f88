----------------------------- MODULE CheckoutProofs -----------------------------
(***************************************************************************)
(* Theorems about Checkout, for any requests, keys, shoppers and customers *)
(* and any bounds.  One lemma per action says that it preserves the        *)
(* inductive invariant; the theorems follow from its conjuncts.            *)
(***************************************************************************)
EXTENDS Checkout, TLAPS

USE CheckoutAssumption
USE DEF Keyed, Phases, Running, Ended, BeforeOrder, AfterOrder, At, Goto,
        claims, shop, money, client

\* Nothing has been claimed, ordered or charged at the start.
LEMMA InitInductive == Init => InductiveInv
<1> SUFFICES ASSUME Init PROVE InductiveInv
  OBVIOUS
<1> USE DEF Init
<1>1. TypeOK
  BY DEF TypeOK
<1>2. KeyHolderRuns /\ OrderFollowsPhase /\ ResponseIsHoldersOrder
  BY DEF KeyHolderRuns, OrderFollowsPhase, ResponseIsHoldersOrder
<1>3. OrderHasCustomer /\ CustomerAtHand
  BY DEF OrderHasCustomer, CustomerAtHand
<1>4. PaymentsMatchCharges /\ PaymentFollowsPhase
  BY DEF PaymentsMatchCharges, PaymentFollowsPhase
<1>5. OneLiveAttempt
  BY DEF OneLiveAttempt, Live
<1> QED
  BY <1>1, <1>2, <1>3, <1>4, <1>5 DEF InductiveInv

\* The dialog sends an attempt only when no other one is live.
LEMMA SubmitStep ==
  ASSUME InductiveInv, NEW r \in Requests, Submit(r)
  PROVE  InductiveInv'
<1>1. TypeOK'
  BY DEF InductiveInv, TypeOK, Submit, Pending, Confirmed, Attempts
<1>2. KeyHolderRuns'
  BY DEF InductiveInv, TypeOK, KeyHolderRuns, Submit, Pending, Confirmed,
         Attempts
<1>3. OrderFollowsPhase'
  BY DEF InductiveInv, TypeOK, OrderFollowsPhase, Submit, Pending, Confirmed,
         Attempts
<1>4. CustomerAtHand'
  BY DEF InductiveInv, TypeOK, CustomerAtHand, Submit, Pending, Confirmed,
         Attempts
<1>5. PaymentFollowsPhase'
  BY DEF InductiveInv, TypeOK, PaymentFollowsPhase, Submit, Pending, Confirmed,
         Attempts
<1>6. OneLiveAttempt'
  BY DEF InductiveInv, TypeOK, OneLiveAttempt, Live, Submit, Pending,
         Confirmed, Attempts
<1>7. ResponseIsHoldersOrder' /\ OrderHasCustomer' /\ PaymentsMatchCharges'
  BY DEF InductiveInv, ResponseIsHoldersOrder, OrderHasCustomer,
         PaymentsMatchCharges, Submit
<1> QED
  BY <1>1, <1>2, <1>3, <1>4, <1>5, <1>6, <1>7 DEF InductiveInv

\* A lost answer ends the shopper's interest in the attempt.
LEMMA LoseAnswerStep ==
  ASSUME InductiveInv, NEW r \in Requests, LoseAnswer(r)
  PROVE  InductiveInv'
<1>1. TypeOK'
  BY DEF InductiveInv, TypeOK, LoseAnswer, Pending, Attempts
<1>2. OneLiveAttempt'
  BY DEF InductiveInv, TypeOK, OneLiveAttempt, Live, LoseAnswer, Pending,
         Attempts
<1>3. KeyHolderRuns' /\ OrderFollowsPhase' /\ ResponseIsHoldersOrder' /\ OrderHasCustomer' /\ CustomerAtHand' /\ PaymentsMatchCharges' /\ PaymentFollowsPhase'
  BY DEF InductiveInv, KeyHolderRuns, OrderFollowsPhase,
         ResponseIsHoldersOrder, OrderHasCustomer, CustomerAtHand, PaymentsMatchCharges, PaymentFollowsPhase, LoseAnswer
<1> QED
  BY <1>1, <1>2, <1>3 DEF InductiveInv

\* Only a request without a key goes on to the operation at once.
LEMMA CheckLimitStep ==
  ASSUME InductiveInv, NEW r \in Requests, CheckLimit(r)
  PROVE  InductiveInv'
<1>1. TypeOK'
  BY DEF InductiveInv, TypeOK, CheckLimit, Fail, Entry
<1>2. KeyHolderRuns'
  BY DEF InductiveInv, TypeOK, KeyHolderRuns, CheckLimit, Fail, Entry
<1>3. OrderFollowsPhase'
  BY DEF InductiveInv, TypeOK, OrderFollowsPhase, CheckLimit, Fail, Entry
<1>4. CustomerAtHand'
  BY DEF InductiveInv, TypeOK, CustomerAtHand, CheckLimit, Fail, Entry
<1>5. PaymentFollowsPhase'
  BY DEF InductiveInv, TypeOK, PaymentFollowsPhase, CheckLimit, Fail, Entry
<1>6. OneLiveAttempt'
  BY DEF InductiveInv, TypeOK, OneLiveAttempt, Live, CheckLimit, Fail, Entry
<1>7. ResponseIsHoldersOrder' /\ OrderHasCustomer' /\ PaymentsMatchCharges'
  BY DEF InductiveInv, ResponseIsHoldersOrder, OrderHasCustomer,
         PaymentsMatchCharges, CheckLimit, Fail
<1> QED
  BY <1>1, <1>2, <1>3, <1>4, <1>5, <1>6, <1>7 DEF InductiveInv

\* A request with a key stays clear of the operation.
LEMMA LookUpKeyStep ==
  ASSUME InductiveInv, NEW r \in Requests, LookUpKey(r)
  PROVE  InductiveInv'
<1>1. TypeOK'
  BY DEF InductiveInv, TypeOK, LookUpKey
<1>2. KeyHolderRuns'
  BY DEF InductiveInv, TypeOK, KeyHolderRuns, LookUpKey
<1>3. OrderFollowsPhase'
  BY DEF InductiveInv, TypeOK, OrderFollowsPhase, LookUpKey
<1>4. CustomerAtHand'
  BY DEF InductiveInv, TypeOK, CustomerAtHand, LookUpKey
<1>5. PaymentFollowsPhase'
  BY DEF InductiveInv, TypeOK, PaymentFollowsPhase, LookUpKey
<1>6. OneLiveAttempt'
  BY DEF InductiveInv, TypeOK, OneLiveAttempt, Live, LookUpKey
<1>7. ResponseIsHoldersOrder' /\ OrderHasCustomer' /\ PaymentsMatchCharges'
  BY DEF InductiveInv, ResponseIsHoldersOrder, OrderHasCustomer,
         PaymentsMatchCharges, LookUpKey
<1> QED
  BY <1>1, <1>2, <1>3, <1>4, <1>5, <1>6, <1>7 DEF InductiveInv

\* The row of the key is inserted by one request.
LEMMA ClaimKeyStep ==
  ASSUME InductiveInv, NEW r \in Requests, ClaimKey(r)
  PROVE  InductiveInv'
<1>1. TypeOK'
  BY DEF InductiveInv, TypeOK, KeyHolderRuns, ClaimKey, Entry
<1>2. KeyHolderRuns'
  BY DEF InductiveInv, TypeOK, KeyHolderRuns, OrderFollowsPhase, ClaimKey, Entry
<1>3. OrderFollowsPhase'
  BY DEF InductiveInv, TypeOK, OrderFollowsPhase, ClaimKey, Entry
<1>4. ResponseIsHoldersOrder'
  BY DEF InductiveInv, TypeOK, ResponseIsHoldersOrder, KeyHolderRuns, ClaimKey,
         Entry
<1>5. CustomerAtHand'
  BY DEF InductiveInv, TypeOK, CustomerAtHand, ClaimKey, Entry
<1>6. PaymentFollowsPhase'
  BY DEF InductiveInv, TypeOK, PaymentFollowsPhase, ClaimKey, Entry
<1>7. OneLiveAttempt'
  BY DEF InductiveInv, TypeOK, OneLiveAttempt, Live, ClaimKey, Entry
<1>8. OrderHasCustomer' /\ PaymentsMatchCharges'
  BY DEF InductiveInv, OrderHasCustomer, PaymentsMatchCharges, ClaimKey
<1> QED
  BY <1>1, <1>2, <1>3, <1>4, <1>5, <1>6, <1>7, <1>8 DEF InductiveInv

\* The loser of the race waits.
LEMMA LoseKeyStep ==
  ASSUME InductiveInv, NEW r \in Requests, LoseKey(r)
  PROVE  InductiveInv'
<1>1. TypeOK'
  BY DEF InductiveInv, TypeOK, LoseKey
<1>2. KeyHolderRuns'
  BY DEF InductiveInv, TypeOK, KeyHolderRuns, LoseKey
<1>3. OrderFollowsPhase'
  BY DEF InductiveInv, TypeOK, OrderFollowsPhase, LoseKey
<1>4. CustomerAtHand'
  BY DEF InductiveInv, TypeOK, CustomerAtHand, LoseKey
<1>5. PaymentFollowsPhase'
  BY DEF InductiveInv, TypeOK, PaymentFollowsPhase, LoseKey
<1>6. OneLiveAttempt'
  BY DEF InductiveInv, TypeOK, OneLiveAttempt, Live, LoseKey
<1>7. ResponseIsHoldersOrder' /\ OrderHasCustomer' /\ PaymentsMatchCharges'
  BY DEF InductiveInv, ResponseIsHoldersOrder, OrderHasCustomer,
         PaymentsMatchCharges, LoseKey
<1> QED
  BY <1>1, <1>2, <1>3, <1>4, <1>5, <1>6, <1>7 DEF InductiveInv

\* A replayed response is the holder's order, and never the request's own.
LEMMA ReplayResponseStep ==
  ASSUME InductiveInv, NEW r \in Requests, ReplayResponse(r)
  PROVE  InductiveInv'
<1>1. TypeOK'
  BY DEF InductiveInv, TypeOK, KeyHolderRuns, ReplayResponse
<1>2. KeyHolderRuns'
  BY DEF InductiveInv, TypeOK, KeyHolderRuns, ReplayResponse
<1>3. OrderFollowsPhase'
  BY DEF InductiveInv, TypeOK, OrderFollowsPhase, ReplayResponse
<1>4. CustomerAtHand'
  BY DEF InductiveInv, TypeOK, CustomerAtHand, ReplayResponse
<1>5. PaymentsMatchCharges'
  BY DEF InductiveInv, TypeOK, PaymentsMatchCharges, KeyHolderRuns,
         OrderFollowsPhase, ResponseIsHoldersOrder, ReplayResponse
<1>6. PaymentFollowsPhase'
  BY DEF InductiveInv, TypeOK, PaymentFollowsPhase, ReplayResponse
<1>7. OneLiveAttempt'
  BY DEF InductiveInv, TypeOK, OneLiveAttempt, Live, OrderFollowsPhase,
         ReplayResponse
<1>8. ResponseIsHoldersOrder' /\ OrderHasCustomer'
  BY DEF InductiveInv, ResponseIsHoldersOrder, OrderHasCustomer, ReplayResponse
<1> QED
  BY <1>1, <1>2, <1>3, <1>4, <1>5, <1>6, <1>7, <1>8 DEF InductiveInv

\* The waiting ends without an order.
LEMMA GiveUpWaitingStep ==
  ASSUME InductiveInv, NEW r \in Requests, GiveUpWaiting(r)
  PROVE  InductiveInv'
<1>1. TypeOK'
  BY DEF InductiveInv, TypeOK, GiveUpWaiting, Fail
<1>2. KeyHolderRuns'
  BY DEF InductiveInv, TypeOK, KeyHolderRuns, GiveUpWaiting, Fail
<1>3. OrderFollowsPhase'
  BY DEF InductiveInv, TypeOK, OrderFollowsPhase, GiveUpWaiting, Fail
<1>4. CustomerAtHand'
  BY DEF InductiveInv, TypeOK, CustomerAtHand, GiveUpWaiting, Fail
<1>5. PaymentFollowsPhase'
  BY DEF InductiveInv, TypeOK, PaymentFollowsPhase, GiveUpWaiting, Fail
<1>6. OneLiveAttempt'
  BY DEF InductiveInv, TypeOK, OneLiveAttempt, Live, GiveUpWaiting, Fail
<1>7. ResponseIsHoldersOrder' /\ OrderHasCustomer' /\ PaymentsMatchCharges'
  BY DEF InductiveInv, ResponseIsHoldersOrder, OrderHasCustomer,
         PaymentsMatchCharges, GiveUpWaiting, Fail
<1> QED
  BY <1>1, <1>2, <1>3, <1>4, <1>5, <1>6, <1>7 DEF InductiveInv

\* A customer that is found is committed.
LEMMA FindCustomerStep ==
  ASSUME InductiveInv, NEW r \in Requests, FindCustomer(r)
  PROVE  InductiveInv'
<1>1. TypeOK'
  BY DEF InductiveInv, TypeOK, FindCustomer
<1>2. KeyHolderRuns'
  BY DEF InductiveInv, TypeOK, KeyHolderRuns, FindCustomer
<1>3. OrderFollowsPhase'
  BY DEF InductiveInv, TypeOK, OrderFollowsPhase, FindCustomer
<1>4. CustomerAtHand'
  BY DEF InductiveInv, TypeOK, CustomerAtHand, FindCustomer
<1>5. PaymentFollowsPhase'
  BY DEF InductiveInv, TypeOK, PaymentFollowsPhase, FindCustomer
<1>6. OneLiveAttempt'
  BY DEF InductiveInv, TypeOK, OneLiveAttempt, Live, FindCustomer
<1>7. ResponseIsHoldersOrder' /\ OrderHasCustomer' /\ PaymentsMatchCharges'
  BY DEF InductiveInv, ResponseIsHoldersOrder, OrderHasCustomer,
         PaymentsMatchCharges, FindCustomer
<1> QED
  BY <1>1, <1>2, <1>3, <1>4, <1>5, <1>6, <1>7 DEF InductiveInv

\* A customer that is not found is inserted by the session itself.
LEMMA RegisterCustomerStep ==
  ASSUME InductiveInv, NEW r \in Requests, RegisterCustomer(r)
  PROVE  InductiveInv'
<1>1. TypeOK'
  BY DEF InductiveInv, TypeOK, RegisterCustomer
<1>2. KeyHolderRuns'
  BY DEF InductiveInv, TypeOK, KeyHolderRuns, RegisterCustomer
<1>3. OrderFollowsPhase'
  BY DEF InductiveInv, TypeOK, OrderFollowsPhase, RegisterCustomer
<1>4. CustomerAtHand'
  BY DEF InductiveInv, TypeOK, CustomerAtHand, RegisterCustomer
<1>5. PaymentFollowsPhase'
  BY DEF InductiveInv, TypeOK, PaymentFollowsPhase, RegisterCustomer
<1>6. OneLiveAttempt'
  BY DEF InductiveInv, TypeOK, OneLiveAttempt, Live, RegisterCustomer
<1>7. ResponseIsHoldersOrder' /\ OrderHasCustomer' /\ PaymentsMatchCharges'
  BY DEF InductiveInv, ResponseIsHoldersOrder, OrderHasCustomer,
         PaymentsMatchCharges, RegisterCustomer
<1> QED
  BY <1>1, <1>2, <1>3, <1>4, <1>5, <1>6, <1>7 DEF InductiveInv

\* A violated constraint ends the request without an order.
LEMMA FailToRegisterStep ==
  ASSUME InductiveInv, NEW r \in Requests, FailToRegister(r)
  PROVE  InductiveInv'
<1>1. TypeOK'
  BY DEF InductiveInv, TypeOK, FailToRegister, Fail
<1>2. KeyHolderRuns'
  BY DEF InductiveInv, TypeOK, KeyHolderRuns, FailToRegister, Fail
<1>3. OrderFollowsPhase'
  BY DEF InductiveInv, TypeOK, OrderFollowsPhase, FailToRegister, Fail
<1>4. CustomerAtHand'
  BY DEF InductiveInv, TypeOK, CustomerAtHand, FailToRegister, Fail
<1>5. PaymentFollowsPhase'
  BY DEF InductiveInv, TypeOK, PaymentFollowsPhase, FailToRegister, Fail
<1>6. OneLiveAttempt'
  BY DEF InductiveInv, TypeOK, OneLiveAttempt, Live, FailToRegister, Fail
<1>7. ResponseIsHoldersOrder' /\ OrderHasCustomer' /\ PaymentsMatchCharges'
  BY DEF InductiveInv, ResponseIsHoldersOrder, OrderHasCustomer,
         PaymentsMatchCharges, FailToRegister, Fail
<1> QED
  BY <1>1, <1>2, <1>3, <1>4, <1>5, <1>6, <1>7 DEF InductiveInv

\* The order and its customer are committed together, by the holder of the key.
LEMMA PlaceOrderStep ==
  ASSUME InductiveInv, NEW r \in Requests, PlaceOrder(r)
  PROVE  InductiveInv'
<1>1. TypeOK'
  BY DEF InductiveInv, TypeOK, PlaceOrder, NothingInserted
<1>2. KeyHolderRuns'
  BY DEF InductiveInv, TypeOK, KeyHolderRuns, PlaceOrder, NothingInserted
<1>3. OrderFollowsPhase'
  BY DEF InductiveInv, TypeOK, OrderFollowsPhase, PlaceOrder, NothingInserted
<1>4. ResponseIsHoldersOrder'
  BY DEF InductiveInv, TypeOK, ResponseIsHoldersOrder, PlaceOrder,
         NothingInserted
<1>5. OrderHasCustomer'
  BY DEF InductiveInv, TypeOK, OrderHasCustomer, CustomerAtHand, PlaceOrder,
         NothingInserted
<1>6. CustomerAtHand'
  BY DEF InductiveInv, TypeOK, CustomerAtHand, PlaceOrder, NothingInserted
<1>7. PaymentsMatchCharges'
  BY DEF InductiveInv, TypeOK, PaymentsMatchCharges, OrderFollowsPhase,
         PlaceOrder, NothingInserted
<1>8. PaymentFollowsPhase'
  BY DEF InductiveInv, TypeOK, PaymentFollowsPhase, PlaceOrder, NothingInserted
<1>9. OneLiveAttempt'
  BY DEF InductiveInv, TypeOK, OneLiveAttempt, Live, PlaceOrder, NothingInserted
<1> QED
  BY <1>1, <1>2, <1>3, <1>4, <1>5, <1>6, <1>7, <1>8, <1>9 DEF InductiveInv

\* A refused order leaves nothing behind.
LEMMA RefuseOrderStep ==
  ASSUME InductiveInv, NEW r \in Requests, RefuseOrder(r)
  PROVE  InductiveInv'
<1>1. TypeOK'
  BY DEF InductiveInv, TypeOK, RefuseOrder, NothingInserted
<1>2. KeyHolderRuns'
  BY DEF InductiveInv, TypeOK, KeyHolderRuns, RefuseOrder, NothingInserted
<1>3. OrderFollowsPhase'
  BY DEF InductiveInv, TypeOK, OrderFollowsPhase, RefuseOrder, NothingInserted
<1>4. CustomerAtHand'
  BY DEF InductiveInv, TypeOK, CustomerAtHand, RefuseOrder, NothingInserted
<1>5. PaymentFollowsPhase'
  BY DEF InductiveInv, TypeOK, PaymentFollowsPhase, RefuseOrder, NothingInserted
<1>6. OneLiveAttempt'
  BY DEF InductiveInv, TypeOK, OneLiveAttempt, Live, RefuseOrder,
         NothingInserted
<1>7. ResponseIsHoldersOrder' /\ OrderHasCustomer' /\ PaymentsMatchCharges'
  BY DEF InductiveInv, ResponseIsHoldersOrder, OrderHasCustomer,
         PaymentsMatchCharges, RefuseOrder
<1> QED
  BY <1>1, <1>2, <1>3, <1>4, <1>5, <1>6, <1>7 DEF InductiveInv

\* What is charged has been ordered.
LEMMA ChargeStep ==
  ASSUME InductiveInv, NEW r \in Requests, Charge(r)
  PROVE  InductiveInv'
<1>1. TypeOK'
  BY DEF InductiveInv, TypeOK, Charge
<1>2. KeyHolderRuns'
  BY DEF InductiveInv, TypeOK, KeyHolderRuns, Charge
<1>3. OrderFollowsPhase'
  BY DEF InductiveInv, TypeOK, OrderFollowsPhase, Charge
<1>4. CustomerAtHand'
  BY DEF InductiveInv, TypeOK, CustomerAtHand, Charge
<1>5. PaymentsMatchCharges'
  BY DEF InductiveInv, TypeOK, PaymentsMatchCharges, OrderFollowsPhase, Charge
<1>6. PaymentFollowsPhase'
  BY DEF InductiveInv, TypeOK, PaymentFollowsPhase, Charge
<1>7. OneLiveAttempt'
  BY DEF InductiveInv, TypeOK, OneLiveAttempt, Live, Charge
<1>8. ResponseIsHoldersOrder' /\ OrderHasCustomer'
  BY DEF InductiveInv, ResponseIsHoldersOrder, OrderHasCustomer, Charge
<1> QED
  BY <1>1, <1>2, <1>3, <1>4, <1>5, <1>6, <1>7, <1>8 DEF InductiveInv

\* The payment row says what the provider decided.
LEMMA CommitPaymentStep ==
  ASSUME InductiveInv, NEW r \in Requests, CommitPayment(r)
  PROVE  InductiveInv'
<1>1. TypeOK'
  BY DEF InductiveInv, TypeOK, CommitPayment
<1>2. KeyHolderRuns'
  BY DEF InductiveInv, TypeOK, KeyHolderRuns, CommitPayment
<1>3. OrderFollowsPhase'
  BY DEF InductiveInv, TypeOK, OrderFollowsPhase, CommitPayment
<1>4. CustomerAtHand'
  BY DEF InductiveInv, TypeOK, CustomerAtHand, CommitPayment
<1>5. PaymentsMatchCharges'
  BY DEF InductiveInv, TypeOK, PaymentsMatchCharges, OrderFollowsPhase,
         CommitPayment
<1>6. PaymentFollowsPhase'
  BY DEF InductiveInv, TypeOK, PaymentFollowsPhase, CommitPayment
<1>7. OneLiveAttempt'
  BY DEF InductiveInv, TypeOK, OneLiveAttempt, Live, CommitPayment
<1>8. ResponseIsHoldersOrder' /\ OrderHasCustomer'
  BY DEF InductiveInv, ResponseIsHoldersOrder, OrderHasCustomer, CommitPayment
<1> QED
  BY <1>1, <1>2, <1>3, <1>4, <1>5, <1>6, <1>7, <1>8 DEF InductiveInv

\* The cart is of no concern to the invariant.
LEMMA ClearCartStep ==
  ASSUME InductiveInv, NEW r \in Requests, ClearCart(r)
  PROVE  InductiveInv'
<1>1. TypeOK'
  BY DEF InductiveInv, TypeOK, ClearCart
<1>2. KeyHolderRuns'
  BY DEF InductiveInv, TypeOK, KeyHolderRuns, ClearCart
<1>3. OrderFollowsPhase'
  BY DEF InductiveInv, TypeOK, OrderFollowsPhase, ClearCart
<1>4. CustomerAtHand'
  BY DEF InductiveInv, TypeOK, CustomerAtHand, ClearCart
<1>5. PaymentFollowsPhase'
  BY DEF InductiveInv, TypeOK, PaymentFollowsPhase, ClearCart
<1>6. OneLiveAttempt'
  BY DEF InductiveInv, TypeOK, OneLiveAttempt, Live, ClearCart
<1>7. ResponseIsHoldersOrder' /\ OrderHasCustomer' /\ PaymentsMatchCharges'
  BY DEF InductiveInv, ResponseIsHoldersOrder, OrderHasCustomer,
         PaymentsMatchCharges, ClearCart
<1> QED
  BY <1>1, <1>2, <1>3, <1>4, <1>5, <1>6, <1>7 DEF InductiveInv

\* The holder of the key stores and answers its own order.
LEMMA StoreResponseStep ==
  ASSUME InductiveInv, NEW r \in Requests, StoreResponse(r)
  PROVE  InductiveInv'
<1>1. TypeOK'
  BY DEF InductiveInv, TypeOK, StoreResponse
<1>2. KeyHolderRuns'
  BY DEF InductiveInv, TypeOK, KeyHolderRuns, StoreResponse
<1>3. OrderFollowsPhase'
  BY DEF InductiveInv, TypeOK, OrderFollowsPhase, StoreResponse
<1>4. ResponseIsHoldersOrder'
  BY DEF InductiveInv, TypeOK, ResponseIsHoldersOrder, KeyHolderRuns,
         OrderFollowsPhase, StoreResponse
<1>5. CustomerAtHand'
  BY DEF InductiveInv, TypeOK, CustomerAtHand, StoreResponse
<1>6. PaymentsMatchCharges'
  BY DEF InductiveInv, TypeOK, PaymentsMatchCharges, PaymentFollowsPhase,
         OrderFollowsPhase, StoreResponse
<1>7. PaymentFollowsPhase'
  BY DEF InductiveInv, TypeOK, PaymentFollowsPhase, StoreResponse
<1>8. OneLiveAttempt'
  BY DEF InductiveInv, TypeOK, OneLiveAttempt, Live, OrderFollowsPhase,
         StoreResponse
<1>9. OrderHasCustomer'
  BY DEF InductiveInv, OrderHasCustomer, StoreResponse
<1> QED
  BY <1>1, <1>2, <1>3, <1>4, <1>5, <1>6, <1>7, <1>8, <1>9 DEF InductiveInv

\* A request that dies commits nothing.
LEMMA CrashStep ==
  ASSUME InductiveInv, NEW r \in Requests, Crash(r)
  PROVE  InductiveInv'
<1>1. TypeOK'
  BY DEF InductiveInv, TypeOK, Crash, NothingInserted
<1>2. KeyHolderRuns'
  BY DEF InductiveInv, TypeOK, KeyHolderRuns, Crash, NothingInserted
<1>3. OrderFollowsPhase'
  BY DEF InductiveInv, TypeOK, OrderFollowsPhase, Crash, NothingInserted
<1>4. CustomerAtHand'
  BY DEF InductiveInv, TypeOK, CustomerAtHand, Crash, NothingInserted
<1>5. PaymentFollowsPhase'
  BY DEF InductiveInv, TypeOK, PaymentFollowsPhase, Crash, NothingInserted
<1>6. OneLiveAttempt'
  BY DEF InductiveInv, TypeOK, OneLiveAttempt, Live, Crash, NothingInserted
<1>7. ResponseIsHoldersOrder' /\ OrderHasCustomer' /\ PaymentsMatchCharges'
  BY DEF InductiveInv, ResponseIsHoldersOrder, OrderHasCustomer,
         PaymentsMatchCharges, Crash
<1> QED
  BY <1>1, <1>2, <1>3, <1>4, <1>5, <1>6, <1>7 DEF InductiveInv

\* The invariant speaks of the variables only.
LEMMA NothingHappens ==
  ASSUME InductiveInv, UNCHANGED vars
  PROVE  InductiveInv'
<1>1. TypeOK' /\ KeyHolderRuns' /\ OrderFollowsPhase' /\ ResponseIsHoldersOrder'
  BY DEF InductiveInv, vars, TypeOK, KeyHolderRuns, OrderFollowsPhase,
         ResponseIsHoldersOrder
<1>2. OrderHasCustomer' /\ CustomerAtHand' /\ PaymentsMatchCharges' /\ PaymentFollowsPhase'
  BY DEF InductiveInv, vars, OrderHasCustomer, CustomerAtHand, PaymentsMatchCharges,
         PaymentFollowsPhase
<1>3. OneLiveAttempt'
  BY DEF InductiveInv, vars, OneLiveAttempt, Live
<1> QED
  BY <1>1, <1>2, <1>3 DEF InductiveInv

\* Every step of every request preserves the invariant.
THEOREM Invariance == Spec => []InductiveInv
<1>1. ASSUME InductiveInv, [Next]_vars PROVE InductiveInv'
  <2>1. ASSUME NEW r \in Requests, Serve(r) PROVE InductiveInv'
    BY <1>1, <2>1, CheckLimitStep, LookUpKeyStep, ClaimKeyStep, LoseKeyStep,
       ReplayResponseStep, GiveUpWaitingStep, FindCustomerStep, RegisterCustomerStep,
       FailToRegisterStep, PlaceOrderStep, RefuseOrderStep, ChargeStep,
       CommitPaymentStep, ClearCartStep, StoreResponseStep DEF Serve
  <2>2. ASSUME NEW r \in Requests, Submit(r) \/ LoseAnswer(r) \/ Crash(r)
        PROVE  InductiveInv'
    BY <1>1, <2>2, SubmitStep, LoseAnswerStep, CrashStep
  <2>3. CASE AllEnded \/ UNCHANGED vars
    BY <1>1, <2>3, NothingHappens DEF AllEnded
  <2> QED
    BY <1>1, <2>1, <2>2, <2>3 DEF Next
<1> QED
  BY <1>1, InitInductive, PTL DEF Spec

\* README.md:21: one idempotency key, one order, for any number of duplicates
\* in any interleaving with the deaths of their processes.
THEOREM AtMostOneOrder == Spec => []OneOrderPerKey
<1>1. InductiveInv => OneOrderPerKey
  BY DEF InductiveInv, TypeOK, KeyHolderRuns, OneOrderPerKey
<1> QED
  BY <1>1, Invariance, PTL

\* No committed order is without its customer (storefront_service.py:370-376).
THEOREM CustomersStay == Spec => []OrderHasCustomer
<1>1. InductiveInv => OrderHasCustomer
  BY DEF InductiveInv
<1> QED
  BY <1>1, Invariance, PTL

\* Charges, payment rows and orders agree (payment_service.py:21-55).
THEOREM PaymentsAgree == Spec => []PaymentsMatchCharges
<1>1. InductiveInv => PaymentsMatchCharges
  BY DEF InductiveInv
<1> QED
  BY <1>1, Invariance, PTL

\* The dialog alone protects a shopper whose answers arrive from a second
\* order; a second one takes a lost answer or a dead process.
THEOREM NoDuplicateWithoutLoss == Spec => []DuplicateOnlyAfterLoss
<1>1. InductiveInv => DuplicateOnlyAfterLoss
  BY DEF InductiveInv, TypeOK, OrderFollowsPhase, OneLiveAttempt, Live,
         DuplicateOnlyAfterLoss
<1> QED
  BY <1>1, Invariance, PTL

-----------------------------------------------------------------------------
(***************************************************************************)
(* The refinement of IdempotentService: the commit of a keyed order is     *)
(* Execute, a response that is replayed or stored is Answer, and every     *)
(* other step leaves both abstract variables alone.                        *)
(***************************************************************************)
AbstractResult == [k \in Keys |-> IF claimant[k] \in orders THEN claimant[k] ELSE NoOrder]
AbstractAnswer == [r \in Keyed |-> answer[r]]
AbstractVars == <<AbstractResult, AbstractAnswer>>

\* No key has led to an order at the start.
LEMMA RefineInit == Init => Service!Init
BY DEF Init, Service!Init

\* The commit of a keyed order executes the operation of its key.
LEMMA PlaceOrderExecutes ==
  ASSUME InductiveInv, NEW r \in Keyed, PlaceOrder(r)
  PROVE  Service!Execute(r)
<1>1. claimant[KeyOf[r]] = r /\ r \notin orders
  BY DEF InductiveInv, KeyHolderRuns, OrderFollowsPhase, PlaceOrder
<1>2. \A k \in Keys : claimant[k] = r => k = KeyOf[r]
  BY DEF InductiveInv, KeyHolderRuns
<1>3. orders' = orders \cup {r} /\ claimant' = claimant /\ answer' = answer
  BY DEF PlaceOrder
<1> QED
  BY <1>1, <1>2, <1>3 DEF Service!Execute, InductiveInv, TypeOK

\* An order without a key is no business of the keys.
LEMMA PlaceUnkeyedOrderStutters ==
  ASSUME InductiveInv, NEW r \in Requests \ Keyed, PlaceOrder(r)
  PROVE  UNCHANGED AbstractVars
<1>1. \A k \in Keys : claimant[k] # r
  BY DEF InductiveInv, KeyHolderRuns
<1>2. orders' = orders \cup {r} /\ claimant' = claimant /\ answer' = answer
  BY DEF PlaceOrder
<1> QED
  BY <1>1, <1>2 DEF AbstractVars, AbstractResult, AbstractAnswer

\* A claim changes no result: the new holder has not placed its order yet.
LEMMA ClaimKeyStutters ==
  ASSUME InductiveInv, NEW r \in Requests, ClaimKey(r)
  PROVE  UNCHANGED AbstractVars
BY DEF InductiveInv, TypeOK, OrderFollowsPhase, ClaimKey, AbstractVars, AbstractResult,
       AbstractAnswer

\* A replay answers with the result of the key.
LEMMA ReplayAnswers ==
  ASSUME InductiveInv, NEW r \in Requests, ReplayResponse(r)
  PROVE  Service!Answer(r) /\ r \in Keyed
<1>1. r \in Keyed /\ answer[r] = NoOrder
  BY DEF InductiveInv, KeyHolderRuns, OrderFollowsPhase, ReplayResponse
<1>2. claimant[KeyOf[r]] \in orders /\ response[KeyOf[r]] = claimant[KeyOf[r]]
  BY <1>1 DEF InductiveInv, ResponseIsHoldersOrder, ReplayResponse
<1> QED
  BY <1>1, <1>2 DEF Service!Answer, InductiveInv, TypeOK, ReplayResponse

\* The holder of the key answers with its own order, which is the result.
LEMMA StoreAnswers ==
  ASSUME InductiveInv, NEW r \in Keyed, StoreResponse(r)
  PROVE  Service!Answer(r)
<1>1. claimant[KeyOf[r]] = r /\ r \in orders /\ answer[r] = NoOrder
  BY DEF InductiveInv, KeyHolderRuns, OrderFollowsPhase, StoreResponse
<1> QED
  BY <1>1 DEF Service!Answer, InductiveInv, TypeOK, StoreResponse

\* Every other step leaves the holders, the orders and the answers alone.
LEMMA OthersStutter ==
  ASSUME UNCHANGED <<claimant, orders, answer>>
  PROVE  UNCHANGED AbstractVars
BY DEF AbstractVars, AbstractResult, AbstractAnswer

\* Every step maps to a step of the service or to a stutter.
LEMMA StepRefines ==
  ASSUME InductiveInv, [Next]_vars
  PROVE  [Service!Next]_AbstractVars
<1>1. CASE \E r \in Requests : PlaceOrder(r)
  BY <1>1, PlaceOrderExecutes, PlaceUnkeyedOrderStutters DEF Service!Next
<1>2. CASE \E r \in Requests : ClaimKey(r)
  BY <1>2, ClaimKeyStutters
<1>3. CASE \E r \in Requests : ReplayResponse(r)
  BY <1>3, ReplayAnswers DEF Service!Next
<1>4. ASSUME NEW r \in Requests, StoreResponse(r) PROVE [Service!Next]_AbstractVars
  <2>1. CASE r \in Keyed
    BY <1>4, <2>1, StoreAnswers DEF Service!Next
  <2>2. CASE r \notin Keyed
    BY <1>4, <2>2 DEF StoreResponse, InductiveInv, TypeOK, AbstractVars, AbstractResult,
                      AbstractAnswer
  <2> QED
    BY <2>1, <2>2
<1>5. CASE UNCHANGED <<claimant, orders, answer>>
  BY <1>5, OthersStutter
<1>6. ASSUME NEW r \in Requests,
             Submit(r) \/ LoseAnswer(r) \/ Crash(r) \/ CheckLimit(r) \/ LookUpKey(r)
             \/ LoseKey(r) \/ GiveUpWaiting(r)
      PROVE  UNCHANGED <<claimant, orders, answer>>
  BY <1>6 DEF Submit, LoseAnswer, Crash, CheckLimit, LookUpKey, LoseKey, GiveUpWaiting,
              Fail
<1>7. ASSUME NEW r \in Requests,
             FindCustomer(r) \/ RegisterCustomer(r) \/ FailToRegister(r) \/ RefuseOrder(r)
             \/ Charge(r) \/ CommitPayment(r) \/ ClearCart(r)
      PROVE  UNCHANGED <<claimant, orders, answer>>
  BY <1>7 DEF FindCustomer, RegisterCustomer, FailToRegister, RefuseOrder, Charge,
              CommitPayment, ClearCart, Fail
<1>8. CASE AllEnded \/ UNCHANGED vars
  BY <1>8, <1>5 DEF AllEnded, vars
<1> QED
  BY <1>1, <1>2, <1>3, <1>4, <1>5, <1>6, <1>7, <1>8 DEF Next, Serve

\* Seen through their keys, requests that overlap, retry and die behave as the
\* service that executes the operation of a key at most once.
THEOREM Refinement == Spec => ImplementsIdempotentService
<1>1. InductiveInv /\ [Next]_vars => [Service!Next]_AbstractVars
  BY StepRefines
<1> QED
  BY <1>1, RefineInit, Invariance, PTL
     DEF Spec, ImplementsIdempotentService, Service!Spec, AbstractVars, AbstractResult,
         AbstractAnswer

================================================================================
