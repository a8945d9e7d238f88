---------------------------- MODULE OutboxProofs ----------------------------
(***************************************************************************)
(* InductiveInv and RepeatsInv are invariants of the outbox worker, for    *)
(* any number of workers, events, endpoints and shoppers, any batch limit  *)
(* and any number of attempts.  One lemma per action; in each, one step    *)
(* per conjunct.                                                           *)
(***************************************************************************)
EXTENDS Outbox, TLAPS, FiniteSetTheorems

LEMMA JobTypes ==
  ASSUME TypeOK, NEW w \in Workers
  PROVE  /\ job[w] \in JobType
         /\ job[w].event \in Events \cup {0}
         /\ job[w].attempts \in Nat
         /\ NoJob \in JobType
  BY DEF TypeOK, JobType, NoJob

\* The updates the actions make to a job.
LEMMA JobUpdates ==
  ASSUME NEW j \in JobType, NEW S \in SUBSET Shoppers, NEW T \in SUBSET Shoppers,
         NEW P \in SUBSET Endpoints, NEW n \in Nat
  PROVE  /\ [j EXCEPT !.tell = S, !.told = T] \in JobType
         /\ [j EXCEPT !.post = P] \in JobType
         /\ [j EXCEPT !.notice = FALSE, !.told = {}] \in JobType
         /\ [j EXCEPT !.attempts = n] \in JobType
  BY DEF JobType

\* What SetJob makes of job.
LEMMA JobSet ==
  ASSUME TypeOK, NEW w \in Workers, NEW j \in JobType, SetJob(w, j)
  PROVE  /\ job' \in [Workers -> JobType]
         /\ job'[w] = j
         /\ \A v \in Workers \ {w} : job'[v] = job[v]
  BY DEF TypeOK, SetJob

\* A worker past "next" has an event of its batch in hand.
LEMMA InHand ==
  ASSUME TypeOK, NEW w \in Workers, phase[w] \notin {"idle", "next"}
  PROVE  /\ job[w].event \in batch[w]
         /\ job[w].event \in Events
         /\ job[w].event \in emitted
         /\ kind[job[w].event] \in Kinds
         /\ Subscribers[kind[job[w].event]] \in SUBSET Endpoints
  BY OutboxAssumption DEF TypeOK

\* Sets of workers are finite and no larger than the set of all.
LEMMA WorkersFinite ==
  ASSUME NEW S \in SUBSET Workers
  PROVE  /\ IsFiniteSet(S)
         /\ Cardinality(S) \in Nat
         /\ Cardinality(Workers) \in Nat
         /\ Cardinality(S) <= Cardinality(Workers)
  BY OutboxAssumption, FS_Subset, FS_CardinalityType

LEMMA WorkersWrite == Workers \subseteq Writers /\ Clerks \subseteq Writers
  BY DEF Writers

LEMMA WritersFinite ==
  /\ Cardinality(Writers) \in Nat
  /\ \A S \in SUBSET Writers :
       /\ IsFiniteSet(S)
       /\ Cardinality(S) \in Nat
       /\ Cardinality(S) <= Cardinality(Writers)
<1>1. IsFiniteSet(Writers)
  BY OutboxAssumption, FS_Union DEF Writers
<1> QED
  BY <1>1, FS_Subset, FS_CardinalityType

\* The part of TypeOK on low-stock alerts.
AlertTypes ==
  /\ unread \in [Staff -> Nat]
  /\ draft \in [Writers -> SUBSET Staff]
  /\ missed \in Nat

\* A step that leaves the alerts alone.
LEMMA AlertsSame ==
  ASSUME TypeOK, AlertInv, UNCHANGED alerts
  PROVE  AlertTypes' /\ AlertInv'
  BY DEF TypeOK, AlertTypes, AlertInv, Alerting, alerts

\* A user reads alerts.
LEMMA AlertsRead ==
  ASSUME TypeOK, AlertInv, UNCHANGED <<draft, missed>>,
         NEW u \in Staff, NEW left \in {0, unread[u] - 1}, unread[u] > 0,
         unread' = [unread EXCEPT ![u] = left]
  PROVE  AlertTypes' /\ AlertInv'
<1>1. unread[u] \in Nat /\ left \in Nat /\ left <= unread[u]
  BY DEF TypeOK
<1>2. AlertTypes'
  BY <1>1 DEF TypeOK, AlertTypes
<1>3. ASSUME NEW v \in Staff
      PROVE  unread'[v] <= unread[v] /\ Alerting(v)' = Alerting(v)
  BY <1>1 DEF TypeOK, Alerting
<1>4. ASSUME NEW v \in Staff PROVE Cardinality(Alerting(v)) \in Nat
  BY WritersFinite DEF Alerting
<1> QED
  BY <1>2, <1>3, <1>4, WritersFinite DEF TypeOK, AlertTypes, AlertInv

\* What a transaction drafted leaves the drafts; committed, it is unread.
LEMMA DraftEnds ==
  ASSUME TypeOK, NEW x \in Writers, draft' = [draft EXCEPT ![x] = {}], NEW u \in Staff
  PROVE  /\ Cardinality(Alerting(u)) \in Nat
         /\ Cardinality(Alerting(u)') \in Nat
         /\ Cardinality(Alerting(u)') + (IF u \in draft[x] THEN 1 ELSE 0) = Cardinality(Alerting(u))
<1>1. Alerting(u)' = Alerting(u) \ {x}
  BY DEF TypeOK, Alerting
<1>2. Alerting(u) \in SUBSET Writers
  BY DEF Alerting
<1>3. /\ IsFiniteSet(Alerting(u))
      /\ Cardinality(Alerting(u)) \in Nat
      /\ Cardinality(Alerting(u) \ {x}) \in Nat
  BY <1>2, WritersFinite
<1>4. CASE u \in draft[x]
  <2>1. x \in Alerting(u)
    BY <1>4 DEF Alerting
  <2>2. Cardinality(Alerting(u) \ {x}) = Cardinality(Alerting(u)) - 1
    BY <1>3, <2>1, FS_RemoveElement
  <2> QED
    BY <1>1, <1>3, <1>4, <2>2
<1>5. CASE u \notin draft[x]
  <2>1. Alerting(u) \ {x} = Alerting(u)
    BY <1>5 DEF Alerting
  <2> QED
    BY <1>1, <1>3, <1>5, <2>1
<1> QED
  BY <1>4, <1>5

LEMMA AlertsPublished ==
  ASSUME TypeOK, AlertInv, NEW x \in Writers, PublishAlerts(x)
  PROVE  AlertTypes' /\ AlertInv'
<1>1. AlertTypes'
  BY DEF TypeOK, AlertTypes, PublishAlerts
<1>2. ASSUME NEW u \in Staff
      PROVE  unread'[u] + Cardinality(Alerting(u)') <= Cardinality(Writers) + missed
  <2>1. unread'[u] = unread[u] + (IF u \in draft[x] THEN 1 ELSE 0)
    BY DEF PublishAlerts
  <2>2. draft' = [draft EXCEPT ![x] = {}]
    BY DEF PublishAlerts
  <2>3. unread[u] \in Nat /\ missed \in Nat /\ Cardinality(Writers) \in Nat
    BY WritersFinite DEF TypeOK
  <2>4. unread[u] + Cardinality(Alerting(u)) <= Cardinality(Writers) + missed
    BY DEF AlertInv
  <2>5. /\ Cardinality(Alerting(u)) \in Nat
        /\ Cardinality(Alerting(u)') \in Nat
        /\ Cardinality(Alerting(u)') + (IF u \in draft[x] THEN 1 ELSE 0) = Cardinality(Alerting(u))
    BY <2>2, DraftEnds
  <2> QED
    BY <2>1, <2>3, <2>4, <2>5
<1> QED
  BY <1>1, <1>2 DEF AlertInv, PublishAlerts

LEMMA AlertsDropped ==
  ASSUME TypeOK, AlertInv, NEW x \in Writers, DropAlerts(x)
  PROVE  AlertTypes' /\ AlertInv'
<1>1. AlertTypes'
  BY DEF TypeOK, AlertTypes, DropAlerts
<1>2. ASSUME NEW u \in Staff
      PROVE  unread[u] + Cardinality(Alerting(u)') <= Cardinality(Writers) + missed
  <2>1. draft' = [draft EXCEPT ![x] = {}]
    BY DEF DropAlerts
  <2>2. unread[u] \in Nat /\ missed \in Nat /\ Cardinality(Writers) \in Nat
    BY WritersFinite DEF TypeOK
  <2>3. unread[u] + Cardinality(Alerting(u)) <= Cardinality(Writers) + missed
    BY DEF AlertInv
  <2>4. /\ Cardinality(Alerting(u)) \in Nat
        /\ Cardinality(Alerting(u)') \in Nat
        /\ Cardinality(Alerting(u)') + (IF u \in draft[x] THEN 1 ELSE 0) = Cardinality(Alerting(u))
    BY <2>1, DraftEnds
  <2> QED
    BY <2>2, <2>3, <2>4
<1> QED
  BY <1>1, <1>2 DEF AlertInv, DropAlerts

\* A look that finds no unread alert either is right, and then nobody has one,
\* or is counted in missed; a look that finds one drafts nothing.
LEMMA AlertsLooked ==
  ASSUME TypeOK, AlertInv, NEW x \in Writers, NEW stock \in Levels, NotifyLowStock(x, stock)
  PROVE  AlertTypes' /\ AlertInv'
<1>1. PICK found \in Looks :
        /\ \E to \in IF AlertDue(found, stock) THEN SUBSET Staff ELSE {{}} :
             draft' = [draft EXCEPT ![x] = to]
        /\ missed' = IF Unread /\ ~found THEN missed + 1 ELSE missed
  BY DEF NotifyLowStock
<1>2. PICK to \in SUBSET Staff : /\ draft' = [draft EXCEPT ![x] = to]
                                 /\ found => to = {}
  BY <1>1 DEF AlertDue
<1>3. unread' = unread
  BY DEF NotifyLowStock
<1>4. AlertTypes'
  BY <1>1, <1>2, <1>3 DEF TypeOK, AlertTypes
<1>5. ASSUME NEW u \in Staff
      PROVE  unread[u] + Cardinality(Alerting(u)') <= Cardinality(Writers) + missed'
  <2>1. Alerting(u) \in SUBSET Writers /\ Alerting(u)' \in SUBSET Writers
    BY DEF Alerting
  <2>2. /\ IsFiniteSet(Alerting(u)) /\ Cardinality(Alerting(u)) \in Nat
        /\ Cardinality(Alerting(u)') \in Nat
        /\ Cardinality(Alerting(u)') <= Cardinality(Writers)
        /\ Cardinality(Writers) \in Nat
    BY <2>1, WritersFinite
  <2>3. unread[u] \in Nat /\ missed \in Nat
    BY DEF TypeOK
  <2>4. CASE found
    <3>1. Alerting(u)' \subseteq Alerting(u)
      BY <1>2, <2>4 DEF TypeOK, Alerting
    <3>2. Cardinality(Alerting(u)') <= Cardinality(Alerting(u))
      BY <2>2, <3>1, FS_Subset
    <3>3. missed' = missed
      BY <1>1, <2>4
    <3> QED
      BY <2>2, <2>3, <3>2, <3>3 DEF AlertInv
  <2>5. CASE ~found /\ Unread
    <3>1. Alerting(u)' \subseteq Alerting(u) \cup {x}
      BY <1>2 DEF TypeOK, Alerting
    <3>2. /\ IsFiniteSet(Alerting(u) \cup {x})
          /\ Cardinality(Alerting(u) \cup {x}) \in Nat
      BY <2>1, WritersFinite
    <3>3. Cardinality(Alerting(u) \cup {x}) <= Cardinality(Alerting(u)) + 1
      <4>1. CASE x \in Alerting(u)
        <5>1. Alerting(u) \cup {x} = Alerting(u)
          BY <4>1
        <5>2. Cardinality(Alerting(u) \cup {x}) = Cardinality(Alerting(u))
          BY <5>1
        <5> QED
          BY <2>2, <5>2
      <4>2. CASE x \notin Alerting(u)
        <5>1. Cardinality(Alerting(u) \cup {x}) = Cardinality(Alerting(u)) + 1
          BY <2>2, <4>2, FS_AddElement
        <5> QED
          BY <2>2, <5>1
      <4> QED
        BY <4>1, <4>2
    <3>4. Cardinality(Alerting(u)') <= Cardinality(Alerting(u) \cup {x})
      BY <3>1, <3>2, FS_Subset
    <3>5. missed' = missed + 1
      BY <1>1, <2>5
    <3> QED
      BY <2>2, <2>3, <3>2, <3>3, <3>4, <3>5 DEF AlertInv
  <2>6. CASE ~Unread
    <3>1. unread[u] = 0
      BY <2>3, <2>6 DEF Unread
    <3>2. missed' = missed
      BY <1>1, <2>6
    <3> QED
      BY <2>2, <2>3, <3>1, <3>2
  <2> QED
    BY <2>4, <2>5, <2>6
<1> QED
  BY <1>3, <1>4, <1>5 DEF AlertInv

\* Initially nothing is owed and nothing is pending.
LEMMA InitInv == Init => InductiveInv
<1> SUFFICES ASSUME Init PROVE InductiveInv
  OBVIOUS
<1>1. TypeOK
  BY OutboxAssumption DEF Init, TypeOK, Phases, JobType, NoJob
<1>2. NothingLost /\ DeliveryInv
  BY DEF Init, NothingLost, DeliveryInv, Handling, NoJob
<1>3. AlertInv
  <2>1. ASSUME NEW u \in Staff PROVE Alerting(u) = {}
    BY DEF Init, Alerting
  <2> QED
    BY <2>1, FS_EmptySet, WritersFinite DEF AlertInv, Init
<1> QED
  BY <1>1, <1>2, <1>3 DEF InductiveInv

\* An event becomes visible.
LEMMA EmitInv ==
  ASSUME InductiveInv, Emit
  PROVE  InductiveInv'
<1> USE DEF InductiveInv
<1>a. AlertTypes' /\ AlertInv'
  BY AlertsSame DEF Emit
<1>1. TypeOK'
  BY <1>a, OutboxAssumption DEF AlertTypes, TypeOK, JobType, Phases, Handling, Emit, rows, inbox, outside, history, SetJob
<1>2. NothingLost'
  BY OutboxAssumption DEF TypeOK, JobType, NothingLost, DeliveryInv, Handling, Emit, rows, inbox, outside, history, SetJob
<1>3. DeliveryInv'
  BY DEF TypeOK, DeliveryInv, Handling, Emit, rows, inbox, outside, history, SetJob
<1> QED
  BY <1>a, <1>1, <1>2, <1>3

\* Alerts are read.
LEMMA ReadAlertsInv ==
  ASSUME InductiveInv, ReadAlerts
  PROVE  InductiveInv'
<1> USE DEF InductiveInv
<1>a. AlertTypes' /\ AlertInv'
  BY AlertsRead DEF ReadAlerts
<1>1. TypeOK'
  BY <1>a, OutboxAssumption DEF AlertTypes, TypeOK, JobType, Phases, Handling, ReadAlerts, rows, inbox, outside, history, SetJob
<1>2. NothingLost'
  BY OutboxAssumption DEF TypeOK, JobType, NothingLost, DeliveryInv, Handling, ReadAlerts, rows, inbox, outside, history, SetJob
<1>3. DeliveryInv'
  BY DEF TypeOK, DeliveryInv, Handling, ReadAlerts, rows, inbox, outside, history, SetJob
<1> QED
  BY <1>a, <1>1, <1>2, <1>3

\* A shopper asks to be told.
LEMMA RequestBackInStockInv ==
  ASSUME InductiveInv, RequestBackInStock
  PROVE  InductiveInv'
<1> USE DEF InductiveInv
<1>a. AlertTypes' /\ AlertInv'
  BY AlertsSame DEF RequestBackInStock
<1>1. TypeOK'
  BY <1>a, OutboxAssumption DEF AlertTypes, TypeOK, JobType, Phases, Handling, RequestBackInStock, rows, inbox, outside, history, SetJob
<1>2. NothingLost'
  BY OutboxAssumption DEF TypeOK, JobType, NothingLost, DeliveryInv, Handling, RequestBackInStock, rows, inbox, outside, history, SetJob
<1>3. DeliveryInv'
  BY DEF TypeOK, DeliveryInv, Handling, RequestBackInStock, rows, inbox, outside, history, SetJob
<1> QED
  BY <1>a, <1>1, <1>2, <1>3

\* A batch is claimed: nothing of it is in hand yet.
LEMMA ClaimInv ==
  ASSUME InductiveInv, NEW w \in Workers, Claim(w)
  PROVE  InductiveInv'
<1> USE DEF InductiveInv
<1>a. AlertTypes' /\ AlertInv'
  BY AlertsSame DEF Claim
<1>1. TypeOK'
  <2>1. job' \in [Workers -> JobType]
    BY OutboxAssumption, JobTypes, InHand DEF TypeOK, JobType, Claim, Goto, rows, inbox, outside, history, SetJob
  <2>2. \A v \in Workers : phase'[v] \notin {"idle", "next"} => job'[v].event \in batch'[v]
    BY JobTypes, InHand DEF TypeOK, JobType, Handling, Claim, Goto, rows, inbox, outside, history, SetJob
  <2>3. batch' \in [Workers -> SUBSET emitted'] /\ held' \in [Workers -> SUBSET Events]
    BY JobTypes, InHand DEF TypeOK, Claim, Goto, rows, inbox, outside, history, SetJob, Claimed, Ready
  <2> QED
    BY <1>a, <2>1, <2>2, <2>3, OutboxAssumption, JobTypes, InHand DEF AlertTypes, TypeOK, JobType, Phases, Handling, Claim, Goto, rows, inbox, outside, history, SetJob
<1>2. NothingLost'
  BY OutboxAssumption, JobTypes, InHand DEF TypeOK, JobType, NothingLost, DeliveryInv, Handling, Claim, Goto, rows, inbox, outside, history, SetJob
<1>3. DeliveryInv'
  <2>1. \A f \in Events : attempts'[f] <= failures'[f]
    BY JobTypes, InHand DEF TypeOK, DeliveryInv, Claim, Goto, rows, inbox, outside, history, SetJob
  <2> SUFFICES ASSUME NEW v \in Workers
               PROVE  LET f == job'[v].event
                      IN  /\ phase'[v] = "counting" => job'[v].attempts <= failures'[f]
                          /\ phase'[v] \in Handling =>
                               /\ kind'[f] = "order" => job'[v].notice \/ notices'[f] > 0
                               /\ \A x \in Subscribers[kind'[f]] : x \in job'[v].post \/ posts'[f][x] > 0
    BY <2>1 DEF DeliveryInv
  <2>2. CASE v = w
    BY <2>2, JobTypes, InHand DEF TypeOK, JobType, DeliveryInv, Handling, Claim, Goto, rows, inbox, outside, history, SetJob
  <2>3. CASE v # w
    BY <2>3, JobTypes, InHand DEF TypeOK, DeliveryInv, Handling, Claim, Goto, rows, inbox, outside, history, SetJob
  <2> QED
    BY <2>2, <2>3
<1> QED
  BY <1>a, <1>1, <1>2, <1>3

\* The job lists all the event is owed.
LEMMA HandleInv ==
  ASSUME InductiveInv, NEW w \in Workers,
         NEW e \in Events, NEW stock \in Levels, Handle(w, e, stock)
  PROVE  InductiveInv'
<1> USE DEF InductiveInv
<1>a. AlertTypes' /\ AlertInv'
  BY WorkersWrite, AlertsLooked, AlertsSame DEF Handle
<1>1. TypeOK'
  <2>1. job' \in [Workers -> JobType]
    BY OutboxAssumption, JobTypes, InHand DEF TypeOK, JobType, Handle, Goto, ToTell, NoJob, rows, inbox, outside, history, SetJob
  <2>2. \A v \in Workers : phase'[v] \notin {"idle", "next"} => job'[v].event \in batch'[v]
    BY JobTypes, InHand DEF TypeOK, JobType, Handling, Handle, Goto, ToTell, NoJob, rows, inbox, outside, history, SetJob
  <2>3. batch' \in [Workers -> SUBSET emitted'] /\ held' \in [Workers -> SUBSET Events]
    BY JobTypes, InHand DEF TypeOK, Handle, Goto, ToTell, NoJob, rows, inbox, outside, history, SetJob
  <2> QED
    BY <1>a, <2>1, <2>2, <2>3, OutboxAssumption, JobTypes, InHand DEF AlertTypes, TypeOK, JobType, Phases, Handling, Handle, Goto, ToTell, NoJob, rows, inbox, outside, history, SetJob
<1>2. NothingLost'
  BY OutboxAssumption, JobTypes, InHand DEF TypeOK, JobType, NothingLost, DeliveryInv, Handling, Handle, Goto, ToTell, NoJob, rows, inbox, outside, history, SetJob
<1>3. DeliveryInv'
  <2>1. \A f \in Events : attempts'[f] <= failures'[f]
    BY JobTypes, InHand DEF TypeOK, DeliveryInv, Handle, Goto, ToTell, NoJob, rows, inbox, outside, history, SetJob
  <2> SUFFICES ASSUME NEW v \in Workers
               PROVE  LET f == job'[v].event
                      IN  /\ phase'[v] = "counting" => job'[v].attempts <= failures'[f]
                          /\ phase'[v] \in Handling =>
                               /\ kind'[f] = "order" => job'[v].notice \/ notices'[f] > 0
                               /\ \A x \in Subscribers[kind'[f]] : x \in job'[v].post \/ posts'[f][x] > 0
    BY <2>1 DEF DeliveryInv
  <2>2. CASE v = w
    BY <2>2, JobTypes, InHand DEF TypeOK, JobType, DeliveryInv, Handling, Handle, Goto, ToTell, NoJob, rows, inbox, outside, history, SetJob
  <2>3. CASE v # w
    BY <2>3, JobTypes, InHand DEF TypeOK, DeliveryInv, Handling, Handle, Goto, ToTell, NoJob, rows, inbox, outside, history, SetJob
  <2> QED
    BY <2>2, <2>3
<1> QED
  BY <1>a, <1>1, <1>2, <1>3

\* A shopper is told.
LEMMA MailInv ==
  ASSUME InductiveInv, NEW w \in Workers, Mail(w)
  PROVE  InductiveInv'
<1> USE DEF InductiveInv
<1>a. AlertTypes' /\ AlertInv'
  BY AlertsSame DEF Mail
<1>0. PICK s \in job[w].tell :
        SetJob(w, [job[w] EXCEPT !.tell = @ \ {s}, !.told = @ \cup {s}])
  BY DEF Mail
<1>j. /\ [job[w] EXCEPT !.tell = @ \ {s}, !.told = @ \cup {s}] \in JobType
      /\ [job[w] EXCEPT !.tell = @ \ {s}, !.told = @ \cup {s}].event = job[w].event
      /\ [job[w] EXCEPT !.tell = @ \ {s}, !.told = @ \cup {s}].notice = job[w].notice
      /\ [job[w] EXCEPT !.tell = @ \ {s}, !.told = @ \cup {s}].post = job[w].post
  <2>1. job[w].tell \ {s} \in SUBSET Shoppers /\ job[w].told \cup {s} \in SUBSET Shoppers
    BY JobTypes DEF JobType
  <2>2. [job[w] EXCEPT !.tell = @ \ {s}, !.told = @ \cup {s}] \in JobType
    BY <2>1, JobTypes, JobUpdates
  <2> QED
    BY <2>2, JobTypes DEF JobType
<1>k. /\ job' \in [Workers -> JobType]
      /\ \A v \in Workers \ {w} : job'[v] = job[v]
      /\ job'[w].event = job[w].event
      /\ job'[w].notice = job[w].notice
      /\ job'[w].post = job[w].post
  BY <1>0, <1>j, JobSet
<1>1. TypeOK'
  <2>1. job' \in [Workers -> JobType]
    BY <1>k
  <2>2. \A v \in Workers : phase'[v] \notin {"idle", "next"} => job'[v].event \in batch'[v]
    BY <1>k, JobTypes, InHand DEF TypeOK, JobType, Handling, Mail, Goto, rows, inbox, outside, history
  <2>3. batch' \in [Workers -> SUBSET emitted'] /\ held' \in [Workers -> SUBSET Events]
    BY JobTypes, InHand DEF TypeOK, Mail, Goto, rows, inbox, outside, history
  <2>4. mails' \in [Shoppers -> Nat]
    BY JobTypes DEF TypeOK, JobType, Mail
  <2> QED
    BY <1>a, <2>1, <2>2, <2>3, <2>4, OutboxAssumption, JobTypes, InHand DEF AlertTypes, TypeOK, JobType, Phases, Handling, Mail, Goto, rows, inbox, outside, history
<1>2. NothingLost'
  BY OutboxAssumption, JobTypes, InHand DEF TypeOK, JobType, NothingLost, DeliveryInv, Handling, Mail, Goto, rows, inbox, outside, history
<1>3. DeliveryInv'
  <2>1. \A f \in Events : attempts'[f] <= failures'[f]
    BY JobTypes, InHand DEF TypeOK, DeliveryInv, Mail, Goto, rows, inbox, outside, history
  <2> SUFFICES ASSUME NEW v \in Workers
               PROVE  LET f == job'[v].event
                      IN  /\ phase'[v] = "counting" => job'[v].attempts <= failures'[f]
                          /\ phase'[v] \in Handling =>
                               /\ kind'[f] = "order" => job'[v].notice \/ notices'[f] > 0
                               /\ \A x \in Subscribers[kind'[f]] : x \in job'[v].post \/ posts'[f][x] > 0
    BY <2>1 DEF DeliveryInv
  <2>2. CASE v = w
    BY <2>2, <1>k, JobTypes, InHand DEF TypeOK, JobType, DeliveryInv, Handling, Mail, Goto, rows, inbox, outside, history
  <2>3. CASE v # w
    BY <2>3, <1>k, JobTypes, InHand DEF TypeOK, DeliveryInv, Handling, Mail, Goto, rows, inbox, outside, history
  <2> QED
    BY <2>2, <2>3
<1> QED
  BY <1>a, <1>1, <1>2, <1>3

\* The endpoint leaves the job when it is called.
LEMMA PostInv ==
  ASSUME InductiveInv, NEW w \in Workers, Post(w)
  PROVE  InductiveInv'
<1> USE DEF InductiveInv
<1>a. AlertTypes' /\ AlertInv'
  BY AlertsSame DEF Post
<1>0. PICK h \in job[w].post :
        /\ posts' = [posts EXCEPT ![job[w].event][h] = @ + 1]
        /\ SetJob(w, [job[w] EXCEPT !.post = @ \ {h}])
  BY DEF Post
<1>j. /\ [job[w] EXCEPT !.post = @ \ {h}] \in JobType
      /\ [job[w] EXCEPT !.post = @ \ {h}].event = job[w].event
      /\ [job[w] EXCEPT !.post = @ \ {h}].notice = job[w].notice
      /\ [job[w] EXCEPT !.post = @ \ {h}].post = job[w].post \ {h}
  <2>1. job[w].post \ {h} \in SUBSET Endpoints
    BY JobTypes DEF JobType
  <2>2. [job[w] EXCEPT !.post = @ \ {h}] \in JobType
    BY <2>1, JobTypes, JobUpdates
  <2> QED
    BY <2>2, JobTypes DEF JobType
<1>k. /\ job' \in [Workers -> JobType]
      /\ \A v \in Workers \ {w} : job'[v] = job[v]
      /\ job'[w].event = job[w].event
      /\ job'[w].notice = job[w].notice
      /\ job'[w].post = job[w].post \ {h}
  BY <1>0, <1>j, JobSet
<1>1. TypeOK'
  <2>1. job' \in [Workers -> JobType]
    BY <1>k
  <2>2. \A v \in Workers : phase'[v] \notin {"idle", "next"} => job'[v].event \in batch'[v]
    BY <1>k, JobTypes, InHand DEF TypeOK, JobType, Handling, Post, Goto, rows, inbox, outside, history
  <2>3. batch' \in [Workers -> SUBSET emitted'] /\ held' \in [Workers -> SUBSET Events]
    BY JobTypes, InHand DEF TypeOK, Post, Goto, rows, inbox, outside, history
  <2>4. posts' \in [Events -> [Endpoints -> Nat]]
    <3>2. job[w].event \in Events /\ h \in Endpoints
      BY JobTypes, InHand DEF JobType, Post
    <3>3. posts[job[w].event] \in [Endpoints -> Nat]
      BY <3>2 DEF TypeOK
    <3>4. [posts[job[w].event] EXCEPT ![h] = @ + 1] \in [Endpoints -> Nat]
      BY <3>2, <3>3
    <3> QED
      BY <1>0, <3>2, <3>4 DEF TypeOK
  <2> QED
    BY <1>a, <2>1, <2>2, <2>3, <2>4, OutboxAssumption, JobTypes, InHand DEF AlertTypes, TypeOK, JobType, Phases, Handling, Post, Goto, rows, inbox, outside, history
<1>2. NothingLost'
  BY OutboxAssumption, JobTypes, InHand DEF TypeOK, JobType, NothingLost, DeliveryInv, Handling, Post, Goto, rows, inbox, outside, history
<1>3. DeliveryInv'
  <2>1. \A f \in Events : attempts'[f] <= failures'[f]
    BY JobTypes, InHand DEF TypeOK, DeliveryInv, Post, Goto, rows, inbox, outside, history
  <2> SUFFICES ASSUME NEW v \in Workers
               PROVE  LET f == job'[v].event
                      IN  /\ phase'[v] = "counting" => job'[v].attempts <= failures'[f]
                          /\ phase'[v] \in Handling =>
                               /\ kind'[f] = "order" => job'[v].notice \/ notices'[f] > 0
                               /\ \A x \in Subscribers[kind'[f]] : x \in job'[v].post \/ posts'[f][x] > 0
    BY <2>1 DEF DeliveryInv
  <2>4. /\ posts'[job[w].event][h] > 0
        /\ \A g \in Endpoints :
             posts[job[w].event][g] > 0 => posts'[job[w].event][g] > 0
    <3>1. job[w].event \in Events /\ h \in Endpoints
      BY JobTypes, InHand DEF JobType, Post
    <3>2. posts[job[w].event] \in [Endpoints -> Nat]
      BY <3>1 DEF TypeOK
    <3>3. posts'[job[w].event] = [posts[job[w].event] EXCEPT ![h] = @ + 1]
      BY <1>0, <3>1 DEF TypeOK
    <3> QED
      BY <3>1, <3>2, <3>3
  <2>2. CASE v = w
    BY <2>2, <2>4, <1>k, JobTypes, InHand DEF TypeOK, JobType, DeliveryInv, Handling, Post, Goto, rows, inbox, outside, history
  <2>3. CASE v # w
    BY <2>3, <1>k, JobTypes, InHand DEF TypeOK, DeliveryInv, Handling, Post, Goto, rows, inbox, outside, history
  <2> QED
    BY <2>2, <2>3
<1> QED
  BY <1>a, <1>1, <1>2, <1>3

\* The notification leaves the job when it is written.
LEMMA CommitDeliveryInv ==
  ASSUME InductiveInv, NEW w \in Workers, CommitDelivery(w)
  PROVE  InductiveInv'
<1> USE DEF InductiveInv
<1>a. AlertTypes' /\ AlertInv'
  BY WorkersWrite, AlertsPublished DEF CommitDelivery, Commit
<1>0. SetJob(w, [job[w] EXCEPT !.notice = FALSE, !.told = {}])
  BY DEF CommitDelivery
<1>j. /\ [job[w] EXCEPT !.notice = FALSE, !.told = {}] \in JobType
      /\ [job[w] EXCEPT !.notice = FALSE, !.told = {}].event = job[w].event
      /\ [job[w] EXCEPT !.notice = FALSE, !.told = {}].post = job[w].post
  <2>1. [job[w] EXCEPT !.notice = FALSE, !.told = {}] \in JobType
    BY JobTypes, JobUpdates
  <2> QED
    BY <2>1, JobTypes DEF JobType
<1>k. /\ job' \in [Workers -> JobType]
      /\ \A v \in Workers \ {w} : job'[v] = job[v]
      /\ job'[w].event = job[w].event
      /\ job'[w].post = job[w].post
  BY <1>0, <1>j, JobSet
<1>1. TypeOK'
  <2>1. job' \in [Workers -> JobType]
    BY <1>k
  <2>2. \A v \in Workers : phase'[v] \notin {"idle", "next"} => job'[v].event \in batch'[v]
    BY <1>k, JobTypes, InHand DEF TypeOK, JobType, Handling, CommitDelivery, Goto, Commit, Unlock, rows, inbox, outside, history
  <2>3. batch' \in [Workers -> SUBSET emitted'] /\ held' \in [Workers -> SUBSET Events]
    BY JobTypes, InHand DEF TypeOK, CommitDelivery, Goto, Commit, Unlock, rows, inbox, outside, history
  <2>4. /\ notices' \in [Events -> Nat]
        /\ asking' \subseteq Shoppers
    <3>1. notices' \in [Events -> Nat]
      BY InHand DEF TypeOK, CommitDelivery, Commit
    <3>2. asking' \subseteq Shoppers
      BY DEF TypeOK, CommitDelivery, Commit
    <3> QED
      BY <3>1, <3>2
  <2> QED
    BY <1>a, <2>1, <2>2, <2>3, <2>4, OutboxAssumption, JobTypes, InHand DEF AlertTypes, TypeOK, JobType, Phases, Handling, CommitDelivery, Goto, Commit, Unlock, rows, inbox, outside, history
<1>2. NothingLost'
  BY OutboxAssumption, JobTypes, InHand DEF TypeOK, JobType, NothingLost, DeliveryInv, Handling, CommitDelivery, Goto, Commit, Unlock, rows, inbox, outside, history
<1>3. DeliveryInv'
  <2>1. \A f \in Events : attempts'[f] <= failures'[f]
    BY JobTypes, InHand DEF TypeOK, DeliveryInv, CommitDelivery, Goto, Commit, Unlock, rows, inbox, outside, history
  <2> SUFFICES ASSUME NEW v \in Workers
               PROVE  LET f == job'[v].event
                      IN  /\ phase'[v] = "counting" => job'[v].attempts <= failures'[f]
                          /\ phase'[v] \in Handling =>
                               /\ kind'[f] = "order" => job'[v].notice \/ notices'[f] > 0
                               /\ \A x \in Subscribers[kind'[f]] : x \in job'[v].post \/ posts'[f][x] > 0
    BY <2>1 DEF DeliveryInv
  <2>4. /\ job[w].notice => notices'[job[w].event] > 0
        /\ notices[job[w].event] > 0 => notices'[job[w].event] > 0
    BY InHand DEF TypeOK, CommitDelivery, Commit
  <2>2. CASE v = w
    BY <2>2, <2>4, <1>k, JobTypes, InHand DEF TypeOK, JobType, DeliveryInv, Handling, CommitDelivery, Goto, Commit, Unlock, rows, inbox, outside, history
  <2>3. CASE v # w
    BY <2>3, <1>k, JobTypes, InHand DEF TypeOK, DeliveryInv, Handling, CommitDelivery, Goto, Commit, Unlock, rows, inbox, outside, history
  <2> QED
    BY <2>2, <2>3
<1> QED
  BY <1>a, <1>1, <1>2, <1>3

\* The event is processed when the job is empty.
LEMMA FinishInv ==
  ASSUME InductiveInv, NEW w \in Workers, Finish(w)
  PROVE  InductiveInv'
<1> USE DEF InductiveInv
<1>a. AlertTypes' /\ AlertInv'
  BY WorkersWrite, AlertsPublished DEF Finish, Commit
<1>1. TypeOK'
  <2>1. job' \in [Workers -> JobType]
    BY OutboxAssumption, JobTypes, InHand DEF TypeOK, JobType, Finish, Goto, Commit, Unlock, Advance, NoJob, rows, inbox, outside, history, SetJob
  <2>2. \A v \in Workers : phase'[v] \notin {"idle", "next"} => job'[v].event \in batch'[v]
    BY JobTypes, InHand DEF TypeOK, JobType, Handling, Finish, Goto, Commit, Unlock, Advance, NoJob, rows, inbox, outside, history, SetJob
  <2>3. batch' \in [Workers -> SUBSET emitted'] /\ held' \in [Workers -> SUBSET Events]
    BY JobTypes, InHand DEF TypeOK, Finish, Goto, Commit, Unlock, Advance, NoJob, rows, inbox, outside, history, SetJob
  <2>4. /\ processed' \subseteq emitted'
        /\ notices' \in [Events -> Nat]
        /\ asking' \subseteq Shoppers
    <3>1. processed' \subseteq emitted'
      BY InHand DEF TypeOK, Finish
    <3>2. notices' \in [Events -> Nat]
      <4>1. /\ job[w].event \in Events /\ notices \in [Events -> Nat]
            /\ notices' = IF job[w].notice THEN [notices EXCEPT ![job[w].event] = @ + 1]
                                           ELSE notices
        BY InHand DEF TypeOK, Finish, Commit
      <4> QED
        BY <4>1
    <3>3. asking' \subseteq Shoppers
      BY DEF TypeOK, Finish, Commit
    <3> QED
      BY <3>1, <3>2, <3>3
  <2> QED
    BY <1>a, <2>1, <2>2, <2>3, <2>4, OutboxAssumption, JobTypes, InHand DEF AlertTypes, TypeOK, JobType, Phases, Handling, Finish, Goto, Commit, Unlock, Advance, NoJob, rows, inbox, outside, history, SetJob
<1>2. NothingLost'
  BY OutboxAssumption, JobTypes, InHand DEF TypeOK, JobType, NothingLost, DeliveryInv, Handling, Finish, Goto, Commit, Unlock, Advance, NoJob, rows, inbox, outside, history, SetJob
<1>3. DeliveryInv'
  <2>1. \A f \in Events : attempts'[f] <= failures'[f]
    BY JobTypes, InHand DEF TypeOK, DeliveryInv, Finish, Goto, Commit, Unlock, Advance, NoJob, rows, inbox, outside, history, SetJob
  <2> SUFFICES ASSUME NEW v \in Workers
               PROVE  LET f == job'[v].event
                      IN  /\ phase'[v] = "counting" => job'[v].attempts <= failures'[f]
                          /\ phase'[v] \in Handling =>
                               /\ kind'[f] = "order" => job'[v].notice \/ notices'[f] > 0
                               /\ \A x \in Subscribers[kind'[f]] : x \in job'[v].post \/ posts'[f][x] > 0
    BY <2>1 DEF DeliveryInv
  <2>2. CASE v = w
    BY <2>2, JobTypes, InHand DEF TypeOK, JobType, DeliveryInv, Handling, Finish, Goto, Commit, Unlock, Advance, NoJob, rows, inbox, outside, history, SetJob
  <2>3. CASE v # w
    BY <2>3, JobTypes, InHand DEF TypeOK, DeliveryInv, Handling, Finish, Goto, Commit, Unlock, Advance, NoJob, rows, inbox, outside, history, SetJob
  <2> QED
    BY <2>2, <2>3
<1> QED
  BY <1>a, <1>1, <1>2, <1>3

\* What was pending is dropped with the job.
LEMMA RaiseInv ==
  ASSUME InductiveInv, NEW w \in Workers, Raise(w)
  PROVE  InductiveInv'
<1> USE DEF InductiveInv
<1>a. AlertTypes' /\ AlertInv'
  BY WorkersWrite, AlertsDropped DEF Raise
<1>1. TypeOK'
  <2>1. job' \in [Workers -> JobType]
    BY OutboxAssumption, JobTypes, InHand DEF TypeOK, JobType, Raise, Goto, Unlock, NoJob, rows, inbox, outside, history, SetJob
  <2>2. \A v \in Workers : phase'[v] \notin {"idle", "next"} => job'[v].event \in batch'[v]
    BY JobTypes, InHand DEF TypeOK, JobType, Handling, Raise, Goto, Unlock, NoJob, rows, inbox, outside, history, SetJob
  <2>3. batch' \in [Workers -> SUBSET emitted'] /\ held' \in [Workers -> SUBSET Events]
    BY JobTypes, InHand DEF TypeOK, Raise, Goto, Unlock, NoJob, rows, inbox, outside, history, SetJob
  <2> QED
    BY <1>a, <2>1, <2>2, <2>3, OutboxAssumption, JobTypes, InHand DEF AlertTypes, TypeOK, JobType, Phases, Handling, Raise, Goto, Unlock, NoJob, rows, inbox, outside, history, SetJob
<1>2. NothingLost'
  BY OutboxAssumption, JobTypes, InHand DEF TypeOK, JobType, NothingLost, DeliveryInv, Handling, Raise, Goto, Unlock, NoJob, rows, inbox, outside, history, SetJob
<1>3. DeliveryInv'
  <2>1. \A f \in Events : attempts'[f] <= failures'[f]
    BY JobTypes, InHand DEF TypeOK, DeliveryInv, Raise, Goto, Unlock, NoJob, rows, inbox, outside, history, SetJob
  <2> SUFFICES ASSUME NEW v \in Workers
               PROVE  LET f == job'[v].event
                      IN  /\ phase'[v] = "counting" => job'[v].attempts <= failures'[f]
                          /\ phase'[v] \in Handling =>
                               /\ kind'[f] = "order" => job'[v].notice \/ notices'[f] > 0
                               /\ \A x \in Subscribers[kind'[f]] : x \in job'[v].post \/ posts'[f][x] > 0
    BY <2>1 DEF DeliveryInv
  <2>2. CASE v = w
    BY <2>2, JobTypes, InHand DEF TypeOK, JobType, DeliveryInv, Handling, Raise, Goto, Unlock, NoJob, rows, inbox, outside, history, SetJob
  <2>3. CASE v # w
    BY <2>3, JobTypes, InHand DEF TypeOK, DeliveryInv, Handling, Raise, Goto, Unlock, NoJob, rows, inbox, outside, history, SetJob
  <2> QED
    BY <2>2, <2>3
<1> QED
  BY <1>a, <1>1, <1>2, <1>3

\* The attempts read are at most the failures.
LEMMA ReadAttemptsInv ==
  ASSUME InductiveInv, NEW w \in Workers, ReadAttempts(w)
  PROVE  InductiveInv'
<1> USE DEF InductiveInv
<1>a. AlertTypes' /\ AlertInv'
  BY AlertsSame DEF ReadAttempts
<1>0. SetJob(w, [job[w] EXCEPT !.attempts = attempts[job[w].event]])
  BY DEF ReadAttempts
<1>j. /\ [job[w] EXCEPT !.attempts = attempts[job[w].event]] \in JobType
      /\ [job[w] EXCEPT !.attempts = attempts[job[w].event]].event = job[w].event
      /\ [job[w] EXCEPT !.attempts = attempts[job[w].event]].attempts = attempts[job[w].event]
  <2>1. attempts[job[w].event] \in Nat
    BY InHand DEF TypeOK, ReadAttempts
  <2>2. [job[w] EXCEPT !.attempts = attempts[job[w].event]] \in JobType
    BY <2>1, JobTypes, JobUpdates
  <2> QED
    BY <2>2, JobTypes DEF JobType
<1>k. /\ job' \in [Workers -> JobType]
      /\ \A v \in Workers \ {w} : job'[v] = job[v]
      /\ job'[w].event = job[w].event
      /\ job'[w].attempts = attempts[job[w].event]
  BY <1>0, <1>j, JobSet
<1>1. TypeOK'
  <2>1. job' \in [Workers -> JobType]
    BY <1>k
  <2>2. \A v \in Workers : phase'[v] \notin {"idle", "next"} => job'[v].event \in batch'[v]
    BY <1>k, JobTypes, InHand DEF TypeOK, JobType, Handling, ReadAttempts, Goto, rows, inbox, outside, history
  <2>3. batch' \in [Workers -> SUBSET emitted'] /\ held' \in [Workers -> SUBSET Events]
    BY JobTypes, InHand DEF TypeOK, ReadAttempts, Goto, rows, inbox, outside, history
  <2> QED
    BY <1>a, <2>1, <2>2, <2>3, OutboxAssumption, JobTypes, InHand DEF AlertTypes, TypeOK, JobType, Phases, Handling, ReadAttempts, Goto, rows, inbox, outside, history
<1>2. NothingLost'
  BY OutboxAssumption, JobTypes, InHand DEF TypeOK, JobType, NothingLost, DeliveryInv, Handling, ReadAttempts, Goto, rows, inbox, outside, history
<1>3. DeliveryInv'
  <2>1. \A f \in Events : attempts'[f] <= failures'[f]
    BY JobTypes, InHand DEF TypeOK, DeliveryInv, ReadAttempts, Goto, rows, inbox, outside, history
  <2> SUFFICES ASSUME NEW v \in Workers
               PROVE  LET f == job'[v].event
                      IN  /\ phase'[v] = "counting" => job'[v].attempts <= failures'[f]
                          /\ phase'[v] \in Handling =>
                               /\ kind'[f] = "order" => job'[v].notice \/ notices'[f] > 0
                               /\ \A x \in Subscribers[kind'[f]] : x \in job'[v].post \/ posts'[f][x] > 0
    BY <2>1 DEF DeliveryInv
  <2>2. CASE v = w
    BY <2>2, <1>k, JobTypes, InHand DEF TypeOK, JobType, DeliveryInv, Handling, ReadAttempts, Goto, rows, inbox, outside, history
  <2>3. CASE v # w
    BY <2>3, <1>k, JobTypes, InHand DEF TypeOK, DeliveryInv, Handling, ReadAttempts, Goto, rows, inbox, outside, history
  <2> QED
    BY <2>2, <2>3
<1> QED
  BY <1>a, <1>1, <1>2, <1>3

\* An event is given up after MaxAttempts failures.
LEMMA MarkFailedInv ==
  ASSUME InductiveInv, NEW w \in Workers, MarkFailed(w)
  PROVE  InductiveInv'
<1> USE DEF InductiveInv
<1>a. AlertTypes' /\ AlertInv'
  BY AlertsSame DEF MarkFailed
<1>1. TypeOK'
  <2>1. job' \in [Workers -> JobType]
    BY OutboxAssumption, JobTypes, InHand DEF TypeOK, JobType, MarkFailed, Goto, Advance, Exhausted, NoJob, rows, inbox, outside, history, SetJob
  <2>2. \A v \in Workers : phase'[v] \notin {"idle", "next"} => job'[v].event \in batch'[v]
    BY JobTypes, InHand DEF TypeOK, JobType, Handling, MarkFailed, Goto, Advance, Exhausted, NoJob, rows, inbox, outside, history, SetJob
  <2>3. batch' \in [Workers -> SUBSET emitted'] /\ held' \in [Workers -> SUBSET Events]
    BY JobTypes, InHand DEF TypeOK, MarkFailed, Goto, Advance, Exhausted, NoJob, rows, inbox, outside, history, SetJob
  <2>4. /\ processed' \subseteq emitted'
        /\ attempts' \in [Events -> Nat]
        /\ failures' \in [Events -> Nat]
    BY JobTypes, InHand DEF TypeOK, MarkFailed
  <2> QED
    BY <1>a, <2>1, <2>2, <2>3, <2>4, OutboxAssumption, JobTypes, InHand DEF AlertTypes, TypeOK, JobType, Phases, Handling, MarkFailed, Goto, Advance, Exhausted, NoJob, rows, inbox, outside, history, SetJob
<1>2. NothingLost'
  <2> DEFINE e == job[w].event
  <2>1. /\ e \in Events
        /\ job[w].attempts \in Nat
        /\ failures[e] \in Nat
        /\ job[w].attempts <= failures[e]
    BY JobTypes, InHand DEF TypeOK, DeliveryInv, MarkFailed
  <2>2. failures' = [failures EXCEPT ![e] = @ + 1]
    BY DEF MarkFailed
  <2>3. \A f \in Events : failures'[f] >= failures[f]
    BY <2>1, <2>2 DEF TypeOK
  <2>4. e \in processed' => e \in processed \/ failures'[e] >= MaxAttempts
    BY <2>1, <2>2, OutboxAssumption DEF TypeOK, MarkFailed, Exhausted
  <2>5. processed' \subseteq processed \cup {e}
    BY DEF MarkFailed
  <2>6. UNCHANGED <<kind, notices, posts>>
    BY DEF MarkFailed, inbox, outside
  <2>7. \A f \in processed : failures[f] >= MaxAttempts => failures'[f] >= MaxAttempts
    BY <2>1, <2>2, <2>3, OutboxAssumption DEF TypeOK
  <2> QED
    BY <2>4, <2>5, <2>6, <2>7 DEF NothingLost
<1>3. DeliveryInv'
  <2>1. \A f \in Events : attempts'[f] <= failures'[f]
    BY JobTypes, InHand DEF TypeOK, DeliveryInv, MarkFailed, Goto, Advance, Exhausted, NoJob, rows, inbox, outside, history, SetJob
  <2> SUFFICES ASSUME NEW v \in Workers
               PROVE  LET f == job'[v].event
                      IN  /\ phase'[v] = "counting" => job'[v].attempts <= failures'[f]
                          /\ phase'[v] \in Handling =>
                               /\ kind'[f] = "order" => job'[v].notice \/ notices'[f] > 0
                               /\ \A x \in Subscribers[kind'[f]] : x \in job'[v].post \/ posts'[f][x] > 0
    BY <2>1 DEF DeliveryInv
  <2>2. CASE v = w
    BY <2>2, JobTypes, InHand DEF TypeOK, JobType, DeliveryInv, Handling, MarkFailed, Goto, Advance, Exhausted, NoJob, rows, inbox, outside, history, SetJob
  <2>3. CASE v # w
    BY <2>3, JobTypes, InHand DEF TypeOK, DeliveryInv, Handling, MarkFailed, Goto, Advance, Exhausted, NoJob, rows, inbox, outside, history, SetJob
  <2> QED
    BY <2>2, <2>3
<1> QED
  BY <1>a, <1>1, <1>2, <1>3

\* The event stays unprocessed.
LEMMA CrashInv ==
  ASSUME InductiveInv, NEW w \in Workers, Crash(w)
  PROVE  InductiveInv'
<1> USE DEF InductiveInv
<1>a. AlertTypes' /\ AlertInv'
  BY WorkersWrite, AlertsDropped DEF Crash
<1>1. TypeOK'
  <2>1. job' \in [Workers -> JobType]
    BY OutboxAssumption, JobTypes, InHand DEF TypeOK, JobType, Crash, Goto, Unlock, NoJob, rows, inbox, outside, history, SetJob
  <2>2. \A v \in Workers : phase'[v] \notin {"idle", "next"} => job'[v].event \in batch'[v]
    BY JobTypes, InHand DEF TypeOK, JobType, Handling, Crash, Goto, Unlock, NoJob, rows, inbox, outside, history, SetJob
  <2>3. batch' \in [Workers -> SUBSET emitted'] /\ held' \in [Workers -> SUBSET Events]
    BY JobTypes, InHand DEF TypeOK, Crash, Goto, Unlock, NoJob, rows, inbox, outside, history, SetJob
  <2> QED
    BY <1>a, <2>1, <2>2, <2>3, OutboxAssumption, JobTypes, InHand DEF AlertTypes, TypeOK, JobType, Phases, Handling, Crash, Goto, Unlock, NoJob, rows, inbox, outside, history, SetJob
<1>2. NothingLost'
  BY OutboxAssumption, JobTypes, InHand DEF TypeOK, JobType, NothingLost, DeliveryInv, Handling, Crash, Goto, Unlock, NoJob, rows, inbox, outside, history, SetJob
<1>3. DeliveryInv'
  <2>1. \A f \in Events : attempts'[f] <= failures'[f]
    BY JobTypes, InHand DEF TypeOK, DeliveryInv, Crash, Goto, Unlock, NoJob, rows, inbox, outside, history, SetJob
  <2> SUFFICES ASSUME NEW v \in Workers
               PROVE  LET f == job'[v].event
                      IN  /\ phase'[v] = "counting" => job'[v].attempts <= failures'[f]
                          /\ phase'[v] \in Handling =>
                               /\ kind'[f] = "order" => job'[v].notice \/ notices'[f] > 0
                               /\ \A x \in Subscribers[kind'[f]] : x \in job'[v].post \/ posts'[f][x] > 0
    BY <2>1 DEF DeliveryInv
  <2>2. CASE v = w
    BY <2>2, JobTypes, InHand DEF TypeOK, JobType, DeliveryInv, Handling, Crash, Goto, Unlock, NoJob, rows, inbox, outside, history, SetJob
  <2>3. CASE v # w
    BY <2>3, JobTypes, InHand DEF TypeOK, DeliveryInv, Handling, Crash, Goto, Unlock, NoJob, rows, inbox, outside, history, SetJob
  <2> QED
    BY <2>2, <2>3
<1> QED
  BY <1>a, <1>1, <1>2, <1>3

\* A request of POST /adjustments touches alerts only.
LEMMA AdjustedInv ==
  ASSUME InductiveInv, NEW c \in Clerks,
         \/ \E stock \in Levels : NotifyAdjusted(c, stock)
         \/ EndAdjusted(c)
  PROVE  InductiveInv'
<1> USE DEF InductiveInv
<1>1. AlertTypes' /\ AlertInv'
  BY WorkersWrite, AlertsLooked, AlertsPublished, AlertsDropped DEF NotifyAdjusted, EndAdjusted
<1>2. UNCHANGED <<rows, inbox, outside, phase, batch, held, job, history, crashes>>
  BY DEF NotifyAdjusted, EndAdjusted
<1>3. TypeOK'
  BY <1>1, <1>2 DEF TypeOK, AlertTypes, rows, inbox, outside, history
<1>4. NothingLost' /\ DeliveryInv'
  BY <1>2 DEF NothingLost, DeliveryInv, rows, inbox, outside, history
<1> QED
  BY <1>1, <1>3, <1>4

\* Poll and a stuttering step change nothing.
LEMMA StutterInv ==
  ASSUME InductiveInv, UNCHANGED vars
  PROVE  InductiveInv'
<1> USE DEF vars, rows, alerts, inbox, outside, history
<1>1. TypeOK'
  BY DEF InductiveInv, TypeOK
<1>2. NothingLost' /\ DeliveryInv'
  BY DEF InductiveInv, NothingLost, DeliveryInv
<1>3. AlertInv'
  BY DEF InductiveInv, AlertInv, Alerting
<1> QED
  BY <1>1, <1>2, <1>3 DEF InductiveInv

\* Every step keeps the invariant.
LEMMA NextInv == InductiveInv /\ [Next]_vars => InductiveInv'
<1> SUFFICES ASSUME InductiveInv, [Next]_vars PROVE InductiveInv'
  OBVIOUS
<1>1. CASE Emit
  BY <1>1, EmitInv
<1>2. CASE ReadAlerts
  BY <1>2, ReadAlertsInv
<1>3. CASE RequestBackInStock
  BY <1>3, RequestBackInStockInv
<1>4. CASE \E w \in Workers : Claim(w)
  BY <1>4, ClaimInv
<1>5. CASE \E w \in Workers, e \in Events, stock \in Levels : Handle(w, e, stock)
  BY <1>5, HandleInv
<1>6. CASE \E w \in Workers : Mail(w)
  BY <1>6, MailInv
<1>7. CASE \E w \in Workers : Post(w)
  BY <1>7, PostInv
<1>8. CASE \E w \in Workers : CommitDelivery(w)
  BY <1>8, CommitDeliveryInv
<1>9. CASE \E w \in Workers : Finish(w)
  BY <1>9, FinishInv
<1>10. CASE \E w \in Workers : Raise(w)
  BY <1>10, RaiseInv
<1>11. CASE \E w \in Workers : ReadAttempts(w)
  BY <1>11, ReadAttemptsInv
<1>12. CASE \E w \in Workers : MarkFailed(w)
  BY <1>12, MarkFailedInv
<1>13. CASE \E w \in Workers : Crash(w)
  BY <1>13, CrashInv
<1>14. CASE UNCHANGED vars \/ \E w \in Workers : Poll(w)
  BY <1>14, StutterInv DEF Poll
<1>15. ASSUME NEW c \in Beside[kind],
              (\E stock \in Levels : NotifyAdjusted(c, stock)) \/ EndAdjusted(c)
       PROVE  InductiveInv'
  <2>1. c \in Clerks
    BY OutboxAssumption DEF InductiveInv, TypeOK
  <2> QED
    BY <1>15, <2>1, AdjustedInv
<1> QED
  BY <1>15, <1>1, <1>2, <1>3, <1>4, <1>5, <1>6, <1>7, <1>8, <1>9, <1>10, <1>11, <1>12, <1>13, <1>14 DEF Next, Work

\* Spec keeps InductiveInv: the jobs of the workers account for everything the
\* claimed events are owed, whatever crashes, fails or overlaps.
THEOREM Invariance == Spec => []InductiveInv
  BY InitInv, NextInv, PTL DEF Spec

\* No event is dropped by process_pending before it is delivered or has failed
\* MAX_ATTEMPTS times.
THEOREM NeverLost == Spec => []NothingLost
<1>1. InductiveInv => NothingLost
  BY DEF InductiveInv
<1> QED
  BY <1>1, Invariance, PTL

\* A user's unread alerts of a product are at most one from each worker and
\* each request under way, and one for each look that missed an alert.
THEOREM AlertsAccountedFor == Spec => []AlertsBounded
<1>1. InductiveInv => AlertsBounded
  <2> SUFFICES ASSUME InductiveInv, NEW u \in Staff
               PROVE  unread[u] <= Cardinality(Writers) + missed
    BY DEF AlertsBounded
  <2>1. Alerting(u) \in SUBSET Writers
    BY DEF Alerting
  <2>2. Cardinality(Alerting(u)) \in Nat /\ Cardinality(Writers) \in Nat
    BY <2>1, WritersFinite
  <2> QED
    BY <2>2 DEF InductiveInv, AlertInv, TypeOK
<1> QED
  BY <1>1, Invariance, PTL

-----------------------------------------------------------------------------
(***************************************************************************)
(* RepeatsExplained.  Workers claim, work and leave; a count of what was   *)
(* done and what is owed never outruns the budget of causes.               *)
(***************************************************************************)

\* A count and what is owed to it stay within the budget when the owed goes
\* down, when one that was owed is done, and when the budget grows by one
\* with the one that joins.
LEMMA CountKept ==
  ASSUME NEW n \in Int, NEW m \in Int, NEW b \in Int, NEW c \in Int,
         NEW S \in SUBSET Workers, NEW T \in SUBSET Workers, NEW w \in Workers,
         n + Cardinality(S) <= b, b <= c,
         \/ m = n /\ T \subseteq S
         \/ m = n + 1 /\ w \in S /\ T \subseteq S \ {w}
         \/ m = n /\ T \subseteq S \cup {w} /\ b + 1 <= c
  PROVE  m + Cardinality(T) <= c
<1>1. IsFiniteSet(S) /\ IsFiniteSet(T) /\ Cardinality(S) \in Nat /\ Cardinality(T) \in Nat
  BY WorkersFinite
<1>2. CASE m = n /\ T \subseteq S
  BY <1>1, <1>2, FS_Subset
<1>3. CASE m = n + 1 /\ w \in S /\ T \subseteq S \ {w}
  <2>1. /\ IsFiniteSet(S \ {w})
        /\ Cardinality(S \ {w}) = Cardinality(S) - 1
    BY <1>1, <1>3, FS_RemoveElement
  <2>2. Cardinality(T) <= Cardinality(S \ {w})
    BY <1>3, <2>1, FS_Subset
  <2> QED
    BY <1>1, <1>3, <2>1, <2>2
<1>4. CASE m = n /\ T \subseteq S \cup {w} /\ b + 1 <= c
  <2>1. /\ IsFiniteSet(S \cup {w})
        /\ Cardinality(S \cup {w}) <= Cardinality(S) + 1
    <3>1. CASE w \in S
      <4>1. S \cup {w} = S
        BY <3>1
      <4> QED
        BY <1>1, <4>1
    <3>2. CASE w \notin S
      <4>1. Cardinality(S \cup {w}) = Cardinality(S) + 1
        BY <1>1, <3>2, FS_AddElement
      <4> QED
        BY <1>1, <4>1, FS_AddElement
    <3> QED
      BY <3>1, <3>2
  <2>2. Cardinality(T) <= Cardinality(S \cup {w})
    BY <1>4, <2>1, FS_Subset
  <2>3. Cardinality(S \cup {w}) \in Nat
    BY <2>1, FS_CardinalityType
  <2> QED
    BY <1>1, <1>4, <2>1, <2>2, <2>3
<1> QED
  BY <1>2, <1>3, <1>4

\* The workers that owe an event a POST, the notification, or a mail.
Poster(e, h) == {w \in Workers : OwesPost(w, e, h)}
Notifier(e) == {w \in Workers : OwesNotice(w, e)}
Mailer(e, s) == {w \in Workers : OwesMail(w, e, s)}

\* The causes and the overlaps are naturals, and the budget an integer.
LEMMA BudgetType ==
  ASSUME TypeOK, NEW e \in Events
  PROVE  Budget(e) \in Int /\ Causes(e) \in Nat /\ overlaps[e] \in Nat
BY DEF TypeOK, Budget, Causes

\* The other workers, in a step of w.
OthersStay(w) ==
  \A v \in Workers \ {w} : phase'[v] = phase[v] /\ batch'[v] = batch[v] /\ job'[v] = job[v]

\* What is done to the batch and the job of w in every step but a claim:
\* events leave, and of the one it works on less and less is due.
Shrinks(w) ==
  /\ batch'[w] \subseteq batch[w]
  /\ \A e \in batch'[w] : Working(w, e) =>
       /\ Working(w, e)'
       /\ job'[w].post \subseteq job[w].post
       /\ job'[w].notice => job[w].notice
       /\ job'[w].tell \subseteq job[w].tell

\* What is owed to an event shrinks for w and stays for every other worker.
LEMMA OwedShrinks ==
  ASSUME NEW w \in Workers, OthersStay(w), Shrinks(w), NEW e, NEW v \in Workers
  PROVE  /\ \A h : OwesPost(v, e, h)' => OwesPost(v, e, h)
         /\ OwesNotice(v, e)' => OwesNotice(v, e)
         /\ \A s : OwesMail(v, e, s)' => OwesMail(v, e, s)
<1>1. CASE v = w
  <2>1. ASSUME e \in batch'[w]
        PROVE  /\ e \in batch[w]
               /\ Working(w, e) =>
                    /\ Working(w, e)'
                    /\ job'[w].post \subseteq job[w].post
                    /\ job'[w].notice => job[w].notice
                    /\ job'[w].tell \subseteq job[w].tell
    BY <2>1 DEF Shrinks
  <2>2. \A h : OwesPost(w, e, h)' => OwesPost(w, e, h)
    BY <2>1 DEF OwesPost
  <2>3. OwesNotice(w, e)' => OwesNotice(w, e)
    BY <2>1, Zenon DEF OwesNotice
  <2>4. \A s : OwesMail(w, e, s)' => OwesMail(w, e, s)
    BY <2>1 DEF OwesMail
  <2> QED
    BY <1>1, <2>2, <2>3, <2>4
<1>2. CASE v # w
  BY <1>2 DEF OthersStay, Working, OwesPost, OwesNotice, OwesMail
<1> QED
  BY <1>1, <1>2

\* A step of w that claims nothing: one kind of count may grow, by one, for the
\* event w works on, and only by what is owed to it.
NoticesFit(w) ==
  \A e \in Events :
    \/ notices'[e] = notices[e]
    \/ notices'[e] = notices[e] + 1 /\ OwesNotice(w, e) /\ ~OwesNotice(w, e)'
PostsFit(w) ==
  \A e \in Events, h \in Endpoints :
    \/ posts'[e][h] = posts[e][h]
    \/ posts'[e][h] = posts[e][h] + 1 /\ OwesPost(w, e, h) /\ ~OwesPost(w, e, h)'
MailsFit(w) ==
  \A s \in Shoppers :
    \/ mails'[s] = mails[s]
    \/ /\ mails'[s] = mails[s] + 1
       /\ \E e \in Events : e \in Restocks /\ OwesMail(w, e, s) /\ ~OwesMail(w, e, s)'
TellsRestocks(w) ==
  /\ phase'[w] = "idle" => batch'[w] = {}
  /\ job'[w].tell # {} => phase'[w] = "mailing" /\ kind'[job'[w].event] = "restock"

\* A step that claims nothing keeps all the counts within their budgets.
LEMMA WorkKept ==
  ASSUME TypeOK, TypeOK', RepeatsInv, NEW w \in Workers,
         OthersStay(w), Shrinks(w), NoticesFit(w), PostsFit(w), MailsFit(w), TellsRestocks(w),
         UNCHANGED <<emitted, kind>>, \A e \in Events : Budget(e) <= Budget(e)'
  PROVE  RepeatsInv'
<1>1. ASSUME NEW e \in Events
      PROVE  /\ (notices[e] + NoticesOwed(e) <= Budget(e))'
             /\ \A h \in Endpoints : (posts[e][h] + PostsOwed(e, h) <= Budget(e))'
  <2>1. /\ Budget(e) \in Int /\ Budget(e)' \in Int /\ Budget(e) <= Budget(e)'
        /\ notices[e] \in Int /\ notices'[e] \in Int
        /\ \A h \in Endpoints : posts[e][h] \in Int /\ posts'[e][h] \in Int
    <3>1. Budget(e)' \in Int
      BY DEF TypeOK, Budget, Causes
    <3> QED
      BY <3>1, BudgetType DEF TypeOK
  <2>2. (notices[e] + NoticesOwed(e) <= Budget(e))'
    <3>1. Notifier(e) \in SUBSET Workers /\ Notifier(e)' \in SUBSET Workers
      BY DEF Notifier
    <3>2. notices[e] + Cardinality(Notifier(e)) <= Budget(e)
      BY DEF RepeatsInv, NoticesOwed, Notifier
    <3>3. \/ notices'[e] = notices[e] /\ Notifier(e)' \subseteq Notifier(e)
          \/ notices'[e] = notices[e] + 1 /\ w \in Notifier(e) /\ Notifier(e)' \subseteq Notifier(e) \ {w}
      BY OwedShrinks DEF NoticesFit, Notifier
    <3>4. notices'[e] + Cardinality(Notifier(e)') <= Budget(e)'
      BY <2>1, <3>1, <3>2, <3>3, CountKept
    <3> QED
      BY <3>4 DEF NoticesOwed, Notifier
  <2>3. ASSUME NEW h \in Endpoints PROVE (posts[e][h] + PostsOwed(e, h) <= Budget(e))'
    <3>1. Poster(e, h) \in SUBSET Workers /\ Poster(e, h)' \in SUBSET Workers
      BY DEF Poster
    <3>2. posts[e][h] + Cardinality(Poster(e, h)) <= Budget(e)
      BY DEF RepeatsInv, PostsOwed, Poster
    <3>3. \/ posts'[e][h] = posts[e][h] /\ Poster(e, h)' \subseteq Poster(e, h)
          \/ posts'[e][h] = posts[e][h] + 1 /\ w \in Poster(e, h) /\ Poster(e, h)' \subseteq Poster(e, h) \ {w}
      BY OwedShrinks DEF PostsFit, Poster
    <3>4. posts'[e][h] + Cardinality(Poster(e, h)') <= Budget(e)'
      BY <2>1, <3>1, <3>2, <3>3, CountKept
    <3> QED
      BY <3>4 DEF PostsOwed, Poster
  <2> QED
    BY <2>2, <2>3
<1>2. Restocks' = Restocks
  BY DEF Restocks
<1>3. ASSUME NEW s \in Shoppers, Restocks = {} PROVE mails'[s] = 0
  BY <1>3 DEF RepeatsInv, MailsFit
<1>4. ASSUME NEW s \in Shoppers, NEW e \in Events, Restocks = {e}
      PROVE  (mails[s] + MailsOwed(e, s) <= Budget(e))'
  <2>1. /\ Budget(e) \in Int /\ Budget(e)' \in Int /\ Budget(e) <= Budget(e)'
        /\ mails[s] \in Int /\ mails'[s] \in Int
    <3>1. Budget(e)' \in Int
      BY DEF TypeOK, Budget, Causes
    <3> QED
      BY <3>1, BudgetType DEF TypeOK
  <2>2. Mailer(e, s) \in SUBSET Workers /\ Mailer(e, s)' \in SUBSET Workers
    BY DEF Mailer
  <2>3. mails[s] + Cardinality(Mailer(e, s)) <= Budget(e)
    BY <1>4 DEF RepeatsInv, MailsOwed, Mailer
  <2>4. \/ mails'[s] = mails[s] /\ Mailer(e, s)' \subseteq Mailer(e, s)
        \/ mails'[s] = mails[s] + 1 /\ w \in Mailer(e, s) /\ Mailer(e, s)' \subseteq Mailer(e, s) \ {w}
    BY <1>4, OwedShrinks DEF MailsFit, Mailer
  <2>5. mails'[s] + Cardinality(Mailer(e, s)') <= Budget(e)'
    BY <2>1, <2>2, <2>3, <2>4, CountKept
  <2> QED
    BY <2>5 DEF MailsOwed, Mailer
<1>5. ASSUME NEW v \in Workers PROVE TellsRestocks(v)
  <2>1. CASE v = w
    BY <2>1
  <2>2. CASE v # w
    BY <2>2 DEF OthersStay, TellsRestocks, RepeatsInv
  <2> QED
    BY <2>1, <2>2
<1> QED
  BY <1>1, <1>2, <1>3, <1>4, <1>5 DEF RepeatsInv, TellsRestocks

\* At first nothing is done, owed or taken.
LEMMA InitRepeats == Init => RepeatsInv
<1> SUFFICES ASSUME Init PROVE RepeatsInv
  OBVIOUS
<1> USE DEF Init
<1>1. IsFiniteSet(emitted)
  BY FS_EmptySet
<1>2. \A w \in Workers : phase[w] = "idle" /\ batch[w] = {} /\ job[w].tell = {}
  BY DEF NoJob
<1>3. ASSUME NEW e \in Events
      PROVE  Budget(e) = 0 /\ NoticesOwed(e) = 0 /\ \A h \in Endpoints : PostsOwed(e, h) = 0
  <2>1. Budget(e) = 0
    BY <1>2 DEF Budget, Taken, Causes
  <2>2. Notifier(e) = {} /\ \A h \in Endpoints : Poster(e, h) = {}
    BY <1>2 DEF Notifier, Poster, OwesNotice, OwesPost
  <2> QED
    BY <2>1, <2>2, FS_EmptySet DEF NoticesOwed, PostsOwed, Notifier, Poster
<1>4. Restocks = {}
  BY DEF Restocks
<1> QED
  BY <1>1, <1>2, <1>3, <1>4 DEF RepeatsInv

\* The event is processed: it stays taken, and w owes it nothing any more.
LEMMA FinishRepeats ==
  ASSUME InductiveInv, RepeatsInv, TypeOK', NEW w \in Workers, Finish(w)
  PROVE  RepeatsInv'
<1> USE DEF InductiveInv
<1> DEFINE e == job[w].event
<1>1. /\ phase[w] = "sending" /\ e \in batch[w] /\ e \in Events /\ e \in emitted
      /\ Working(w, e)
  BY InHand DEF Finish, Working
<1>2. /\ batch'[w] = batch[w] \ {e} /\ job'[w] = NoJob
      /\ phase'[w] = IF batch'[w] = {} THEN "idle" ELSE "next"
      /\ OthersStay(w) /\ UNCHANGED <<emitted, kind, posts, mails, failures, overlaps, crashes>>
      /\ notices' = IF job[w].notice THEN [notices EXCEPT ![e] = @ + 1] ELSE notices
      /\ processed' = processed \cup {e}
  BY DEF Finish, Commit, Advance, Goto, SetJob, OthersStay, TypeOK, outside, history
<1>3. Shrinks(w)
  BY <1>2 DEF Shrinks, Working
<1>4. NoticesFit(w)
  BY <1>1, <1>2 DEF NoticesFit, OwesNotice, TypeOK
<1>5. PostsFit(w) /\ MailsFit(w)
  BY <1>2 DEF PostsFit, MailsFit
<1>6. TellsRestocks(w)
  BY <1>2 DEF TellsRestocks, NoJob
<1>7. ASSUME NEW f \in Events PROVE Budget(f) <= Budget(f)'
  <2>1. Taken(f) => Taken(f)'
    <3>1. CASE f = e
      BY <1>2, <3>1 DEF Taken
    <3>2. CASE f # e
      BY <1>2, <3>2 DEF Taken, OthersStay
    <3> QED
      BY <3>1, <3>2
  <2>2. Causes(f)' = Causes(f) /\ overlaps'[f] = overlaps[f]
    BY <1>2 DEF Causes
  <2> QED
    BY <2>1, <2>2, BudgetType DEF Budget
<1> QED
  BY <1>2, <1>3, <1>4, <1>5, <1>6, <1>7, WorkKept

\* The steps in which w goes on with the event it has in hand: nothing leaves
\* its batch and no cause is added.
LEMMA BudgetSame ==
  ASSUME TypeOK, NEW w \in Workers, OthersStay(w), batch'[w] = batch[w],
         UNCHANGED <<processed, overlaps, crashes, failures>>, NEW f \in Events
  PROVE  Budget(f) <= Budget(f)'
<1>1. Taken(f) => Taken(f)'
  BY DEF Taken, OthersStay
<1>2. Causes(f)' = Causes(f) /\ overlaps'[f] = overlaps[f]
  BY DEF Causes
<1> QED
  BY <1>1, <1>2, BudgetType DEF Budget

\* What the job lists was owed since the claim.
LEMMA HandleRepeats ==
  ASSUME InductiveInv, RepeatsInv, TypeOK', NEW w \in Workers,
         NEW e \in Events, NEW stock \in Levels, Handle(w, e, stock)
  PROVE  RepeatsInv'
<1> USE DEF InductiveInv
<1>1. /\ phase[w] = "next" /\ e \in batch[w]
      /\ \A f \in Events : ~Working(w, f)
  BY DEF Handle, Working
<1>2. /\ batch' = batch
      /\ phase'[w] = IF job'[w].tell = {} THEN "sending" ELSE "mailing"
      /\ OthersStay(w)
      /\ UNCHANGED <<emitted, kind, posts, mails, notices, processed, failures, overlaps, crashes>>
  BY DEF Handle, Goto, SetJob, OthersStay, TypeOK, rows, inbox, outside, history
<1>3. job'[w].event = e /\ (job'[w].tell # {} => kind[e] = "restock")
  BY DEF Handle, SetJob, TypeOK, NoJob
<1>4. Shrinks(w)
  BY <1>1, <1>2 DEF Shrinks, Working
<1>5. NoticesFit(w) /\ PostsFit(w) /\ MailsFit(w)
  BY <1>2 DEF NoticesFit, PostsFit, MailsFit
<1>6. TellsRestocks(w)
  BY <1>2, <1>3 DEF TellsRestocks
<1> QED
  BY <1>2, <1>4, <1>5, <1>6, BudgetSame, WorkKept

\* What the job of w becomes while it works on its event.
GoesOn(w) ==
  /\ phase[w] \notin {"idle", "next"} /\ phase'[w] \notin {"idle", "next"}
  /\ batch' = batch /\ job'[w].event = job[w].event
  /\ job'[w].post \subseteq job[w].post
  /\ job'[w].notice => job[w].notice
  /\ job'[w].tell \subseteq job[w].tell
  /\ OthersStay(w)

\* A worker that goes on with its event keeps it in its batch.
LEMMA GoingOn ==
  ASSUME InductiveInv, NEW w \in Workers, GoesOn(w)
  PROVE  /\ Shrinks(w)
         /\ Working(w, job[w].event) /\ Working(w, job[w].event)'
         /\ job[w].event \in batch[w] /\ job[w].event \in batch'[w] /\ job[w].event \in Events
         /\ phase'[w] = "idle" => batch'[w] = {}
<1>1. Working(w, job[w].event) /\ Working(w, job[w].event)'
  BY DEF GoesOn, Working
<1>2. job[w].event \in batch[w] /\ job[w].event \in Events
  BY InHand DEF InductiveInv, GoesOn
<1>3. ASSUME NEW e, Working(w, e) PROVE Working(w, e)'
  BY <1>3 DEF GoesOn, Working
<1>4. Shrinks(w)
  BY <1>3 DEF Shrinks, GoesOn
<1> QED
  BY <1>1, <1>2, <1>4 DEF GoesOn

\* A mail is sent for the only restock there can be, and no longer owed.
LEMMA MailRepeats ==
  ASSUME InductiveInv, RepeatsInv, TypeOK', NEW w \in Workers, Mail(w)
  PROVE  RepeatsInv'
<1> USE DEF InductiveInv
<1> PICK e \in Events : e = job[w].event
  BY InHand DEF Mail
<1> PICK s \in job[w].tell :
      /\ mails' = [mails EXCEPT ![s] = @ + 1]
      /\ SetJob(w, [job[w] EXCEPT !.tell = @ \ {s}, !.told = @ \cup {s}])
      /\ Goto(w, IF job[w].tell = {s} THEN "sending" ELSE "mailing")
  BY DEF Mail
<1>1. s \in Shoppers /\ job[w] \in JobType
  BY JobTypes DEF JobType
<1>2. /\ job'[w].tell = job[w].tell \ {s} /\ job'[w].event = e
      /\ job'[w].post = job[w].post /\ job'[w].notice = job[w].notice
  BY <1>1 DEF SetJob, TypeOK, JobType
<1>3. /\ phase[w] = "mailing" /\ phase'[w] = IF job[w].tell = {s} THEN "sending" ELSE "mailing"
      /\ batch' = batch /\ OthersStay(w)
      /\ UNCHANGED <<emitted, kind, posts, notices, processed, failures, overlaps, crashes>>
  BY DEF Mail, Goto, SetJob, OthersStay, TypeOK, rows, inbox, history
<1>4. GoesOn(w)
  BY <1>2, <1>3 DEF GoesOn
<1>5. NoticesFit(w) /\ PostsFit(w)
  BY <1>3 DEF NoticesFit, PostsFit
<1>6. e \in Restocks /\ OwesMail(w, e, s) /\ ~OwesMail(w, e, s)'
  <2>1. kind[e] = "restock" /\ e \in emitted
    BY <1>3, InHand DEF RepeatsInv
  <2> QED
    BY <1>2, <1>4, <2>1, GoingOn DEF Restocks, OwesMail
<1>7. MailsFit(w)
  <2> SUFFICES ASSUME NEW t \in Shoppers
               PROVE  \/ mails'[t] = mails[t]
                      \/ /\ mails'[t] = mails[t] + 1
                         /\ \E f \in Events : f \in Restocks /\ OwesMail(w, f, t) /\ ~OwesMail(w, f, t)'
    BY DEF MailsFit
  <2>1. e \in Events
    BY <1>4, GoingOn
  <2>2. CASE t = s
    <3>1. mails'[t] = mails[t] + 1
      BY <1>1, <2>2 DEF TypeOK
    <3> QED
      BY <1>6, <2>1, <2>2, <3>1
  <2>3. CASE t # s
    BY <2>3 DEF TypeOK
  <2> QED
    BY <2>2, <2>3
<1>8. TellsRestocks(w)
  <2>1. kind[e] = "restock"
    BY <1>3 DEF RepeatsInv
  <2> QED
    BY <1>2, <1>3, <2>1 DEF TellsRestocks
<1> QED
  BY <1>3, <1>4, <1>5, <1>7, <1>8, GoingOn, BudgetSame, WorkKept DEF GoesOn

\* A POST is made, and no longer owed.
LEMMA PostRepeats ==
  ASSUME InductiveInv, RepeatsInv, TypeOK', NEW w \in Workers, Post(w)
  PROVE  RepeatsInv'
<1> USE DEF InductiveInv
<1> PICK e \in Events : e = job[w].event
  BY InHand DEF Post
<1> PICK h \in job[w].post :
      /\ posts' = [posts EXCEPT ![e][h] = @ + 1]
      /\ SetJob(w, [job[w] EXCEPT !.post = @ \ {h}])
  BY DEF Post
<1>1. h \in Endpoints /\ job[w] \in JobType
  BY JobTypes DEF JobType
<1>2. /\ job'[w].post = job[w].post \ {h} /\ job'[w].event = e
      /\ job'[w].tell = job[w].tell /\ job'[w].notice = job[w].notice
  BY <1>1 DEF SetJob, TypeOK, JobType
<1>3. /\ phase[w] = "sending" /\ phase'[w] = "posted"
      /\ batch' = batch /\ OthersStay(w)
      /\ UNCHANGED <<emitted, kind, mails, notices, processed, failures, overlaps, crashes>>
  BY DEF Post, Goto, SetJob, OthersStay, TypeOK, rows, inbox, history
<1>4. GoesOn(w)
  BY <1>2, <1>3 DEF GoesOn
<1>5. NoticesFit(w) /\ MailsFit(w)
  BY <1>3 DEF NoticesFit, MailsFit
<1>6. OwesPost(w, e, h) /\ ~OwesPost(w, e, h)'
  BY <1>2, <1>4, GoingOn DEF OwesPost
<1>7. PostsFit(w)
  <2> SUFFICES ASSUME NEW f \in Events, NEW g \in Endpoints
               PROVE  \/ posts'[f][g] = posts[f][g]
                      \/ posts'[f][g] = posts[f][g] + 1 /\ OwesPost(w, f, g) /\ ~OwesPost(w, f, g)'
    BY DEF PostsFit
  <2>1. CASE f = e /\ g = h
    <3>1. e \in Events
      BY <1>4, GoingOn
    <3>2. posts[e] \in [Endpoints -> Nat]
      BY <3>1 DEF TypeOK
    <3>3. posts'[e][h] = posts[e][h] + 1
      BY <1>1, <3>1, <3>2 DEF TypeOK
    <3> QED
      BY <1>6, <2>1, <3>3
  <2>2. CASE ~(f = e /\ g = h)
    BY <2>2 DEF TypeOK
  <2> QED
    BY <2>1, <2>2
<1>8. TellsRestocks(w)
  <2>1. job[w].tell = {}
    BY <1>3 DEF RepeatsInv
  <2> QED
    BY <1>2, <1>3, <2>1 DEF TellsRestocks
<1> QED
  BY <1>3, <1>4, <1>5, <1>7, <1>8, GoingOn, BudgetSame, WorkKept DEF GoesOn

\* The notification is committed, and no longer owed.
LEMMA CommitDeliveryRepeats ==
  ASSUME InductiveInv, RepeatsInv, TypeOK', NEW w \in Workers, CommitDelivery(w)
  PROVE  RepeatsInv'
<1> USE DEF InductiveInv
<1> DEFINE e == job[w].event
<1>1. job[w] \in JobType
  BY JobTypes
<1> PICK no : no = FALSE
  BY Zenon
<1>2. /\ job'[w].post = job[w].post /\ job'[w].event = e
      /\ job'[w].tell = job[w].tell /\ job'[w].notice = FALSE
  <2>1. SetJob(w, [job[w] EXCEPT !.notice = no, !.told = {}])
    BY Zenon DEF CommitDelivery
  <2>2. job'[w] = [job[w] EXCEPT !.notice = no, !.told = {}]
    BY <2>1 DEF SetJob, TypeOK
  <2>3. /\ job'[w].post = job[w].post /\ job'[w].event = e
        /\ job'[w].tell = job[w].tell /\ job'[w].notice = no
    BY <1>1, <2>2 DEF JobType
  <2> QED
    BY <2>3
<1>3. /\ phase[w] = "posted" /\ phase'[w] = "sending"
      /\ batch' = batch /\ OthersStay(w)
      /\ UNCHANGED <<emitted, kind, mails, posts, processed, failures, overlaps, crashes>>
      /\ notices' = IF job[w].notice THEN [notices EXCEPT ![e] = @ + 1] ELSE notices
  BY DEF CommitDelivery, Commit, Goto, SetJob, OthersStay, TypeOK, rows, outside, history
<1>4. GoesOn(w)
  BY <1>2, <1>3 DEF GoesOn
<1>5. PostsFit(w) /\ MailsFit(w)
  BY <1>3 DEF PostsFit, MailsFit
<1>6. NoticesFit(w)
  BY <1>2, <1>3, <1>4, GoingOn DEF NoticesFit, OwesNotice, TypeOK
<1>7. TellsRestocks(w)
  <2>1. job[w].tell = {}
    BY <1>3 DEF RepeatsInv
  <2> QED
    BY <1>2, <1>3, <2>1 DEF TellsRestocks
<1> QED
  BY <1>3, <1>4, <1>5, <1>6, <1>7, GoingOn, BudgetSame, WorkKept DEF GoesOn

\* After the rollback nothing is owed but the counting of the failure.
LEMMA RaiseRepeats ==
  ASSUME InductiveInv, RepeatsInv, TypeOK', NEW w \in Workers, Raise(w)
  PROVE  RepeatsInv'
<1> USE DEF InductiveInv
<1>1. /\ job'[w].post = {} /\ job'[w].event = job[w].event
      /\ job'[w].tell = {} /\ job'[w].notice = FALSE
  BY DEF Raise, SetJob, TypeOK, NoJob
<1>2. /\ phase[w] \in Handling /\ phase'[w] = "failed"
      /\ batch' = batch /\ OthersStay(w)
      /\ UNCHANGED <<emitted, kind, mails, posts, notices, processed, failures, overlaps, crashes>>
  BY DEF Raise, Goto, SetJob, OthersStay, TypeOK, rows, inbox, outside, history
<1>3. GoesOn(w)
  BY <1>1, <1>2 DEF GoesOn, Handling
<1>4. NoticesFit(w) /\ PostsFit(w) /\ MailsFit(w)
  BY <1>2 DEF NoticesFit, PostsFit, MailsFit
<1>5. TellsRestocks(w)
  BY <1>1, <1>2 DEF TellsRestocks
<1> QED
  BY <1>2, <1>3, <1>4, <1>5, GoingOn, BudgetSame, WorkKept DEF GoesOn

\* Reading attempts changes none of it.
LEMMA ReadAttemptsRepeats ==
  ASSUME InductiveInv, RepeatsInv, TypeOK', NEW w \in Workers, ReadAttempts(w)
  PROVE  RepeatsInv'
<1> USE DEF InductiveInv
<1>1. /\ job'[w].post = job[w].post /\ job'[w].event = job[w].event
      /\ job'[w].tell = job[w].tell /\ job'[w].notice = job[w].notice
  BY JobTypes DEF ReadAttempts, SetJob, TypeOK, JobType
<1>2. /\ phase[w] = "failed" /\ phase'[w] = "counting"
      /\ batch' = batch /\ OthersStay(w)
      /\ UNCHANGED <<emitted, kind, mails, posts, notices, processed, failures, overlaps, crashes>>
  BY DEF ReadAttempts, Goto, SetJob, OthersStay, TypeOK, rows, inbox, outside, history
<1>3. GoesOn(w)
  BY <1>1, <1>2 DEF GoesOn
<1>4. NoticesFit(w) /\ PostsFit(w) /\ MailsFit(w)
  BY <1>2 DEF NoticesFit, PostsFit, MailsFit
<1>5. TellsRestocks(w)
  <2>1. job[w].tell = {}
    BY <1>2 DEF RepeatsInv
  <2> QED
    BY <1>1, <1>2, <2>1 DEF TellsRestocks
<1> QED
  BY <1>2, <1>3, <1>4, <1>5, GoingOn, BudgetSame, WorkKept DEF GoesOn

\* The event may be free again, but a failure is counted for it.
LEMMA MarkFailedRepeats ==
  ASSUME InductiveInv, RepeatsInv, TypeOK', NEW w \in Workers, MarkFailed(w)
  PROVE  RepeatsInv'
<1> USE DEF InductiveInv
<1> DEFINE e == job[w].event
<1>1. e \in Events
  BY InHand DEF MarkFailed
<1>2. /\ batch'[w] = batch[w] \ {e} /\ job'[w] = NoJob
      /\ phase'[w] = IF batch'[w] = {} THEN "idle" ELSE "next"
      /\ OthersStay(w) /\ UNCHANGED <<emitted, kind, posts, mails, notices, overlaps, crashes>>
      /\ failures' = [failures EXCEPT ![e] = @ + 1]
      /\ processed \subseteq processed'
  BY DEF MarkFailed, Advance, Goto, SetJob, OthersStay, TypeOK, inbox, outside
<1>3. Shrinks(w)
  BY <1>2 DEF Shrinks, Working
<1>4. NoticesFit(w) /\ PostsFit(w) /\ MailsFit(w)
  BY <1>2 DEF NoticesFit, PostsFit, MailsFit
<1>5. TellsRestocks(w)
  BY <1>2 DEF TellsRestocks, NoJob
<1>6. ASSUME NEW f \in Events PROVE Budget(f) <= Budget(f)'
  <2>1. CASE f = e
    <3>1. Causes(f)' = Causes(f) + 1 /\ overlaps'[f] = overlaps[f]
      BY <1>1, <1>2, <2>1 DEF Causes, TypeOK
    <3> QED
      BY <3>1, BudgetType DEF Budget
  <2>2. CASE f # e
    <3>1. Taken(f) => Taken(f)'
      BY <1>2, <2>2 DEF Taken, OthersStay
    <3>2. Causes(f)' = Causes(f) /\ overlaps'[f] = overlaps[f]
      BY <1>2, <2>2 DEF Causes, TypeOK
    <3> QED
      BY <3>1, <3>2, BudgetType DEF Budget
  <2> QED
    BY <2>1, <2>2
<1> QED
  BY <1>2, <1>3, <1>4, <1>5, <1>6, WorkKept

\* The whole batch may be free again, but a crash is counted for each event.
LEMMA CrashRepeats ==
  ASSUME InductiveInv, RepeatsInv, TypeOK', NEW w \in Workers, Crash(w)
  PROVE  RepeatsInv'
<1> USE DEF InductiveInv
<1>1. /\ batch'[w] = {} /\ job'[w] = NoJob /\ phase'[w] = "idle"
      /\ OthersStay(w) /\ UNCHANGED <<emitted, kind, posts, mails, notices, failures, overlaps>>
      /\ crashes' = crashes + 1
  BY DEF Crash, Goto, SetJob, OthersStay, TypeOK, rows, inbox, outside, history
<1>2. Shrinks(w)
  BY <1>1 DEF Shrinks
<1>3. NoticesFit(w) /\ PostsFit(w) /\ MailsFit(w)
  BY <1>1 DEF NoticesFit, PostsFit, MailsFit
<1>4. TellsRestocks(w)
  BY <1>1 DEF TellsRestocks, NoJob
<1>5. ASSUME NEW f \in Events PROVE Budget(f) <= Budget(f)'
  <2>1. Causes(f)' = Causes(f) + 1 /\ overlaps'[f] = overlaps[f]
    <3>1. failures[f] \in Nat /\ crashes \in Nat
      BY DEF TypeOK
    <3> QED
      BY <1>1, <3>1 DEF Causes
  <2> QED
    BY <2>1, BudgetType DEF Budget
<1> QED
  BY <1>1, <1>2, <1>3, <1>4, <1>5, WorkKept

\* Claiming an event adds a worker that owes it all, and a cause: either
\* another worker still has it, or nobody had and it was not processed.
LEMMA ClaimRepeats ==
  ASSUME InductiveInv, RepeatsInv, TypeOK', NEW w \in Workers, Claim(w)
  PROVE  RepeatsInv'
<1> USE DEF InductiveInv
<1>1. /\ phase[w] = "idle" /\ batch[w] = {} /\ phase'[w] = "next" /\ job' = job
      /\ OthersStay(w)
      /\ UNCHANGED <<emitted, kind, posts, mails, notices, processed, failures, crashes>>
  BY DEF Claim, Goto, OthersStay, TypeOK, RepeatsInv, rows, inbox, outside
<1>2. \A e \in batch'[w] : e \in Events /\ e \notin processed
  BY DEF Claim, Claimed, Claimable, Ready, TypeOK
<1>3. overlaps' = [e \in Events |-> IF e \in batch'[w] /\ \E v \in Workers : e \in batch[v]
                                    THEN overlaps[e] + 1 ELSE overlaps[e]]
  BY DEF Claim, TypeOK
<1>4. ASSUME NEW e \in Events
      PROVE  /\ Budget(e) \in Int /\ Budget(e)' \in Int
             /\ Budget(e) <= Budget(e)'
             /\ e \in batch'[w] => Budget(e) + 1 <= Budget(e)'
  <2>1. Causes(e)' = Causes(e) /\ Causes(e) \in Nat /\ overlaps[e] \in Nat /\ Budget(e) \in Int
    BY <1>1, BudgetType DEF Causes
  <2>2. CASE e \in batch'[w]
    <3>1. Taken(e)'
      BY <2>2 DEF Taken
    <3>2. CASE \E v \in Workers : e \in batch[v]
      <4>1. overlaps'[e] = overlaps[e] + 1
        BY <1>3, <2>2, <3>2
      <4> QED
        BY <2>1, <3>1, <4>1 DEF Budget
    <3>3. CASE ~\E v \in Workers : e \in batch[v]
      <4>1. overlaps'[e] = overlaps[e] /\ ~Taken(e)
        BY <1>2, <1>3, <2>2, <3>3 DEF Taken
      <4> QED
        BY <2>1, <3>1, <4>1 DEF Budget
    <3> QED
      BY <3>2, <3>3
  <2>3. CASE e \notin batch'[w]
    <3>1. overlaps'[e] = overlaps[e] /\ (Taken(e)' <=> Taken(e))
      BY <1>1, <1>3, <2>3 DEF Taken, OthersStay
    <3> QED
      BY <2>1, <2>3, <3>1 DEF Budget
  <2> QED
    BY <2>2, <2>3
<1>5. ASSUME NEW e \in Events, NEW v \in Workers, v # w \/ e \notin batch'[w]
      PROVE  /\ \A h : OwesPost(v, e, h)' => OwesPost(v, e, h)
             /\ OwesNotice(v, e)' => OwesNotice(v, e)
             /\ \A s : OwesMail(v, e, s)' => OwesMail(v, e, s)
  <2>1. CASE v = w
    BY <1>5, <2>1 DEF OwesPost, OwesNotice, OwesMail
  <2>2. CASE v # w
    BY <2>2, <1>1 DEF OthersStay, Working, OwesPost, OwesNotice, OwesMail
  <2> QED
    BY <2>1, <2>2
<1>6. ASSUME NEW e \in Events
      PROVE  /\ (notices[e] + NoticesOwed(e) <= Budget(e))'
             /\ \A h \in Endpoints : (posts[e][h] + PostsOwed(e, h) <= Budget(e))'
  <2>1. notices[e] \in Int /\ \A h \in Endpoints : posts[e][h] \in Int
    BY DEF TypeOK
  <2>2. (notices[e] + NoticesOwed(e) <= Budget(e))'
    <3>1. Notifier(e) \in SUBSET Workers /\ Notifier(e)' \in SUBSET Workers
      BY DEF Notifier
    <3>2. notices[e] + Cardinality(Notifier(e)) <= Budget(e)
      BY DEF RepeatsInv, NoticesOwed, Notifier
    <3>3. \/ Notifier(e)' \subseteq Notifier(e)
          \/ Notifier(e)' \subseteq Notifier(e) \cup {w} /\ Budget(e) + 1 <= Budget(e)'
      BY <1>4, <1>5 DEF Notifier
    <3>4. notices[e] + Cardinality(Notifier(e)') <= Budget(e)'
      BY <1>4, <2>1, <3>1, <3>2, <3>3, CountKept
    <3> QED
      BY <1>1, <3>4 DEF NoticesOwed, Notifier
  <2>3. ASSUME NEW h \in Endpoints PROVE (posts[e][h] + PostsOwed(e, h) <= Budget(e))'
    <3>1. Poster(e, h) \in SUBSET Workers /\ Poster(e, h)' \in SUBSET Workers
      BY DEF Poster
    <3>2. posts[e][h] + Cardinality(Poster(e, h)) <= Budget(e)
      BY DEF RepeatsInv, PostsOwed, Poster
    <3>3. \/ Poster(e, h)' \subseteq Poster(e, h)
          \/ Poster(e, h)' \subseteq Poster(e, h) \cup {w} /\ Budget(e) + 1 <= Budget(e)'
      BY <1>4, <1>5 DEF Poster
    <3>4. posts[e][h] + Cardinality(Poster(e, h)') <= Budget(e)'
      BY <1>4, <2>1, <3>1, <3>2, <3>3, CountKept
    <3> QED
      BY <1>1, <3>4 DEF PostsOwed, Poster
  <2> QED
    BY <2>2, <2>3
<1>7. Restocks' = Restocks
  BY <1>1 DEF Restocks
<1>8. ASSUME NEW s \in Shoppers, NEW e \in Events, Restocks = {e}
      PROVE  (mails[s] + MailsOwed(e, s) <= Budget(e))'
  <2>1. mails[s] \in Int
    BY DEF TypeOK
  <2>2. Mailer(e, s) \in SUBSET Workers /\ Mailer(e, s)' \in SUBSET Workers
    BY DEF Mailer
  <2>3. mails[s] + Cardinality(Mailer(e, s)) <= Budget(e)
    BY <1>8 DEF RepeatsInv, MailsOwed, Mailer
  <2>4. \/ Mailer(e, s)' \subseteq Mailer(e, s)
        \/ Mailer(e, s)' \subseteq Mailer(e, s) \cup {w} /\ Budget(e) + 1 <= Budget(e)'
    BY <1>4, <1>5 DEF Mailer
  <2>5. mails[s] + Cardinality(Mailer(e, s)') <= Budget(e)'
    BY <1>4, <2>1, <2>2, <2>3, <2>4, CountKept
  <2> QED
    BY <1>1, <2>5 DEF MailsOwed, Mailer
<1>9. ASSUME NEW v \in Workers PROVE TellsRestocks(v)
  <2>1. CASE v = w
    BY <1>1, <2>1 DEF TellsRestocks, RepeatsInv
  <2>2. CASE v # w
    BY <1>1, <2>2 DEF OthersStay, TellsRestocks, RepeatsInv
  <2> QED
    BY <2>1, <2>2
<1> QED
  BY <1>1, <1>6, <1>7, <1>8, <1>9 DEF RepeatsInv, TellsRestocks

\* An event that becomes visible is not processed, not claimed and not owed.
LEMMA EmitRepeats ==
  ASSUME InductiveInv, RepeatsInv, Emit
  PROVE  RepeatsInv'
<1> USE DEF InductiveInv
<1> PICK f \in Events \ emitted : emitted' = emitted \cup {f}
  BY DEF Emit
<1>1. UNCHANGED <<kind, processed, notices, mails, posts, phase, batch, job, failures, overlaps, crashes>>
  BY DEF Emit, inbox, outside, history
<1>2. IsFiniteSet(emitted')
  BY FS_AddElement DEF RepeatsInv
<1>3. \A e : Budget(e)' = Budget(e)
  BY <1>1 DEF Budget, Taken, Causes
<1>4. \A e : NoticesOwed(e)' = NoticesOwed(e) /\ \A h : PostsOwed(e, h)' = PostsOwed(e, h)
  BY <1>1 DEF NoticesOwed, PostsOwed, OwesNotice, OwesPost, Working
<1>5. \A e, s : MailsOwed(e, s)' = MailsOwed(e, s)
  BY <1>1 DEF MailsOwed, OwesMail, Working
<1>6. Restocks' = IF kind[f] = "restock" THEN Restocks \cup {f} ELSE Restocks
  BY <1>1 DEF Restocks
<1>7. ASSUME NEW s \in Shoppers, NEW e \in Events, Restocks' = {e}
      PROVE  mails[s] + MailsOwed(e, s) <= Budget(e)
  <2>1. CASE Restocks = {e}
    BY <2>1 DEF RepeatsInv
  <2>2. CASE Restocks # {e}
    <3>1. e = f /\ Restocks = {}
      BY <1>6, <1>7, <2>2
    <3>2. mails[s] = 0
      BY <3>1 DEF RepeatsInv
    <3>3. e \notin processed /\ \A w \in Workers : e \notin batch[w]
      BY <3>1 DEF TypeOK
    <3>4. {w \in Workers : OwesMail(w, e, s)} = {}
      BY <3>3 DEF OwesMail
    <3>5. MailsOwed(e, s) = 0
      BY <3>4, FS_EmptySet DEF MailsOwed
    <3>6. Budget(e) = Causes(e) + overlaps[e] - 1 /\ Causes(e) >= 1 /\ overlaps[e] >= 0
      BY <3>3 DEF Budget, Taken, Causes, TypeOK
    <3> QED
      BY <3>2, <3>5, <3>6, BudgetType
  <2> QED
    BY <2>1, <2>2
<1>8. Restocks' = {} => Restocks = {}
  BY <1>6
<1> QED
  BY <1>1, <1>2, <1>3, <1>4, <1>5, <1>7, <1>8 DEF RepeatsInv

\* Steps that touch neither the events nor the workers.
LEMMA QuietRepeats ==
  ASSUME RepeatsInv,
         UNCHANGED <<emitted, kind, processed, notices, mails, posts, phase, batch, job,
                     failures, overlaps, crashes>>
  PROVE  RepeatsInv'
<1>1. \A e : Budget(e)' = Budget(e)
  BY DEF Budget, Taken, Causes
<1>2. \A e : NoticesOwed(e)' = NoticesOwed(e) /\ \A h : PostsOwed(e, h)' = PostsOwed(e, h)
  BY DEF NoticesOwed, PostsOwed, OwesNotice, OwesPost, Working
<1>3. \A e, s : MailsOwed(e, s)' = MailsOwed(e, s)
  BY DEF MailsOwed, OwesMail, Working
<1>4. Restocks' = Restocks
  BY DEF Restocks
<1> QED
  BY <1>1, <1>2, <1>3, <1>4 DEF RepeatsInv

\* Every step keeps the counts within their budgets.
LEMMA RepeatsStep == InductiveInv /\ InductiveInv' /\ RepeatsInv /\ [Next]_vars => RepeatsInv'
<1> SUFFICES ASSUME InductiveInv, TypeOK', RepeatsInv, [Next]_vars PROVE RepeatsInv'
  BY DEF InductiveInv
<1>1. CASE Emit
  BY <1>1, EmitRepeats
<1>2. CASE ReadAlerts \/ RequestBackInStock \/ UNCHANGED vars \/ \E w \in Workers : Poll(w)
  BY <1>2, QuietRepeats DEF ReadAlerts, RequestBackInStock, Poll, vars, rows, inbox, outside, history
<1>4. ASSUME NEW c \in Beside[kind],
             (\E stock \in Levels : NotifyAdjusted(c, stock)) \/ EndAdjusted(c)
      PROVE  RepeatsInv'
  BY <1>4, QuietRepeats DEF NotifyAdjusted, EndAdjusted, rows, inbox, outside, history
<1>3. ASSUME NEW w \in Workers, Work(w) \/ Raise(w) \/ Crash(w) PROVE RepeatsInv'
  BY <1>3, ClaimRepeats, HandleRepeats, MailRepeats, PostRepeats, CommitDeliveryRepeats,
     FinishRepeats, RaiseRepeats, ReadAttemptsRepeats, MarkFailedRepeats, CrashRepeats DEF Work
<1> QED
  BY <1>1, <1>2, <1>3, <1>4 DEF Next

\* The budget leaves no repetition without its cause.
LEMMA WithinBudget == TypeOK /\ RepeatsInv => RepeatsExplained
<1> SUFFICES ASSUME TypeOK, RepeatsInv PROVE RepeatsExplained
  OBVIOUS
<1>1. ASSUME NEW e \in Events PROVE Budget(e) \in Int /\ Budget(e) <= Causes(e) + overlaps[e]
  BY BudgetType DEF Budget
<1>2. ASSUME NEW e \in Events
      PROVE  /\ notices[e] <= Causes(e) + overlaps[e]
             /\ \A h \in Endpoints : posts[e][h] <= Causes(e) + overlaps[e]
  <2>1. NoticesOwed(e) \in Nat /\ \A h \in Endpoints : PostsOwed(e, h) \in Nat
    BY WorkersFinite DEF NoticesOwed, PostsOwed
  <2>2. /\ notices[e] \in Int /\ \A h \in Endpoints : posts[e][h] \in Int
        /\ Causes(e) + overlaps[e] \in Int
    BY BudgetType DEF TypeOK
  <2>3. /\ notices[e] + NoticesOwed(e) <= Budget(e)
        /\ \A h \in Endpoints : posts[e][h] + PostsOwed(e, h) <= Budget(e)
    BY DEF RepeatsInv
  <2> QED
    BY <1>1, <2>1, <2>2, <2>3
<1>3. ASSUME NEW s \in Shoppers, mails[s] > 1,
             ~(Cardinality(Restocks) > 1)
      PROVE  \E e \in Events : Causes(e) + overlaps[e] > 1
  <2>1. mails[s] \in Nat
    BY DEF TypeOK
  <2>2. PICK e \in Restocks : TRUE
    BY <1>3, <2>1 DEF RepeatsInv
  <2>3. IsFiniteSet(Restocks)
    BY FS_Subset DEF RepeatsInv, Restocks
  <2>4. Restocks = {e}
    <3> SUFFICES ASSUME NEW f \in Restocks, f # e PROVE FALSE
      BY <2>2
    <3>1. Cardinality({e}) = 1 /\ IsFiniteSet({e})
      BY FS_Singleton
    <3>2. Cardinality({e} \cup {f}) = 2
      BY <3>1, FS_AddElement
    <3>3. Cardinality({e} \cup {f}) <= Cardinality(Restocks)
      BY <2>2, <2>3, FS_Subset
    <3>4. Cardinality(Restocks) \in Nat
      BY <2>3, FS_CardinalityType
    <3> QED
      BY <1>3, <3>2, <3>3, <3>4
  <2>5. e \in Events
    BY DEF Restocks, TypeOK
  <2>6. mails[s] + MailsOwed(e, s) <= Budget(e)
    BY <2>4, <2>5 DEF RepeatsInv
  <2>7. MailsOwed(e, s) \in Nat
    BY WorkersFinite DEF MailsOwed
  <2>8. Causes(e) + overlaps[e] \in Int
    BY <2>5, BudgetType
  <2>9. Causes(e) + overlaps[e] > 1
    BY <1>1, <1>3, <2>1, <2>5, <2>6, <2>7, <2>8
  <2> QED
    BY <2>5, <2>9
<1> QED
  BY <1>2, <1>3 DEF RepeatsExplained, Restocks

\* No endpoint is called twice for an event, no notification written twice and
\* no shopper told twice without a failure, a crash or an overlapping claim to
\* show for it.
THEOREM NoUnexplainedRepeat == Spec => []RepeatsExplained
<1>1. InductiveInv /\ RepeatsInv => RepeatsExplained
  BY WithinBudget DEF InductiveInv
<1> QED
  BY InitRepeats, Invariance, RepeatsStep, <1>1, PTL DEF Spec
=============================================================================
