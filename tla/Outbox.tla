------------------------------- MODULE Outbox -------------------------------
(***************************************************************************)
(* The outbox worker (worker.py, services/outbox_service.py) and the side  *)
(* effects of the events it delivers: in-app notifications, low-stock      *)
(* alerts, back-in-stock mails and webhook POSTs.  POST /adjustments       *)
(* writes low-stock alerts beside the worker.                              *)
(*                                                                         *)
(* A worker claims a batch of events with FOR UPDATE SKIP LOCKED and then  *)
(* handles them one by one, with a commit after each POST and after each   *)
(* event.  The first of these commits, or a rollback, ends the transaction *)
(* that holds the locks of the whole batch.                                *)
(***************************************************************************)
EXTENDS Integers, FiniteSets

CONSTANTS
  Workers,
  Events,        \* numbered in the order of created_at
  Kinds,         \* event types: "order" (created, cancelled), "low", "restock"
  Histories,     \* the types the events may have, in their order
  Subscribers,   \* the active webhook endpoints subscribed to each of them
  Endpoints,
  Shoppers,      \* e-mail addresses that may ask to be told of a restock
  Clerks,        \* requests of POST /adjustments under way at a time
  Beside,        \* bound on those that run beside each history
  Staff,         \* users that may get low-stock alerts
  LookLimit,     \* the limit of has_unread_for_product, 100 in the code
  MaxOthers,     \* bound on unread alerts of other products
  MaxMissed,     \* bound on looks that miss an unread alert
  BatchLimit,    \* the limit of claim_ready_events, 50 in the code
  MaxAttempts,   \* MAX_ATTEMPTS, 5 in the code
  MaxCrashes     \* bound on worker deaths

ASSUME OutboxAssumption ==
  /\ IsFiniteSet(Workers) /\ IsFiniteSet(Clerks)
  /\ Events \subseteq Nat
  /\ Kinds = {"order", "low", "restock"}
  /\ Subscribers \in [Kinds -> SUBSET Endpoints]
  /\ Histories \subseteq [Events -> Kinds]
  /\ Beside \in [[Events -> Kinds] -> SUBSET Clerks]
  /\ BatchLimit \in Nat \ {0}
  /\ MaxAttempts \in Nat \ {0}
  /\ MaxCrashes \in Nat
  /\ LookLimit \in Nat \ {0}
  /\ MaxOthers \in Nat
  /\ MaxMissed \in Nat

VARIABLES
  emitted,    \* events whose transaction has committed
  kind,       \* event_type of each event
  processed,  \* events with a processed_at
  attempts,   \* attempts of each event
  unread,     \* unread low-stock alerts each user has of the product the events are about
  draft,      \* users an open transaction writes an alert of the product to
  notices,    \* times the users were told of the order of each event
  asking,     \* shoppers with a request whose notified_at is NULL
  mails,      \* back-in-stock mails sent to each shopper
  posts,      \* POSTs made for each event to each endpoint
  phase,      \* where each worker is
  batch,      \* claimed events it has not finished with
  held,       \* outbox rows its transaction has locked
  job,        \* what it is doing for the first event of the batch
  failures,   \* failures recorded for each event, for the properties only
  overlaps,   \* claims of an event another worker still had, for the properties only
  missed,     \* looks that missed an unread alert, for the properties only
  crashes

rows == <<emitted, kind, processed, attempts>>
alerts == <<unread, draft, missed>>
inbox == <<notices, asking>>
outside == <<mails, posts>>
history == <<failures, overlaps>>
vars == <<rows, alerts, inbox, outside, phase, batch, held, job, history, crashes>>

Handling == {"mailing", "sending", "posted"}
Levels == {"out", "low", "plenty"}
Phases == Handling \cup {"idle", "next", "failed", "counting"}

NoJob == [event |-> 0, notice |-> FALSE, told |-> {}, tell |-> {},
          post |-> {}, attempts |-> 0]

\* The transactions that write low-stock alerts.
Writers == Workers \cup Clerks

Init ==
  /\ emitted = {}
  /\ kind \in Histories
  /\ processed = {}
  /\ attempts = [e \in Events |-> 0]
  /\ unread = [u \in Staff |-> 0]
  /\ draft = [x \in Writers |-> {}]
  /\ notices = [e \in Events |-> 0]
  /\ asking = {}
  /\ mails = [s \in Shoppers |-> 0]
  /\ posts = [e \in Events |-> [h \in Endpoints |-> 0]]
  /\ phase = [w \in Workers |-> "idle"]
  /\ batch = [w \in Workers |-> {}]
  /\ held = [w \in Workers |-> {}]
  /\ job = [w \in Workers |-> NoJob]
  /\ failures = [e \in Events |-> 0]
  /\ overlaps = [e \in Events |-> 0]
  /\ missed = 0
  /\ crashes = 0

Goto(w, p) == phase' = [phase EXCEPT ![w] = p]
SetJob(w, j) == job' = [job EXCEPT ![w] = j]
Unlock(w) == held' = [held EXCEPT ![w] = {}]

\* The rest of the batch after its first event.
Advance(w) ==
  LET rest == batch[w] \ {job[w].event}
  IN  /\ batch' = [batch EXCEPT ![w] = rest]
      /\ SetJob(w, NoJob)
      /\ Goto(w, IF rest = {} THEN "idle" ELSE "next")

\* The alerts a transaction has pending are committed, or rolled back.
PublishAlerts(x) ==
  /\ unread' = [u \in Staff |-> unread[u] + (IF u \in draft[x] THEN 1 ELSE 0)]
  /\ draft' = [draft EXCEPT ![x] = {}]
  /\ UNCHANGED missed

DropAlerts(x) ==
  /\ draft' = [draft EXCEPT ![x] = {}]
  /\ UNCHANGED <<unread, missed>>

\* What the session has pending reaches the tables, and all its locks go.
Commit(w) ==
  /\ PublishAlerts(w)
  /\ notices' = IF job[w].notice THEN [notices EXCEPT ![job[w].event] = @ + 1] ELSE notices
  /\ asking' = asking \ job[w].told
  /\ Unlock(w)

\* Another transaction's lock makes an UPDATE of the row wait.
Writable(w, e) == \A v \in Workers \ {w} : e \notin held[v]

-----------------------------------------------------------------------------
(* The rest of the program. *)

\* emit, when the surrounding transaction commits; created_at is the time it
\* began, so events may appear out of their order.
Emit ==
  /\ \E e \in Events \ emitted : emitted' = emitted \cup {e}
  /\ UNCHANGED <<kind, processed, attempts, alerts, inbox, outside, phase, batch, held, job, history, crashes>>

\* mark_read marks one alert of the user, mark_all_read all of them.
ReadAlerts ==
  /\ \E u \in Staff :
       /\ unread[u] > 0
       /\ \E left \in {0, unread[u] - 1} : unread' = [unread EXCEPT ![u] = left]
  /\ UNCHANGED <<rows, draft, missed, inbox, outside, phase, batch, held, job, history, crashes>>

\* request_back_in_stock.  The unique constraint on product and e-mail admits
\* one request of a shopper, whether it has been notified or not.
RequestBackInStock ==
  /\ \E s \in Shoppers \ asking :
       /\ mails[s] = 0
       /\ asking' = asking \cup {s}
  /\ UNCHANGED <<rows, alerts, notices, outside, phase, batch, held, job, history, crashes>>

-----------------------------------------------------------------------------
(* Low-stock alerts. *)

\* Variant: the unread alerts are not looked for.
AlwaysDue(found, stock) == stock # "plenty"

\* The two tests of notify_low_stock, on what the look found and on the stock.
AlertDue(found, stock) == ~found /\ stock # "plenty"

Unread == \E u \in Staff : unread[u] > 0

\* has_unread_for_product reads LookLimit of the organization's unread alerts, in
\* no order: it can miss those of the product when others, the unread alerts of
\* other products, fill the limit.
Looks ==
  {found \in BOOLEAN : \E others \in 0 .. MaxOthers :
     /\ found => Unread
     /\ ~found => ~Unread \/ (others >= LookLimit /\ missed < MaxMissed)}

\* notify_low_stock in the transaction of x: an alert for each user of to, those
\* that hold inventory.read and have not turned the alerts off.
NotifyLowStock(x, stock) ==
  /\ \E found \in Looks :
       /\ \E to \in IF AlertDue(found, stock) THEN SUBSET Staff ELSE {{}} :
            draft' = [draft EXCEPT ![x] = to]
       /\ missed' = IF Unread /\ ~found THEN missed + 1 ELSE missed
  /\ UNCHANGED unread

\* adjust_stock after an adjustment that left the stock low; the stock is read
\* again after the look.
NotifyAdjusted(c, stock) ==
  /\ draft[c] = {}
  /\ NotifyLowStock(c, stock)
  /\ UNCHANGED <<rows, inbox, outside, phase, batch, held, job, history, crashes>>

\* Its commit, or its end without one.
EndAdjusted(c) ==
  /\ draft[c] # {}
  /\ PublishAlerts(c) \/ DropAlerts(c)
  /\ UNCHANGED <<rows, inbox, outside, phase, batch, held, job, history, crashes>>

-----------------------------------------------------------------------------
(* The worker. *)

\* Variants: processed_at is not tested; an event that failed is not retried.
ReadyForever(e) == e \in emitted /\ attempts[e] < MaxAttempts
ReadyOnce(e) == e \in emitted \ processed /\ attempts[e] = 0

\* The WHERE of claim_ready_events.
Ready(e) == e \in emitted \ processed /\ attempts[e] < MaxAttempts

\* FOR UPDATE SKIP LOCKED.
Claimable(w) == {e \in Events : Writable(w, e)}

Claimed(w) == {e \in Claimable(w) : Ready(e)}

\* claim_ready_events.
Claim(w) ==
  /\ phase[w] = "idle"
  /\ Claimed(w) # {}
  /\ LET ready == Claimed(w)
         first == {e \in ready : Cardinality({f \in ready : f < e}) < BatchLimit}
     IN  /\ batch' = [batch EXCEPT ![w] = first]
         /\ held' = [held EXCEPT ![w] = first]
         /\ overlaps' = [e \in Events |->
              IF e \in first /\ \E v \in Workers : e \in batch[v]
              THEN overlaps[e] + 1 ELSE overlaps[e]]
  /\ Goto(w, "next")
  /\ UNCHANGED <<rows, alerts, inbox, outside, job, failures, crashes>>

\* An iteration of run() that finds nothing to claim.
Poll(w) == phase[w] = "idle" /\ Claimed(w) = {} /\ UNCHANGED vars

\* The requests _handle_back_in_stock_restock reads.
ToTell(stock) == IF stock = "out" THEN {} ELSE asking

\* handle_event up to its first side effect.  Orders and receipts go on between
\* the event and its handling: the stock it reads may be anything.
Handle(w, e, stock) ==
  /\ phase[w] = "next"
  /\ e \in batch[w]
  /\ \A f \in batch[w] : e <= f
  /\ SetJob(w, [NoJob EXCEPT !.event = e,
                             !.notice = kind[e] = "order",
                             !.tell = IF kind[e] = "restock" THEN ToTell(stock) ELSE {},
                             !.post = Subscribers[kind[e]]])
  /\ IF kind[e] = "low" THEN NotifyLowStock(w, stock)
                        ELSE UNCHANGED alerts
  /\ Goto(w, IF job'[w].tell = {} THEN "sending" ELSE "mailing")
  /\ UNCHANGED <<rows, inbox, outside, batch, held, history, crashes>>

\* send_email and notified_at, request by request.
Mail(w) ==
  /\ phase[w] = "mailing"
  /\ \E s \in job[w].tell :
       /\ mails' = [mails EXCEPT ![s] = @ + 1]
       /\ SetJob(w, [job[w] EXCEPT !.tell = @ \ {s}, !.told = @ \cup {s}])
       /\ Goto(w, IF job[w].tell = {s} THEN "sending" ELSE "mailing")
  /\ UNCHANGED <<rows, alerts, inbox, posts, batch, held, history, crashes>>

\* _deliver up to the answer of the endpoint, or an httpx.HTTPError: neither
\* makes a difference to the event.
Post(w) ==
  /\ phase[w] = "sending"
  /\ \E h \in job[w].post :
       /\ posts' = [posts EXCEPT ![job[w].event][h] = @ + 1]
       /\ SetJob(w, [job[w] EXCEPT !.post = @ \ {h}])
  /\ Goto(w, "posted")
  /\ UNCHANGED <<rows, alerts, inbox, mails, batch, held, history, crashes>>

\* The commit at the end of _deliver.
CommitDelivery(w) ==
  /\ phase[w] = "posted"
  /\ Commit(w)
  /\ SetJob(w, [job[w] EXCEPT !.notice = FALSE, !.told = {}])
  /\ Goto(w, "sending")
  /\ UNCHANGED <<rows, outside, batch, history, crashes>>

\* mark_processed and the commit of process_pending.
Finish(w) ==
  /\ phase[w] = "sending"
  /\ job[w].post = {}
  /\ Writable(w, job[w].event)
  /\ processed' = processed \cup {job[w].event}
  /\ Commit(w)
  /\ Advance(w)
  /\ UNCHANGED <<emitted, kind, attempts, outside, history, crashes>>

\* Variant: the exception is swallowed and the event goes on to mark_processed.
SwallowRaise(w) ==
  /\ phase[w] \in Handling
  /\ Unlock(w)
  /\ DropAlerts(w)
  /\ SetJob(w, [NoJob EXCEPT !.event = job[w].event])
  /\ Goto(w, "sending")
  /\ UNCHANGED <<rows, inbox, outside, batch, history, crashes>>

\* An exception in handle_event or at a commit, and the rollback.
Raise(w) ==
  /\ phase[w] \in Handling
  /\ Unlock(w)
  /\ DropAlerts(w)
  /\ SetJob(w, [NoJob EXCEPT !.event = job[w].event])
  /\ Goto(w, "failed")
  /\ UNCHANGED <<rows, inbox, outside, batch, history, crashes>>

\* The rollback expired the event: attempts is read again.
ReadAttempts(w) ==
  /\ phase[w] = "failed"
  /\ SetJob(w, [job[w] EXCEPT !.attempts = attempts[job[w].event]])
  /\ Goto(w, "counting")
  /\ UNCHANGED <<rows, alerts, inbox, outside, batch, held, history, crashes>>

\* Variant: the last attempt is not made.
ExhaustedEarly(n) == n + 1 >= MaxAttempts

Exhausted(n) == n >= MaxAttempts

\* mark_failed and its commit.
MarkFailed(w) ==
  /\ phase[w] = "counting"
  /\ LET e == job[w].event
         n == job[w].attempts + 1
     IN  /\ Writable(w, e)
         /\ attempts' = [attempts EXCEPT ![e] = n]
         /\ processed' = IF Exhausted(n) THEN processed \cup {e} ELSE processed
         /\ failures' = [failures EXCEPT ![e] = @ + 1]
  /\ Advance(w)
  /\ UNCHANGED <<emitted, kind, alerts, inbox, outside, held, overlaps, crashes>>

\* The process or its connection dies; the server rolls back.
Crash(w) ==
  /\ phase[w] # "idle"
  /\ crashes < MaxCrashes
  /\ crashes' = crashes + 1
  /\ Unlock(w)
  /\ DropAlerts(w)
  /\ batch' = [batch EXCEPT ![w] = {}]
  /\ SetJob(w, NoJob)
  /\ Goto(w, "idle")
  /\ UNCHANGED <<rows, inbox, outside, history>>

Work(w) ==
  \/ Claim(w)
  \/ \E e \in Events, stock \in Levels : Handle(w, e, stock)
  \/ Mail(w)
  \/ Post(w)
  \/ CommitDelivery(w)
  \/ Finish(w)
  \/ ReadAttempts(w)
  \/ MarkFailed(w)

Next ==
  \/ Emit \/ ReadAlerts \/ RequestBackInStock
  \/ \E c \in Beside[kind] :
       (\E stock \in Levels : NotifyAdjusted(c, stock)) \/ EndAdjusted(c)
  \/ \E w \in Workers : Poll(w) \/ Work(w) \/ Raise(w) \/ Crash(w)

\* run() polls for ever, so a worker with something to do takes its next step.
Fairness == \A w \in Workers : WF_vars(Work(w))

Spec == Init /\ [][Next]_vars
FairSpec == Spec /\ Fairness
-----------------------------------------------------------------------------
(* Properties. *)

JobType == [event : Events \cup {0}, notice : BOOLEAN,
            told : SUBSET Shoppers, tell : SUBSET Shoppers,
            post : SUBSET Endpoints, attempts : Nat]

\* A worker has an event in hand exactly while its phase says so, and what it
\* has in hand is the first of what is left of its batch.
TypeOK ==
  /\ emitted \subseteq Events
  /\ kind \in [Events -> Kinds]
  /\ processed \subseteq emitted
  /\ attempts \in [Events -> Nat]
  /\ unread \in [Staff -> Nat]
  /\ draft \in [Writers -> SUBSET Staff]
  /\ missed \in Nat
  /\ notices \in [Events -> Nat]
  /\ asking \subseteq Shoppers
  /\ mails \in [Shoppers -> Nat]
  /\ posts \in [Events -> [Endpoints -> Nat]]
  /\ phase \in [Workers -> Phases]
  /\ batch \in [Workers -> SUBSET emitted]
  /\ held \in [Workers -> SUBSET Events]
  /\ job \in [Workers -> JobType]
  /\ failures \in [Events -> Nat]
  /\ overlaps \in [Events -> Nat]
  /\ crashes \in Nat
  /\ \A w \in Workers : phase[w] \notin {"idle", "next"} => job[w].event \in batch[w]

\* An event leaves the outbox only when its notification is written and every
\* subscribed endpoint has been called, or after MAX_ATTEMPTS recorded
\* failures: no crash, lost update of attempts or second worker makes
\* process_pending drop one.
NothingLost ==
  \A e \in processed :
    \/ failures[e] >= MaxAttempts
    \/ /\ kind[e] = "order" => notices[e] > 0
       /\ \A h \in Subscribers[kind[e]] : posts[e][h] > 0

\* What handling an event has still to do is in the job of its worker; attempts,
\* in the row or as a worker read it, never exceeds the recorded failures.
DeliveryInv ==
  /\ \A e \in Events : attempts[e] <= failures[e]
  /\ \A w \in Workers :
       LET e == job[w].event
       IN  /\ phase[w] = "counting" => job[w].attempts <= failures[e]
           /\ phase[w] \in Handling =>
                /\ kind[e] = "order" => job[w].notice \/ notices[e] > 0
                /\ \A h \in Subscribers[kind[e]] : h \in job[w].post \/ posts[e][h] > 0

Causes(e) == 1 + failures[e] + crashes

\* An endpoint is called again for an event, and a notification written again,
\* only because of a failure, a crash, or a worker that claimed the event while
\* another still had it in its batch; and a shopper is told of a restock again
\* only for one of these reasons or for another restock at the same time.
RepeatsExplained ==
  /\ \A e \in Events :
       /\ notices[e] <= Causes(e) + overlaps[e]
       /\ \A h \in Endpoints : posts[e][h] <= Causes(e) + overlaps[e]
  /\ \A s \in Shoppers : mails[s] > 1 =>
       \/ \E e \in Events : Causes(e) + overlaps[e] > 1
       \/ Cardinality({e \in emitted : kind[e] = "restock"}) > 1

\* notify_low_stock looks for an unread alert before it writes one, in a
\* transaction that locks nothing of the product.  Each worker and each request
\* under way may pass the look before any of them commits, so a user has up to
\* one unread alert of the product from each; each further one is due to a look
\* that missed an alert because others filled its limit.
AlertsBounded ==
  \A u \in Staff : unread[u] <= Cardinality(Writers) + missed

\* A writer with an alert it has not committed counts as one.
Alerting(u) == {x \in Writers : u \in draft[x]}
AlertInv ==
  \A u \in Staff : unread[u] + Cardinality(Alerting(u)) <= Cardinality(Writers) + missed

\* The invariant of the proofs: nothing the worker owes an event is forgotten,
\* and a user's committed and pending alerts are accounted for.
InductiveInv == TypeOK /\ NothingLost /\ DeliveryInv /\ AlertInv

\* What a claim of e may still bring about: a worker that has e in its batch
\* owes it the POSTs, the notification and the mails it has not made.
Working(w, e) == phase[w] \notin {"idle", "next"} /\ job[w].event = e
OwesPost(w, e, h) == e \in batch[w] /\ (Working(w, e) => h \in job[w].post)
OwesNotice(w, e) == e \in batch[w] /\ (Working(w, e) => job[w].notice)
OwesMail(w, e, s) == e \in batch[w] /\ (Working(w, e) => s \in job[w].tell)

PostsOwed(e, h) == Cardinality({w \in Workers : OwesPost(w, e, h)})
NoticesOwed(e) == Cardinality({w \in Workers : OwesNotice(w, e)})
MailsOwed(e, s) == Cardinality({w \in Workers : OwesMail(w, e, s)})

\* The causes there are for having handled e: one less while nobody has it and
\* it is not processed, because then it will be claimed again.
Taken(e) == e \in processed \/ \E w \in Workers : e \in batch[w]
Budget(e) == Causes(e) + overlaps[e] - (IF Taken(e) THEN 0 ELSE 1)

Restocks == {e \in emitted : kind[e] = "restock"}

\* The inductive invariant behind RepeatsExplained: what was done for an event
\* and what is still owed to it are within its budget.  All mails belong to
\* the restock when there is only one.
RepeatsInv ==
  /\ IsFiniteSet(emitted)
  /\ \A w \in Workers : /\ phase[w] = "idle" => batch[w] = {}
                        /\ job[w].tell # {} => /\ phase[w] = "mailing"
                                               /\ kind[job[w].event] = "restock"
  /\ \A e \in Events :
       /\ notices[e] + NoticesOwed(e) <= Budget(e)
       /\ \A h \in Endpoints : posts[e][h] + PostsOwed(e, h) <= Budget(e)
  /\ \A s \in Shoppers :
       /\ Restocks = {} => mails[s] = 0
       /\ \A e \in Events : Restocks = {e} => mails[s] + MailsOwed(e, s) <= Budget(e)

\* Every committed event is delivered or given up: the worker polls for ever,
\* dies a bounded number of times, and no failing event, ill-timed claim or lost
\* update of attempts keeps an event in the outbox for good.
EventuallyProcessed == \A e \in Events : e \in emitted ~> e \in processed

\* outbox_service.py:42, "safe for concurrent workers": with nothing failing, an
\* event is delivered once.
DeliveredOnce == \A e \in Events, h \in Endpoints : posts[e][h] <= Causes(e)
=============================================================================
