--------------------------- MODULE SessionsProofs ---------------------------
(***************************************************************************)
(* Rotation keeps one good refresh token to a family, and a family that was *)
(* revoked stays dead, for any number of tokens, tabs and requests - except *)
(* in the families of raced, where a rotation overlapped another change.    *)
(* The browser follows the rotations, and a page acts for the organization  *)
(* that it shows: each has an invariant of its own on top of IInv.          *)
(***************************************************************************)
EXTENDS Sessions, TLAPS

ReqType ==
  [pc : Pcs, kind : Kinds \cup {None}, tab : Tab \cup {None}, pair : Issued \cup {None},
   new : Issued \cup {None}, found : SUBSET Issued, shown : Org \cup {None},
   retried : BOOLEAN, heard : BOOLEAN]

TabType == [at : {"login", "dashboard"}, user : Org \cup {None}, loading : BOOLEAN]

ServerOK ==
  /\ family \in [Token -> Token \cup {None}] /\ org \in [Token -> Org]
  /\ revoked \subseteq Issued /\ stale \subseteq Issued /\ reset \subseteq Issued
  /\ \A k \in Issued : family[k] \in Issued

PageOK ==
  /\ moves \in 0 .. MaxMoves
  /\ stored \in Issued \cup {None} /\ cookie \in BOOLEAN
  /\ tab \in [Tab -> TabType]

HistOK ==
  /\ by \in [Token -> [how : {"login", "switch", "refresh"}, tab : Tab] \cup {None}]
  /\ raced \subseteq Token /\ killed \subseteq Token /\ unheard \subseteq Token
  /\ crossed \subseteq Tab

\* A request in flight belongs to a tab, and holds the pair its next step needs.
Proper(v) ==
  v.pc # "idle" =>
    /\ v.tab \in Tab
    /\ v.kind \in {"boot", "profile", "logout"} => v.pair \in Issued
    /\ v.pc \in {"refresh", "rotating", "reused", "revoking", "rotated"} => v.pair \in Issued
    /\ v.pc = "ok" /\ v.kind \in {"login", "switch"} => v.new \in Issued
    /\ v.pc = "rotated" => v.new \in Issued

\* What a request has read of a family still holds while the family is not raced.
Rotatable(v) == v.pc = "rotating" /\ family[v.pair] \notin raced => v.pair \notin revoked

Revocable(v) ==
  v.pc = "revoking" =>
    /\ \A k \in v.found : family[k] = family[v.pair]
    /\ family[v.pair] \notin raced => Live(family[v.pair]) \subseteq v.found

ReadsHold == \A r \in Request : Rotatable(req[r]) /\ Revocable(req[r])

ResetCovers == \A f \in Token \ raced : Resetting(f) => Live(f) \subseteq reset

FamilyInv == OneLiveToken /\ DeadStaysDead /\ killed \subseteq Issued /\ ResetCovers

IInv ==
  /\ ServerOK /\ PageOK /\ HistOK
  /\ req \in [Request -> ReqType]
  /\ \A r \in Request : Proper(req[r])
  /\ ReadsHold /\ FamilyInv

LEMMA TypeSplit == TypeOK <=> ServerOK /\ PageOK /\ HistOK /\ req \in [Request -> ReqType]
  BY DEF TypeOK, ServerOK, PageOK, HistOK, ReqType, TabType

LEMMA IdleType == Idle \in ReqType /\ Idle.pc = "idle"
  BY DEF Idle, ReqType, Pcs

LEMMA AtPc ==
  ASSUME NEW v \in ReqType, NEW pc \in Pcs
  PROVE  [v EXCEPT !.pc = pc] \in ReqType
         /\ [v EXCEPT !.pc = pc].pc = pc
         /\ [v EXCEPT !.pc = pc].tab = v.tab /\ [v EXCEPT !.pc = pc].kind = v.kind
         /\ [v EXCEPT !.pc = pc].pair = v.pair /\ [v EXCEPT !.pc = pc].new = v.new
         /\ [v EXCEPT !.pc = pc].found = v.found
  BY DEF ReqType

LEMMA InitOK ==
  ASSUME Init
  PROVE  IInv
<1>1. Issued = {}
  BY SessionsAssumption DEF Init, Issued
<1>2. ServerOK /\ HistOK
  BY <1>1, SessionsAssumption DEF Init, ServerOK, HistOK
<1>7. PageOK
  <2>1. [at |-> "login", user |-> None, loading |-> FALSE] \in TabType
    BY DEF TabType
  <2>2. tab \in [Tab -> TabType]
    BY <2>1 DEF Init
  <2>3. moves \in 0 .. MaxMoves
    BY SessionsAssumption DEF Init
  <2>4. stored \in Issued \cup {None} /\ cookie \in BOOLEAN
    BY DEF Init
  <2>5. QED
    BY <2>2, <2>3, <2>4 DEF PageOK
<1>3. req \in [Request -> ReqType]
  BY IdleType DEF Init
<1>4. \A r \in Request : Proper(req[r]) /\ Rotatable(req[r]) /\ Revocable(req[r])
  BY IdleType DEF Init, Proper, Rotatable, Revocable
<1>5. \A f : Live(f) = {}
  BY <1>1 DEF Live
<1>6. FamilyInv
  BY <1>5 DEF Init, FamilyInv, OneLiveToken, DeadStaysDead, ResetCovers
<1>8. QED
  BY <1>2, <1>7, <1>3, <1>4, <1>6 DEF IInv, ReadsHold

\* What a request has read of refresh_tokens after a step is nothing, what it had
\* read before, or what is so.
Truthful(q) ==
  \/ req'[q].pc \notin {"rotating", "revoking"}
  \/ req'[q].pc = req[q].pc /\ req'[q].pair = req[q].pair /\ req'[q].found = req[q].found
  \/ Rotatable(req'[q]) /\ Revocable(req'[q])

\* The steps of the browser leave the rows of refresh_tokens alone.
LEMMA BrowserOK ==
  ASSUME IInv, UNCHANGED <<family, org, revoked, reset, raced, killed>>,
         stale' = stale \/ stale' \subseteq Issued, PageOK', HistOK', req' \in [Request -> ReqType],
         \A q \in Request : Proper(req'[q]) /\ Truthful(q)
  PROVE  IInv'
<1>1. Issued' = Issued /\ \A f : Live(f)' = Live(f)
  BY DEF Issued, Live
<1>2. ReqType' = ReqType
  BY <1>1 DEF ReqType
<1>3. ServerOK'
  BY <1>1 DEF IInv, ServerOK
<1>4. \A r \in Request : Proper(req[r])'
  BY <1>1 DEF Proper
<1>5. \A f : Resetting(f)' = Resetting(f)
  BY DEF Resetting
<1>6. FamilyInv'
  BY <1>1, <1>5 DEF IInv, FamilyInv, OneLiveToken, DeadStaysDead, ResetCovers
<1>7. ASSUME NEW r \in Request
      PROVE  Rotatable(req[r])' /\ Revocable(req[r])'
  <2>1. Rotatable(req[r]) /\ Revocable(req[r]) /\ Truthful(r)
    BY DEF IInv, ReadsHold
  <2>2. QED
    BY <1>1, <2>1 DEF Rotatable, Revocable, Truthful
<1>8. QED
  BY <1>2, <1>3, <1>4, <1>6, <1>7 DEF IInv, ReadsHold

\* ... when one request changes.
LEMMA OneRequestOK ==
  ASSUME IInv, UNCHANGED <<family, org, revoked, stale, reset, raced, killed>>,
         PageOK', HistOK', NEW r \in Request, NEW v \in ReqType, req' = [req EXCEPT ![r] = v],
         Proper(v), v.pc \notin {"rotating", "revoking"}
  PROVE  IInv'
<1>1. req' \in [Request -> ReqType] /\ req'[r] = v /\ \A q \in Request \ {r} : req'[q] = req[q]
  BY DEF IInv
<1>2. \A q \in Request : Proper(req'[q])
  BY <1>1 DEF IInv
<1>3. \A q \in Request : Truthful(q)
  BY <1>1 DEF Truthful
<1>4. QED
  BY <1>1, <1>2, <1>3, BrowserOK

LEMMA EndOK ==
  ASSUME IInv, UNCHANGED <<family, org, revoked, stale, reset, raced, killed>>,
         PageOK', HistOK', NEW r \in Request, End(r)
  PROVE  IInv'
<1>1. Proper(Idle)
  BY IdleType DEF Proper
<1>2. QED
  BY <1>1, IdleType, OneRequestOK DEF End

LEMMA ToOK ==
  ASSUME IInv, UNCHANGED <<family, org, revoked, stale, reset, raced, killed>>,
         PageOK', HistOK', NEW r \in Request, NEW pc \in Pcs, To(r, pc), req[r].pc # "idle",
         pc \notin {"rotating", "revoking"},
         pc # "rotated", pc \in {"refresh", "reused"} => req[r].pair \in Issued,
         pc = "ok" => req[r].kind \notin {"login", "switch"}
  PROVE  IInv'
<1> DEFINE v == [req[r] EXCEPT !.pc = pc]
<1>1. req[r] \in ReqType /\ Proper(req[r])
  BY DEF IInv
<1>2. v \in ReqType /\ v.pc = pc /\ v.tab = req[r].tab /\ v.kind = req[r].kind /\ v.pair = req[r].pair /\ v.new = req[r].new
  BY <1>1 DEF ReqType
<1>3. Proper(v)
  BY <1>1, <1>2 DEF Proper
<1>4. req' = [req EXCEPT ![r] = v]
  BY DEF To
<1>5. QED
  BY <1>2, <1>3, <1>4, OneRequestOK

---------------------------------------------------------------------------
(* The pages and the API client *)

LEMMA HeardOK ==
  ASSUME IInv, NEW r \in Request, Heard(r), ~Switched(r)
  PROVE  IInv'
<1> USE DEF server, hist
<1>0. req[r] \in ReqType /\ Proper(req[r]) /\ PageOK /\ HistOK
  BY DEF IInv
<1>1. CASE LoggedIn(r)
  <2> DEFINE v == [req[r] EXCEPT !.pc = "sent", !.kind = "profile", !.pair = req[r].new]
  <2>1. req[r].new \in Issued
    BY <1>0, <1>1 DEF LoggedIn, Proper
  <2>2. v \in ReqType /\ v.pc = "sent" /\ v.tab = req[r].tab /\ v.kind = "profile" /\ v.pair = req[r].new
    <3> DEFINE v1 == [req[r] EXCEPT !.pc = "sent"]
               v2 == [v1 EXCEPT !.kind = "profile"]
    <3>1. v1 \in ReqType /\ v1.pc = "sent" /\ v1.tab = req[r].tab
      BY <1>0, AtPc DEF Pcs
    <3>2. v2 \in ReqType /\ v2.pc = "sent" /\ v2.tab = req[r].tab /\ v2.kind = "profile"
      <4> HIDE DEF v1
      <4>1. QED
        BY <3>1 DEF ReqType, Kinds
    <3>3. v = [v2 EXCEPT !.pair = req[r].new]
      OBVIOUS
    <3>4. QED
      <4> HIDE DEF v, v2
      <4>1. QED
        BY <2>1, <3>2, <3>3 DEF ReqType
  <2>3. Proper(v)
    BY <1>0, <1>1, <2>1, <2>2 DEF LoggedIn, Proper
  <2>4. PageOK' /\ HistOK'
    BY <1>0, <1>1, <2>1 DEF LoggedIn, PageOK, HistOK, TabType, Issued
  <2>5. req' = [req EXCEPT ![r] = v]
    BY <1>1 DEF LoggedIn
  <2>6. QED
    BY <1>1, <2>2, <2>3, <2>4, <2>5, OneRequestOK DEF LoggedIn
<1>2. CASE ProfileShown(r)
  <2>1. req[r].pair \in Issued /\ req[r].tab \in Tab
    BY <1>0, <1>2 DEF ProfileShown, Proper
  <2>2. org[req[r].pair] \in Org
    BY <2>1 DEF IInv, ServerOK, Issued
  <2>3. Proxy("dashboard") \in {"login", "dashboard"}
    BY DEF Proxy
  <2>4. PageOK'
    <3> DEFINE at == IF req[r].kind = "profile" THEN Proxy("dashboard") ELSE tab[req[r].tab].at
               new == [at |-> at, user |-> org[req[r].pair],
                       loading |-> tab[req[r].tab].loading /\ req[r].kind # "boot"]
    <3>1. new \in TabType
      <4>1. tab[req[r].tab].at \in {"login", "dashboard"}
        BY <1>0, <2>1 DEF PageOK, TabType
      <4>2. QED
        BY <2>2, <2>3, <4>1 DEF TabType
    <3>2. tab' = [tab EXCEPT ![req[r].tab] = new]
      BY <1>2 DEF ProfileShown
    <3>3. tab' \in [Tab -> TabType]
      <4> HIDE DEF new
      <4>1. tab \in [Tab -> TabType]
        BY <1>0 DEF PageOK
      <4>2. QED
        BY <3>1, <3>2, <4>1
    <3>4. QED
      BY <1>0, <1>2, <3>3 DEF ProfileShown, PageOK, Issued, TabType
  <2>5. HistOK'
    BY <1>0, <1>2 DEF ProfileShown, HistOK
  <2>6. QED
    BY <1>2, <2>4, <2>5, EndOK DEF ProfileShown
<1>3. CASE BootFails(r)
  <2>1. PageOK' /\ HistOK'
    <3>1. tab' \in [Tab -> TabType]
      BY <1>0, <1>3 DEF BootFails, PageOK, TabType
    <3>2. QED
      BY <1>0, <1>3, <3>1 DEF BootFails, PageOK, HistOK, TabType
  <2>2. QED
    BY <1>3, <2>1, EndOK DEF BootFails
<1>4. CASE LoggedOut(r)
  <2>1. PageOK' /\ HistOK'
    <3>1. tab' \in [Tab -> TabType]
      BY <1>0, <1>4 DEF LoggedOut, SignOut, PageOK, TabType
    <3>2. QED
      BY <1>0, <1>4, <3>1 DEF LoggedOut, SignOut, PageOK, HistOK, TabType
  <2>2. QED
    BY <1>4, <2>1, EndOK DEF LoggedOut
<1>5. CASE Refresh(r)
  <2>1. req[r].pair \in Issued /\ PageOK' /\ HistOK'
    BY <1>0, <1>5 DEF Refresh, ReqType, PageOK, HistOK, Issued, TabType
  <2>2. QED
    BY <1>5, <2>1, ToOK DEF Refresh, Pcs
<1>6. CASE Refreshed(r)
  <2> DEFINE v == [req[r] EXCEPT !.pc = "sent", !.pair = req[r].new, !.retried = TRUE]
  <2>1. CASE req[r].new \in Issued
    <3>1. v \in ReqType /\ v.pc = "sent" /\ v.tab = req[r].tab /\ v.kind = req[r].kind /\ v.pair = req[r].new
      <4> DEFINE v1 == [req[r] EXCEPT !.pc = "sent"]
                 v2 == [v1 EXCEPT !.pair = req[r].new]
      <4>1. v1 \in ReqType /\ v1.pc = "sent" /\ v1.tab = req[r].tab /\ v1.kind = req[r].kind
        BY <1>0, AtPc DEF Pcs
      <4>2. v2 \in ReqType /\ v2.pc = "sent" /\ v2.tab = req[r].tab /\ v2.kind = req[r].kind /\ v2.pair = req[r].new
        <5> HIDE DEF v1
        <5>1. QED
          BY <2>1, <4>1 DEF ReqType
      <4>3. v = [v2 EXCEPT !.retried = TRUE]
        OBVIOUS
      <4>4. QED
        <5> HIDE DEF v, v2
        <5>1. QED
          BY <4>2, <4>3 DEF ReqType
    <3>2. Proper(v)
      BY <1>0, <1>6, <2>1, <3>1 DEF Refreshed, Proper
    <3>3. PageOK' /\ HistOK'
      BY <1>0, <1>6, <2>1 DEF Refreshed, PageOK, HistOK, Issued, TabType
    <3>4. req' = [req EXCEPT ![r] = v]
      BY <1>6 DEF Refreshed
    <3>5. QED
      BY <1>6, <3>1, <3>2, <3>3, <3>4, OneRequestOK DEF Refreshed
  <2>2. req[r].new \in Issued
    BY <1>0, <1>6 DEF Refreshed, Proper
  <2>3. QED
    BY <2>1, <2>2
<1>7. CASE RefreshFails(r) \/ Settle(r)
  <2>1. PageOK' /\ HistOK'
    BY <1>0, <1>7 DEF RefreshFails, Settle, PageOK, HistOK, Issued, TabType
  <2>2. QED
    BY <1>7, <2>1, EndOK DEF RefreshFails, Settle
<1>8. QED
  BY <1>1, <1>2, <1>3, <1>4, <1>5, <1>6, <1>7 DEF Heard

LEMMA UnheardOK ==
  ASSUME IInv, NEW r \in Request, Unheard(r)
  PROVE  IInv'
<1>1. unheard' \subseteq Token
  <2>1. req[r].pc = "rotated" \/ req[r].kind = "logout" => req[r].pair \in Issued
    BY DEF IInv, Unheard, Proper
  <2>2. \A k \in Issued : family[k] \in Token
    BY DEF IInv, ServerOK, Issued
  <2>3. QED
    BY <2>1, <2>2 DEF IInv, HistOK, Unheard
<1>2. PageOK' /\ HistOK'
  BY <1>1 DEF IInv, Unheard, PageOK, HistOK, Issued, TabType, server
<1>3. QED
  BY <1>2, EndOK DEF Unheard, server

LEMMA StartOK ==
  ASSUME IInv, NEW r \in Request, NEW t \in Tab, NEW kind \in {"login", "logout", "api", "switch"},
         kind = "logout" => stored # None, Start(r, t, kind),
         UNCHANGED <<family, org, revoked, stale, reset, raced, killed>>, PageOK', HistOK'
  PROVE  IInv'
<1> DEFINE v == [Idle EXCEPT !.pc = "sent", !.kind = kind, !.tab = t, !.pair = stored, !.shown = tab[t].user]
<1>1. stored \in Issued \cup {None} /\ tab[t].user \in Org \cup {None}
  BY DEF IInv, PageOK, TabType
<1>2. v \in ReqType /\ v.pc = "sent" /\ v.tab = t /\ v.kind = kind /\ v.pair = stored
  BY <1>1 DEF Idle, ReqType, Pcs, Kinds
<1>3. Proper(v)
  BY <1>1, <1>2 DEF Proper
<1>4. req' = [req EXCEPT ![r] = v]
  BY DEF Start
<1>5. QED
  BY <1>2, <1>3, <1>4, OneRequestOK

\* A page that is loaded makes its earlier requests deaf and may start one.
LEMMA MountOK ==
  ASSUME IInv, NEW t \in Tab, NEW path \in {"login", "dashboard"}, NEW pair \in Issued \cup {None},
         NEW q \in [Request -> ReqType], \A r \in Request : q[r] = req[r] \/ q[r] = Idle,
         Mount(t, path, pair, q),
         UNCHANGED <<family, org, revoked, stale, reset, raced, killed, cookie, by, unheard, crossed>>,
         moves' \in 0 .. MaxMoves, stored' \in Issued \cup {None}
  PROVE  IInv'
<1> DEFINE boot == [Idle EXCEPT !.pc = "sent", !.kind = "boot", !.tab = t, !.pair = pair]
<1>1. boot \in ReqType /\ boot.pc = "sent" /\ boot.tab = t /\ boot.kind = "boot" /\ boot.pair = pair
  BY DEF Idle, ReqType, Pcs, Kinds
<1>2. ASSUME NEW r \in Request
      PROVE  /\ Deafened(t, q)[r] \in ReqType
             /\ \/ Deafened(t, q)[r].pc = "idle"
                \/ /\ Deafened(t, q)[r].pc = req[r].pc /\ Deafened(t, q)[r].pair = req[r].pair
                   /\ Deafened(t, q)[r].found = req[r].found /\ Deafened(t, q)[r].tab = req[r].tab
                   /\ Deafened(t, q)[r].kind = req[r].kind /\ Deafened(t, q)[r].new = req[r].new
  BY IdleType DEF Deafened, ReqType
<1>3. ASSUME NEW r \in Request
      PROVE  \/ req'[r] = Deafened(t, q)[r]
             \/ pair \in Issued /\ req'[r] = boot
  BY DEF Mount, Deafened
<1>4. req' \in [Request -> ReqType]
  <2>1. DOMAIN req' = Request /\ req' = [r \in Request |-> req'[r]]
    BY DEF Mount, Deafened
  <2>2. QED
    BY <1>1, <1>2, <1>3, <2>1
<1>5. ASSUME NEW r \in Request
      PROVE  Proper(req'[r]) /\ Truthful(r)
  <2>1. Proper(req[r])
    BY DEF IInv
  <2>2. CASE req'[r] = boot /\ pair \in Issued
    BY <1>1, <2>2 DEF Proper, Truthful
  <2>3. CASE req'[r] = Deafened(t, q)[r]
    BY <1>2, <2>1, <2>3 DEF Proper, Truthful
  <2>4. QED
    BY <1>3, <2>2, <2>3
<1>6. PageOK' /\ HistOK'
  <2>1. [at |-> path, user |-> None, loading |-> pair # None] \in TabType
    BY DEF TabType
  <2>2. tab' \in [Tab -> TabType]
    BY <2>1 DEF Mount, IInv, PageOK
  <2>3. QED
    BY <2>2 DEF IInv, PageOK, HistOK, TabType, Issued
<1>7. QED
  BY <1>4, <1>5, <1>6, BrowserOK

LEMMA SwitchedOK ==
  ASSUME IInv, NEW r \in Request, Switched(r)
  PROVE  IInv'
<1> DEFINE t == req[r].tab
           q == [req EXCEPT ![r] = Idle]
<1>1. t \in Tab /\ req[r].new \in Issued
  BY DEF IInv, Proper, Switched
<1>2. tab[t].at \in {"login", "dashboard"}
  BY <1>1 DEF IInv, PageOK, TabType
<1>3. Proxy(tab[t].at) \in {"login", "dashboard"}
  BY <1>2 DEF Proxy
<1>4. q \in [Request -> ReqType] /\ \A p \in Request : q[p] = req[p] \/ q[p] = Idle
  BY IdleType DEF IInv
<1>5. moves' \in 0 .. MaxMoves /\ stored' \in Issued \cup {None}
  BY <1>1 DEF Switched, IInv, PageOK
<1>6. QED
  BY <1>1, <1>3, <1>4, <1>5, MountOK DEF Switched, server, hist

---------------------------------------------------------------------------
(* The API *)

\* A pair that is issued is new, and its family is one there was or its own.
LEMMA IssueOK ==
  ASSUME IInv, NEW r \in Request, NEW new \in Token \ Issued, NEW fam \in Issued \cup {new},
         NEW o \in Org, NEW how \in {"login", "switch", "refresh"},
         Issue(r, new, fam, o, how), req[r].pc # "idle"
  PROVE  /\ Issued' = Issued \cup {new} /\ family'[new] = fam
         /\ \A k \in Issued : family'[k] = family[k]
         /\ family' \in [Token -> Token \cup {None}] /\ org' \in [Token -> Org]
         /\ \A k \in Issued' : family'[k] \in Issued'
         /\ by' \in [Token -> [how : {"login", "switch", "refresh"}, tab : Tab] \cup {None}]
<1>1. family \in [Token -> Token \cup {None}] /\ fam \in Token /\ fam # None
  BY SessionsAssumption DEF IInv, ServerOK, Issued
<1>2. family' = [family EXCEPT ![new] = fam]
  BY DEF Issue
<1>3. Issued' = Issued \cup {new} /\ family'[new] = fam /\ \A k \in Issued : family'[k] = family[k]
  BY <1>1, <1>2 DEF Issued
<1>4. family' \in [Token -> Token \cup {None}]
  BY <1>1, <1>2
<1>5. org' \in [Token -> Org]
  BY DEF Issue, IInv, ServerOK
<1>6. \A k \in Issued' : family'[k] \in Issued'
  BY <1>3 DEF IInv, ServerOK
<1>7. by' \in [Token -> [how : {"login", "switch", "refresh"}, tab : Tab] \cup {None}]
  <2>1. [how |-> how, tab |-> req[r].tab] \in [how : {"login", "switch", "refresh"}, tab : Tab]
    BY DEF IInv, Proper
  <2>2. by' = [by EXCEPT ![new] = [how |-> how, tab |-> req[r].tab]]
    BY DEF Issue
  <2>3. by \in [Token -> [how : {"login", "switch", "refresh"}, tab : Tab] \cup {None}]
    BY DEF IInv, HistOK
  <2>4. QED
    BY <2>1, <2>2, <2>3
<1>8. QED
  BY <1>3, <1>4, <1>5, <1>6, <1>7

\* The request that was given the pair.
LEMMA GivenOK ==
  ASSUME IInv, NEW r \in Request, NEW new \in Token, Issued' = Issued \cup {new},
         NEW pc \in {"ok", "rotated"}, req[r].pc # "idle", pc = "rotated" => req[r].pair \in Issued,
         req' = [req EXCEPT ![r].pc = pc, ![r].new = new]
  PROVE  /\ req' \in [Request -> ReqType]' /\ \A q \in Request : Proper(req[q])'
         /\ req'[r].pc = pc /\ \A q \in Request \ {r} : req'[q] = req[q]
<1> DEFINE v1 == [req[r] EXCEPT !.pc = pc]
           v == [v1 EXCEPT !.new = new]
<1>1. req \in [Request -> ReqType] /\ req[r] \in ReqType /\ \A q \in Request : Proper(req[q])
  BY DEF IInv
<1>2. ReqType \subseteq ReqType'
  BY DEF ReqType
<1>3. v1 \in ReqType /\ v1.pc = pc /\ v1.tab = req[r].tab /\ v1.kind = req[r].kind /\ v1.pair = req[r].pair
  <2>1. pc \in Pcs
    BY DEF Pcs
  <2>2. QED
    BY <1>1, <2>1, AtPc
<1>4. v \in ReqType' /\ v.pc = pc /\ v.tab = req[r].tab /\ v.kind = req[r].kind /\ v.pair = req[r].pair /\ v.new = new
  <2> HIDE DEF v1
  <2>1. QED
    BY <1>3 DEF ReqType
<1>5. req' = [req EXCEPT ![r] = v]
  OBVIOUS
<1> HIDE DEF v, v1
<1>6. req' \in [Request -> ReqType'] /\ req'[r] = v /\ \A q \in Request \ {r} : req'[q] = req[q]
  BY <1>1, <1>2, <1>4, <1>5
<1>7. ASSUME NEW q \in Request
      PROVE  Proper(req[q])'
  <2>1. CASE q = r
    BY <1>1, <1>4, <1>6, <2>1 DEF Proper
  <2>2. CASE q # r
    BY <1>1, <1>6, <2>2 DEF Proper
  <2>3. QED
    BY <2>1, <2>2
<1>8. QED
  BY <1>4, <1>6, <1>7

\* A login, or a switch of the organization: a family nobody has heard of.
LEMMA NewFamilyOK ==
  ASSUME IInv, NEW r \in Request, NEW new \in Token, NEW o \in Org, NEW how \in {"login", "switch"},
         Issue(r, new, new, o, how), req[r].pc # "idle",
         req' = [req EXCEPT ![r].pc = "ok", ![r].new = new],
         UNCHANGED <<revoked, stale, stored, cookie, tab, moves, reset, raced, killed, unheard, crossed>>
  PROVE  IInv'
<1>1. new \in Token \ Issued
  BY DEF Issue
<1>2. /\ Issued' = Issued \cup {new} /\ family'[new] = new
      /\ \A k \in Issued : family'[k] = family[k]
      /\ family' \in [Token -> Token \cup {None}] /\ org' \in [Token -> Org]
      /\ \A k \in Issued' : family'[k] \in Issued'
      /\ by' \in [Token -> [how : {"login", "switch", "refresh"}, tab : Tab] \cup {None}]
  BY <1>1, IssueOK
<1>3. /\ req' \in [Request -> ReqType]' /\ \A q \in Request : Proper(req[q])'
      /\ req'[r].pc = "ok" /\ \A q \in Request \ {r} : req'[q] = req[q]
  BY <1>1, <1>2, GivenOK
<1>4. ServerOK' /\ PageOK' /\ HistOK'
  BY <1>2 DEF IInv, ServerOK, PageOK, HistOK, TabType
<1>5. \A k \in Issued : family[k] \in Issued
  BY DEF IInv, ServerOK
<1>6. Live(new)' = {new} /\ \A f \in Token \ {new} : Live(f)' = Live(f)
  BY <1>1, <1>2, <1>5 DEF Live, IInv, ServerOK
<1>7. ~Resetting(new)' /\ \A f \in Token \ {new} : Resetting(f)' = Resetting(f)
  BY <1>1, <1>2, <1>5 DEF Resetting, IInv, ServerOK
<1>8. FamilyInv'
  <2>1. OneLiveToken'
    BY <1>6 DEF IInv, FamilyInv, OneLiveToken
  <2>2. DeadStaysDead' /\ killed' \subseteq Issued'
    <3>1. \A f \in killed' : f \in Token \ {new}
      BY <1>1 DEF IInv, FamilyInv, Issued
    <3>2. QED
      BY <1>2, <1>6, <3>1 DEF IInv, FamilyInv, DeadStaysDead
  <2>3. ResetCovers'
    BY <1>6, <1>7 DEF IInv, FamilyInv, ResetCovers
  <2>4. QED
    BY <2>1, <2>2, <2>3 DEF FamilyInv
<1>9. ASSUME NEW q \in Request
      PROVE  Rotatable(req[q])' /\ Revocable(req[q])'
  <2>1. CASE req'[q].pc \in {"rotating", "revoking"}
    <3>1. req'[q] = req[q] /\ req[q].pair \in Issued /\ req[q] \in ReqType
      BY <1>3, <2>1 DEF IInv, Proper
    <3>2. family'[req[q].pair] = family[req[q].pair] /\ family[req[q].pair] \in Token \ {new} /\ req[q].found \subseteq Issued
      BY <1>1, <1>2, <1>5, <3>1 DEF ReqType, Issued
    <3>3. Rotatable(req[q]) /\ Revocable(req[q])
      BY DEF IInv, ReadsHold
    <3>4. \A k \in req[q].found : family'[k] = family[k]
      BY <1>2, <3>2
    <3>5. Rotatable(req[q])'
      BY <3>1, <3>2, <3>3 DEF Rotatable
    <3>6. Revocable(req[q])'
      <4>1. PICK g \in Token \ {new} : g = family[req[q].pair]
        BY <3>2
      <4>2. Live(g)' = Live(g) /\ family'[req'[q].pair] = g
        BY <1>6, <3>1, <3>2, <4>1
      <4>3. (Live(family[req[q].pair]))' = Live(g)
        BY <4>2 DEF Live
      <4>4. req[q].pc = "revoking" => /\ \A k \in req[q].found : family[k] = g
                                      /\ g \notin raced => Live(g) \subseteq req[q].found
        BY <3>3, <4>1 DEF Revocable
      <4>5. QED
        BY <3>1, <3>4, <4>2, <4>3, <4>4 DEF Revocable
    <3>7. QED
      BY <3>5, <3>6
  <2>2. QED
    BY <2>1 DEF Rotatable, Revocable
<1>10. QED
  BY <1>3, <1>4, <1>8, <1>9 DEF IInv, ReadsHold

LEMMA RotateOK ==
  ASSUME IInv, NEW r \in Request, Rotate(r)
  PROVE  IInv'
<1>0. req[r].pair \in Issued /\ family[req[r].pair] \in Token /\ \A k \in Issued : family[k] \in Issued
  BY DEF Rotate, IInv, Proper, ServerOK, Issued
<1>a. PICK old \in Issued, f \in Token : old = req[r].pair /\ f = family[old]
  BY <1>0
<1>1. PICK new \in Token : /\ Issue(r, new, f, Home, "refresh")
                           /\ req' = [req EXCEPT ![r].pc = "rotated", ![r].new = new]
  BY <1>a DEF Rotate
<1>2. /\ req[r].pc = "rotating" /\ revoked' = revoked \cup {old}
      /\ raced' = IF Rotating(f, r) \/ Revoking(f, r) \/ Resetting(f) THEN raced \cup {f} ELSE raced
      /\ UNCHANGED <<stale, stored, cookie, tab, moves, reset, killed, unheard, crossed>>
  BY <1>a DEF Rotate
<1>3. old \in Issued /\ f \in Issued /\ f \in Token /\ \A k \in Issued : family[k] \in Issued
  BY <1>0, <1>a
<1>4. new \in Token \ Issued
  BY <1>1 DEF Issue
<1>5. /\ Issued' = Issued \cup {new} /\ family'[new] = f
      /\ \A k \in Issued : family'[k] = family[k]
      /\ family' \in [Token -> Token \cup {None}] /\ org' \in [Token -> Org]
      /\ \A k \in Issued' : family'[k] \in Issued'
      /\ by' \in [Token -> [how : {"login", "switch", "refresh"}, tab : Tab] \cup {None}]
  BY <1>1, <1>2, <1>3, <1>4, IssueOK, SessionsAssumption
<1>6. /\ req' \in [Request -> ReqType]' /\ \A q \in Request : Proper(req[q])'
      /\ req'[r].pc = "rotated" /\ \A q \in Request \ {r} : req'[q] = req[q]
  BY <1>1, <1>2, <1>3, <1>a, <1>5, GivenOK
<1>7. ServerOK' /\ PageOK' /\ HistOK'
  BY <1>2, <1>3, <1>5 DEF IInv, ServerOK, PageOK, HistOK, TabType
<1>8. /\ Live(f)' = (Live(f) \ {old}) \cup {new}
      /\ \A g \in Token \ {f} : Live(g)' = Live(g)
  <2>1. new \notin revoked /\ old \in Issued
    BY <1>4 DEF IInv, ServerOK
  <2>2. revoked' = revoked \cup {old} /\ family[old] = f
    BY <1>2, <1>a
  <2>3. \A g \in Token : Live(g)' = {k \in Issued \cup {new} : family'[k] = g /\ k \notin revoked \cup {old}}
    BY <1>5, <2>2 DEF Live
  <2>4. Live(f)' = (Live(f) \ {old}) \cup {new}
    BY <1>4, <1>5, <2>1, <2>3 DEF Live
  <2>5. \A g \in Token \ {f} : Live(g)' = Live(g)
    BY <1>4, <1>5, <2>1, <2>2, <2>3 DEF Live
  <2>6. QED
    BY <2>4, <2>5
<1>9. raced \subseteq raced' /\ (f \notin raced' => ~Rotating(f, r) /\ ~Revoking(f, r) /\ ~Resetting(f))
  BY <1>2
\* Unless it is raced, the old token was the good one of its family.
<1>10. f \notin raced' => Live(f) = {old} /\ Live(f)' = {new} /\ f \notin killed
  <2>1. SUFFICES ASSUME f \notin raced'
                 PROVE  Live(f) = {old} /\ Live(f)' = {new} /\ f \notin killed
    OBVIOUS
  <2>2. f \notin raced
    BY <1>9, <2>1
  <2>3. old \in Live(f)
    BY <1>2, <1>3, <1>a, <2>2 DEF IInv, ReadsHold, Rotatable, Live
  <2>4. QED
    BY <1>3, <1>8, <2>2, <2>3 DEF IInv, FamilyInv, OneLiveToken, DeadStaysDead
<1>11. \A g \in Token : Resetting(g)' = Resetting(g)
  BY <1>2, <1>5 DEF Resetting, IInv, ServerOK
<1>12. FamilyInv'
  <2>1. OneLiveToken'
    <3>1. SUFFICES ASSUME NEW g \in Token, g \notin raced', NEW k \in Live(g)', NEW l \in Live(g)'
                   PROVE  k = l
      BY DEF OneLiveToken
    <3>2. CASE g = f
      BY <1>10, <3>1, <3>2
    <3>3. CASE g # f
      BY <1>8, <1>9, <3>1, <3>3 DEF IInv, FamilyInv, OneLiveToken
    <3>4. QED
      BY <3>2, <3>3
  <2>2. DeadStaysDead' /\ killed' \subseteq Issued'
    BY <1>2, <1>5, <1>8, <1>9, <1>10 DEF IInv, FamilyInv, DeadStaysDead, HistOK
  <2>3. ResetCovers'
    BY <1>2, <1>8, <1>9, <1>11 DEF IInv, FamilyInv, ResetCovers
  <2>4. QED
    BY <2>1, <2>2, <2>3 DEF FamilyInv
<1>13. ASSUME NEW q \in Request
       PROVE  Rotatable(req[q])' /\ Revocable(req[q])'
  <2>1. CASE req'[q].pc \in {"rotating", "revoking"}
    <3>1. q # r /\ req'[q] = req[q] /\ req[q].pair \in Issued /\ req[q] \in ReqType
      BY <1>6, <2>1 DEF IInv, Proper
    <3>2. family'[req[q].pair] = family[req[q].pair] /\ family[req[q].pair] \in Token /\ req[q].found \subseteq Issued
      BY <1>3, <1>5, <3>1 DEF ReqType, Issued
    <3>3. Rotatable(req[q]) /\ Revocable(req[q])
      BY DEF IInv, ReadsHold
    <3>4. \A k \in req[q].found : family'[k] = family[k]
      BY <1>5, <3>2
    <3>5. family[req[q].pair] = f => f \in raced'
      BY <1>9, <2>1, <3>1 DEF Rotating, Revoking
    <3>6. Rotatable(req[q])'
      <4>1. revoked' = revoked \cup {old}
        BY <1>2
      <4>2. req[q].pair = old => family[req[q].pair] \in raced'
        BY <1>a, <3>5
      <4>3. QED
        BY <1>9, <3>1, <3>2, <3>3, <4>1, <4>2 DEF Rotatable
    <3>7. Revocable(req[q])'
      <4>1. PICK g \in Token : g = family[req[q].pair]
        BY <3>2
      <4>2. family'[req'[q].pair] = g
        BY <3>1, <3>2, <4>1
      <4>3. (Live(family[req[q].pair]))' = Live(g)'
        BY <4>2 DEF Live
      <4>4. g \notin raced' => g # f /\ g \notin raced /\ Live(g)' = Live(g)
        BY <1>8, <1>9, <3>5, <4>1
      <4>5. QED
        BY <3>1, <3>3, <3>4, <4>1, <4>2, <4>3, <4>4 DEF Revocable
    <3>8. QED
      BY <3>6, <3>7
  <2>2. QED
    BY <2>1 DEF Rotatable, Revocable
<1>14. QED
  BY <1>6, <1>7, <1>12, <1>13 DEF IInv, ReadsHold

\* Rows are revoked: every row of a family that is killed, and no row that a
\* request is about to rotate unless its family is raced.
LEMMA RevokeOK ==
  ASSUME IInv, UNCHANGED <<family, org, stale>>, NEW more \in SUBSET Issued, revoked' = revoked \cup more,
         raced \subseteq raced', reset' \in {reset, {}}, killed' \subseteq Issued,
         \A f \in killed' \ raced' : f \in killed \/ Live(f) \subseteq more,
         PageOK', HistOK', req' \in [Request -> ReqType],
         \A q \in Request : Proper(req'[q]) /\ Truthful(q),
         \A q \in Request : req'[q].pc = "rotating" =>
             req'[q].pair \notin more \/ family[req'[q].pair] \in raced'
  PROVE  IInv'
<1>1. Issued' = Issued /\ \A f : Live(f)' = Live(f) \ more
  BY DEF Issued, Live
<1>2. ReqType' = ReqType
  BY <1>1 DEF ReqType
<1>3. ServerOK'
  BY <1>1 DEF IInv, ServerOK
<1>4. \A r \in Request : Proper(req[r])'
  BY <1>1 DEF Proper
<1>5. \A f : Resetting(f)' => Resetting(f) /\ reset' = reset
  BY DEF Resetting
<1>6. FamilyInv'
  <2>1. OneLiveToken'
    BY <1>1 DEF IInv, FamilyInv, OneLiveToken
  <2>2. DeadStaysDead' /\ killed' \subseteq Issued'
    BY <1>1 DEF IInv, FamilyInv, DeadStaysDead
  <2>3. ResetCovers'
    BY <1>1, <1>5 DEF IInv, FamilyInv, ResetCovers
  <2>4. QED
    BY <2>1, <2>2, <2>3 DEF FamilyInv
<1>7. ASSUME NEW r \in Request
      PROVE  Rotatable(req[r])' /\ Revocable(req[r])'
  <2>1. Rotatable(req[r]) /\ Revocable(req[r]) /\ Truthful(r)
    BY DEF IInv, ReadsHold
  <2>2. Rotatable(req'[r]) /\ Revocable(req'[r])
    BY <2>1 DEF Truthful, Rotatable, Revocable
  <2>3. Rotatable(req[r])'
    BY <2>2 DEF Rotatable
  <2>4. Revocable(req[r])'
    BY <1>1, <2>2 DEF Revocable
  <2>5. QED
    BY <2>3, <2>4
<1>8. QED
  BY <1>2, <1>3, <1>4, <1>6, <1>7 DEF IInv, ReadsHold

LEMMA HandleLogoutOK ==
  ASSUME IInv, NEW r \in Request, HandleLogout(r)
  PROVE  IInv'
<1>1. req[r].pc = "sent" /\ req[r] \in ReqType /\ req[r].pair \in Issued /\ family[req[r].pair] \in Token
  BY DEF HandleLogout, IInv, Proper, ServerOK, Issued
<1> DEFINE v == [req[r] EXCEPT !.pc = "ok"]
<1>2. v \in ReqType /\ v.pc = "ok" /\ v.tab = req[r].tab /\ v.kind = req[r].kind /\ v.pair = req[r].pair
  BY <1>1, AtPc DEF Pcs
<1>3. req' \in [Request -> ReqType] /\ req'[r] = v /\ \A q \in Request \ {r} : req'[q] = req[q]
  BY <1>2 DEF HandleLogout, To, IInv
<1> HIDE DEF v
<1>4. \A q \in Request : Proper(req'[q]) /\ Truthful(q)
  <2>1. Proper(v)
    BY <1>1, <1>2 DEF HandleLogout, IInv, Proper
  <2>2. QED
    BY <1>2, <1>3, <2>1 DEF IInv, Truthful
<1>5. raced \subseteq raced' /\ raced' \subseteq Token
  BY <1>1 DEF HandleLogout, IInv, HistOK
<1>6. ASSUME NEW q \in Request, req'[q].pc = "rotating"
      PROVE  req'[q].pair \notin {req[r].pair} \/ family[req'[q].pair] \in raced'
  <2>1. q # r /\ req'[q] = req[q]
    BY <1>2, <1>3, <1>6
  <2>2. QED
    BY <1>6, <2>1 DEF HandleLogout, Rotating
<1>7. PageOK' /\ HistOK'
  BY <1>5 DEF HandleLogout, IInv, PageOK, HistOK, TabType, Issued
<1>8. revoked' = revoked \cup {req[r].pair} /\ UNCHANGED <<family, org, stale, reset, killed>>
  BY DEF HandleLogout
<1>9. killed' \subseteq Issued
  BY <1>8 DEF IInv, FamilyInv
<1>10. QED
  BY <1>1, <1>3, <1>4, <1>5, <1>6, <1>7, <1>8, <1>9, RevokeOK

LEMMA RevokeFamilyOK ==
  ASSUME IInv, NEW r \in Request, RevokeFamily(r)
  PROVE  IInv'
<1>1. /\ req[r].pc = "revoking" /\ req[r] \in ReqType /\ req[r].found \subseteq Issued
      /\ req[r].pair \in Issued /\ family[req[r].pair] \in Issued
  BY DEF RevokeFamily, IInv, Proper, ServerOK, ReqType
<1>2. PICK f \in Issued : f = family[req[r].pair]
  BY <1>1
<1>3. /\ revoked' = revoked \cup req[r].found /\ killed' = killed \cup {f}
      /\ raced' = IF Rotating(f, r) THEN raced \cup {f} ELSE raced
      /\ UNCHANGED <<family, org, stale, reset>>
  BY <1>2 DEF RevokeFamily
<1>4. Revocable(req[r])
  BY DEF IInv, ReadsHold
<1> DEFINE v == [req[r] EXCEPT !.pc = "failed"]
<1>5. v \in ReqType /\ v.pc = "failed" /\ v.tab = req[r].tab /\ v.kind = req[r].kind /\ v.pair = req[r].pair
  BY <1>1, AtPc DEF Pcs
<1>6. req' \in [Request -> ReqType] /\ req'[r] = v /\ \A q \in Request \ {r} : req'[q] = req[q]
  BY <1>5 DEF RevokeFamily, To, IInv
<1> HIDE DEF v
<1>7. \A q \in Request : Proper(req'[q]) /\ Truthful(q)
  <2>1. Proper(v)
    BY <1>1, <1>5 DEF IInv, Proper
  <2>2. QED
    BY <1>5, <1>6, <2>1 DEF IInv, Truthful
<1>8. raced \subseteq raced' /\ raced' \subseteq Token
  BY <1>2, <1>3 DEF IInv, HistOK, Issued
<1>9. ASSUME NEW q \in Request, req'[q].pc = "rotating"
      PROVE  req'[q].pair \notin req[r].found \/ family[req'[q].pair] \in raced'
  <2>1. q # r /\ req'[q] = req[q]
    BY <1>5, <1>6, <1>9
  <2>2. req[q].pair \in req[r].found => family[req[q].pair] = f
    BY <1>1, <1>2, <1>4 DEF Revocable
  <2>3. family[req[q].pair] = f => Rotating(f, r)
    BY <1>9, <2>1 DEF Rotating
  <2>4. QED
    BY <1>3, <2>1, <2>2, <2>3
<1>10. killed' \subseteq Issued /\ \A g \in killed' \ raced' : g \in killed \/ Live(g) \subseteq req[r].found
  <2>1. f \notin raced' => Live(f) \subseteq req[r].found
    BY <1>1, <1>2, <1>4, <1>8 DEF Revocable
  <2>2. QED
    BY <1>2, <1>3, <2>1 DEF IInv, FamilyInv
<1>11. PageOK' /\ HistOK'
  <2>1. killed' \subseteq Token
    BY <1>10 DEF Issued
  <2>2. QED
    BY <1>8, <2>1 DEF RevokeFamily, IInv, PageOK, HistOK, TabType, Issued
<1>12. QED
  BY <1>1, <1>3, <1>6, <1>7, <1>8, <1>9, <1>10, <1>11, RevokeOK

LEMMA ResetCommitsOK ==
  ASSUME IInv, ResetCommits
  PROVE  IInv'
<1>1. reset \subseteq Issued /\ \A k \in reset : family[k] \in Issued
  BY DEF IInv, ServerOK
<1>2. raced \subseteq raced' /\ raced' \subseteq Token
  BY DEF ResetCommits, IInv, HistOK
<1>3. ASSUME NEW q \in Request, req'[q].pc = "rotating"
      PROVE  req'[q].pair \notin reset \/ family[req'[q].pair] \in raced'
  <2>1. req' = req
    BY DEF ResetCommits
  <2>2. req[q].pair \in reset => Resetting(family[req[q].pair]) /\ family[req[q].pair] \in Token
    BY <1>1 DEF Resetting, Issued
  <2>3. QED
    BY <1>3, <2>1, <2>2 DEF ResetCommits
<1>4. killed' \subseteq Issued /\ \A f \in killed' \ raced' : f \in killed \/ Live(f) \subseteq reset
  <2>1. ASSUME NEW f \in killed', f \notin raced', f \notin killed
        PROVE  f \in Issued /\ Live(f) \subseteq reset
    <3>1. f \in Issued /\ Resetting(f)
      BY <1>1, <2>1 DEF ResetCommits, Resetting
    <3>2. f \in Token \ raced
      BY <1>2, <2>1, <3>1 DEF Issued
    <3>3. QED
      BY <3>1, <3>2 DEF IInv, FamilyInv, ResetCovers
  <2>2. killed' \subseteq Issued
    BY <1>1 DEF ResetCommits, IInv, FamilyInv
  <2>3. QED
    BY <2>1, <2>2
<1>5. PageOK' /\ HistOK'
  <2>1. killed' \subseteq Token
    BY <1>4 DEF Issued
  <2>2. QED
    BY <1>2, <2>1 DEF ResetCommits, IInv, PageOK, HistOK, TabType, Issued
<1>6. \A q \in Request : Proper(req'[q]) /\ Truthful(q)
  BY DEF ResetCommits, IInv, Truthful
<1>7. revoked' = revoked \cup reset /\ reset' = {} /\ UNCHANGED <<family, org, stale, req>>
  BY DEF ResetCommits
<1>8. req' \in [Request -> ReqType]
  BY <1>7 DEF IInv
<1>9. QED
  BY <1>1, <1>2, <1>3, <1>4, <1>5, <1>6, <1>7, <1>8, RevokeOK

LEMMA HandleLoginOK ==
  ASSUME IInv, NEW r \in Request, HandleLogin(r)
  PROVE  IInv'
<1>1. req[r].pc # "idle"
  BY DEF HandleLogin
<1>2. PICK new \in Token : Issue(r, new, new, Home, "login") /\ req' = [req EXCEPT ![r].pc = "ok", ![r].new = new]
  BY DEF HandleLogin
<1>3. UNCHANGED <<revoked, stale, stored, cookie, tab, moves, reset, raced, killed, unheard, crossed>>
  BY DEF HandleLogin
<1>4. QED
  BY <1>1, <1>2, <1>3, NewFamilyOK, SessionsAssumption

LEMMA HandleRequestOK ==
  ASSUME IInv, NEW r \in Request, HandleRequest(r)
  PROVE  IInv'
<1>1. req[r].pc = "sent"
      /\ UNCHANGED <<revoked, stale, stored, cookie, tab, moves, reset, raced, killed, unheard, crossed>>
  BY DEF HandleRequest
<1>2. CASE Good(req[r].pair) /\ req[r].kind = "switch"
  <2>1. PICK new \in Token, o \in Org \ {req[r].shown} :
          Issue(r, new, new, o, "switch") /\ req' = [req EXCEPT ![r].pc = "ok", ![r].new = new]
    BY <1>2 DEF HandleRequest
  <2>2. QED
    BY <1>1, <2>1, NewFamilyOK
<1>3. CASE ~(Good(req[r].pair) /\ req[r].kind = "switch")
  <2>1. UNCHANGED <<family, org, by>>
    BY <1>3 DEF HandleRequest
  <2>2. PageOK' /\ HistOK'
    BY <1>1, <2>1 DEF IInv, PageOK, HistOK, TabType, Issued
  <2>3. \/ To(r, "denied")
        \/ To(r, "ok") /\ req[r].kind \notin {"login", "switch"}
    BY <1>3 DEF HandleRequest
  <2>4. "denied" \in Pcs /\ "ok" \in Pcs
    BY DEF Pcs
  <2>5. CASE To(r, "denied")
    BY <1>1, <2>1, <2>2, <2>4, <2>5, ToOK
  <2>6. CASE To(r, "ok") /\ req[r].kind \notin {"login", "switch"}
    BY <1>1, <2>1, <2>2, <2>4, <2>6, ToOK
  <2>7. QED
    BY <2>3, <2>5, <2>6
<1>4. QED
  BY <1>2, <1>3

\* A request reads rows: that its token is good, or which ones of a family are.
LEMMA ReadOK ==
  ASSUME IInv, NEW r \in Request, FindToken(r) \/ ReadFamily(r)
  PROVE  IInv'
<1> USE DEF server, hist
<1>1. PageOK' /\ HistOK' /\ UNCHANGED <<family, org, revoked, stale, reset, raced, killed>>
  BY DEF FindToken, ReadFamily, IInv, PageOK, HistOK, TabType, Issued
<1>2. req[r] \in ReqType /\ req[r].pair \in Issued /\ req[r].tab \in Tab /\ Proper(req[r])
  BY DEF FindToken, ReadFamily, IInv, Proper
<1>3. PICK v \in ReqType : req' = [req EXCEPT ![r] = v] /\ Proper(v) /\ Rotatable(v) /\ Revocable(v)
  <2>1. CASE FindToken(r) /\ req[r].pair \in revoked
    <3> DEFINE w == [req[r] EXCEPT !.pc = "reused"]
    <3>1. w \in ReqType /\ w.pc = "reused" /\ w.tab = req[r].tab /\ w.kind = req[r].kind /\ w.pair = req[r].pair
      BY <1>2, AtPc DEF Pcs
    <3>2. req' = [req EXCEPT ![r] = w]
      BY <2>1 DEF FindToken, To
    <3> HIDE DEF w
    <3>3. QED
      BY <1>2, <3>1, <3>2 DEF Proper, Rotatable, Revocable
  <2>2. CASE FindToken(r) /\ req[r].pair \notin revoked
    <3> DEFINE w == [req[r] EXCEPT !.pc = "rotating"]
    <3>1. w \in ReqType /\ w.pc = "rotating" /\ w.tab = req[r].tab /\ w.kind = req[r].kind /\ w.pair = req[r].pair
      BY <1>2, AtPc DEF Pcs
    <3>2. req' = [req EXCEPT ![r] = w]
      BY <2>2 DEF FindToken, To
    <3> HIDE DEF w
    <3>3. QED
      BY <1>2, <2>2, <3>1, <3>2 DEF Proper, Rotatable, Revocable
  <2>3. CASE ReadFamily(r)
    <3> DEFINE u == [req[r] EXCEPT !.pc = "revoking"]
               w == [u EXCEPT !.found = Live(family[req[r].pair])]
    <3>1. u \in ReqType /\ u.pc = "revoking" /\ u.tab = req[r].tab /\ u.kind = req[r].kind /\ u.pair = req[r].pair
      BY <1>2, AtPc DEF Pcs
    <3>2. req' = [req EXCEPT ![r] = w]
      BY <2>3 DEF ReadFamily
    <3>3. Live(family[req[r].pair]) \in SUBSET Issued /\ \A k \in Live(family[req[r].pair]) : family[k] = family[req[r].pair]
      BY DEF Live
    <3> HIDE DEF u
    <3>4. w \in ReqType /\ w.pc = "revoking" /\ w.tab = req[r].tab /\ w.kind = req[r].kind
          /\ w.pair = req[r].pair /\ w.found = Live(family[req[r].pair])
      BY <3>1, <3>3 DEF ReqType
    <3> HIDE DEF w
    <3>5. QED
      BY <1>2, <3>2, <3>3, <3>4 DEF Proper, Rotatable, Revocable
  <2>4. QED
    BY <2>1, <2>2, <2>3
<1>4. req' \in [Request -> ReqType] /\ req'[r] = v /\ \A q \in Request \ {r} : req'[q] = req[q]
  BY <1>3 DEF IInv
<1>5. \A q \in Request : Proper(req'[q]) /\ Truthful(q)
  BY <1>3, <1>4 DEF IInv, Truthful
<1>6. QED
  BY <1>1, <1>4, <1>5, BrowserOK

LEMMA ReadRowsOK ==
  ASSUME IInv, ResetReads \/ ReadOthers
  PROVE  IInv'
<1> USE DEF server, hist
<1>0. UNCHANGED <<family, org, revoked, stale, stored, cookie, tab, req, by, raced, killed, unheard, crossed>>
  BY DEF ResetReads, ReadOthers
<1>1. Issued' = Issued /\ \A f : Live(f)' = Live(f)
  BY <1>0 DEF Issued, Live
<1>2. ReqType' = ReqType
  BY <1>1 DEF ReqType
<1>3. ServerOK' /\ HistOK'
  <2>1. reset' \subseteq Issued
    BY DEF ResetReads, ReadOthers
  <2>2. QED
    BY <1>0, <1>1, <2>1 DEF IInv, ServerOK, HistOK
<1>4. PageOK'
  <2>1. moves' \in 0 .. MaxMoves
    BY SessionsAssumption DEF ResetReads, ReadOthers, Abroad, IInv, PageOK
  <2>2. QED
    BY <1>0, <1>1, <2>1 DEF IInv, PageOK, TabType
<1>5. \A r \in Request : Proper(req[r])' /\ Rotatable(req[r])' /\ Revocable(req[r])'
  BY <1>0, <1>1 DEF IInv, ReadsHold, Proper, Rotatable, Revocable
\* Of a family that is not raced one row is good, and it is read or it is the caller's.
<1>6. ResetCovers'
  <2>1. SUFFICES ASSUME NEW f \in Token \ raced, NEW k \in reset', family[k] = f
                 PROVE  Live(f) \subseteq reset'
    BY <1>0, <1>1 DEF ResetCovers, Resetting
  <2>2. CASE ResetReads
    BY <2>2 DEF ResetReads, Live
  <2>3. CASE ReadOthers
    <3>1. k \in Live(f)
      BY <2>1, <2>3 DEF ReadOthers, Live
    <3>2. QED
      BY <2>1, <3>1 DEF IInv, FamilyInv, OneLiveToken
  <2>4. QED
    BY <2>2, <2>3
<1>7. FamilyInv'
  BY <1>0, <1>1, <1>6 DEF IInv, FamilyInv, OneLiveToken, DeadStaysDead
<1>8. QED
  BY <1>0, <1>2, <1>3, <1>4, <1>5, <1>7 DEF IInv, ReadsHold

LEMMA RevokeSessionOK ==
  ASSUME IInv, NEW k \in Token, RevokeSession(k)
  PROVE  IInv'
<1>1. k \in Issued /\ family[k] \in Issued /\ family[k] \in Token
  BY DEF RevokeSession, IInv, ServerOK, Issued
<1>2. /\ revoked' = revoked \cup {k} /\ UNCHANGED <<family, org, stale, req, reset>>
      /\ killed' = IF k \in revoked THEN killed ELSE killed \cup {family[k]}
  BY DEF RevokeSession
<1>3. raced \subseteq raced' /\ raced' \subseteq Token
  BY <1>1 DEF RevokeSession, IInv, HistOK
<1>4. ASSUME NEW q \in Request, req'[q].pc = "rotating"
      PROVE  req'[q].pair \notin {k} \/ family[req'[q].pair] \in raced'
  BY <1>2, <1>4 DEF RevokeSession
<1>5. killed' \subseteq Issued /\ \A f \in killed' \ raced' : f \in killed \/ Live(f) \subseteq {k}
  <2>1. ASSUME k \notin revoked, family[k] \notin raced'
        PROVE  Live(family[k]) \subseteq {k}
    <3>1. k \in Live(family[k]) /\ family[k] \in Token \ raced
      BY <1>1, <1>3, <2>1 DEF Live
    <3>2. QED
      BY <3>1 DEF IInv, FamilyInv, OneLiveToken
  <2>2. QED
    BY <1>1, <1>2, <2>1 DEF IInv, FamilyInv
<1>6. PageOK' /\ HistOK'
  <2>1. killed' \subseteq Token /\ moves' \in 0 .. MaxMoves
    BY <1>5, SessionsAssumption DEF RevokeSession, Abroad, IInv, PageOK, Issued
  <2>2. QED
    BY <1>3, <2>1 DEF RevokeSession, IInv, PageOK, HistOK, TabType, Issued
<1>7. req' \in [Request -> ReqType] /\ \A q \in Request : Proper(req'[q]) /\ Truthful(q)
  BY <1>2 DEF IInv, Truthful
<1>8. QED
  BY <1>1, <1>2, <1>3, <1>4, <1>5, <1>6, <1>7, RevokeOK

LEMMA ExpireOK ==
  ASSUME IInv, NEW k \in Token, Expire(k)
  PROVE  IInv'
<1>1. stale' \subseteq Issued
  BY DEF Expire, IInv, ServerOK
<1>2. PageOK' /\ HistOK'
  BY DEF Expire, IInv, PageOK, HistOK, TabType, Issued, hist
<1>3. req' \in [Request -> ReqType] /\ \A q \in Request : Proper(req'[q]) /\ Truthful(q)
  BY DEF Expire, IInv, Truthful
<1>4. QED
  BY <1>1, <1>2, <1>3, BrowserOK DEF Expire, hist

LEMMA UserOK ==
  ASSUME IInv, NEW t \in Tab, User(t) \/ Redirect(t)
  PROVE  IInv'
<1> USE DEF server, hist
<1>1. ASSUME Moving
      PROVE  moves' \in 0 .. MaxMoves
  BY <1>1, SessionsAssumption DEF Moving, IInv, PageOK
<1>2. ASSUME NEW path \in {"login", "dashboard"}, Load(t, path)
      PROVE  IInv'
  <2>1. Proxy(path) \in {"login", "dashboard"}
    BY DEF Proxy
  <2>2. stored \in Issued \cup {None} /\ req \in [Request -> ReqType] /\ stored' \in Issued \cup {None}
    BY <1>2 DEF Load, IInv, PageOK
  <2>3. QED
    BY <1>1, <1>2, <2>1, <2>2, MountOK DEF Load
<1>3. CASE LogoutAlone(t)
  <2>1. tab' \in [Tab -> TabType]
    BY <1>3 DEF LogoutAlone, SignOut, IInv, PageOK, TabType
  <2>2. PageOK' /\ HistOK'
    BY <1>1, <1>3, <2>1 DEF LogoutAlone, SignOut, IInv, PageOK, HistOK, TabType
  <2>3. req' \in [Request -> ReqType] /\ \A q \in Request : Proper(req'[q]) /\ Truthful(q)
    BY <1>3 DEF LogoutAlone, IInv, Truthful
  <2>4. QED
    BY <1>3, <2>2, <2>3, BrowserOK DEF LogoutAlone
<1>4. ASSUME NEW r \in Request, Login(r, t)
      PROVE  IInv'
  <2>1. PageOK' /\ HistOK'
    BY <1>1, <1>4 DEF Login, IInv, PageOK, HistOK, TabType, Issued
  <2>2. QED
    BY <1>4, <2>1, StartOK DEF Login
<1>5. ASSUME NEW r \in Request, Logout(r, t)
      PROVE  IInv'
  <2>1. PageOK' /\ HistOK'
    BY <1>1, <1>5 DEF Logout, IInv, PageOK, HistOK, TabType, Issued
  <2>2. QED
    BY <1>5, <2>1, StartOK DEF Logout
<1>6. ASSUME NEW r \in Request, NEW kind \in {"api", "switch"}, Call(r, t, kind)
      PROVE  IInv'
  <2>1. PageOK' /\ HistOK'
    BY <1>1, <1>6 DEF Call, IInv, PageOK, HistOK, TabType, Issued
  <2>2. QED
    BY <1>6, <2>1, StartOK DEF Call
<1>7. CASE Redirect(t)
  <2>1. tab' \in [Tab -> TabType]
    BY <1>7 DEF Redirect, IInv, PageOK, TabType
  <2>2. PageOK' /\ HistOK'
    BY <1>7, <2>1 DEF Redirect, IInv, PageOK, HistOK, TabType, Issued
  <2>3. req' \in [Request -> ReqType] /\ \A q \in Request : Proper(req'[q]) /\ Truthful(q)
    BY <1>7 DEF Redirect, IInv, Truthful
  <2>4. QED
    BY <1>7, <2>2, <2>3, BrowserOK DEF Redirect
<1>8. QED
  BY <1>2, <1>3, <1>4, <1>5, <1>6, <1>7 DEF User

LEMMA NextOK ==
  ASSUME IInv, [Next]_vars
  PROVE  IInv'
<1>1. ASSUME NEW r \in Request, Api(r)
      PROVE  IInv'
  BY <1>1, HandleLoginOK, HandleRequestOK, HandleLogoutOK, ReadOK, RotateOK, RevokeFamilyOK DEF Api
<1>2. ASSUME NEW r \in Request, Heard(r)
      PROVE  IInv'
  BY <1>2, HeardOK, SwitchedOK
<1>3. CASE UNCHANGED vars
  <2>1. PageOK' /\ HistOK' /\ req' \in [Request -> ReqType]
    BY <1>3 DEF vars, IInv, PageOK, HistOK, TabType, Issued
  <2>2. \A q \in Request : Proper(req'[q]) /\ Truthful(q)
    BY <1>3 DEF vars, IInv, Truthful
  <2>3. QED
    BY <1>3, <2>1, <2>2, BrowserOK DEF vars
<1>4. QED
  BY <1>1, <1>2, <1>3, UnheardOK, UserOK, ExpireOK, ReadRowsOK, RevokeSessionOK, ResetCommitsOK DEF Next, Reset

---------------------------------------------------------------------------
\* The inductive invariant: what requests have read of refresh_tokens still holds
\* in every family that is not raced, and so rotation and revocation do what they
\* say (auth_service.py).
THEOREM Invariance == Spec => []IInv
<1>1. Init => IInv
  BY InitOK
<1>2. IInv /\ [Next]_vars => IInv'
  BY NextOK
<1>3. QED
  BY <1>1, <1>2, PTL DEF Spec

\* The variables have their types (TypeOK).
THEOREM Typing == Spec => []TypeOK
<1>1. IInv => TypeOK
  BY TypeSplit DEF IInv
<1>2. QED
  BY <1>1, Invariance, PTL

\* Rotation leaves a family one good refresh token, unless a rotation overlapped
\* another change of the family (auth_service.refresh).
THEOREM RotationIsExclusive == Spec => []OneLiveToken
<1>1. IInv => OneLiveToken
  BY DEF IInv, FamilyInv
<1>2. QED
  BY <1>1, Invariance, PTL

\* A family that reuse, a password reset or the list of sessions has revoked has no
\* good token again, with the same exception (auth_service._revoke_family,
\* reset_password, revoke_session, revoke_other_sessions).
THEOREM RevocationIsFinal == Spec => []DeadStaysDead
<1>1. IInv => DeadStaysDead
  BY DEF IInv, FamilyInv
<1>2. QED
  BY <1>1, Invariance, PTL

---------------------------------------------------------------------------
(* What a step does to the requests, field by field *)

Became(v, pc, kind, t, pair, new, shown) ==
  v.pc = pc /\ v.kind = kind /\ v.tab = t /\ v.pair = pair /\ v.new = new /\ v.shown = shown

\* A request goes on as it was, but may have become deaf.
Same(q) ==
  /\ Became(req'[q], req[q].pc, req[q].kind, req[q].tab, req[q].pair, req[q].new, req[q].shown)
  /\ req'[q].heard => req[q].heard

Others(r) == \A q \in Request \ {r} : Same(q)

AllSame == \A q \in Request : Same(q)

\* The request goes on for its page with another pair or at another point.
Goes(r, pc, pair, new) ==
  /\ Became(req'[r], pc, req[r].kind, req[r].tab, pair, new, req[r].shown)
  /\ req'[r].heard => req[r].heard
  /\ Others(r)

Ends(r) == Became(req'[r], "idle", None, None, None, None, None) /\ Others(r)

LEMMA OneChange ==
  ASSUME req \in [Request -> ReqType], NEW r \in Request, NEW v, req' = [req EXCEPT ![r] = v]
  PROVE  req'[r] = v /\ Others(r)
  BY DEF Others, Same, Became

LEMMA EndEnds ==
  ASSUME req \in [Request -> ReqType], NEW r \in Request, End(r)
  PROVE  Ends(r)
<1>1. req'[r] = Idle /\ Others(r)
  BY OneChange DEF End
<1>2. QED
  BY <1>1 DEF Ends, Became, Idle

LEMMA ToGoes ==
  ASSUME req \in [Request -> ReqType], NEW r \in Request, NEW pc, To(r, pc)
  PROVE  Goes(r, pc, req[r].pair, req[r].new)
<1> DEFINE v == [req[r] EXCEPT !.pc = pc]
<1>1. req'[r] = v /\ Others(r)
  BY OneChange DEF To
<1>2. Became(v, pc, req[r].kind, req[r].tab, req[r].pair, req[r].new, req[r].shown) /\ v.heard = req[r].heard
  <2>1. req[r] \in ReqType
    OBVIOUS
  <2>2. QED
    BY <2>1 DEF ReqType, Became
<1>3. QED
  BY <1>1, <1>2 DEF Goes

LEMMA GivenGoes ==
  ASSUME req \in [Request -> ReqType], NEW r \in Request, NEW pc, NEW new,
         req' = [req EXCEPT ![r].pc = pc, ![r].new = new]
  PROVE  Goes(r, pc, req[r].pair, new)
<1> DEFINE u == [req[r] EXCEPT !.pc = pc]
           v == [u EXCEPT !.new = new]
<1>1. req'[r] = v /\ Others(r)
  <2>1. req' = [req EXCEPT ![r] = v]
    OBVIOUS
  <2>2. QED
    BY <2>1, OneChange
<1>2. Became(v, pc, req[r].kind, req[r].tab, req[r].pair, new, req[r].shown) /\ v.heard = req[r].heard
  <2>1. req[r] \in ReqType
    OBVIOUS
  <2>2. QED
    BY <2>1 DEF ReqType, Became
<1>3. QED
  BY <1>1, <1>2 DEF Goes

LEMMA ReadGoes ==
  ASSUME req \in [Request -> ReqType], NEW r \in Request, NEW pc, NEW found,
         req' = [req EXCEPT ![r].pc = pc, ![r].found = found]
  PROVE  Goes(r, pc, req[r].pair, req[r].new)
<1> DEFINE u == [req[r] EXCEPT !.pc = pc]
           v == [u EXCEPT !.found = found]
<1>1. req'[r] = v /\ Others(r)
  <2>1. req' = [req EXCEPT ![r] = v]
    OBVIOUS
  <2>2. QED
    BY <2>1, OneChange
<1>2. Became(v, pc, req[r].kind, req[r].tab, req[r].pair, req[r].new, req[r].shown) /\ v.heard = req[r].heard
  <2>1. req[r] \in ReqType
    OBVIOUS
  <2>2. QED
    BY <2>1 DEF ReqType, Became
<1>3. QED
  BY <1>1, <1>2 DEF Goes

LEMMA RefreshedGoes ==
  ASSUME req \in [Request -> ReqType], NEW r \in Request, NEW pair, NEW yes,
         req' = [req EXCEPT ![r].pc = "sent", ![r].pair = pair, ![r].retried = yes]
  PROVE  Goes(r, "sent", pair, req[r].new)
<1> DEFINE u == [req[r] EXCEPT !.pc = "sent"]
           w == [u EXCEPT !.pair = pair]
           v == [w EXCEPT !.retried = yes]
<1>1. req'[r] = v /\ Others(r)
  <2>1. req' = [req EXCEPT ![r] = v]
    OBVIOUS
  <2>2. QED
    BY <2>1, OneChange
<1>2. Became(v, "sent", req[r].kind, req[r].tab, pair, req[r].new, req[r].shown) /\ v.heard = req[r].heard
  <2>1. req[r] \in ReqType
    OBVIOUS
  <2>2. QED
    BY <2>1 DEF ReqType, Became
<1>3. QED
  BY <1>1, <1>2 DEF Goes

LEMMA LoggedInBecame ==
  ASSUME req \in [Request -> ReqType], NEW r \in Request, NEW pair,
         req' = [req EXCEPT ![r].pc = "sent", ![r].kind = "profile", ![r].pair = pair]
  PROVE  /\ Became(req'[r], "sent", "profile", req[r].tab, pair, req[r].new, req[r].shown)
         /\ Others(r)
<1> DEFINE u == [req[r] EXCEPT !.pc = "sent"]
           w == [u EXCEPT !.kind = "profile"]
           v == [w EXCEPT !.pair = pair]
<1>1. req'[r] = v /\ Others(r)
  <2>1. req' = [req EXCEPT ![r] = v]
    OBVIOUS
  <2>2. QED
    BY <2>1, OneChange
<1>2. Became(v, "sent", "profile", req[r].tab, pair, req[r].new, req[r].shown)
  <2>1. req[r] \in ReqType
    OBVIOUS
  <2>2. QED
    BY <2>1 DEF ReqType, Became
<1>3. QED
  BY <1>1, <1>2

LEMMA StartBecame ==
  ASSUME req \in [Request -> ReqType], NEW r \in Request, NEW t, NEW kind, Start(r, t, kind)
  PROVE  /\ req[r].pc = "idle" /\ Others(r)
         /\ Became(req'[r], "sent", kind, t, stored, None, tab[t].user)
<1> DEFINE v == [Idle EXCEPT !.pc = "sent", !.kind = kind, !.tab = t, !.pair = stored, !.shown = tab[t].user]
<1>1. Became(v, "sent", kind, t, stored, None, tab[t].user)
  BY DEF Idle, Became
<1>2. req' = [req EXCEPT ![r] = v] /\ req[r].pc = "idle"
  BY DEF Start, Active
<1> HIDE DEF v
<1>3. req'[r] = v /\ Others(r)
  BY <1>2, OneChange
<1>4. QED
  BY <1>1, <1>2, <1>3

\* A page is loaded: what it awaited goes unheard, and it asks who is signed in.
Deafens(t, q, r) ==
  /\ Became(req'[r], q[r].pc, q[r].kind, q[r].tab, q[r].pair, q[r].new, q[r].shown)
  /\ req'[r].heard => q[r].heard
  /\ q[r].tab = t /\ q[r].pc # "idle" => ~req'[r].heard

Asks(t, pair, q, b) ==
  /\ q[b].pc = "idle" /\ Became(req'[b], "sent", "boot", t, pair, None, None)
  /\ \A r \in Request \ {b} : Deafens(t, q, r)

Mounts(t, pair, q) ==
  \/ pair = None /\ \A r \in Request : Deafens(t, q, r)
  \/ pair # None /\ \E b \in Request : Asks(t, pair, q, b)

LEMMA DeafOnly ==
  ASSUME NEW v \in ReqType
  PROVE  /\ Became([v EXCEPT !.heard = FALSE], v.pc, v.kind, v.tab, v.pair, v.new, v.shown)
         /\ ~[v EXCEPT !.heard = FALSE].heard
<1>1. PICK no \in BOOLEAN : no = FALSE
  BY Zenon
<1>2. [v EXCEPT !.heard = no].heard = no
  BY DEF ReqType
<1>3. ~[v EXCEPT !.heard = FALSE].heard
  BY <1>1, <1>2, Zenon
<1>4. Became([v EXCEPT !.heard = no], v.pc, v.kind, v.tab, v.pair, v.new, v.shown)
  BY DEF ReqType, Became
<1>5. QED
  BY <1>1, <1>3, <1>4, Zenon

LEMMA MountMounts ==
  ASSUME NEW t \in Tab, NEW path, NEW pair, NEW q \in [Request -> ReqType], Mount(t, path, pair, q)
  PROVE  Mounts(t, pair, q)
<1> DEFINE boot == [Idle EXCEPT !.pc = "sent", !.kind = "boot", !.tab = t, !.pair = pair]
           d == Deafened(t, q)
<1>1. Became(boot, "sent", "boot", t, pair, None, None)
  BY DEF Idle, Became
<1>2. ASSUME NEW r \in Request
      PROVE  /\ Became(d[r], q[r].pc, q[r].kind, q[r].tab, q[r].pair, q[r].new, q[r].shown)
             /\ d[r].heard => q[r].heard
             /\ q[r].tab = t /\ q[r].pc # "idle" => ~d[r].heard
  <2>1. CASE q[r].tab = t /\ q[r].pc # "idle"
    <3>1. d[r] = [q[r] EXCEPT !.heard = FALSE]
      BY <2>1 DEF Deafened
    <3>2. QED
      BY <3>1, DeafOnly
  <2>2. CASE ~(q[r].tab = t /\ q[r].pc # "idle")
    <3>1. d[r] = q[r]
      BY <2>2 DEF Deafened
    <3>2. QED
      BY <2>2, <3>1 DEF Became
  <2>3. QED
    BY <2>1, <2>2
<1>3. CASE pair = None
  <2>1. req' = d
    BY <1>3 DEF Mount
  <2>2. QED
    BY <1>2, <1>3, <2>1 DEF Mounts, Deafens
<1>4. CASE pair # None
  <2>1. PICK b \in Request : q[b].pc = "idle" /\ req' = [d EXCEPT ![b] = boot]
    BY <1>4 DEF Mount
  <2>2. DOMAIN d = Request
    BY DEF Deafened
  <2> HIDE DEF boot, d
  <2>3. req'[b] = boot /\ \A r \in Request \ {b} : req'[r] = d[r]
    BY <2>1, <2>2
  <2>4. QED
    BY <1>1, <1>2, <1>4, <2>1, <2>3 DEF Mounts, Asks, Deafens
<1>5. QED
  BY <1>3, <1>4
---------------------------------------------------------------------------
(* The browser follows the rotations *)

Lost == killed \cup raced \cup unheard

\* A request that has been given a pair which nothing has stored yet.
Given(v) == v.pc = "rotated" \/ (v.pc = "ok" /\ v.kind \in {"login", "switch"})

\* Such a pair is known to that request alone, and good unless its family is lost.
FreshPair(r) ==
  /\ req[r].new # stored
  /\ \A q \in Request : req[q].pair # req[r].new
  /\ \A q \in Request \ {r} : Given(req[q]) => req[q].new # req[r].new
  /\ req[r].new \in revoked => family[req[r].new] \in Lost

GivenAreFresh == \A r \in Request : Given(req[r]) => FreshPair(r)

\* A request that has revoked its pair and whose answer replaces it.
Replaces(v) == v.pc = "rotated" \/ (v.pc = "ok" /\ v.kind = "logout")

StoredIsReplaced ==
  stored \in revoked /\ family[stored] \notin Lost =>
    \E r \in Request : Replaces(req[r]) /\ req[r].pair = stored

Followed == GivenAreFresh /\ StoredIsReplaced

\* The steps that keep it: a pair is revoked with its family, or by a request that
\* will replace it, and what is stored next is what one request had been given.
LEMMA FollowedBy ==
  ASSUME IInv, IInv', Followed,
         Issued \subseteq Issued', \A k \in Issued : family'[k] = family[k],
         Lost \subseteq Lost',
         \A k \in revoked' \ revoked :
            \/ k \in Issued /\ family[k] \in Lost'
            \/ \E q \in Request : req[q].pair = k /\ k \in Issued /\ Replaces(req'[q]) /\ req'[q].pair = k,
         \/ stored' \in {stored, None}
         \/ \E r \in Request : Given(req[r]) /\ stored' = req[r].new /\ ~Given(req'[r]),
         \A q \in Request : req'[q].pair \in {None, stored, stored', req[q].pair},
         \A q \in Request : Given(req'[q]) =>
            \/ Given(req[q]) /\ req'[q].new = req[q].new
            \/ req'[q].new \in Issued' \ Issued
               /\ \A p \in Request \ {q} : Given(req'[p]) => Given(req[p]) /\ req'[p].new = req[p].new,
         \A q \in Request : Replaces(req[q]) /\ req[q].pair = stored /\ stored' = stored =>
            \/ Replaces(req'[q]) /\ req'[q].pair = stored
            \/ family[stored] \in Lost'
  PROVE  Followed'
<1>1. /\ None \notin Issued' /\ revoked \subseteq Issued
      /\ stored \in Issued \cup {None}
      /\ \A q \in Request : req[q].pair \in Issued \cup {None} /\ (Given(req[q]) => req[q].new \in Issued)
  <2>1. None \notin Issued' /\ revoked \subseteq Issued /\ stored \in Issued \cup {None}
    BY SessionsAssumption DEF IInv, ServerOK, PageOK, Issued
  <2>2. ASSUME NEW q \in Request
        PROVE  req[q].pair \in Issued \cup {None} /\ (Given(req[q]) => req[q].new \in Issued)
    <3>1. req[q] \in ReqType /\ Proper(req[q])
      BY DEF IInv
    <3>2. QED
      BY <3>1 DEF ReqType, Given, Proper
  <2>3. QED
    BY <2>1, <2>2
\* A pair that a request was given before the step is not one that the step revokes.
<1>2. ASSUME NEW r \in Request, Given(req[r]), req[r].new \in revoked'
      PROVE  family'[req[r].new] \in Lost'
  <2>1. FreshPair(r) /\ req[r].new \in Issued
    BY <1>1, <1>2 DEF Followed, GivenAreFresh
  <2>2. CASE req[r].new \in revoked
    BY <2>1, <2>2 DEF FreshPair
  <2>3. CASE req[r].new \notin revoked
    BY <1>2, <2>1, <2>3 DEF FreshPair
  <2>4. QED
    BY <2>2, <2>3
<1>3. ASSUME NEW r \in Request, Given(req'[r])
      PROVE  /\ req'[r].new # stored'
             /\ \A q \in Request : req'[q].pair # req'[r].new
             /\ \A q \in Request \ {r} : Given(req'[q]) => req'[q].new # req'[r].new
             /\ req'[r].new \in revoked' => family'[req'[r].new] \in Lost'
  <2>1. CASE Given(req[r]) /\ req'[r].new = req[r].new
    <3>1. FreshPair(r) /\ req[r].new \in Issued /\ req[r].new # None
      BY <1>1, <2>1 DEF Followed, GivenAreFresh
    <3>2. req'[r].new # stored'
      <4>1. ASSUME NEW p \in Request, Given(req[p]), ~Given(req'[p]), stored' = req[p].new
            PROVE  req'[r].new # stored'
        <5>1. p # r
          BY <1>3, <4>1
        <5>2. QED
          BY <2>1, <3>1, <4>1, <5>1 DEF FreshPair
      <4>2. QED
        BY <2>1, <3>1, <4>1 DEF FreshPair
    <3>3. \A q \in Request : req'[q].pair # req'[r].new
      BY <2>1, <3>1, <3>2 DEF FreshPair
    <3>4. \A q \in Request \ {r} : Given(req'[q]) => req'[q].new # req'[r].new
      BY <2>1, <3>1 DEF FreshPair
    <3>5. QED
      BY <1>2, <2>1, <3>2, <3>3, <3>4
  <2>2. CASE /\ req'[r].new \in Issued' \ Issued
             /\ \A p \in Request \ {r} : Given(req'[p]) => Given(req[p]) /\ req'[p].new = req[p].new
    <3>1. stored' \in Issued \cup {None}
      BY <1>1
    <3>2. \A q \in Request : req'[q].pair \in Issued \cup {None}
      BY <1>1, <3>1
    <3>3. \A q \in Request \ {r} : Given(req'[q]) => req'[q].new \in Issued
      BY <1>1, <2>2
    <3>4. req'[r].new \notin revoked'
      BY <1>1, <2>2
    <3>5. QED
      BY <1>1, <2>2, <3>1, <3>2, <3>3, <3>4
  <2>3. QED
    BY <1>3, <2>1, <2>2
<1>4. GivenAreFresh'
  BY <1>3 DEF GivenAreFresh, FreshPair, Given
<1>5. ASSUME stored' \in revoked', family'[stored'] \notin Lost'
      PROVE  \E r \in Request : Replaces(req'[r]) /\ req'[r].pair = stored'
  <2>1. stored' = stored /\ stored \in Issued
    <3>1. stored' \in Issued
      BY <1>1, <1>5
    <3>2. stored' # None
      BY <1>1, <3>1
    <3>3. QED
      BY <1>1, <1>2, <1>5, <3>1, <3>2
  <2>2. family[stored] \notin Lost' /\ family[stored] \notin Lost
    BY <1>5, <2>1
  <2>3. CASE stored \in revoked
    <3>1. PICK q \in Request : Replaces(req[q]) /\ req[q].pair = stored
      BY <2>2, <2>3 DEF Followed, StoredIsReplaced
    <3>2. QED
      BY <2>1, <2>2, <3>1
  <2>4. CASE stored \notin revoked
    BY <1>5, <2>1, <2>2, <2>4
  <2>5. QED
    BY <2>3, <2>4
<1>6. StoredIsReplaced'
  BY <1>5 DEF StoredIsReplaced, Replaces
<1>7. QED
  BY <1>4, <1>6 DEF Followed

\* The steps that leave the rows of refresh_tokens alone.
LEMMA FollowedByBrowser ==
  ASSUME IInv, IInv', Followed, UNCHANGED <<family, revoked>>, Lost \subseteq Lost',
         \/ stored' \in {stored, None}
         \/ \E r \in Request : Given(req[r]) /\ stored' = req[r].new /\ ~Given(req'[r]),
         \A q \in Request : req'[q].pair \in {None, stored, stored', req[q].pair},
         \A q \in Request : Given(req'[q]) => Given(req[q]) /\ req'[q].new = req[q].new,
         \A q \in Request : Replaces(req[q]) /\ req[q].pair = stored /\ stored' = stored =>
            \/ Replaces(req'[q]) /\ req'[q].pair = stored
            \/ family[stored] \in Lost'
  PROVE  Followed'
<1>1. Issued' = Issued /\ revoked' = revoked
  BY DEF Issued
<1>2. QED
  BY <1>1, FollowedBy

LEMMA SameFollows ==
  ASSUME NEW q \in Request, Same(q)
  PROVE  /\ req'[q].pair = req[q].pair /\ (Given(req'[q]) => Given(req[q]) /\ req'[q].new = req[q].new)
         /\ (Replaces(req[q]) => Replaces(req'[q]))
  BY DEF Same, Became, Given, Replaces

\* A request ends.
LEMMA EndFollowed ==
  ASSUME IInv, IInv', Followed, UNCHANGED <<family, revoked>>, Lost \subseteq Lost',
         NEW r \in Request, End(r),
         \/ stored' = None
         \/ stored' = stored /\ (Replaces(req[r]) => family[req[r].pair] \in Lost')
  PROVE  Followed'
<1>1. Ends(r)
  BY EndEnds DEF IInv
<1>2. req'[r].pair = None /\ ~Given(req'[r])
  BY <1>1 DEF Ends, Became, Given
<1>3. \A q \in Request \ {r} : /\ req'[q].pair = req[q].pair
                               /\ (Given(req'[q]) => Given(req[q]) /\ req'[q].new = req[q].new)
                               /\ (Replaces(req[q]) => Replaces(req'[q]))
  BY <1>1, SameFollows DEF Ends, Others
<1>4. stored # None \/ ~(\E q \in Request : Replaces(req[q]) /\ req[q].pair = stored)
  <2>1. \A q \in Request : Replaces(req[q]) => req[q].pair \in Issued
    BY DEF IInv, Proper, Replaces
  <2>2. QED
    BY <2>1, SessionsAssumption DEF Issued
<1>5. QED
  BY <1>2, <1>3, <1>4, FollowedByBrowser

\* A request goes on, with the pair it had or another that is stored.
LEMMA GoesFollowed ==
  ASSUME IInv, IInv', Followed, UNCHANGED <<family, revoked>>, Lost \subseteq Lost',
         NEW r \in Request, NEW pc, NEW pair, Goes(r, pc, pair, req[r].new),
         pc \in {"rotated", "ok"} => pc = "ok" /\ req[r].kind \notin {"login", "switch"},
         pair \in {req[r].pair, stored'},
         \/ stored' = stored /\ ~Replaces(req[r])
         \/ Given(req[r]) /\ stored' = req[r].new
  PROVE  Followed'
<1>1. /\ req'[r].pc = pc /\ req'[r].pair = pair /\ req'[r].new = req[r].new
      /\ req'[r].kind = req[r].kind
  BY DEF Goes, Became
<1>2. ~Given(req'[r])
  BY <1>1 DEF Given
<1>3. \A q \in Request \ {r} : /\ req'[q].pair = req[q].pair
                               /\ (Given(req'[q]) => Given(req[q]) /\ req'[q].new = req[q].new)
                               /\ (Replaces(req[q]) => Replaces(req'[q]))
  BY SameFollows DEF Goes, Others
<1>4. stored' = stored \/ (Given(req[r]) /\ stored' = req[r].new)
  OBVIOUS
<1>5. Given(req[r]) /\ stored' = req[r].new => stored' # stored
  BY DEF Followed, GivenAreFresh, FreshPair
<1>6. QED
  BY <1>1, <1>2, <1>3, <1>4, <1>5, FollowedByBrowser

LEMMA HeardFollowed ==
  ASSUME IInv, IInv', Followed, NEW r \in Request, Heard(r), ~Switched(r)
  PROVE  Followed'
<1> USE DEF server, hist
<1>0. UNCHANGED <<family, revoked>> /\ Lost' = Lost
  BY DEF Heard, LoggedIn, ProfileShown, BootFails, LoggedOut, Refresh, Refreshed, RefreshFails, Settle, Lost
<1>1. CASE LoggedIn(r)
  <2>1. Became(req'[r], "sent", "profile", req[r].tab, req[r].new, req[r].new, req[r].shown) /\ Others(r)
    BY <1>1, LoggedInBecame DEF LoggedIn, IInv
  <2>2. req'[r].pair = stored' /\ ~Given(req'[r]) /\ Given(req[r]) /\ stored' = req[r].new
    BY <1>1, <2>1 DEF LoggedIn, Became, Given
  <2>3. \A q \in Request \ {r} : /\ req'[q].pair = req[q].pair
                                 /\ (Given(req'[q]) => Given(req[q]) /\ req'[q].new = req[q].new)
    BY <2>1, SameFollows DEF Others
  <2>4. stored' # stored
    BY <2>2 DEF Followed, GivenAreFresh, FreshPair
  <2>5. QED
    BY <1>0, <2>2, <2>3, <2>4, FollowedByBrowser
<1>2. CASE ProfileShown(r) \/ Settle(r)
  <2>1. End(r) /\ stored' = stored /\ ~Replaces(req[r])
    BY <1>2 DEF ProfileShown, Settle, Replaces
  <2>2. QED
    BY <1>0, <2>1, EndFollowed
<1>3. CASE BootFails(r) \/ LoggedOut(r) \/ RefreshFails(r)
  <2>1. End(r) /\ stored' = None
    BY <1>3 DEF BootFails, LoggedOut, SignOut, RefreshFails
  <2>2. QED
    BY <1>0, <2>1, EndFollowed
<1>4. CASE Refresh(r)
  <2>1. Goes(r, "refresh", req[r].pair, req[r].new) /\ stored' = stored /\ ~Replaces(req[r])
    BY <1>4, ToGoes DEF Refresh, Replaces, IInv
  <2>2. QED
    BY <1>0, <2>1, GoesFollowed
<1>5. CASE Refreshed(r)
  <2>1. Goes(r, "sent", req[r].new, req[r].new) /\ stored' = req[r].new /\ Given(req[r])
    BY <1>5, RefreshedGoes DEF Refreshed, Given, IInv
  <2>2. QED
    BY <1>0, <2>1, GoesFollowed
<1>6. QED
  BY <1>1, <1>2, <1>3, <1>4, <1>5 DEF Heard

LEMMA UnheardFollowed ==
  ASSUME IInv, IInv', Followed, NEW r \in Request, Unheard(r)
  PROVE  Followed'
<1>1. UNCHANGED <<family, revoked, stored>> /\ Lost \subseteq Lost' /\ End(r)
  BY DEF Unheard, server, Lost
<1>2. Replaces(req[r]) => family[req[r].pair] \in Lost'
  BY DEF Unheard, Replaces, Lost
<1>3. QED
  BY <1>1, <1>2, EndFollowed

LEMMA StartFollowed ==
  ASSUME IInv, IInv', Followed, NEW r \in Request, NEW t, NEW kind, Start(r, t, kind),
         UNCHANGED <<family, revoked, stored>>, Lost' = Lost
  PROVE  Followed'
<1>1. /\ req[r].pc = "idle" /\ Others(r)
      /\ Became(req'[r], "sent", kind, t, stored, None, tab[t].user)
  BY StartBecame DEF IInv
<1>2. ~Replaces(req[r]) /\ ~Given(req'[r]) /\ req'[r].pair = stored
  BY <1>1 DEF Became, Replaces, Given
<1>3. \A q \in Request \ {r} : /\ req'[q].pair = req[q].pair
                               /\ (Given(req'[q]) => Given(req[q]) /\ req'[q].new = req[q].new)
                               /\ (Replaces(req[q]) => Replaces(req'[q]))
  BY <1>1, SameFollows DEF Others
<1>4. QED
  BY <1>2, <1>3, FollowedByBrowser

\* A page is loaded, and stores what it was given for another organization.
LEMMA MountFollowed ==
  ASSUME IInv, IInv', Followed, NEW t, NEW q \in [Request -> ReqType], Mounts(t, stored', q),
         \/ q = req /\ stored' = stored
         \/ \E r \in Request : /\ q = [req EXCEPT ![r] = Idle]
                               /\ req[r].pc = "ok" /\ req[r].kind = "switch" /\ stored' = req[r].new,
         UNCHANGED <<family, revoked>>, Lost' = Lost
  PROVE  Followed'
<1>1. ASSUME NEW p \in Request
      PROVE  \/ req'[p].pair = req[p].pair /\ req'[p].pc = req[p].pc /\ req'[p].kind = req[p].kind
                /\ req'[p].new = req[p].new /\ q[p] = req[p]
             \/ req'[p].pair \in {None, stored'} /\ req'[p].pc \in {"idle", "sent"}
                /\ (req[p].pc = "idle" \/ q[p] = Idle)
  <2>1. q[p] = req[p] \/ q[p] = Idle
    BY DEF IInv
  <2>2. CASE Deafens(t, q, p)
    BY <2>1, <2>2 DEF Deafens, Became, Idle
  <2>3. CASE q[p].pc = "idle" /\ Became(req'[p], "sent", "boot", t, stored', None, None)
    BY <2>1, <2>3 DEF Became
  <2>4. QED
    BY <2>2, <2>3 DEF Mounts, Asks
<1>2. CASE q = req /\ stored' = stored
  <2>1. \A p \in Request : /\ req'[p].pair \in {None, stored, req[p].pair}
                           /\ (Given(req'[p]) => Given(req[p]) /\ req'[p].new = req[p].new)
                           /\ Replaces(req[p]) => Replaces(req'[p]) /\ req'[p].pair = req[p].pair
    BY <1>1, <1>2, IdleType DEF Given, Replaces
  <2>2. \A p \in Request : Given(req'[p]) => Given(req[p]) /\ req'[p].new = req[p].new
    BY <2>1
  <2>3. \A p \in Request : Replaces(req[p]) /\ req[p].pair = stored => Replaces(req'[p]) /\ req'[p].pair = stored
    BY <2>1
  <2>4. stored' = stored /\ \A p \in Request : req'[p].pair \in {None, stored, req[p].pair}
    BY <1>2, <2>1
  <2>5. QED
    BY <2>2, <2>3, <2>4, FollowedByBrowser
<1>3. ASSUME NEW r \in Request, q = [req EXCEPT ![r] = Idle], req[r].pc = "ok", req[r].kind = "switch",
             stored' = req[r].new
      PROVE  Followed'
  <2>1. Given(req[r]) /\ q[r] = Idle /\ Idle.pc = "idle"
    BY <1>3, IdleType DEF Given, IInv
  <2>2. stored' # stored
    BY <1>3, <2>1 DEF Followed, GivenAreFresh, FreshPair
  <2>3. \A p \in Request : /\ req'[p].pair \in {None, stored', req[p].pair}
                           /\ (Given(req'[p]) => Given(req[p]) /\ req'[p].new = req[p].new)
    BY <1>1 DEF Given
  <2>4. ~Given(req'[r])
    BY <1>1, <1>3, <2>1 DEF Given
  <2>5. QED
    BY <1>3, <2>1, <2>2, <2>3, <2>4, FollowedByBrowser
<1>4. QED
  BY <1>2, <1>3

\* A request is given a pair that is issued to it.
LEMMA IssueFollowed ==
  ASSUME IInv, IInv', Followed, NEW r \in Request, NEW new \in Token, NEW fam \in Token, NEW o, NEW how,
         Issue(r, new, fam, o, how), NEW pc, pc \in {"ok", "rotated"}, Goes(r, pc, req[r].pair, new),
         ~Given(req[r]), ~Replaces(req[r]), UNCHANGED stored, Lost \subseteq Lost',
         \A k \in revoked' \ revoked : pc = "rotated" /\ k = req[r].pair /\ k \in Issued
  PROVE  Followed'
<1>1. /\ new \in Token \ Issued /\ Issued' = Issued \cup {new}
      /\ \A k \in Issued : family'[k] = family[k]
  <2>1. family' = [family EXCEPT ![new] = fam] /\ new \in Token \ Issued /\ fam # None
    BY SessionsAssumption DEF Issue
  <2>2. family \in [Token -> Token \cup {None}]
    BY DEF IInv, ServerOK
  <2>3. QED
    BY <2>1, <2>2 DEF Issued
<1>2. /\ req'[r].pc = pc /\ req'[r].pair = req[r].pair /\ req'[r].new = new
      /\ req'[r].kind = req[r].kind
  BY DEF Goes, Became
<1>3. \A q \in Request \ {r} : /\ req'[q].pair = req[q].pair
                               /\ (Given(req'[q]) => Given(req[q]) /\ req'[q].new = req[q].new)
                               /\ (Replaces(req[q]) => Replaces(req'[q]))
  BY SameFollows DEF Goes, Others
<1>4. \A q \in Request : req'[q].pair = req[q].pair
  BY <1>2, <1>3
<1>5. \A k \in revoked' \ revoked : req[r].pair = k /\ k \in Issued /\ Replaces(req'[r]) /\ req'[r].pair = k
  BY <1>2 DEF Replaces
<1>6. \A q \in Request : Given(req'[q]) =>
         \/ Given(req[q]) /\ req'[q].new = req[q].new
         \/ req'[q].new \in Issued' \ Issued
            /\ \A p \in Request \ {q} : Given(req'[p]) => Given(req[p]) /\ req'[p].new = req[p].new
  BY <1>1, <1>2, <1>3
<1>7. \A q \in Request : Replaces(req[q]) /\ req[q].pair = stored => Replaces(req'[q]) /\ req'[q].pair = stored
  BY <1>3
<1>8. QED
  BY <1>1, <1>4, <1>5, <1>6, <1>7, FollowedBy

\* Rows are revoked with their families.
LEMMA RevokeFollowed ==
  ASSUME IInv, IInv', Followed, UNCHANGED <<family, stored>>, Lost \subseteq Lost',
         \A k \in revoked' \ revoked : k \in Issued /\ family[k] \in Lost',
         \A q \in Request : /\ req'[q].pair = req[q].pair
                            /\ (Given(req'[q]) => Given(req[q]) /\ req'[q].new = req[q].new)
                            /\ (Replaces(req[q]) => Replaces(req'[q]))
  PROVE  Followed'
<1>1. Issued' = Issued
  BY DEF Issued
<1>2. QED
  BY <1>1, FollowedBy

LEMMA ApiFollowed ==
  ASSUME IInv, IInv', Followed, NEW r \in Request, Api(r)
  PROVE  Followed'
<1> USE DEF server, hist
<1>0. req \in [Request -> ReqType] /\ req[r] \in ReqType /\ Proper(req[r])
  BY DEF IInv
<1>1. CASE HandleLogin(r)
  <2>1. PICK new \in Token : Issue(r, new, new, Home, "login") /\ req' = [req EXCEPT ![r].pc = "ok", ![r].new = new]
    BY <1>1 DEF HandleLogin
  <2>2. Goes(r, "ok", req[r].pair, new)
    BY <1>0, <2>1, GivenGoes
  <2>3. ~Given(req[r]) /\ ~Replaces(req[r]) /\ Lost' = Lost /\ UNCHANGED <<revoked, stored>>
    BY <1>1 DEF HandleLogin, Given, Replaces, Lost
  <2>4. QED
    BY <2>1, <2>2, <2>3, IssueFollowed
<1>2. CASE HandleRequest(r)
  <2>1. ~Given(req[r]) /\ ~Replaces(req[r]) /\ Lost' = Lost /\ UNCHANGED <<revoked, stored>>
    BY <1>2 DEF HandleRequest, Given, Replaces, Lost
  <2>2. CASE Good(req[r].pair) /\ req[r].kind = "switch"
    <3>1. PICK new \in Token, o \in Org \ {req[r].shown} :
            Issue(r, new, new, o, "switch") /\ req' = [req EXCEPT ![r].pc = "ok", ![r].new = new]
      BY <1>2, <2>2 DEF HandleRequest
    <3>2. Goes(r, "ok", req[r].pair, new)
      BY <1>0, <3>1, GivenGoes
    <3>3. QED
      BY <2>1, <3>1, <3>2, IssueFollowed
  <2>3. CASE ~(Good(req[r].pair) /\ req[r].kind = "switch")
    <3>1. UNCHANGED family /\ (To(r, "denied") \/ (To(r, "ok") /\ req[r].kind \notin {"login", "switch"}))
      BY <1>2, <2>3 DEF HandleRequest
    <3>2. CASE To(r, "denied")
      BY <1>0, <2>1, <3>1, <3>2, ToGoes, GoesFollowed
    <3>3. CASE To(r, "ok") /\ req[r].kind \notin {"login", "switch"}
      BY <1>0, <2>1, <3>1, <3>3, ToGoes, GoesFollowed
    <3>4. QED
      BY <3>1, <3>2, <3>3
  <2>4. QED
    BY <2>2, <2>3
<1>3. CASE HandleLogout(r)
  <2>1. Goes(r, "ok", req[r].pair, req[r].new)
    BY <1>0, <1>3, ToGoes DEF HandleLogout
  <2>2. /\ req[r].kind = "logout" /\ req[r].pc = "sent" /\ req[r].pair \in Issued
        /\ revoked' = revoked \cup {req[r].pair} /\ UNCHANGED <<family, stored>> /\ Lost \subseteq Lost'
    BY <1>0, <1>3 DEF HandleLogout, Proper, Lost
  <2>3. /\ req'[r].pair = req[r].pair /\ Replaces(req'[r]) /\ ~Given(req'[r])
    BY <2>1, <2>2 DEF Goes, Became, Replaces, Given
  <2>4. \A q \in Request : /\ req'[q].pair = req[q].pair
                           /\ (Given(req'[q]) => Given(req[q]) /\ req'[q].new = req[q].new)
                           /\ (Replaces(req[q]) => Replaces(req'[q]))
    BY <2>1, <2>3, SameFollows DEF Goes, Others
  <2>5. Issued' = Issued
    BY <2>2 DEF Issued
  <2>6. \A k \in revoked' \ revoked : req[r].pair = k /\ k \in Issued /\ Replaces(req'[r]) /\ req'[r].pair = k
    BY <2>2, <2>3
  <2>7. QED
    BY <2>2, <2>4, <2>5, <2>6, FollowedBy
<1>4. CASE FindToken(r)
  <2>1. PICK pc \in {"reused", "rotating"} : To(r, pc)
    BY <1>4 DEF FindToken
  <2>2. Goes(r, pc, req[r].pair, req[r].new)
    BY <1>0, <2>1, ToGoes
  <2>3. ~Replaces(req[r]) /\ Lost' = Lost /\ UNCHANGED <<family, revoked, stored>>
    BY <1>4 DEF FindToken, Replaces, Lost
  <2>4. QED
    BY <2>2, <2>3, GoesFollowed
<1>5. CASE ReadFamily(r)
  <2>1. Goes(r, "revoking", req[r].pair, req[r].new)
    BY <1>0, <1>5, ReadGoes DEF ReadFamily
  <2>2. ~Replaces(req[r]) /\ Lost' = Lost /\ UNCHANGED <<family, revoked, stored>>
    BY <1>5 DEF ReadFamily, Replaces, Lost
  <2>3. QED
    BY <2>1, <2>2, GoesFollowed
<1>6. CASE Rotate(r)
  <2>1. req[r].pc = "rotating" /\ req[r].pair \in Issued /\ family[req[r].pair] \in Token
    BY <1>0, <1>6 DEF Rotate, Proper, IInv, ServerOK, Issued
  <2>2. PICK f \in Token : f = family[req[r].pair]
    BY <2>1
  <2>3. PICK new \in Token : Issue(r, new, f, Home, "refresh") /\ req' = [req EXCEPT ![r].pc = "rotated", ![r].new = new]
    BY <1>6, <2>2 DEF Rotate
  <2>4. Goes(r, "rotated", req[r].pair, new)
    BY <1>0, <2>3, GivenGoes
  <2>5. /\ ~Given(req[r]) /\ ~Replaces(req[r]) /\ Lost \subseteq Lost' /\ UNCHANGED stored
        /\ revoked' = revoked \cup {req[r].pair}
    BY <1>6, <2>1 DEF Rotate, Given, Replaces, Lost
  <2>6. \A k \in revoked' \ revoked : k = req[r].pair /\ k \in Issued
    BY <2>1, <2>5
  <2>7. QED
    BY <2>3, <2>4, <2>5, <2>6, IssueFollowed
<1>7. CASE RevokeFamily(r)
  <2>1. Goes(r, "failed", req[r].pair, req[r].new)
    BY <1>0, <1>7, ToGoes DEF RevokeFamily
  <2>2. /\ req[r].pc = "revoking" /\ revoked' = revoked \cup req[r].found
        /\ UNCHANGED <<family, stored>> /\ Lost \subseteq Lost' /\ family[req[r].pair] \in Lost'
    BY <1>7 DEF RevokeFamily, Lost
  <2>3. req[r].found \subseteq Issued /\ \A k \in req[r].found : family[k] = family[req[r].pair]
    BY <1>0, <2>2 DEF IInv, ReadsHold, Revocable, ReqType
  <2>4. ~Replaces(req[r]) /\ ~Given(req'[r]) /\ req'[r].pair = req[r].pair
    BY <2>1, <2>2 DEF Goes, Became, Replaces, Given
  <2>5. \A q \in Request : /\ req'[q].pair = req[q].pair
                           /\ (Given(req'[q]) => Given(req[q]) /\ req'[q].new = req[q].new)
                           /\ (Replaces(req[q]) => Replaces(req'[q]))
    BY <2>1, <2>4, SameFollows DEF Goes, Others
  <2>6. \A k \in revoked' \ revoked : k \in Issued /\ family[k] \in Lost'
    BY <2>2, <2>3
  <2>7. QED
    BY <2>2, <2>5, <2>6, RevokeFollowed
<1>8. QED
  BY <1>1, <1>2, <1>3, <1>4, <1>5, <1>6, <1>7 DEF Api

\* No request takes part.
LEMMA AloneFollowed ==
  ASSUME IInv, IInv', Followed, UNCHANGED <<family, revoked, req>>, stored' \in {stored, None}, Lost' = Lost
  PROVE  Followed'
<1>1. \A q \in Request : /\ req'[q].pair = req[q].pair
                         /\ (Given(req'[q]) => Given(req[q]) /\ req'[q].new = req[q].new)
                         /\ (Replaces(req[q]) => Replaces(req'[q]))
  OBVIOUS
<1>2. QED
  BY <1>1, FollowedByBrowser

LEMMA AbroadFollowed ==
  ASSUME IInv, IInv', Followed, Reset
  PROVE  Followed'
<1> USE DEF server, hist
<1>1. CASE ResetReads \/ ReadOthers
  <2>1. UNCHANGED <<family, revoked, req, stored>> /\ Lost' = Lost
    BY <1>1 DEF ResetReads, ReadOthers, Lost
  <2>2. QED
    BY <2>1, AloneFollowed
<1>2. CASE ResetCommits
  <2>1. /\ revoked' = revoked \cup reset /\ UNCHANGED <<family, stored, req>> /\ Lost \subseteq Lost'
        /\ \A k \in reset : family[k] \in Lost'
    BY <1>2 DEF ResetCommits, Lost
  <2>2. reset \subseteq Issued
    BY DEF IInv, ServerOK
  <2>3. QED
    BY <2>1, <2>2, RevokeFollowed
<1>3. ASSUME NEW k \in Token, RevokeSession(k)
      PROVE  Followed'
  <2>1. /\ revoked' = revoked \cup {k} /\ k \in Issued /\ UNCHANGED <<family, stored, req>>
        /\ Lost \subseteq Lost' /\ (k \in revoked \/ family[k] \in Lost')
    BY <1>3 DEF RevokeSession, Lost
  <2>2. QED
    BY <2>1, RevokeFollowed
<1>4. QED
  BY <1>1, <1>2, <1>3 DEF Reset

LEMMA UserFollowed ==
  ASSUME IInv, IInv', Followed, NEW t \in Tab, User(t) \/ Redirect(t)
  PROVE  Followed'
<1> USE DEF server, hist
<1>1. ASSUME NEW path, Load(t, path)
      PROVE  Followed'
  <2>1. Mounts(t, stored, req) /\ UNCHANGED <<family, revoked, stored>> /\ Lost' = Lost /\ req \in [Request -> ReqType]
    BY <1>1, MountMounts DEF Load, Lost, IInv
  <2>2. Mounts(t, stored', req)
    BY <2>1
  <2>3. QED
    BY <2>1, <2>2, MountFollowed
<1>2. CASE LogoutAlone(t) \/ Redirect(t)
  <2>1. UNCHANGED <<family, revoked, req>> /\ stored' \in {stored, None} /\ Lost' = Lost
    BY <1>2 DEF LogoutAlone, SignOut, Redirect, Lost
  <2>2. QED
    BY <2>1, AloneFollowed
<1>3. ASSUME NEW r \in Request, Login(r, t)
      PROVE  Followed'
  BY <1>3, StartFollowed DEF Login, Lost
<1>4. ASSUME NEW r \in Request, Logout(r, t)
      PROVE  Followed'
  BY <1>4, StartFollowed DEF Logout, Lost
<1>5. ASSUME NEW r \in Request, NEW kind, Call(r, t, kind)
      PROVE  Followed'
  BY <1>5, StartFollowed DEF Call, Lost
<1>6. QED
  BY <1>1, <1>2, <1>3, <1>4, <1>5 DEF User

LEMMA SwitchedFollowed ==
  ASSUME IInv, IInv', Followed, NEW r \in Request, Switched(r)
  PROVE  Followed'
<1> DEFINE t == req[r].tab
           q == [req EXCEPT ![r] = Idle]
<1>1. t \in Tab /\ q \in [Request -> ReqType]
  BY IdleType DEF IInv, Proper, Switched
<1>2. Mount(t, Proxy(tab[t].at), stored', q)
  BY DEF Switched
<1>3. Mounts(t, stored', q)
  BY <1>1, <1>2, MountMounts
<1>4. req[r].pc = "ok" /\ req[r].kind = "switch" /\ stored' = req[r].new /\ UNCHANGED <<family, revoked>> /\ Lost' = Lost
  BY DEF Switched, server, hist, Lost
<1>5. QED
  BY <1>1, <1>3, <1>4, MountFollowed

LEMMA FollowedInit ==
  ASSUME Init
  PROVE  Followed
  BY IdleType DEF Init, Followed, GivenAreFresh, StoredIsReplaced, Given

LEMMA FollowedNext ==
  ASSUME IInv, IInv', Followed, [Next]_vars
  PROVE  Followed'
<1>1. CASE UNCHANGED vars \/ \E k \in Token : Expire(k)
  <2>1. UNCHANGED <<family, revoked, req, stored>> /\ Lost' = Lost
    BY <1>1 DEF vars, Expire, hist, Lost
  <2>2. QED
    BY <2>1, AloneFollowed
<1>2. QED
  BY <1>1, ApiFollowed, HeardFollowed, SwitchedFollowed, UnheardFollowed, UserFollowed, AbroadFollowed DEF Next

\* When nothing is in flight the browser holds the good token of its family
\* (api-client.ts, auth.tsx), but for the families that HoldsLiveToken names.
THEOREM RotationsAreFollowed == Spec => []HoldsLiveToken
<1>1. Init => IInv /\ Followed
  BY InitOK, FollowedInit
<1>2. IInv /\ Followed /\ [Next]_vars => IInv' /\ Followed'
  BY NextOK, FollowedNext
<1>3. Followed => HoldsLiveToken
  <2>1. SUFFICES ASSUME Followed, Quiet, stored # None, family[stored] \notin Lost
                 PROVE  stored \notin revoked
    BY DEF HoldsLiveToken, Lost
  <2>2. \A r \in Request : ~Replaces(req[r])
    BY <2>1 DEF Quiet, Active, Replaces
  <2>3. QED
    BY <2>1, <2>2 DEF Followed, StoredIsReplaced
<1>4. QED
  BY <1>1, <1>2, <1>3, PTL DEF Spec

---------------------------------------------------------------------------
(* A page's requests act for the organization that it shows *)

Heeded(v) == v.pc # "idle" /\ v.heard

Signs(v) == v.kind \in {"login", "profile"}

\* The pair of a refresh, or one that another tab has asked for.
Foreign(k, t) == by[k].how = "refresh" \/ by[k].tab # t

LabelledFor(v) ==
  Given(v) => by[v.new].tab = v.tab /\ (v.pc = "rotated" => by[v.new].how = "refresh")

\* While a page asks who is signed in it shows nobody and awaits nothing else.
BootsAlone ==
  \A r \in Request : Heeded(req[r]) /\ req[r].kind = "boot" /\ req[r].tab \notin crossed =>
    /\ tab[req[r].tab].user = None /\ tab[req[r].tab].loading
    /\ \A q \in Request \ {r} : Heeded(req[q]) => req[q].tab # req[r].tab

\* A tab signs in on its login page, once at a time.
SignsOnce ==
  \A r \in Request : Heeded(req[r]) /\ Signs(req[r]) =>
    /\ tab[req[r].tab].at = "login"
    /\ \A q \in Request \ {r} : Heeded(req[q]) /\ Signs(req[q]) => req[q].tab # req[r].tab

\* The user whom a page is about to show is that of the pair that is stored, unless
\* the pair is foreign to the page.
Shows(v) ==
  Heeded(v) /\ (v.kind = "profile" \/ (v.kind = "boot" /\ v.tab \notin crossed)) =>
    stored \in {v.pair, None} \/ Foreign(stored, v.tab)

\* ... and so is the user whom a page of the dashboard shows.
ShowsStored(t) ==
  t \notin crossed /\ tab[t].at = "dashboard" /\ tab[t].user # None /\ stored # None =>
    org[stored] = tab[t].user \/ Foreign(stored, t)

ActsFor(v) ==
  v.pc # "idle" /\ v.kind = "api" /\ v.pair # None =>
    org[v.pair] = v.shown \/ Foreign(v.pair, v.tab) \/ v.tab \in crossed

\* Without a pair there is no answer but 401.
Answered(v) == v.pc = "ok" /\ v.kind = "api" => v.pair # None

Acted ==
  /\ \A r \in Request : LabelledFor(req[r]) /\ Shows(req[r]) /\ ActsFor(req[r]) /\ Answered(req[r])
  /\ BootsAlone /\ SignsOnce
  /\ \A t \in Tab : ShowsStored(t)

\* The rows that there were, and the tabs that crossed, stay as they were.
RowsKept ==
  /\ Issued \subseteq Issued' /\ \A k \in Issued : by'[k] = by[k] /\ org'[k] = org[k]
  /\ crossed \subseteq crossed'

\* A request goes on for its page; api-client.ts may give it the pair of a refresh.
GoesOn(q) ==
  /\ req[q].pc # "idle" /\ req'[q].kind = req[q].kind /\ req'[q].tab = req[q].tab
  /\ req'[q].shown = req[q].shown /\ (req'[q].heard => req[q].heard)
  /\ \/ req'[q].pair = req[q].pair
     \/ req'[q].pair = stored' /\ by'[req'[q].pair].how = "refresh"

\* A page that stays as it was, or is left by its user.
Stays(t) ==
  /\ tab'[t].user \in {tab[t].user, None} /\ (tab[t].loading => tab'[t].loading)
  /\ tab'[t].at \in {tab[t].at, "login"}

\* A page that has been told who is signed in, and awaits no more of that.
IsTold(t) ==
  /\ \A q \in Request : Heeded(req'[q]) /\ req'[q].tab = t =>
       (req'[q].kind = "boot" => t \in crossed)
  /\ \/ tab'[t].at \in {tab[t].at, "login"}
     \/ \A q \in Request : Heeded(req'[q]) /\ Signs(req'[q]) => req'[q].tab # t
  /\ ShowsStored(t)'

LEMMA Known ==
  ASSUME IInv
  PROVE  /\ stored \in Issued \cup {None} /\ None \notin Issued
         /\ \A q \in Request : /\ req[q].pair \in Issued \cup {None}
                               /\ (req[q].pc # "idle" => req[q].tab \in Tab)
                               /\ (Given(req[q]) => req[q].new \in Issued)
<1>1. None \notin Issued /\ stored \in Issued \cup {None}
  BY SessionsAssumption DEF IInv, PageOK, Issued
<1>2. ASSUME NEW q \in Request
      PROVE  /\ req[q].pair \in Issued \cup {None}
             /\ (req[q].pc # "idle" => req[q].tab \in Tab)
             /\ (Given(req[q]) => req[q].new \in Issued)
  <2>1. req[q] \in ReqType /\ Proper(req[q])
    BY DEF IInv
  <2>2. QED
    BY <2>1 DEF ReqType, Proper, Given
<1>3. QED
  BY <1>1, <1>2

\* The steps in which requests go on or end.
LEMMA ActedBy ==
  ASSUME IInv, IInv', Acted, RowsKept,
         \A q \in Request : req'[q].pc = "idle" \/ GoesOn(q),
         \A q \in Request : LabelledFor(req[q])' /\ Answered(req'[q]),
         stored' \in {stored, None} \/ by'[stored'].how = "refresh",
         \A t \in Tab : Stays(t) \/ IsTold(t)
  PROVE  Acted'
<1>1. ASSUME NEW q \in Request
      PROVE  /\ Heeded(req'[q]) => Heeded(req[q])
             /\ Heeded(req'[q]) => req'[q].kind = req[q].kind /\ req'[q].tab = req[q].tab
             /\ Heeded(req'[q]) => req'[q].tab \in Tab
  BY Known DEF GoesOn, Heeded
<1>2. ASSUME NEW k, NEW t, k \in Issued
      PROVE  (Foreign(k, t) => Foreign(k, t)') /\ org'[k] = org[k]
  BY <1>2 DEF RowsKept, Foreign
<1>3. ASSUME NEW q \in Request
      PROVE  Shows(req[q])'
  <2>1. SUFFICES ASSUME Heeded(req'[q]),
                        req'[q].kind = "profile" \/ (req'[q].kind = "boot" /\ req'[q].tab \notin crossed'),
                        stored' \notin {req'[q].pair, None}, ~Foreign(stored, req[q].tab)'
                 PROVE  FALSE
    BY DEF Shows, Heeded
  <2>2. req'[q].pair = req[q].pair /\ req'[q].tab = req[q].tab /\ req'[q].kind = req[q].kind /\ Heeded(req[q])
    BY <1>1, <2>1 DEF GoesOn, Heeded
  <2>3. stored' = stored
    BY <2>1 DEF Foreign
  <2>5. stored \in {req[q].pair, None} \/ Foreign(stored, req[q].tab)
    BY <2>1, <2>2 DEF Acted, Shows, RowsKept
  <2>6. stored \in Issued
    BY <2>1, <2>3, Known
  <2>7. QED
    BY <2>1, <2>2, <2>3, <2>5, <2>6 DEF RowsKept, Foreign
<1>4. ASSUME NEW q \in Request
      PROVE  ActsFor(req[q])'
  <2>1. SUFFICES ASSUME req'[q].pc # "idle", req'[q].kind = "api", req'[q].pair # None,
                        ~Foreign(req[q].pair, req[q].tab)', req'[q].tab \notin crossed'
                 PROVE  org'[req'[q].pair] = req'[q].shown
    BY DEF ActsFor
  <2>2. /\ req[q].pc # "idle" /\ req'[q].kind = req[q].kind /\ req'[q].tab = req[q].tab
        /\ req'[q].shown = req[q].shown /\ req'[q].pair = req[q].pair
    BY <2>1 DEF GoesOn, Foreign
  <2>3. req[q].pair \in Issued
    BY <2>1, <2>2, Known
  <2>4. ActsFor(req[q])
    BY DEF Acted
  <2>5. QED
    BY <2>1, <2>2, <2>3, <2>4 DEF ActsFor, RowsKept, Foreign
<1>5. BootsAlone'
  <2>1. SUFFICES ASSUME NEW r \in Request, Heeded(req'[r]), req'[r].kind = "boot", req'[r].tab \notin crossed'
                 PROVE  /\ tab'[req'[r].tab].user = None /\ tab'[req'[r].tab].loading
                        /\ \A q \in Request \ {r} : Heeded(req'[q]) => req'[q].tab # req'[r].tab
    BY DEF BootsAlone, Heeded
  <2>2. PICK t \in Tab : t = req[r].tab /\ req'[r].tab = t /\ Heeded(req[r]) /\ req[r].kind = "boot" /\ t \notin crossed
    BY <1>1, <2>1 DEF RowsKept
  <2>3. /\ tab[t].user = None /\ tab[t].loading
        /\ \A q \in Request \ {r} : Heeded(req[q]) => req[q].tab # t
    BY <2>2 DEF Acted, BootsAlone
  <2>4. tab'[t].user = None /\ tab'[t].loading
    BY <2>1, <2>2, <2>3 DEF Stays, IsTold
  <2>5. QED
    BY <1>1, <2>2, <2>3, <2>4
<1>6. SignsOnce'
  <2>1. SUFFICES ASSUME NEW r \in Request, Heeded(req'[r]), Signs(req'[r])
                 PROVE  /\ tab'[req'[r].tab].at = "login"
                        /\ \A q \in Request \ {r} : Heeded(req'[q]) /\ Signs(req'[q]) => req'[q].tab # req'[r].tab
    BY DEF SignsOnce, Heeded, Signs
  <2>2. PICK t \in Tab : t = req[r].tab /\ req'[r].tab = t /\ Heeded(req[r]) /\ Signs(req[r])
    BY <1>1, <2>1 DEF Signs
  <2>3. /\ tab[t].at = "login"
        /\ \A q \in Request \ {r} : Heeded(req[q]) /\ Signs(req[q]) => req[q].tab # t
    BY <2>2 DEF Acted, SignsOnce
  <2>4. tab'[t].at = "login"
    BY <2>1, <2>2, <2>3 DEF Stays, IsTold
  <2>5. QED
    BY <1>1, <2>2, <2>3, <2>4 DEF Signs
<1>7. ASSUME NEW t \in Tab
      PROVE  ShowsStored(t)'
  <2>1. CASE IsTold(t)
    BY <2>1 DEF IsTold
  <2>2. CASE Stays(t)
    <3>1. SUFFICES ASSUME t \notin crossed', tab'[t].at = "dashboard", tab'[t].user # None, stored' # None,
                          by'[stored'].how # "refresh", by'[stored'].tab = t
                   PROVE  org'[stored'] = tab'[t].user
      BY DEF ShowsStored, Foreign
    <3>2. t \notin crossed /\ tab[t].at = "dashboard" /\ tab'[t].user = tab[t].user /\ stored' = stored
      BY <2>2, <3>1 DEF Stays, RowsKept
    <3>3. stored \in Issued
      BY <3>1, <3>2, Known
    <3>4. ShowsStored(t)
      BY DEF Acted
    <3>5. QED
      BY <3>1, <3>2, <3>3, <3>4 DEF ShowsStored, Foreign, RowsKept
  <2>3. QED
    BY <2>1, <2>2
<1>8. QED
  BY <1>3, <1>4, <1>5, <1>6, <1>7 DEF Acted, Answered

LEMMA SameStaysLabelled ==
  ASSUME IInv, Acted, RowsKept, NEW q \in Request, Same(q)
  PROVE  LabelledFor(req[q])' /\ Answered(req'[q]) /\ (req'[q].pc = "idle" \/ GoesOn(q))
<1>1. req'[q].pc = "idle" \/ GoesOn(q)
  BY DEF Same, Became, GoesOn
<1>2. ASSUME Given(req'[q])
      PROVE  /\ by'[req'[q].new].tab = req'[q].tab
             /\ req'[q].pc = "rotated" => by'[req'[q].new].how = "refresh"
  <2>1. Given(req[q]) /\ req'[q].new = req[q].new /\ req'[q].tab = req[q].tab /\ req'[q].pc = req[q].pc
    BY <1>2 DEF Same, Became, Given
  <2>2. req[q].new \in Issued
    BY <2>1, Known
  <2>3. LabelledFor(req[q])
    BY DEF Acted
  <2>4. QED
    BY <2>1, <2>2, <2>3 DEF LabelledFor, RowsKept
<1>3. LabelledFor(req[q])'
  BY <1>2 DEF LabelledFor, Given
<1>4. Answered(req'[q])
  BY DEF Acted, Same, Became, Answered
<1>5. QED
  BY <1>1, <1>3, <1>4

LEMMA SomeRowsKept ==
  ASSUME UNCHANGED <<family, org, by>>, crossed \subseteq crossed'
  PROVE  RowsKept
  BY DEF RowsKept, Issued

\* No request takes part, and nothing is stored.
LEMMA AloneActed ==
  ASSUME IInv, IInv', Acted, UNCHANGED <<family, org, by, req, crossed>>, stored' \in {stored, None},
         \A t \in Tab : Stays(t)
  PROVE  Acted'
<1>1. RowsKept
  BY SomeRowsKept
<1>2. \A q \in Request : Same(q)
  BY DEF Same, Became
<1>3. QED
  BY <1>1, <1>2, SameStaysLabelled, ActedBy

LEMMA TabsStay ==
  ASSUME UNCHANGED tab
  PROVE  \A t \in Tab : Stays(t)
  BY DEF Stays

\* A request ends.
LEMMA EndActed ==
  ASSUME IInv, IInv', Acted, UNCHANGED <<family, org, by, crossed>>, stored' \in {stored, None},
         NEW r \in Request, End(r), \A t \in Tab : Stays(t) \/ IsTold(t)
  PROVE  Acted'
<1>1. RowsKept
  BY SomeRowsKept
<1>2. Ends(r)
  BY EndEnds DEF IInv
<1>3. req'[r].pc = "idle" /\ LabelledFor(req[r])' /\ Answered(req'[r])
  BY <1>2 DEF Ends, Became, LabelledFor, Given, Answered
<1>4. \A q \in Request \ {r} : Same(q)
  BY <1>2 DEF Ends, Others
<1>5. \A q \in Request : LabelledFor(req[q])' /\ Answered(req'[q]) /\ (req'[q].pc = "idle" \/ GoesOn(q))
  BY <1>1, <1>3, <1>4, SameStaysLabelled
<1>6. QED
  BY <1>1, <1>5, ActedBy

\* A request goes on while the pages stay as they are.
LEMMA GoesActed ==
  ASSUME IInv, IInv', Acted, RowsKept, UNCHANGED tab,
         stored' = stored \/ by'[stored'].how = "refresh",
         NEW r \in Request, NEW pc, NEW pair, NEW new, Goes(r, pc, pair, new), req[r].pc # "idle",
         \/ pair = req[r].pair
         \/ pair = stored' /\ by'[pair].how = "refresh",
         LabelledFor(req[r])', pc = "ok" => req[r].kind # "api" \/ pair # None
  PROVE  Acted'
<1>1. GoesOn(r) /\ Answered(req'[r])
  BY DEF Goes, Became, GoesOn, Answered
<1>2. \A q \in Request \ {r} : Same(q)
  BY DEF Goes, Others
<1>3. \A q \in Request : LabelledFor(req[q])' /\ Answered(req'[q]) /\ (req'[q].pc = "idle" \/ GoesOn(q))
  BY <1>1, <1>2, SameStaysLabelled
<1>4. \A t \in Tab : Stays(t)
  BY TabsStay
<1>5. QED
  BY <1>3, <1>4, ActedBy

LEMMA GoesUnlabelled ==
  ASSUME NEW r \in Request, NEW pc, NEW pair, NEW new, Goes(r, pc, pair, new),
         pc # "rotated", pc = "ok" => req[r].kind \notin {"login", "switch"}
  PROVE  LabelledFor(req[r])'
  BY DEF Goes, Became, LabelledFor, Given

LEMMA ApiActed ==
  ASSUME IInv, IInv', Acted, NEW r \in Request, Api(r)
  PROVE  Acted'
<1> USE DEF server, hist
<1>0. /\ req \in [Request -> ReqType] /\ req[r] \in ReqType /\ Proper(req[r])
      /\ by \in [Token -> [how : {"login", "switch", "refresh"}, tab : Tab] \cup {None}]
      /\ org \in [Token -> Org] /\ family \in [Token -> Token \cup {None}]
  BY DEF IInv, HistOK, ServerOK
\* A pair is issued for the tab that asked.
<1>1. ASSUME NEW new \in Token, NEW fam \in Token, NEW o, NEW how, Issue(r, new, fam, o, how),
             NEW pc, req' = [req EXCEPT ![r].pc = pc, ![r].new = new], req[r].pc # "idle",
             pc = "rotated" => how = "refresh", UNCHANGED <<stored, tab, crossed>>,
             pc = "ok" => req[r].kind # "api"
      PROVE  Acted'
  <2>1. Goes(r, pc, req[r].pair, new)
    BY <1>0, <1>1, GivenGoes
  <2>2. /\ new \notin Issued /\ family' = [family EXCEPT ![new] = fam] /\ org' = [org EXCEPT ![new] = o]
        /\ by' = [by EXCEPT ![new] = [how |-> how, tab |-> req[r].tab]] /\ fam # None
    BY <1>1, SessionsAssumption DEF Issue
  <2>3. by'[new] = [how |-> how, tab |-> req[r].tab] /\ Issued \subseteq Issued'
    BY <1>0, <2>2 DEF Issued
  <2>4. RowsKept
    BY <1>0, <1>1, <2>2, <2>3 DEF RowsKept, Issued
  <2>5. LabelledFor(req[r])'
    BY <1>1, <2>1, <2>3 DEF Goes, Became, LabelledFor
  <2>6. QED
    BY <1>1, <2>1, <2>4, <2>5, GoesActed
\* Or no pair is.
<1>2. ASSUME UNCHANGED <<family, org, by, crossed, stored, tab>>, req[r].pc # "idle",
             NEW pc, Goes(r, pc, req[r].pair, req[r].new), pc # "rotated",
             pc = "ok" => req[r].kind \notin {"login", "switch"} /\ (req[r].kind # "api" \/ req[r].pair # None)
      PROVE  Acted'
  <2>1. RowsKept
    BY <1>2, SomeRowsKept
  <2>2. QED
    BY <1>2, <2>1, GoesUnlabelled, GoesActed
<1>3. CASE HandleLogin(r)
  <2>1. PICK new \in Token : Issue(r, new, new, Home, "login") /\ req' = [req EXCEPT ![r].pc = "ok", ![r].new = new]
    BY <1>3 DEF HandleLogin
  <2>2. req[r].pc # "idle" /\ req[r].kind # "api" /\ UNCHANGED <<stored, tab, crossed>>
    BY <1>3 DEF HandleLogin
  <2>3. PICK pc, how : pc = "ok" /\ how = "login"
    OBVIOUS
  <2>4. Issue(r, new, new, Home, how) /\ req' = [req EXCEPT ![r].pc = pc, ![r].new = new] /\ pc # "rotated"
    BY <2>1, <2>3
  <2>5. QED
    BY <1>1, <2>2, <2>4
<1>4. CASE HandleRequest(r)
  <2>1. CASE Good(req[r].pair) /\ req[r].kind = "switch"
    BY <1>1, <1>4, <2>1 DEF HandleRequest
  <2>2. CASE ~(Good(req[r].pair) /\ req[r].kind = "switch")
    <3>1. /\ \/ To(r, "denied")
             \/ To(r, "ok") /\ req[r].kind \notin {"login", "switch"} /\ req[r].pair # None
          /\ UNCHANGED <<family, org, by, crossed, stored, tab>> /\ req[r].pc # "idle"
      BY <1>4, <2>2, Known DEF HandleRequest, Good
    <3>2. QED
      BY <1>0, <1>2, <3>1, ToGoes
  <2>3. QED
    BY <2>1, <2>2
<1>5. CASE HandleLogout(r)
  BY <1>0, <1>2, <1>5, ToGoes DEF HandleLogout
<1>6. CASE FindToken(r)
  <2>1. PICK pc \in {"reused", "rotating"} : To(r, pc)
    BY <1>6 DEF FindToken
  <2>2. Goes(r, pc, req[r].pair, req[r].new)
    BY <1>0, <2>1, ToGoes
  <2>3. QED
    BY <1>2, <1>6, <2>1, <2>2 DEF FindToken
<1>7. CASE Rotate(r)
  <2>1. req[r].pair \in Issued /\ family[req[r].pair] \in Token
    BY <1>0, <1>7 DEF Rotate, Proper, IInv, ServerOK, Issued
  <2>2. PICK f \in Token : f = family[req[r].pair]
    BY <2>1
  <2>3. QED
    BY <1>1, <1>7, <2>2 DEF Rotate
<1>8. CASE ReadFamily(r)
  BY <1>0, <1>2, <1>8, ReadGoes DEF ReadFamily
<1>9. CASE RevokeFamily(r)
  BY <1>0, <1>2, <1>9, ToGoes DEF RevokeFamily
<1>10. QED
  BY <1>3, <1>4, <1>5, <1>6, <1>7, <1>8, <1>9 DEF Api

\* The page shows the user of its answer.
LEMMA ProfileActed ==
  ASSUME IInv, IInv', Acted, NEW r \in Request, ProfileShown(r)
  PROVE  Acted'
<1> USE DEF server, hist
<1>1. /\ req[r].pc = "ok" /\ req[r].kind \in {"boot", "profile"} /\ Heeded(req[r])
      /\ End(r) /\ UNCHANGED <<family, org, by, crossed, stored>>
  BY DEF ProfileShown, Heeded
<1>2. PICK t \in Tab : t = req[r].tab
  BY <1>1, Known
<1>3. PICK user : user = org[req[r].pair]
  OBVIOUS
<1>4. PICK at : at = IF req[r].kind = "profile" THEN Proxy("dashboard") ELSE tab[t].at
  OBVIOUS
<1>5. tab' = [tab EXCEPT ![t] = [at |-> at, user |-> user, loading |-> tab[t].loading /\ req[r].kind # "boot"]]
  BY <1>2, <1>3, <1>4 DEF ProfileShown
<1>6. tab'[t].at = at /\ tab'[t].user = user /\ \A s \in Tab \ {t} : tab'[s] = tab[s]
  BY <1>5 DEF IInv, PageOK
<1>7. Ends(r)
  BY <1>1, EndEnds DEF IInv
<1>8. ASSUME NEW q \in Request, Heeded(req'[q])
      PROVE  q # r /\ Heeded(req[q]) /\ req'[q].kind = req[q].kind /\ req'[q].tab = req[q].tab
  BY <1>7, <1>8 DEF Ends, Others, Same, Became, Heeded
<1>9. IsTold(t)
  <2>1. ASSUME NEW q \in Request, Heeded(req'[q]), req'[q].tab = t, req'[q].kind = "boot", t \notin crossed
        PROVE  FALSE
    <3>1. q # r /\ Heeded(req[q]) /\ req[q].kind = "boot" /\ req[q].tab = t
      BY <1>8, <2>1
    <3>2. QED
      BY <1>1, <1>2, <2>1, <3>1 DEF Acted, BootsAlone
  <2>4. ShowsStored(t)'
    <3>1. SUFFICES ASSUME t \notin crossed', stored' # None, ~Foreign(stored, t)'
                   PROVE  org'[stored'] = tab'[t].user
      BY DEF ShowsStored
    <3>2. t \notin crossed /\ stored # None /\ ~Foreign(stored, t)
      BY <1>1, <3>1 DEF Foreign
    <3>3. stored = req[r].pair
      BY <1>1, <1>2, <3>2 DEF Acted, Shows
    <3>4. QED
      BY <1>1, <1>3, <1>6, <3>3
  <2>5. (\A q \in Request : Heeded(req'[q]) /\ req'[q].tab = t => (req'[q].kind = "boot" => t \in crossed))
    BY <2>1
  <2>6. \/ tab'[t].at \in {tab[t].at, "login"}
        \/ \A q \in Request : Heeded(req'[q]) /\ Signs(req'[q]) => req'[q].tab # t
    <3>1. CASE req[r].kind = "profile"
      <4>1. ASSUME NEW q \in Request, Heeded(req'[q]), Signs(req'[q])
            PROVE  req'[q].tab # t
        <5>1. q # r /\ Heeded(req[q]) /\ Signs(req[q]) /\ req'[q].tab = req[q].tab
          BY <1>8, <4>1 DEF Signs
        <5>2. QED
          BY <1>1, <1>2, <3>1, <5>1 DEF Acted, SignsOnce, Signs
      <4>2. QED
        BY <4>1
    <3>2. CASE req[r].kind = "boot"
      BY <1>4, <1>6, <3>2
    <3>3. QED
      BY <1>1, <3>1, <3>2
  <2>7. QED
    BY <2>4, <2>5, <2>6 DEF IsTold
<1>10. \A s \in Tab : Stays(s) \/ IsTold(s)
  BY <1>6, <1>9 DEF Stays
<1>11. QED
  BY <1>1, <1>10, EndActed

\* What a tab has signed in with is foreign to the other tabs; it shows nobody yet.
LEMMA LoggedInActed ==
  ASSUME IInv, IInv', Acted, NEW r \in Request, LoggedIn(r)
  PROVE  Acted'
<1> USE DEF server, hist
<1>1. /\ req[r].pc = "ok" /\ req[r].kind = "login" /\ Heeded(req[r]) /\ Given(req[r])
      /\ stored' = req[r].new /\ UNCHANGED <<family, org, by, crossed, tab>>
  BY DEF LoggedIn, Heeded, Given
<1>2. PICK t \in Tab : t = req[r].tab
  BY <1>1, Known
<1>3. /\ Became(req'[r], "sent", "profile", req[r].tab, req[r].new, req[r].new, req[r].shown)
      /\ Others(r)
  BY LoggedInBecame DEF LoggedIn, IInv
<1>4. RowsKept
  BY <1>1, SomeRowsKept
<1>5. by[stored'].tab = t
  BY <1>1, <1>2 DEF Acted, LabelledFor
<1>6. ASSUME NEW q \in Request \ {r}
      PROVE  /\ LabelledFor(req[q])' /\ Answered(req'[q]) /\ (Heeded(req'[q]) => Heeded(req[q]))
             /\ req'[q].pc = req[q].pc /\ req'[q].kind = req[q].kind /\ req'[q].tab = req[q].tab
             /\ req'[q].pair = req[q].pair /\ req'[q].shown = req[q].shown
  <2>1. Same(q)
    BY <1>3 DEF Others
  <2>2. QED
    BY <1>4, <2>1, SameStaysLabelled DEF Same, Became, Heeded
<1>7. LabelledFor(req[r])' /\ ActsFor(req[r])' /\ Shows(req[r])' /\ Answered(req'[r])
  BY <1>1, <1>3 DEF Became, LabelledFor, Given, ActsFor, Shows, Answered
\* Nothing else of this page is heeded that shows a user.
<1>8. ASSUME NEW q \in Request \ {r}, Heeded(req[q]), req[q].tab = t
      PROVE  ~Signs(req[q]) /\ (req[q].kind = "boot" => t \in crossed)
  BY <1>1, <1>2, <1>8 DEF Acted, BootsAlone, SignsOnce, Signs
<1>9. ASSUME NEW q \in Request \ {r}
      PROVE  Shows(req[q])' /\ ActsFor(req[q])'
  <2>1. Shows(req[q])'
    <3>1. SUFFICES ASSUME Heeded(req'[q]),
                          req'[q].kind = "profile" \/ (req'[q].kind = "boot" /\ req'[q].tab \notin crossed')
                   PROVE  Foreign(stored, req[q].tab)'
      BY DEF Shows, Heeded
    <3>2. req[q].tab # t
      BY <1>1, <1>6, <1>8, <3>1 DEF Signs
    <3>3. QED
      BY <1>1, <1>5, <1>6, <3>2 DEF Foreign
  <2>2. ActsFor(req[q])
    BY DEF Acted
  <2>3. ActsFor(req[q])'
    BY <1>1, <1>6, <2>2 DEF ActsFor, Foreign
  <2>4. QED
    BY <2>1, <2>3
<1>10. ASSUME NEW q \in Request
       PROVE  /\ Heeded(req'[q]) => Heeded(req[q]) /\ req'[q].tab = req[q].tab
              /\ Heeded(req'[q]) /\ Signs(req'[q]) => Signs(req[q])
              /\ req'[q].kind = "boot" => req[q].kind = "boot"
  BY <1>1, <1>3, <1>6 DEF Became, Signs
<1>11. BootsAlone'
  <2>1. BootsAlone
    BY DEF Acted
  <2>2. QED
    BY <1>1, <1>10, <2>1 DEF BootsAlone, Heeded
<1>12. SignsOnce'
  <2>1. SignsOnce
    BY DEF Acted
  <2>2. QED
    BY <1>1, <1>10, <2>1 DEF SignsOnce, Heeded, Signs
<1>13. ASSUME NEW s \in Tab
       PROVE  ShowsStored(s)'
  <2>1. CASE s = t
    <3>1. tab[t].at = "login"
      BY <1>1, <1>2 DEF Acted, SignsOnce, Signs
    <3>2. QED
      BY <1>1, <2>1, <3>1 DEF ShowsStored
  <2>2. CASE s # t
    BY <1>1, <1>5, <2>2 DEF ShowsStored, Foreign
  <2>3. QED
    BY <2>1, <2>2
<1>14. QED
  BY <1>6, <1>7, <1>9, <1>11, <1>12, <1>13 DEF Acted, Answered

LEMMA HeardActed ==
  ASSUME IInv, IInv', Acted, NEW r \in Request, Heard(r), ~Switched(r)
  PROVE  Acted'
<1> USE DEF server, hist
<1>0. req \in [Request -> ReqType] /\ UNCHANGED <<family, org, by, crossed>> /\ RowsKept
  <2>1. UNCHANGED <<family, org, by, crossed>>
    BY DEF Heard, LoggedIn, ProfileShown, BootFails, LoggedOut, Refresh, Refreshed, RefreshFails, Settle
  <2>2. QED
    BY <2>1, SomeRowsKept DEF IInv
<1>1. CASE BootFails(r)
  <2>1. /\ req[r].kind = "boot" /\ End(r) /\ stored' = None
        /\ tab' = [tab EXCEPT ![req[r].tab].loading = FALSE]
    BY <1>1 DEF BootFails
  <2>2. Ends(r)
    BY <1>0, <2>1, EndEnds
  <2>3. ASSUME NEW s \in Tab
        PROVE  Stays(s) \/ IsTold(s)
    <3>1. CASE s # req[r].tab
      <4>1. tab'[s] = tab[s]
        BY <2>1, <3>1 DEF IInv, PageOK
      <4>2. QED
        BY <4>1 DEF Stays
    <3>2. CASE s = req[r].tab
      <4>1. tab'[s].at = tab[s].at
        BY <2>1, <3>2 DEF IInv, PageOK, TabType
      <4>2. ASSUME NEW q \in Request, Heeded(req'[q]), req'[q].tab = s, req'[q].kind = "boot", s \notin crossed
            PROVE  FALSE
        <5>1. q # r /\ Heeded(req[q]) /\ req[q].kind = "boot" /\ req[q].tab = s
          BY <2>2, <4>2 DEF Ends, Others, Same, Became, Heeded
        <5>2. Heeded(req[r])
          BY <1>1 DEF BootFails, Active, Heeded
        <5>3. QED
          BY <3>2, <4>2, <5>1, <5>2 DEF Acted, BootsAlone
      <4>3. ShowsStored(s)'
        BY <2>1 DEF ShowsStored
      <4>4. QED
        BY <4>1, <4>2, <4>3 DEF IsTold
    <3>3. QED
      BY <3>1, <3>2
  <2>4. QED
    BY <1>0, <2>1, <2>3, EndActed
<1>2. CASE LoggedOut(r)
  <2>1. End(r) /\ stored' = None /\ tab' = [tab EXCEPT ![req[r].tab].user = None]
    BY <1>2 DEF LoggedOut, SignOut
  <2>2. \A s \in Tab : Stays(s)
    BY <2>1 DEF IInv, PageOK, TabType, Stays
  <2>3. QED
    BY <1>0, <2>1, <2>2, EndActed
<1>3. CASE RefreshFails(r) \/ Settle(r)
  <2>1. End(r) /\ stored' \in {stored, None} /\ UNCHANGED tab
    BY <1>3 DEF RefreshFails, Settle
  <2>2. QED
    BY <1>0, <2>1, TabsStay, EndActed
<1>4. CASE Refresh(r)
  <2>1. /\ Goes(r, "refresh", req[r].pair, req[r].new) /\ stored' = stored /\ UNCHANGED tab
        /\ req[r].pc # "idle"
    BY <1>0, <1>4, ToGoes DEF Refresh
  <2>2. QED
    BY <1>0, <2>1, GoesUnlabelled, GoesActed
<1>5. CASE Refreshed(r)
  <2>1. Goes(r, "sent", req[r].new, req[r].new)
    BY <1>0, <1>5, RefreshedGoes DEF Refreshed
  <2>2. req[r].pc = "rotated" /\ stored' = req[r].new /\ UNCHANGED tab
    BY <1>5 DEF Refreshed
  <2>3. by'[req[r].new].how = "refresh"
    BY <1>0, <2>2 DEF Acted, LabelledFor, Given
  <2>4. QED
    BY <1>0, <2>1, <2>2, <2>3, GoesUnlabelled, GoesActed
<1>6. QED
  BY <1>1, <1>2, <1>3, <1>4, <1>5, LoggedInActed, ProfileActed DEF Heard

\* A page starts a request: with the pair that is stored, for the user it shows.
LEMMA StartActed ==
  ASSUME IInv, IInv', Acted, NEW r \in Request, NEW t \in Tab, NEW kind \in {"login", "logout", "api", "switch"},
         Start(r, t, kind), UNCHANGED <<family, org, by, stored, tab>>,
         \/ kind # "login" /\ tab[t].user # None /\ crossed' = crossed
         \/ /\ kind = "login" /\ tab[t].at = "login" /\ ~Signing(t)
            /\ crossed' = IF tab[t].loading THEN crossed \cup {t} ELSE crossed,
         kind = "api" => tab[t].at = "dashboard"
  PROVE  Acted'
<1>1. /\ req[r].pc = "idle" /\ Others(r)
      /\ Became(req'[r], "sent", kind, t, stored, None, tab[t].user)
  BY StartBecame DEF IInv
<1>2. RowsKept
  BY SomeRowsKept
<1>3. ASSUME NEW q \in Request \ {r}
      PROVE  /\ LabelledFor(req[q])' /\ Answered(req'[q]) /\ (Heeded(req'[q]) => Heeded(req[q]))
             /\ req'[q].pc = req[q].pc /\ req'[q].kind = req[q].kind /\ req'[q].tab = req[q].tab
             /\ req'[q].pair = req[q].pair /\ req'[q].shown = req[q].shown
  <2>1. Same(q)
    BY <1>1 DEF Others
  <2>2. QED
    BY <1>2, <2>1, SameStaysLabelled DEF Same, Became, Heeded
<1>4. LabelledFor(req[r])' /\ Shows(req[r])' /\ Answered(req'[r])
  BY <1>1 DEF Became, LabelledFor, Given, Shows, Answered
<1>5. ActsFor(req[r])'
  <2>1. SUFFICES ASSUME kind = "api", stored # None, t \notin crossed, ~Foreign(stored, t)
                 PROVE  org[stored] = tab[t].user
    BY <1>1 DEF Became, ActsFor, Foreign
  <2>2. ShowsStored(t)
    BY DEF Acted
  <2>3. QED
    BY <2>1, <2>2 DEF ShowsStored
<1>6. ASSUME NEW q \in Request \ {r}
      PROVE  Shows(req[q])' /\ ActsFor(req[q])'
  <2>1. Shows(req[q]) /\ ActsFor(req[q])
    BY DEF Acted
  <2>2. QED
    BY <1>2, <1>3, <2>1 DEF RowsKept, Shows, ActsFor, Foreign, Heeded
\* A page whose bootstrap is in flight shows nobody, and crosses when it signs in.
<1>7. ASSUME NEW q \in Request \ {r}, Heeded(req'[q]), req'[q].kind = "boot", req'[q].tab \notin crossed'
      PROVE  req[q].tab # t
  <2>1. Heeded(req[q]) /\ req[q].kind = "boot" /\ req[q].tab \notin crossed
    BY <1>2, <1>3, <1>7 DEF RowsKept
  <2>2. tab[req[q].tab].user = None /\ tab[req[q].tab].loading
    BY <2>1 DEF Acted, BootsAlone
  <2>3. QED
    BY <1>3, <1>7, <2>2
<1>8. BootsAlone'
  <2>1. SUFFICES ASSUME NEW q \in Request, Heeded(req'[q]), req'[q].kind = "boot", req'[q].tab \notin crossed'
                 PROVE  /\ tab'[req'[q].tab].user = None /\ tab'[req'[q].tab].loading
                        /\ \A p \in Request \ {q} : Heeded(req'[p]) => req'[p].tab # req'[q].tab
    BY DEF BootsAlone, Heeded
  <2>2. q # r /\ Heeded(req[q]) /\ req[q].kind = "boot" /\ req'[q].tab = req[q].tab /\ req[q].tab \notin crossed
    BY <1>1, <1>2, <1>3, <2>1 DEF Became, RowsKept
  <2>3. /\ tab[req[q].tab].user = None /\ tab[req[q].tab].loading
        /\ \A p \in Request \ {q} : Heeded(req[p]) => req[p].tab # req[q].tab
    BY <2>2 DEF Acted, BootsAlone
  <2>4. req[q].tab # t
    BY <1>7, <2>1, <2>2
  <2>5. QED
    BY <1>1, <1>3, <2>2, <2>3, <2>4 DEF Became
<1>9. SignsOnce'
  <2>1. SUFFICES ASSUME NEW q \in Request, Heeded(req'[q]), Signs(req'[q])
                 PROVE  /\ tab'[req'[q].tab].at = "login"
                        /\ \A p \in Request \ {q} : Heeded(req'[p]) /\ Signs(req'[p]) => req'[p].tab # req'[q].tab
    BY DEF SignsOnce, Heeded, Signs
  <2>2. ASSUME NEW p \in Request \ {r}, Heeded(req'[p]), Signs(req'[p])
        PROVE  /\ Heeded(req[p]) /\ Signs(req[p]) /\ req'[p].tab = req[p].tab
               /\ kind = "login" => req[p].tab # t
    <3>1. Heeded(req[p]) /\ Signs(req[p]) /\ req'[p].tab = req[p].tab
      BY <1>3, <2>2 DEF Signs
    <3>2. QED
      BY <3>1 DEF Signing, Active, Heeded, Signs
  <2>3. CASE q = r
    <3>1. kind = "login" /\ tab[t].at = "login" /\ req'[r].tab = t
      BY <1>1, <2>1, <2>3 DEF Became, Signs
    <3>2. QED
      BY <2>2, <2>3, <3>1
  <2>4. CASE q # r
    <3>1. /\ Heeded(req[q]) /\ Signs(req[q]) /\ req'[q].tab = req[q].tab
          /\ kind = "login" => req[q].tab # t
      BY <2>1, <2>2, <2>4
    <3>2. /\ tab[req[q].tab].at = "login"
          /\ \A p \in Request \ {q} : Heeded(req[p]) /\ Signs(req[p]) => req[p].tab # req[q].tab
      BY <3>1 DEF Acted, SignsOnce
    <3>3. Signs(req'[r]) => kind = "login" /\ req'[r].tab = t
      BY <1>1 DEF Became, Signs
    <3>4. QED
      BY <2>2, <3>1, <3>2, <3>3
  <2>5. QED
    BY <2>3, <2>4
<1>10. ASSUME NEW s \in Tab
       PROVE  ShowsStored(s)'
  <2>1. ShowsStored(s)
    BY DEF Acted
  <2>2. QED
    BY <1>2, <2>1 DEF RowsKept, ShowsStored, Foreign
<1>11. QED
  BY <1>3, <1>4, <1>5, <1>6, <1>8, <1>9, <1>10 DEF Acted, Answered

\* A page is loaded: it shows nobody and awaits the answer of its bootstrap alone.
LEMMA MountActed ==
  ASSUME IInv, IInv', Acted, NEW t \in Tab, NEW path, NEW pair, pair = stored',
         NEW q \in [Request -> ReqType], \A p \in Request : q[p] = req[p] \/ q[p] = Idle,
         Mount(t, path, pair, q), UNCHANGED <<family, org, by, crossed>>,
         stored' = stored \/ (stored' # None /\ by[stored'].tab = t)
  PROVE  Acted'
<1>1. Mounts(t, pair, q)
  BY MountMounts
<1>2. /\ tab'[t].user = None /\ (pair # None => tab'[t].loading) /\ \A s \in Tab \ {t} : tab'[s] = tab[s]
  <2>1. PICK waits : waits = (pair # None)
    OBVIOUS
  <2>2. tab' = [tab EXCEPT ![t] = [at |-> path, user |-> None, loading |-> waits]]
    BY <2>1 DEF Mount
  <2>3. /\ tab'[t].user = None /\ tab'[t].loading = waits
        /\ \A s \in Tab \ {t} : tab'[s] = tab[s]
    BY <2>2 DEF IInv, PageOK
  <2>4. pair # None => tab'[t].loading
    BY <2>1, <2>3, Zenon
  <2>5. QED
    BY <2>3, <2>4
<1>3. RowsKept
  BY SomeRowsKept
\* A request of another page goes on, one of this page is not heeded, but for the bootstrap.
<1>4. ASSUME NEW p \in Request
      PROVE  \/ /\ Became(req'[p], "sent", "boot", t, pair, None, None)
                /\ pair # None /\ \A s \in Request \ {p} : Deafens(t, q, s)
             \/ Deafens(t, q, p)
  BY <1>1 DEF Mounts, Asks
<1>5. ASSUME NEW p \in Request, Deafens(t, q, p)
      PROVE  \/ req'[p].pc = "idle"
             \/ Same(p) /\ req[p].pc # "idle" /\ (req[p].tab = t => ~Heeded(req'[p]))
  <2>1. CASE q[p] = Idle
    BY <1>5, <2>1 DEF Deafens, Became, Idle
  <2>2. CASE q[p] = req[p]
    BY <1>5, <2>2 DEF Deafens, Same, Became, Heeded
  <2>3. QED
    BY <2>1, <2>2
<1>6. ASSUME NEW p \in Request
      PROVE  \/ req'[p].pc = "idle"
             \/ Same(p) /\ req[p].pc # "idle" /\ (req[p].tab = t => ~Heeded(req'[p]))
             \/ Became(req'[p], "sent", "boot", t, pair, None, None) /\ pair # None
  BY <1>4, <1>5
<1>7. ASSUME NEW p \in Request
      PROVE  LabelledFor(req[p])' /\ Shows(req[p])' /\ ActsFor(req[p])' /\ Answered(req'[p])
  <2>1. CASE req'[p].pc = "idle"
    BY <2>1 DEF LabelledFor, Given, Shows, Heeded, ActsFor, Answered
  <2>2. CASE Became(req'[p], "sent", "boot", t, pair, None, None)
    BY <2>2 DEF Became, LabelledFor, Given, Shows, Heeded, ActsFor, Answered
  <2>3. CASE Same(p) /\ req[p].pc # "idle" /\ (req[p].tab = t => ~Heeded(req'[p]))
    <3>1. LabelledFor(req[p])' /\ Answered(req'[p])
      BY <1>3, <2>3, SameStaysLabelled
    <3>2. Shows(req[p]) /\ ActsFor(req[p])
      BY DEF Acted
    <3>3. ActsFor(req[p])'
      BY <2>3, <3>2 DEF Same, Became, ActsFor, Foreign
    <3>4. Shows(req[p])'
      <4>1. SUFFICES ASSUME Heeded(req'[p])
                     PROVE  Shows(req[p])'
        BY DEF Shows, Heeded
      <4>2. Heeded(req[p]) /\ req[p].tab # t /\ req'[p].tab = req[p].tab
        BY <2>3, <4>1 DEF Same, Became, Heeded
      <4>3. CASE stored' = stored
        BY <2>3, <3>2, <4>2, <4>3 DEF Same, Became, Shows, Foreign
      <4>4. CASE by[stored'].tab = t
        BY <4>2, <4>4 DEF Shows, Foreign
      <4>5. QED
        BY <4>3, <4>4
    <3>5. QED
      BY <3>1, <3>3, <3>4
  <2>4. QED
    BY <1>6, <2>1, <2>2, <2>3
\* What is heeded was heeded before, of another page, or is the bootstrap.
<1>8. ASSUME NEW p \in Request, Heeded(req'[p])
      PROVE  \/ /\ Heeded(req[p]) /\ req[p].tab # t /\ req[p].tab \in Tab
                /\ req'[p].tab = req[p].tab /\ req'[p].kind = req[p].kind
             \/ /\ req'[p].kind = "boot" /\ req'[p].tab = t /\ pair # None
                /\ \A s \in Request \ {p} : Heeded(req'[s]) => req'[s].tab # t
  <2>1. CASE Deafens(t, q, p)
    BY <1>5, <1>8, <2>1, Known DEF Same, Became, Heeded
  <2>2. CASE Became(req'[p], "sent", "boot", t, pair, None, None) /\ pair # None /\ \A s \in Request \ {p} : Deafens(t, q, s)
    <3>1. ASSUME NEW s \in Request \ {p}, Heeded(req'[s])
          PROVE  req'[s].tab # t
      BY <1>5, <2>2, <3>1 DEF Same, Became, Heeded
    <3>2. QED
      BY <2>2, <3>1 DEF Became
  <2>3. QED
    BY <1>4, <2>1, <2>2
<1>9. BootsAlone'
  <2>1. SUFFICES ASSUME NEW p \in Request, Heeded(req'[p]), req'[p].kind = "boot", req'[p].tab \notin crossed'
                 PROVE  /\ tab'[req'[p].tab].user = None /\ tab'[req'[p].tab].loading
                        /\ \A s \in Request \ {p} : Heeded(req'[s]) => req'[s].tab # req'[p].tab
    BY DEF BootsAlone, Heeded
  <2>2. CASE /\ Heeded(req[p]) /\ req[p].tab # t /\ req[p].tab \in Tab
             /\ req'[p].tab = req[p].tab /\ req'[p].kind = req[p].kind
    <3>1. /\ tab[req[p].tab].user = None /\ tab[req[p].tab].loading
          /\ \A s \in Request \ {p} : Heeded(req[s]) => req[s].tab # req[p].tab
      BY <2>1, <2>2 DEF Acted, BootsAlone
    <3>2. QED
      BY <1>2, <1>8, <2>2, <3>1
  <2>3. CASE /\ req'[p].kind = "boot" /\ req'[p].tab = t /\ pair # None
             /\ \A s \in Request \ {p} : Heeded(req'[s]) => req'[s].tab # t
    BY <1>2, <2>3
  <2>4. QED
    BY <1>8, <2>1, <2>2, <2>3
<1>10. SignsOnce'
  <2>1. ASSUME NEW p \in Request, Heeded(req'[p]), Signs(req'[p])
        PROVE  /\ Heeded(req[p]) /\ Signs(req[p]) /\ req[p].tab # t /\ req[p].tab \in Tab
               /\ req'[p].tab = req[p].tab
    BY <1>8, <2>1 DEF Signs
  <2>2. SignsOnce
    BY DEF Acted
  <2>3. QED
    BY <1>2, <2>1, <2>2 DEF SignsOnce, Heeded, Signs
<1>11. ASSUME NEW s \in Tab
       PROVE  ShowsStored(s)'
  <2>1. CASE s = t
    BY <1>2, <2>1 DEF ShowsStored
  <2>2. CASE s # t /\ stored' = stored
    <3>1. ShowsStored(s)
      BY DEF Acted
    <3>2. QED
      BY <1>2, <2>2, <3>1 DEF ShowsStored, Foreign
  <2>3. CASE s # t /\ by[stored'].tab = t
    BY <2>3 DEF ShowsStored, Foreign
  <2>4. QED
    BY <2>1, <2>2, <2>3
<1>12. QED
  BY <1>7, <1>9, <1>10, <1>11 DEF Acted, Answered

LEMMA SwitchedActed ==
  ASSUME IInv, IInv', Acted, NEW r \in Request, Switched(r)
  PROVE  Acted'
<1> DEFINE t == req[r].tab
           q == [req EXCEPT ![r] = Idle]
<1>1. t \in Tab /\ q \in [Request -> ReqType] /\ \A p \in Request : q[p] = req[p] \/ q[p] = Idle
  BY IdleType DEF IInv, Proper, Switched
<1>2. Given(req[r]) /\ stored' = req[r].new /\ UNCHANGED <<family, org, by, crossed>>
  BY DEF Switched, Given, server, hist
<1>3. Mount(t, Proxy(tab[t].at), stored', q)
  BY DEF Switched
<1>4. stored' # None /\ by[stored'].tab = t
  BY <1>2, Known DEF Acted, LabelledFor
<1>5. QED
  BY <1>1, <1>2, <1>3, <1>4, MountActed

LEMMA UserActed ==
  ASSUME IInv, IInv', Acted, NEW t \in Tab, User(t) \/ Redirect(t)
  PROVE  Acted'
<1> USE DEF server, hist
<1>1. ASSUME NEW path, Load(t, path)
      PROVE  Acted'
  <2>1. /\ Mount(t, Proxy(path), stored, req) /\ UNCHANGED <<family, org, by, crossed, stored>>
        /\ req \in [Request -> ReqType]
    BY <1>1 DEF Load, IInv
  <2>2. QED
    BY <2>1, MountActed
<1>2. CASE LogoutAlone(t) \/ Redirect(t)
  <2>1. UNCHANGED <<family, org, by, req, crossed>> /\ stored' \in {stored, None}
    BY <1>2 DEF LogoutAlone, SignOut, Redirect
  <2>2. \A s \in Tab : Stays(s)
    BY <1>2 DEF LogoutAlone, SignOut, Redirect, IInv, PageOK, TabType, Stays
  <2>3. QED
    BY <2>1, <2>2, AloneActed
<1>3. ASSUME NEW r \in Request, Login(r, t)
      PROVE  Acted'
  BY <1>3, StartActed DEF Login
<1>4. ASSUME NEW r \in Request, Logout(r, t)
      PROVE  Acted'
  BY <1>4, StartActed DEF Logout, Rendered
<1>5. ASSUME NEW r \in Request, NEW kind \in {"api", "switch"}, Call(r, t, kind)
      PROVE  Acted'
  BY <1>5, StartActed DEF Call, Rendered
<1>6. QED
  BY <1>1, <1>2, <1>3, <1>4, <1>5 DEF User

LEMMA UnheardActed ==
  ASSUME IInv, IInv', Acted, NEW r \in Request, Unheard(r)
  PROVE  Acted'
<1>1. End(r) /\ UNCHANGED <<family, org, by, crossed, stored, tab>>
  BY DEF Unheard, server
<1>2. QED
  BY <1>1, TabsStay, EndActed

LEMMA ActedInit ==
  ASSUME Init
  PROVE  Acted
<1>1. \A r \in Request : req[r].pc = "idle"
  BY IdleType DEF Init
<1>2. \A r \in Request : LabelledFor(req[r]) /\ Shows(req[r]) /\ ActsFor(req[r]) /\ Answered(req[r])
  BY <1>1 DEF LabelledFor, Given, Shows, Heeded, ActsFor, Answered
<1>3. BootsAlone /\ SignsOnce
  BY <1>1 DEF BootsAlone, SignsOnce, Heeded
<1>4. \A t \in Tab : ShowsStored(t)
  BY DEF Init, ShowsStored
<1>5. QED
  BY <1>2, <1>3, <1>4 DEF Acted

LEMMA ActedNext ==
  ASSUME IInv, IInv', Acted, [Next]_vars
  PROVE  Acted'
<1> USE DEF server, hist
<1>1. CASE UNCHANGED vars \/ Reset \/ \E k \in Token : Expire(k)
  <2>1. UNCHANGED <<family, org, by, req, crossed, stored, tab>>
    BY <1>1 DEF vars, Reset, ResetReads, ReadOthers, ResetCommits, RevokeSession, Expire
  <2>2. QED
    BY <2>1, TabsStay, AloneActed
<1>2. QED
  BY <1>1, ApiActed, HeardActed, SwitchedActed, UnheardActed, UserActed DEF Next

\* A request acts for the organization that its page shows (api-client.ts, auth.tsx),
\* but for the pairs that ActsForShownOrg names.
THEOREM PagesActAsShown == Spec => []ActsForShownOrg
<1>1. Init => IInv /\ Acted
  BY InitOK, ActedInit
<1>2. IInv /\ Acted /\ [Next]_vars => IInv' /\ Acted'
  BY NextOK, ActedNext
<1>3. IInv /\ Acted => ActsForShownOrg
  <2>1. SUFFICES ASSUME IInv, Acted, NEW r \in Request, req[r].pc = "ok", req[r].kind = "api"
                 PROVE  \/ org[req[r].pair] = req[r].shown
                        \/ by[req[r].pair].how = "refresh" \/ by[req[r].pair].tab # req[r].tab
                        \/ req[r].tab \in crossed
    BY DEF ActsForShownOrg
  <2>2. ActsFor(req[r]) /\ Answered(req[r])
    BY <2>1 DEF Acted
  <2>3. QED
    BY <2>1, <2>2 DEF ActsFor, Answered, Foreign
<1>4. QED
  BY <1>1, <1>2, <1>3, PTL DEF Spec
=============================================================================
