------------------------------ MODULE Sessions ------------------------------
(* The sign-in of one user of the back office in one browser: the pairs of
   access and refresh tokens that auth_service.py issues and rotates, the pair
   that the tabs share in localStorage, the cookie that proxy.ts goes by, and
   the requests of lib/api-client.ts and lib/auth.tsx that read and replace
   them.  A request captures its tokens when it starts; between two of its
   steps any other tab, and a password reset elsewhere, may change them.     *)
EXTENDS Naturals

CONSTANTS
    Token,       \* bound: the token pairs that can be issued
    Tab,         \* tabs of the browser
    Request,     \* bound: requests in flight at a time
    MaxMoves,    \* bound: pages loaded, requests, logins and logouts the user starts; what
                 \* another device asks for counts twice
    Org, Home,   \* the organizations of the user, and users.organization_id
    None

ASSUME SessionsAssumption ==
    /\ Home \in Org /\ MaxMoves \in Nat
    /\ None \notin Token \cup Tab \cup Org

VARIABLES
    family,   \* refresh_tokens.family_id of every pair, None until it is issued
    org,      \* the org claim of its access token
    revoked,  \* pairs whose refresh token has revoked_at
    stale,    \* pairs whose access token is older than 15 minutes
    stored,   \* the pair in localStorage, or None
    cookie,   \* sms_session
    tab,      \* where a tab is and whom it shows: path, user's organization, loading
    req,      \* the requests
    moves,    \* what the user has started so far
    reset,    \* the rows that reset_password or revoke_other_sessions has read
    by,       \* history: how a pair was issued, and at the request of which tab
    raced,    \* history: families in which a rotation and a revocation overlapped
    killed,   \* history: families revoked as a whole, or by their good token
    unheard,  \* history: families rotated or revoked for a page that was gone by then
    crossed   \* history: tabs that signed in while their bootstrap was in flight

server == <<family, org, revoked, stale>>
hist   == <<by, raced, killed, unheard, crossed>>
vars   == <<family, org, revoked, stale, stored, cookie, tab, req, moves, reset, by, raced, killed, unheard, crossed>>

Issued  == {k \in Token : family[k] # None}
Live(f) == {k \in Issued : family[k] = f /\ k \notin revoked}

Idle == [pc |-> "idle", kind |-> None, tab |-> None, pair |-> None,
         new |-> None, found |-> {}, shown |-> None, retried |-> FALSE, heard |-> TRUE]

Active(r)    == req[r].pc # "idle"
To(r, pc)    == req' = [req EXCEPT ![r].pc = pc]
End(r)       == req' = [req EXCEPT ![r] = Idle]
Moving       == moves < MaxMoves /\ moves' = moves + 1
Abroad       == moves + 2 <= MaxMoves /\ moves' = moves + 2
Signing(t)   == \E r \in Request : Active(r) /\ req[r].heard /\ req[r].tab = t /\ req[r].kind \in {"login", "profile"}
Switching(t) == \E r \in Request : Active(r) /\ req[r].heard /\ req[r].tab = t /\ req[r].kind = "switch"

Init ==
    /\ family = [k \in Token |-> None] /\ org = [k \in Token |-> Home]
    /\ revoked = {} /\ stale = {}
    /\ stored = None /\ cookie = FALSE
    /\ tab = [t \in Tab |-> [at |-> "login", user |-> None, loading |-> FALSE]]
    /\ req = [r \in Request |-> Idle]
    /\ moves = 0 /\ reset = {}
    /\ by = [k \in Token |-> None] /\ raced = {} /\ killed = {} /\ unheard = {} /\ crossed = {}

---------------------------------------------------------------------------
(* auth_service.py *)

\* _issue_tokens: a fresh pair, of a family that exists or of its own.
Issue(r, new, fam, o, how) ==
    /\ new \in Token \ Issued
    /\ family' = [family EXCEPT ![new] = fam]
    /\ org' = [org EXCEPT ![new] = o]
    /\ by' = [by EXCEPT ![new] = [how |-> how, tab |-> req[r].tab]]

Rotating(f, r) == \E q \in Request \ {r} : req[q].pc = "rotating" /\ family[req[q].pair] = f
Revoking(f, r) == \E q \in Request \ {r} : req[q].pc = "revoking" /\ family[req[q].pair] = f
Resetting(f)   == \E k \in reset : family[k] = f

\* An access token is good until it expires; nothing revokes it.
Good(k) == k \in Issued \ stale

\* login: a family of its own, for the home organization.
HandleLogin(r) ==
    /\ req[r].pc = "sent" /\ req[r].kind = "login"
    /\ \E new \in Token :
          /\ Issue(r, new, new, Home, "login")
          /\ req' = [req EXCEPT ![r].pc = "ok", ![r].new = new]
    /\ UNCHANGED <<revoked, stale, stored, cookie, tab, moves, reset, raced, killed, unheard, crossed>>

\* Any endpoint behind get_current_user; switch_org also issues a pair.
HandleRequest(r) ==
    /\ req[r].pc = "sent" /\ req[r].kind \in {"api", "switch", "boot", "profile"}
    /\ IF ~Good(req[r].pair)
       THEN To(r, "denied") /\ UNCHANGED <<family, org, by>>
       ELSE IF req[r].kind = "switch"
       THEN \E new \in Token, o \in Org \ {req[r].shown} :
               /\ Issue(r, new, new, o, "switch")
               /\ req' = [req EXCEPT ![r].pc = "ok", ![r].new = new]
       ELSE To(r, "ok") /\ UNCHANGED <<family, org, by>>
    /\ UNCHANGED <<revoked, stale, stored, cookie, tab, moves, reset, raced, killed, unheard, crossed>>

\* logout revokes the refresh token it is given.
HandleLogout(r) ==
    /\ req[r].pc = "sent" /\ req[r].kind = "logout"
    /\ revoked' = revoked \cup {req[r].pair}
    /\ raced' = IF Rotating(family[req[r].pair], r) THEN raced \cup {family[req[r].pair]} ELSE raced
    /\ To(r, "ok")
    /\ UNCHANGED <<family, org, stale, stored, cookie, tab, moves, reset, by, killed, unheard, crossed>>

\* refresh: the row is read without a lock ...
FindToken(r) ==
    /\ req[r].pc = "refresh"
    /\ To(r, IF req[r].pair \in revoked THEN "reused" ELSE "rotating")
    /\ UNCHANGED <<stored, cookie, tab, moves, reset>> /\ UNCHANGED server /\ UNCHANGED hist

\* Variant: the rotated token stays good.
RotateKeepingOld(r) ==
    /\ req[r].pc = "rotating"
    /\ \E new \in Token :
          /\ Issue(r, new, family[req[r].pair], Home, "refresh")
          /\ req' = [req EXCEPT ![r].pc = "rotated", ![r].new = new]
    /\ UNCHANGED <<revoked, stale, stored, cookie, tab, moves, reset, raced, killed, unheard, crossed>>

\* ... and revoked with its successor issued, whatever has happened to it since.
\* The successor is for the user's home organization.
Rotate(r) ==
    /\ req[r].pc = "rotating"
    /\ LET f == family[req[r].pair]
       IN  /\ \E new \in Token :
                 /\ Issue(r, new, f, Home, "refresh")
                 /\ req' = [req EXCEPT ![r].pc = "rotated", ![r].new = new]
           /\ revoked' = revoked \cup {req[r].pair}
           /\ raced' = IF Rotating(f, r) \/ Revoking(f, r) \/ Resetting(f) THEN raced \cup {f} ELSE raced
    /\ UNCHANGED <<stale, stored, cookie, tab, moves, reset, killed, unheard, crossed>>

\* _revoke_family: the rows to revoke are read, then written.
ReadFamily(r) ==
    /\ req[r].pc = "reused"
    /\ req' = [req EXCEPT ![r].pc = "revoking", ![r].found = Live(family[req[r].pair])]
    /\ UNCHANGED <<stored, cookie, tab, moves, reset>> /\ UNCHANGED server /\ UNCHANGED hist

\* Variant: only the token that was presented is revoked.
RevokePresented(r) ==
    /\ req[r].pc = "revoking"
    /\ killed' = killed \cup {family[req[r].pair]}
    /\ To(r, "failed")
    /\ UNCHANGED <<stored, cookie, tab, moves, reset, by, raced, unheard, crossed>> /\ UNCHANGED server

RevokeFamily(r) ==
    /\ req[r].pc = "revoking"
    /\ LET f == family[req[r].pair]
       IN  /\ revoked' = revoked \cup req[r].found
           /\ raced' = IF Rotating(f, r) THEN raced \cup {f} ELSE raced
           /\ killed' = killed \cup {f}
    /\ To(r, "failed")
    /\ UNCHANGED <<family, org, stale, stored, cookie, tab, moves, reset, by, unheard, crossed>>

\* reset_password, from the link of a mail opened anywhere: every refresh token
\* of the user is read, then revoked.
ResetReads ==
    /\ Abroad
    /\ reset = {} /\ Issued # {}
    /\ reset' = Issued
    /\ UNCHANGED <<stored, cookie, tab, req>> /\ UNCHANGED server /\ UNCHANGED hist

\* revoke_other_sessions, asked for by another device: the rows that are good, but
\* for the one that its caller says is its own.
ReadOthers ==
    /\ Abroad
    /\ reset = {}
    /\ \E own \in Issued : reset' = Issued \ (revoked \cup {own})
    /\ UNCHANGED <<stored, cookie, tab, req>> /\ UNCHANGED server /\ UNCHANGED hist

ResetCommits ==
    /\ reset # {}
    /\ revoked' = revoked \cup reset
    /\ killed' = killed \cup {family[k] : k \in reset}
    /\ raced' = raced \cup {f \in Token : Resetting(f) /\ \E r \in Request : req[r].pc = "rotating" /\ family[req[r].pair] = f}
    /\ reset' = {}
    /\ UNCHANGED <<family, org, stale, stored, cookie, tab, req, moves, by, unheard, crossed>>

\* revoke_session, asked for by another device: one row, from a list that may be
\* old; a row that has been rotated is revoked once more, and its family lives on.
RevokeSession(k) ==
    /\ Abroad
    /\ k \in Issued
    /\ revoked' = revoked \cup {k}
    /\ raced' = IF \E r \in Request : req[r].pc = "rotating" /\ family[req[r].pair] = family[k]
                THEN raced \cup {family[k]} ELSE raced
    /\ killed' = IF k \in revoked THEN killed ELSE killed \cup {family[k]}
    /\ UNCHANGED <<family, org, stale, stored, cookie, tab, req, reset, by, unheard, crossed>>

Expire(k) ==
    /\ k \in Issued \ stale
    /\ stale' = stale \cup {k}
    /\ UNCHANGED <<family, org, revoked, stored, cookie, tab, req, moves, reset>> /\ UNCHANGED hist

---------------------------------------------------------------------------
(* lib/auth.tsx: pages, their mounting, signing in and out *)

\* proxy.ts decides by the cookie alone.
Proxy(path) == CASE path = "dashboard" /\ ~cookie -> "login"
                 [] path = "login" /\ cookie      -> "dashboard"
                 [] OTHER                         -> path

\* What the page of a tab awaited goes unheard when it is loaded anew.
Deafened(t, q) == [r \in Request |-> IF q[r].tab = t /\ q[r].pc # "idle" THEN [q[r] EXCEPT !.heard = FALSE] ELSE q[r]]

\* bootstrap: /auth/me with the pair in localStorage, if there is one.
Mount(t, path, pair, q) ==
    /\ tab' = [tab EXCEPT ![t] = [at |-> path, user |-> None, loading |-> pair # None]]
    /\ IF pair = None THEN req' = Deafened(t, q)
       ELSE \E b \in Request :
               /\ q[b].pc = "idle"
               /\ req' = [Deafened(t, q) EXCEPT
                            ![b] = [Idle EXCEPT !.pc = "sent", !.kind = "boot", !.tab = t, !.pair = pair]]

Load(t, path) ==
    /\ Moving
    /\ Mount(t, Proxy(path), stored, req)
    /\ UNCHANGED <<stored, cookie, reset>> /\ UNCHANGED server /\ UNCHANGED hist

Start(r, t, kind) ==
    /\ ~Active(r)
    /\ req' = [req EXCEPT ![r] = [Idle EXCEPT !.pc = "sent", !.kind = kind, !.tab = t, !.pair = stored,
                                               !.shown = tab[t].user]]

Login(r, t) ==
    /\ Moving
    /\ tab[t].at = "login" /\ ~Signing(t)
    /\ Start(r, t, "login")
    /\ crossed' = IF tab[t].loading THEN crossed \cup {t} ELSE crossed
    /\ UNCHANGED <<stored, cookie, tab, reset, by, raced, killed, unheard>> /\ UNCHANGED server

\* applyTokens, then fetchMe.
LoggedIn(r) ==
    /\ req[r].pc = "ok" /\ req[r].kind = "login" /\ req[r].heard
    /\ stored' = req[r].new /\ cookie' = TRUE
    /\ req' = [req EXCEPT ![r].pc = "sent", ![r].kind = "profile", ![r].pair = req[r].new]
    /\ UNCHANGED <<tab, moves, reset>> /\ UNCHANGED server /\ UNCHANGED hist

\* setUser; the bootstrap also ends the loading, the login page goes on to the
\* dashboard.
ProfileShown(r) ==
    /\ req[r].pc = "ok" /\ req[r].kind \in {"boot", "profile"} /\ req[r].heard
    /\ tab' = [tab EXCEPT ![req[r].tab] =
                 [at |-> IF req[r].kind = "profile" THEN Proxy("dashboard") ELSE @.at,
                  user |-> org[req[r].pair], loading |-> @.loading /\ req[r].kind # "boot"]]
    /\ End(r)
    /\ UNCHANGED <<stored, cookie, moves, reset>> /\ UNCHANGED server /\ UNCHANGED hist

\* fetchMe does not refresh: at any failure bootstrap forgets tokens and cookie.
BootFails(r) ==
    /\ Active(r) /\ req[r].kind = "boot" /\ req[r].heard
    /\ stored' = None /\ cookie' = FALSE
    /\ tab' = [tab EXCEPT ![req[r].tab].loading = FALSE]
    /\ End(r)
    /\ UNCHANGED <<moves, reset>> /\ UNCHANGED server /\ UNCHANGED hist

\* The layout of the dashboard renders PageLoading until the page has a user.
Rendered(t) == tab[t].at = "dashboard" /\ tab[t].user # None /\ ~tab[t].loading

\* Variant: without a pair the API is asked all the same.
LogoutAnyway(r, t) ==
    /\ Moving
    /\ Rendered(t)
    /\ Start(r, t, "logout")
    /\ UNCHANGED <<stored, cookie, tab, reset>> /\ UNCHANGED server /\ UNCHANGED hist

Logout(r, t) ==
    /\ Moving
    /\ Rendered(t) /\ stored # None
    /\ Start(r, t, "logout")
    /\ UNCHANGED <<stored, cookie, tab, reset>> /\ UNCHANGED server /\ UNCHANGED hist

SignOut(t) ==
    /\ stored' = None /\ cookie' = FALSE
    /\ tab' = [tab EXCEPT ![t].user = None]

\* Without a refresh token there is nothing to tell the API.
LogoutAlone(t) ==
    /\ Moving
    /\ Rendered(t) /\ stored = None
    /\ SignOut(t)
    /\ UNCHANGED <<req, reset>> /\ UNCHANGED server /\ UNCHANGED hist

\* Answered or lost.
LoggedOut(r) ==
    /\ Active(r) /\ req[r].kind = "logout" /\ req[r].heard
    /\ SignOut(req[r].tab)
    /\ End(r)
    /\ UNCHANGED <<moves, reset>> /\ UNCHANGED server /\ UNCHANGED hist

\* The effect of the dashboard's layout: router.replace("/login") of a tab that
\* shows nobody, which the proxy sends back while the cookie is there.
Redirect(t) ==
    /\ tab[t].at = "dashboard" /\ ~tab[t].loading /\ tab[t].user = None
    /\ Proxy("login") = "login"
    /\ tab' = [tab EXCEPT ![t].at = "login"]
    /\ UNCHANGED <<stored, cookie, req, moves, reset>> /\ UNCHANGED server /\ UNCHANGED hist

---------------------------------------------------------------------------
(* lib/api-client.ts: apiRequest *)

\* Both tokens are read before the first attempt.
Call(r, t, kind) ==
    /\ Moving
    /\ Rendered(t)
    /\ kind = "switch" => ~Switching(t)
    /\ Start(r, t, kind)
    /\ UNCHANGED <<stored, cookie, tab, reset>> /\ UNCHANGED server /\ UNCHANGED hist

\* 401: refreshAccess with the refresh token read then.
Refresh(r) ==
    /\ req[r].pc = "denied" /\ req[r].kind \in {"api", "switch"} /\ req[r].heard
    /\ req[r].pair # None /\ ~req[r].retried
    /\ To(r, "refresh")
    /\ UNCHANGED <<stored, cookie, tab, moves, reset>> /\ UNCHANGED server /\ UNCHANGED hist

\* Variant: the new pair is used and not stored.
RefreshedUnstored(r) ==
    /\ req[r].pc = "rotated" /\ req[r].heard
    /\ req' = [req EXCEPT ![r].pc = "sent", ![r].pair = req[r].new, ![r].retried = TRUE]
    /\ UNCHANGED <<stored, cookie, tab, moves, reset>> /\ UNCHANGED server /\ UNCHANGED hist

\* setTokens, then the request once more with the new access token.
Refreshed(r) ==
    /\ req[r].pc = "rotated" /\ req[r].heard
    /\ stored' = req[r].new
    /\ req' = [req EXCEPT ![r].pc = "sent", ![r].pair = req[r].new, ![r].retried = TRUE]
    /\ UNCHANGED <<cookie, tab, moves, reset>> /\ UNCHANGED server /\ UNCHANGED hist

\* Refused or lost, or the second attempt lost: clearTokens, whatever pair is
\* stored by then; the user and the cookie stay.
RefreshFails(r) ==
    /\ req[r].pc \in {"refresh", "rotated", "failed"} \/ req[r].retried
    /\ req[r].heard
    /\ stored' = None
    /\ End(r)
    /\ UNCHANGED <<cookie, tab, moves, reset>> /\ UNCHANGED server /\ UNCHANGED hist

\* The promise settles: an answer, an error, or a 401 that is not refreshed.
Settle(r) ==
    /\ req[r].kind \in {"api", "switch", "login", "profile"} /\ req[r].heard
    /\ \/ req[r].pc \in {"sent", "ok"} /\ ~req[r].retried
       \/ req[r].pc = "ok" /\ req[r].kind = "api"
       \/ req[r].pc = "denied" /\ (req[r].kind = "profile" \/ req[r].pair = None \/ req[r].retried)
    /\ End(r)
    /\ UNCHANGED <<stored, cookie, tab, moves, reset>> /\ UNCHANGED server /\ UNCHANGED hist

\* Variant: the page is not loaded anew.
SwitchedWithoutReload(r) ==
    /\ req[r].pc = "ok" /\ req[r].kind = "switch" /\ req[r].heard
    /\ stored' = req[r].new
    /\ End(r)
    /\ UNCHANGED <<cookie, tab, moves, reset>> /\ UNCHANGED server /\ UNCHANGED hist

\* OrgSwitcher: setTokens and window.location.reload().
Switched(r) ==
    /\ req[r].pc = "ok" /\ req[r].kind = "switch" /\ req[r].heard
    /\ stored' = req[r].new
    /\ Mount(req[r].tab, Proxy(tab[req[r].tab].at), req[r].new, [req EXCEPT ![r] = Idle])
    /\ UNCHANGED <<cookie, moves, reset>> /\ UNCHANGED server /\ UNCHANGED hist

\* The API has handled the request of a page that is gone.
Unheard(r) ==
    /\ ~req[r].heard /\ req[r].pc \in {"ok", "denied", "rotated", "failed"}
    /\ unheard' = IF req[r].pc = "rotated" \/ req[r].kind = "logout"
                  THEN unheard \cup {family[req[r].pair]} ELSE unheard
    /\ End(r)
    /\ UNCHANGED <<stored, cookie, tab, moves, reset, by, raced, killed, crossed>> /\ UNCHANGED server

---------------------------------------------------------------------------
Api(r)    == HandleLogin(r) \/ HandleRequest(r) \/ HandleLogout(r) \/ FindToken(r) \/ Rotate(r)
               \/ ReadFamily(r) \/ RevokeFamily(r)
Heard(r)  == LoggedIn(r) \/ ProfileShown(r) \/ BootFails(r) \/ LoggedOut(r) \/ Refresh(r) \/ Refreshed(r)
               \/ RefreshFails(r) \/ Settle(r) \/ Switched(r)
User(t)   == \/ \E path \in {"login", "dashboard"} : Load(t, path)
             \/ LogoutAlone(t)
             \/ \E r \in Request : Login(r, t) \/ Logout(r, t) \/ \E kind \in {"api", "switch"} : Call(r, t, kind)
Reset     == ResetReads \/ ReadOthers \/ ResetCommits \/ \E k \in Token : RevokeSession(k)

Next == \/ \E r \in Request : Api(r) \/ Heard(r) \/ Unheard(r)
        \/ \E t \in Tab : User(t) \/ Redirect(t)
        \/ \E k \in Token : Expire(k)
        \/ Reset

Spec == Init /\ [][Next]_vars

---------------------------------------------------------------------------
(* Properties *)

Pcs   == {"idle", "sent", "ok", "denied", "refresh", "rotating", "reused", "revoking", "rotated", "failed"}
Kinds == {"login", "profile", "boot", "logout", "api", "switch"}

\* The rows of refresh_tokens, what localStorage and the tabs hold, and the
\* requests in flight (auth_service.py, auth.tsx, api-client.ts).
TypeOK ==
    /\ family \in [Token -> Token \cup {None}] /\ org \in [Token -> Org]
    /\ revoked \subseteq Issued /\ stale \subseteq Issued /\ reset \subseteq Issued
    /\ \A k \in Issued : family[k] \in Issued
    /\ moves \in 0 .. MaxMoves
    /\ stored \in Issued \cup {None} /\ cookie \in BOOLEAN
    /\ tab \in [Tab -> [at : {"login", "dashboard"}, user : Org \cup {None}, loading : BOOLEAN]]
    /\ req \in [Request -> [pc : Pcs, kind : Kinds \cup {None}, tab : Tab \cup {None}, pair : Issued \cup {None},
                           new : Issued \cup {None}, found : SUBSET Issued, shown : Org \cup {None},
                           retried : BOOLEAN, heard : BOOLEAN]]
    /\ by \in [Token -> [how : {"login", "switch", "refresh"}, tab : Tab] \cup {None}]
    /\ raced \subseteq Token /\ killed \subseteq Token /\ unheard \subseteq Token
    /\ crossed \subseteq Tab

\* Rotation: a family has at most one refresh token that is good, unless a
\* rotation overlapped another change of the family (auth_service.refresh reads
\* the row without a lock).
OneLiveToken == \A f \in Token \ raced : \A k, l \in Live(f) : k = l

\* A family revoked for reuse, by a password reset, or by its good token from the
\* list of sessions never has a good token again, with the same exception: a
\* rotation that read its row before slips through, and so does one that ends
\* before the rows found are written.
DeadStaysDead == \A f \in killed \ raced : Live(f) = {}

\* Revoking a session "logs out one device/browser" (auth.py): the family of the
\* row that was chosen has no good token afterwards.
LogsOutOneDevice ==
    [][\A k \in Token : RevokeSession(k) => \A f \in Token \ raced' : f = family[k] => Live(f)' = {}]_vars

Quiet == reset = {} /\ \A r \in Request : ~Active(r)

\* When nothing is in flight the browser holds the good token of its family: it
\* has followed every rotation.  Otherwise the family was revoked as a whole, or
\* a rotation overlapped, or a page that was left had rotated or revoked it.
HoldsLiveToken ==
    Quiet /\ stored # None /\ family[stored] \notin killed \cup raced \cup unheard =>
        stored \notin revoked

\* A request acts for the organization that its page shows, unless the pair it
\* carries came out of a refresh, which always returns to the home organization,
\* was stored by another tab, or the answer to the bootstrap of the login page
\* came after a sign-in on it and put the user of the older pair in its place.
ActsForShownOrg ==
    \A r \in Request : req[r].pc = "ok" /\ req[r].kind = "api" =>
        \/ org[req[r].pair] = req[r].shown
        \/ by[req[r].pair].how = "refresh" \/ by[req[r].pair].tab # req[r].tab
        \/ req[r].tab \in crossed

\* "Each session is scoped to one organization": the pairs of a family all act
\* for the same one (README.md).
OneOrgPerFamily == \A k, l \in Issued : family[k] = family[l] => org[k] = org[l]
=============================================================================
