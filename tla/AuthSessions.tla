---------------------------- MODULE AuthSessions ----------------------------
(***************************************************************************)
(* The sessions of one account: the refresh_token table and its rotation   *)
(* (modules/auth), and the browser tabs that use it (lib/api.ts and        *)
(* features/auth).  A browser has one cookie jar, shared by its tabs; a    *)
(* tab keeps an access token and a session status in memory.               *)
(*                                                                         *)
(* A refresh token is its index in `rows'; 0 is "no cookie".  An access    *)
(* token is only "none", "good" or "expired".  The hash of the token and   *)
(* its seven days are left out: a tab only ever presents what the server   *)
(* issued, and a run is shorter than a week.                               *)
(***************************************************************************)
EXTENDS Naturals, Sequences, FiniteSets

CONSTANTS Tabs,         \* browser tabs
          Browsers,     \* cookie jars
          Calls,        \* protected API calls a tab may have in flight
          MaxTokens,    \* bound on the refresh tokens issued
          MaxReloads,   \* bound on page loads after the first
          Faults        \* whether requests and answers may be lost

ASSUME AuthAssumption == /\ MaxTokens \in Nat \ {0}
                         /\ MaxReloads \in Nat
                         /\ Faults \in BOOLEAN
                         /\ "logout" \notin Calls

VARIABLES rows,     \* refresh_token: live, and the token it was exchanged for
          jar,      \* the refreshToken cookie of each browser
          home,     \* the browser each tab was opened in
          page,     \* AuthProvider's status
          access,   \* the access token in the memory of the tab
          flow,     \* exchanges of a refresh token: restoreSession's, and refreshPromise
          form,     \* the sign-in form being submitted
          call,     \* apiFetch calls, and the logout call
          ghost,    \* an exchange the server still runs for a client that left
          reloads,
          reused,   \* revokeFamily has run
          upset     \* what has happened that the protocol does not absorb

vars == <<rows, jar, home, page, access, flow, form, call, ghost,
          reloads, reused, upset>>
server == <<rows, ghost, reused>>

-----------------------------------------------------------------------------
\* a refresh token that was issued, or none
Token == 0 .. Len(rows)
Idle == [at |-> "idle", token |-> 0]
Exchange == [at : {"idle", "asked", "found", "answered", "refused"}, token : Token]
Form == [at : {"idle", "asked", "answered"}, token : Token]
Quiet == [at |-> "idle", good |-> FALSE, token |-> 0]
Call == [at : {"idle", "sent", "waiting", "resent", "served"}, good : BOOLEAN, token : Token]
Kinds == {"restore", "refresh"}
AllCalls == Calls \cup {"logout"}

Jar(t) == jar[home[t]]
Siblings(t) == {u \in Tabs \ {t} : home[u] = home[t]}
Exchanging(t) == \E k \in Kinds : flow[t][k].at # "idle"
\* a logout that has passed requireAuth, or will
LoggingOut(t) == call[t]["logout"].at # "idle" /\ call[t]["logout"].good
Settled == /\ \A t \in Tabs : /\ ~Exchanging(t)
                              /\ form[t].at = "idle"
                              /\ \A c \in AllCalls : call[t][c].at = "idle"
           /\ ghost.at = "idle"
Live(k) == k # 0 /\ rows[k].live

\* the tokens that what is in flight may still have issued: a new request
\* needs room for one more (this is only the bound MaxTokens).  A second bound:
\* once something has upset the protocol, the person only reloads the page.
Owed == {x \in Tabs \X Kinds : LET e == flow[x[1]][x[2]]
                               IN  e.at \in {"asked", "found"} /\ e.token # 0}
        \cup {x \in Tabs \X AllCalls : LET c == call[x[1]][x[2]]
                                       IN  c.at = "sent" /\ ~c.good}
Room == Len(rows) + Cardinality(Owed) + Cardinality({t \in Tabs : form[t].at = "asked"})
          + (IF ghost.at = "idle" THEN 0 ELSE 1) < MaxTokens

-----------------------------------------------------------------------------
(* The server: auth.service.ts. *)

\* Mutant of Issued: the row does not keep what it was exchanged for
Issued_NoOrigin(from) == [live |-> TRUE]

\* the row of a token, and the token it was exchanged for
Issued(from) == [live |-> TRUE, from |-> from]

\* issueSession inserts the row of a new refresh token
IssueSession == rows' = Append(rows, Issued(0))

\* the transaction of refresh: a new row, and the old one revoked
\* whatever it has become since it was read
Rotate(k) == Append([rows EXCEPT ![k].live = FALSE], Issued(k))

\* revokeFamily: every unrevoked token of the user
RevokeFamily == /\ rows' = [i \in DOMAIN rows |-> [rows[i] EXCEPT !.live = FALSE]]
                /\ reused' = TRUE

\* what refresh does to the table, in two steps: the token presented is read,
\* and if it was live a transaction exchanges it
RefreshHandler(e) ==
    \/ e.at = "asked" /\ (e.token = 0 \/ Live(e.token)) /\ UNCHANGED <<rows, reused>>
    \/ e.at = "asked" /\ e.token # 0 /\ ~Live(e.token) /\ RevokeFamily
    \/ e.at = "found" /\ rows' = Rotate(e.token) /\ UNCHANGED reused

\* what becomes of the exchange: no cookie, reuse, found, or a new token
Reply(e) == CASE e.at = "found" -> [at |-> "answered", token |-> Len(rows) + 1]
              [] e.at = "asked" /\ Live(e.token) -> [e EXCEPT !.at = "found"]
              [] OTHER -> [at |-> "refused", token |-> 0]

ServeRefresh(t, k) ==
    /\ RefreshHandler(flow[t][k])
    /\ flow' = [flow EXCEPT ![t][k] = Reply(@)]
    /\ UNCHANGED <<jar, home, page, access, form, call, ghost, reloads, upset>>

\* the handler finishes for a client that no longer listens
ServeGhost ==
    /\ RefreshHandler(ghost)
    /\ ghost' = IF Reply(ghost).at = "found" THEN Reply(ghost) ELSE Idle
    /\ UNCHANGED <<jar, home, page, access, flow, form, call, reloads, upset>>

\* register, login and loginWithGoogle issue a session ...
SignIn(t) ==
    /\ form[t].at = "asked"
    /\ IssueSession
    /\ form' = [form EXCEPT ![t] = [at |-> "answered", token |-> Len(rows) + 1]]
    /\ UNCHANGED <<jar, home, page, access, flow, call, ghost, reloads, reused, upset>>

\* ... or refuse: EMAIL_TAKEN, wrong credentials, a Google e-mail not verified
RefuseSignIn(t) ==
    /\ form[t].at = "asked"
    /\ form' = [form EXCEPT ![t] = Idle]
    /\ UNCHANGED <<server, jar, home, page, access, flow, call, reloads, upset>>

\* Mutant of Revoked: logout only clears the cookie
Revoked_CookieOnly(k) == rows

\* logout revokes the token presented, unless it is revoked already
Revoked(k) == IF Live(k) THEN [rows EXCEPT ![k].live = FALSE] ELSE rows

Logout(t) ==
    /\ call[t]["logout"].at \in {"sent", "resent"} /\ call[t]["logout"].good
    /\ rows' = Revoked(call[t]["logout"].token)
    /\ call' = [call EXCEPT ![t]["logout"].at = "served"]
    /\ UNCHANGED <<jar, home, page, access, flow, form, ghost, reloads, reused, upset>>

-----------------------------------------------------------------------------
(* The tab: lib/api.ts, AuthProvider.tsx, the guards and the forms. *)

\* what makes an exchange started by t now unsafe
Overlap(t) == {c \in {"tabs", "logout", "early"} :
                 \/ c = "tabs" /\ \E u \in Siblings(t) : Exchanging(u)
                 \/ c = "logout" /\ \E u \in Siblings(t) \cup {t} : LoggingOut(u)
                 \/ c = "early" /\ form[t].at # "idle"}
Asks(t) == [at |-> "asked", token |-> Jar(t)]

\* all that a page just loaded has in flight
Restoring(e) == [k \in Kinds |-> IF k = "restore" THEN e ELSE Idle]

\* the page loads; AuthProvider mounts and restoreSession asks for a refresh.
\* What the old page had in flight is abandoned.
Abandoned(t) == {flow[t][k] : k \in {j \in Kinds : flow[t][j].at \in {"asked", "found", "answered"}}}
Reload(t) ==
    /\ Room /\ reloads < MaxReloads /\ reloads' = reloads + 1
    /\ form[t].at = "idle" /\ \A c \in AllCalls : call[t][c].at = "idle"
    /\ Abandoned(t) # {} => Faults /\ ghost = Idle
    /\ flow' = [flow EXCEPT ![t] = Restoring(Asks(t))]
    /\ ghost' = LET g == {e \in Abandoned(t) : e.at # "answered"}
                IN  IF g = {} THEN ghost ELSE CHOOSE e \in g : TRUE
    /\ page' = [page EXCEPT ![t] = "loading"]
    /\ access' = [access EXCEPT ![t] = "none"]
    /\ upset' = upset \cup Overlap(t) \cup (IF Abandoned(t) = {} THEN {} ELSE {"lost"})
    /\ UNCHANGED <<rows, jar, home, form, call, reused>>

\* restoreSession's refresh is answered, and /auth/me after it
RestoreEnds(t) ==
    /\ flow[t]["restore"].at = "answered"
    /\ jar' = [jar EXCEPT ![home[t]] = flow[t]["restore"].token]
    /\ access' = [access EXCEPT ![t] = "good"]
    /\ page' = [page EXCEPT ![t] = "authenticated"]
    /\ flow' = [flow EXCEPT ![t]["restore"] = Idle]
    /\ UNCHANGED <<server, home, form, call, reloads, upset>>

\* Mutant of RestoreFails: a failed restoreSession leaves the status alone
RestoreFails_Silently(t) == /\ UNCHANGED <<page, access>>
                            /\ flow' = [flow EXCEPT ![t]["restore"] = Idle]

\* the catch of restoreSession: whatever the tab has become is signed out
RestoreFails(t) == /\ page' = [page EXCEPT ![t] = "anonymous"]
                   /\ access' = [access EXCEPT ![t] = "none"]
                   /\ flow' = [flow EXCEPT ![t]["restore"] = Idle]
RestoreRefused(t) ==
    /\ flow[t]["restore"].at = "refused"
    /\ RestoreFails(t)
    /\ UNCHANGED <<server, jar, home, form, call, reloads, upset>>

\* the catch of restoreSession when a request or its answer is lost: the
\* refresh before it is served, while it is, or after, or /auth/me
RestoreLost(t) ==
    /\ Faults /\ flow[t]["restore"].at # "idle" /\ ghost = Idle
    /\ RestoreFails(t)
    /\ ghost' \in {Idle} \cup {e \in {flow[t]["restore"]} : e.at \in {"asked", "found"}}
    /\ jar' \in {jar} \cup {[jar EXCEPT ![home[t]] = e.token] : e \in {x \in {flow[t]["restore"]} : x.at = "answered"}}
    /\ upset' = upset \cup {"lost"}
    /\ UNCHANGED <<rows, home, form, call, reloads, reused>>

\* what a sign-in from t now may clash with
Clash(t) == {c \in {"early", "logout", "again"} :
               \/ c = "early" /\ Exchanging(t)
               \/ c = "logout" /\ \E u \in Siblings(t) \cup {t} : LoggingOut(u)
               \/ c = "again" /\ page[t] = "authenticated"}

\* LoginPage, RegisterPage and GoogleLoginButton submit, once at a time.  No
\* guard keeps a tab that is signed in away from /entrar and /cadastrar.
Submit(t) ==
    /\ Room /\ upset = {} /\ form[t].at = "idle"
    /\ form' = [form EXCEPT ![t].at = "asked"]
    /\ upset' = upset \cup Clash(t)
    /\ UNCHANGED <<server, jar, home, page, access, flow, call, reloads>>

SignedIn(t) ==
    /\ form[t].at = "answered"
    /\ jar' = [jar EXCEPT ![home[t]] = form[t].token]
    /\ access' = [access EXCEPT ![t] = "good"]
    /\ page' = [page EXCEPT ![t] = "authenticated"]
    /\ form' = [form EXCEPT ![t] = Idle]
    /\ UNCHANGED <<server, home, flow, call, reloads, upset>>

\* a protected page calls the API with the access token it has.
\* RequireAuth shows such a page only to an authenticated tab.
Ask(t, c) ==
    /\ Room /\ upset = {} /\ page[t] = "authenticated" /\ call[t][c].at = "idle"
    /\ call' = [call EXCEPT ![t][c] = [at |-> "sent", good |-> access[t] = "good",
                                       token |-> IF c = "logout" THEN Jar(t) ELSE 0]]
    /\ upset' = upset \cup (IF c = "logout" /\ (Siblings(t) # {} \/ Exchanging(t))
                            THEN {"logout"} ELSE {})
    /\ UNCHANGED <<server, jar, home, page, access, flow, form, reloads>>

\* requireAuth lets an ordinary call through
Answered(t, c) ==
    /\ c # "logout" /\ call[t][c].at \in {"sent", "resent"} /\ call[t][c].good
    /\ call' = [call EXCEPT ![t][c] = Quiet]
    /\ UNCHANGED <<server, jar, home, page, access, flow, form, reloads, upset>>

\* Mutant of Join: refreshAccessToken asks although a refresh is in flight
Join_Unshared(t) == [flow EXCEPT ![t]["refresh"] = Asks(t)]

\* refreshPromise ??= ...: a refresh in flight is shared
Join(t) == IF flow[t]["refresh"].at # "idle" THEN flow
           ELSE [flow EXCEPT ![t]["refresh"] = Asks(t)]

\* 401: the first time, the call waits for refreshAccessToken
Unauthorized(t, c) ==
    /\ call[t][c].at = "sent" /\ ~call[t][c].good
    /\ call' = [call EXCEPT ![t][c] = [Quiet EXCEPT !.at = "waiting"]]
    /\ flow' = Join(t)
    /\ upset' = upset \cup (IF flow[t]["refresh"].at = "idle" THEN Overlap(t) ELSE {})
    /\ UNCHANGED <<server, jar, home, page, access, form, reloads>>

\* setRefreshCookie, as the browser applies it
CookieSet(t) == [jar EXCEPT ![home[t]] = flow[t]["refresh"].token]

\* Mutant of Waiting: the promise wakes up one of the calls
Waiting_One(t) == LET w == {c \in AllCalls : call[t][c].at = "waiting"}
                  IN  IF w = {} THEN {} ELSE {CHOOSE c \in w : TRUE}

\* the calls that share the refreshPromise of the tab
Waiting(t) == {c \in AllCalls : call[t][c].at = "waiting"}

\* the refresh is answered: every call that waits is sent again
Refreshed(t) ==
    /\ flow[t]["refresh"].at = "answered"
    /\ jar' = CookieSet(t)
    /\ access' = [access EXCEPT ![t] = "good"]
    /\ flow' = [flow EXCEPT ![t]["refresh"] = Idle]
    /\ call' = [call EXCEPT ![t] = [c \in AllCalls |->
                  IF c \notin Waiting(t) THEN @[c]
                  ELSE [at |-> "resent", good |-> TRUE,
                        token |-> IF c = "logout" THEN flow[t]["refresh"].token ELSE 0]]]
    /\ upset' = upset \cup (IF "logout" \in Waiting(t) /\ (Siblings(t) # {} \/ flow[t]["restore"].at # "idle")
                            THEN {"logout"} ELSE {})
    /\ UNCHANGED <<server, home, page, form, reloads>>

\* the refresh failed: every call that waits ends with notifySessionExpired
SessionExpired(t) ==
    /\ flow' = [flow EXCEPT ![t]["refresh"] = Idle]
    /\ call' = [call EXCEPT ![t] = [c \in AllCalls |-> IF c \in Waiting(t) THEN Quiet ELSE @[c]]]
    /\ page' = [page EXCEPT ![t] = "anonymous"]
    /\ access' = [access EXCEPT ![t] = "none"]
    /\ UNCHANGED <<jar, home, form, reloads>>

RefreshRefused(t) ==
    /\ flow[t]["refresh"].at = "refused" /\ Waiting(t) # {}
    /\ SessionExpired(t)
    /\ UNCHANGED <<server, upset>>

\* the fifteen seconds pass, or the network fails
RefreshLost(t) ==
    /\ Faults /\ flow[t]["refresh"].at \notin {"idle", "refused"} /\ ghost = Idle
    /\ SessionExpired(t)
    /\ ghost' \in {Idle} \cup {e \in {flow[t]["refresh"]} : e.at \in {"asked", "found"}}
    /\ upset' = upset \cup {"lost"}
    /\ UNCHANGED <<rows, reused>>

\* the finally of logout: the tab is signed out whatever the answer was
SignedOut(t) == /\ page' = [page EXCEPT ![t] = "anonymous"]
                /\ access' = [access EXCEPT ![t] = "none"]
                /\ call' = [call EXCEPT ![t]["logout"] = Quiet]
                /\ UNCHANGED <<server, home, flow, form, reloads>>

LoggedOut(t) ==
    /\ call[t]["logout"].at = "served"
    /\ jar' = [jar EXCEPT ![home[t]] = 0]
    /\ SignedOut(t)
    /\ UNCHANGED upset

LogoutLost(t) ==
    /\ Faults /\ call[t]["logout"].at \in {"sent", "resent", "served"}
    /\ SignedOut(t)
    /\ upset' = upset \cup {"lost"}
    /\ UNCHANGED jar

\* the access token's fifteen minutes pass
AccessExpires(t) ==
    /\ access[t] = "good"
    /\ access' = [access EXCEPT ![t] = "expired"]
    /\ UNCHANGED <<server, jar, home, page, flow, form, call, reloads, upset>>

-----------------------------------------------------------------------------
\* every tab has just been opened: its restoreSession has asked with no cookie
Init ==
    /\ rows = <<>> /\ ghost = Idle /\ reused = FALSE
    /\ home \in [Tabs -> Browsers]
    /\ jar = [b \in Browsers |-> 0]
    /\ page = [t \in Tabs |-> "loading"]
    /\ access = [t \in Tabs |-> "none"]
    /\ flow = [t \in Tabs |-> Restoring([at |-> "asked", token |-> 0])]
    /\ form = [t \in Tabs |-> Idle]
    /\ call = [t \in Tabs |-> [c \in AllCalls |-> Quiet]]
    /\ reloads = 0 /\ upset = {}

ServerNext(t) == \/ \E k \in Kinds : ServeRefresh(t, k)
                 \/ SignIn(t) \/ RefuseSignIn(t) \/ Logout(t)
TabNext(t) == \/ RestoreEnds(t) \/ RestoreRefused(t)
              \/ Refreshed(t) \/ RefreshRefused(t)
              \/ SignedIn(t) \/ LoggedOut(t)
              \/ \E c \in AllCalls : Answered(t, c) \/ Unauthorized(t, c)
UserNext(t) == \/ Reload(t) \/ Submit(t) \/ AccessExpires(t)
               \/ \E c \in AllCalls : Ask(t, c)
FaultNext(t) == RestoreLost(t) \/ RefreshLost(t) \/ LogoutLost(t)

Next == \/ \E t \in Tabs : ServerNext(t) \/ TabNext(t) \/ UserNext(t) \/ FaultNext(t)
        \/ ServeGhost

\* Each handler ends, and each promise of a tab is continued; the person at
\* the tab need do nothing.
Fairness(t) == /\ \A k \in Kinds : WF_vars(ServeRefresh(t, k))
               /\ WF_vars(SignIn(t) \/ RefuseSignIn(t)) /\ WF_vars(Logout(t))
               /\ WF_vars(RestoreEnds(t) \/ RestoreRefused(t))
               /\ WF_vars(Refreshed(t) \/ RefreshRefused(t))
Spec == Init /\ [][Next]_vars /\ \A t \in Tabs : Fairness(t)

-----------------------------------------------------------------------------
(* Properties. *)

AuthTypeOK ==
    /\ rows \in Seq([live : BOOLEAN, from : Token])
    /\ jar \in [Browsers -> Token] /\ home \in [Tabs -> Browsers]
    /\ page \in [Tabs -> {"loading", "anonymous", "authenticated"}]
    /\ access \in [Tabs -> {"none", "good", "expired"}]
    /\ flow \in [Tabs -> [Kinds -> Exchange]] /\ ghost \in Exchange
    /\ form \in [Tabs -> Form] /\ call \in [Tabs -> [AllCalls -> Call]]
    /\ reloads \in 0 .. MaxReloads /\ reused \in BOOLEAN
    /\ upset \subseteq {"lost", "tabs", "logout", "early", "again"}

\* Reuse detection signs a customer out of every device only after an answer
\* was lost, two tabs of one browser refreshed at once, or a refresh met a
\* logout: never because of the calls of one page, however many meet a 401 at
\* the same time (auth.service.ts:111, api.ts:65).
ReuseIsExplained == reused => upset \cap {"lost", "tabs", "logout"} # {}

\* When nothing is in flight, a tab shown as authenticated can go on: the
\* cookie of its browser is a live token, so its next 401 is refreshed
\* (AuthProvider.tsx:43-60, auth.controller.ts:52).
SignedInCanGoOn ==
    Settled /\ upset \cap {"lost", "tabs", "logout"} = {} =>
        \A t \in Tabs : page[t] = "authenticated" /\ Siblings(t) = {} => Live(Jar(t))

\* When nothing is in flight, every live refresh token is the cookie of a tab
\* that is signed in: a logout and an exchange leave no token behind, and a tab
\* that shows itself signed out is not signed in again by a reload.  Five things
\* break this: a lost answer, a refresh that meets a logout, tabs that share a
\* browser, a sign-in that overlaps a refresh which is then refused, and a
\* sign-in from a tab that is signed in, whose former token nobody revokes
\* (auth.service.ts:120-141, 150-168, AuthProvider.tsx:45-49, 77-84).
LiveTokensAreHeld ==
    Settled /\ upset = {} /\ (\A t \in Tabs : Siblings(t) = {}) =>
        \A k \in DOMAIN rows : rows[k].live =>
            \E t \in Tabs : page[t] = "authenticated" /\ Jar(t) = k

\* Tabs and refresh tokens agree: who is shown signed in has a live token, and
\* the live tokens belong to those who are.
TokensMatchTabs == SignedInCanGoOn /\ LiveTokensAreHeld

\* RequireAuth shows "Verificando sessao" only for a while: restoreSession ends,
\* whether it is answered, refused or lost (AuthProvider.tsx:35-52).
LoadingEnds == \A t \in Tabs : page[t] = "loading" ~> page[t] # "loading"

\* A call that waits for a refresh is never left behind: when the promise is
\* settled, well or badly, every call that shares it goes on (api.ts:63-86).
WaitersGoOn == \A t \in Tabs : Waiting(t) # {} => flow[t]["refresh"].at # "idle"
=============================================================================
