------------------------- MODULE AuthSessionsProofs -------------------------
(***************************************************************************)
(* The sessions of an account, for any tabs, browsers and calls.           *)
(*                                                                         *)
(* Whoever presents a refresh token holds it in its browser, and no token  *)
(* is in two browsers (OneBrowser).  As long as nothing upsets the         *)
(* protocol, a browser exchanges one token at a time and its cookie is     *)
(* live, or about to be replaced (CalmInv); the tab that is signed in      *)
(* alone in its browser has the only live token there (AloneInv).          *)
(***************************************************************************)
EXTENDS AuthSessions, SequenceTheorems, TLAPS

Out(t) == call[t]["logout"]

\* Browser b presents token n: as its cookie, or in a request it has sent.
Uses(b, n) ==
    \/ jar[b] = n
    \/ \E t \in Tabs : home[t] = b /\ \/ Out(t).token = n
                                      \/ \E k \in Kinds : flow[t][k].token = n
\* ... or will, once it is signed in.
Has(b, n) == Uses(b, n) \/ \E t \in Tabs : home[t] = b /\ form[t].token = n

\* A token is in one browser.
OneBrowser ==
    \A b, c \in Browsers, n \in Nat \ {0} : Has(b, n) /\ Has(c, n) => b = c

\* The token of a sign-in that is being answered is nowhere else.
FormIsPrivate ==
    \A t \in Tabs : form[t].token # 0 =>
        /\ \A b \in Browsers : ~Uses(b, form[t].token)
        /\ \A u \in Tabs \ {t} : form[u].token # form[t].token

\* What a request, or its absence, carries.
ExchangeShape(e) == /\ e.at \in {"idle", "refused"} => e.token = 0
                    /\ e.at \in {"found", "answered"} => e.token # 0
FormShape(e) == e.at = "answered" <=> e.token # 0
LogoutShape(e) == /\ e.at \in {"resent", "served"} => e.good
                  /\ e.at = "waiting" => ~e.good
Shapes ==
    /\ ghost.at = "found" => ghost.token # 0
    /\ \A t \in Tabs, k \in Kinds : ExchangeShape(flow[t][k])
    /\ \A t \in Tabs : FormShape(form[t]) /\ LogoutShape(Out(t))

\* A tab exchanges one token at a time: restoreSession's, or the one its calls
\* wait for.
ExchangesOne(t) ==
    /\ flow[t]["refresh"].at # "idle" <=> Waiting(t) # {}
    /\ (\E c \in AllCalls : call[t][c].at # "idle") => flow[t]["restore"].at = "idle"
    /\ upset = {} /\ page[t] = "authenticated" => flow[t]["restore"].at = "idle"
    /\ upset = {} /\ form[t].at # "idle" => ~Exchanging(t)
OneExchange == \A t \in Tabs : ExchangesOne(t)

\* A tab alone in its browser is shown signed in with a cookie.
SignedInHasCookie ==
    \A t \in Tabs : Siblings(t) = {} /\ page[t] = "authenticated" => Jar(t) # 0

Calm == upset \cap {"lost", "tabs", "logout"} = {}

\* The tabs of a browser exchange its token one at a time.
OneAtATime ==
    \A t \in Tabs : \A u \in Siblings(t) :
        Exchanging(t) /\ Exchanging(u) => \A k \in Kinds : flow[t][k].token = 0
LogoutIsAlone ==
    \A t \in Tabs : /\ Out(t).at # "idle" => Siblings(t) = {}
                    /\ LoggingOut(t) => ~Exchanging(t)
TokensAreLive ==
    \A t \in Tabs : /\ \A k \in Kinds : flow[t][k].token # 0 => Live(flow[t][k].token)
                    /\ form[t].token # 0 => Live(form[t].token)

\* A cookie that is not live is about to be replaced.
Replacing(b) ==
    \E t \in Tabs : home[t] = b /\ \/ \E k \in Kinds : flow[t][k].at = "answered"
                                   \/ Out(t).at = "served"
CookiesAreLive == \A b \in Browsers : jar[b] # 0 => Live(jar[b]) \/ Replacing(b)

CalmInv ==
    Calm => /\ ghost = Idle /\ ~reused
            /\ OneAtATime /\ LogoutIsAlone /\ TokensAreLive /\ CookiesAreLive

\* What tab t shows, asks for and keeps, when it is alone in its browser.
AloneTab(t) ==
    /\ form[t].at # "idle" => page[t] # "authenticated"
    /\ Out(t).at # "idle" => page[t] = "authenticated"
    /\ page[t] # "authenticated" /\ ~Exchanging(t) => Jar(t) = 0
    /\ flow[t]["refresh"].token # 0 => page[t] = "authenticated"
    /\ \A k \in Kinds :
          /\ flow[t][k].at \in {"asked", "found"} => flow[t][k].token = Jar(t)
          /\ flow[t][k].at = "refused" => Jar(t) = 0
          /\ flow[t][k].at = "answered" => ~Live(Jar(t))
    /\ LoggingOut(t) /\ Out(t).at # "served" => Out(t).token = Jar(t)
    /\ Out(t).at = "served" => ~Live(Jar(t))

\* Tab t has token n, or is being given it.
HeldBy(t, n) == \/ Jar(t) = n \/ form[t].token = n
                \/ \E x \in Kinds : flow[t][x].at = "answered" /\ flow[t][x].token = n
LiveIsHeld == \A n \in DOMAIN rows : rows[n].live => \E t \in Tabs : HeldBy(t, n)

Alone == \A t \in Tabs : Siblings(t) = {}
AloneInv == upset = {} /\ Alone => LiveIsHeld /\ \A t \in Tabs : AloneTab(t)

AuthInv == /\ AuthTypeOK /\ OneBrowser /\ FormIsPrivate /\ Shapes /\ OneExchange
           /\ SignedInHasCookie /\ CalmInv /\ AloneInv

-----------------------------------------------------------------------------
(* The table of refresh tokens.                                             *)

\* The rows of a table of n tokens.
Rows(n) == [live : BOOLEAN, from : 0 .. n]

LEMMA RowsAreRows ==
    ASSUME AuthTypeOK
    PROVE  /\ rows \in Seq(Rows(Len(rows))) /\ Len(rows) \in Nat /\ DOMAIN rows = 1 .. Len(rows)
           /\ \A j \in DOMAIN rows : rows[j] \in Rows(Len(rows))
<1>1. rows \in Seq(Rows(Len(rows)))
  BY DEF AuthTypeOK, Token, Rows
<1>2. QED
  BY <1>1, LenProperties, ElementOfSeq

LEMMA RowFacts ==
    ASSUME NEW n \in Nat, NEW r \in Rows(n)
    PROVE  /\ r \in Rows(n + 1)
           /\ r.live \in BOOLEAN
           /\ [r EXCEPT !.live = FALSE] \in Rows(n) /\ ~[r EXCEPT !.live = FALSE].live
           /\ \A k \in 0 .. n : Issued(k) \in Rows(n) /\ Issued(k).live
<1>1. r \in Rows(n + 1) /\ r.live \in BOOLEAN
  BY DEF Rows
<1>2. [r EXCEPT !.live = FALSE] \in Rows(n) /\ ~[r EXCEPT !.live = FALSE].live
  BY DEF Rows
<1>3. \A k \in 0 .. n : Issued(k) \in Rows(n) /\ Issued(k).live
  BY DEF Rows, Issued
<1>4. QED
  BY <1>1, <1>2, <1>3

\* What a step may do to the table.
Grown == /\ rows' \in Seq([live : BOOLEAN, from : 0 .. Len(rows')])
         /\ Len(rows) \in Nat /\ Len(rows') \in Nat /\ Len(rows) <= Len(rows')
         /\ DOMAIN rows = 1 .. Len(rows) /\ DOMAIN rows' = 1 .. Len(rows')

\* A table with a row changed, and a table with a row more.
LEMMA RowChanged ==
    ASSUME NEW n \in Nat, NEW s \in Seq(Rows(n)), NEW k \in DOMAIN s, NEW r \in Rows(n)
    PROVE  /\ [s EXCEPT ![k] = r] \in Seq(Rows(n)) /\ Len([s EXCEPT ![k] = r]) = Len(s)
           /\ [s EXCEPT ![k] = r][k] = r
           /\ \A j \in DOMAIN s \ {k} : [s EXCEPT ![k] = r][j] = s[j]
  BY ExceptSeq

LEMMA RowAdded ==
    ASSUME NEW n \in Nat, NEW s \in Seq(Rows(n)), Len(s) = n, NEW k \in 0 .. n
    PROVE  LET z == Append(s, Issued(k))
           IN  /\ z \in Seq(Rows(n + 1)) /\ Len(z) = n + 1 /\ z[n + 1].live
               /\ \A j \in 1 .. n : z[j] = s[j]
<1>1. s \in Seq(Rows(n + 1))
  <2>1. \A r \in Rows(n) : r \in Rows(n + 1)
    BY RowFacts
  <2>2. QED
    BY <2>1, SeqMonotonic, Rows(n) \subseteq Rows(n + 1)
<1>2. Issued(k) \in Rows(n + 1) /\ Issued(k).live
  BY DEF Issued, Rows
<1>3. QED
  BY <1>1, <1>2, AppendProperties

\* A new token is live, and the others are as they were.
LEMMA IssueFacts ==
    ASSUME AuthTypeOK, IssueSession
    PROVE  /\ Grown /\ Len(rows') = Len(rows) + 1
           /\ rows'[Len(rows) + 1].live
           /\ \A j \in DOMAIN rows : rows'[j] = rows[j]
<1>1. rows' = Append(rows, Issued(0))
  BY DEF IssueSession
<1>2. rows' \in Seq(Rows(Len(rows) + 1)) /\ Len(rows') = Len(rows) + 1
      /\ rows'[Len(rows) + 1].live /\ \A j \in 1 .. Len(rows) : rows'[j] = rows[j]
  BY <1>1, RowsAreRows, RowAdded
<1>3. QED
  BY <1>2, RowsAreRows DEF Grown, Rows

\* The exchange of a token leaves it revoked, and the new one live.
LEMMA RotateFacts ==
    ASSUME AuthTypeOK, NEW k \in DOMAIN rows, rows' = Rotate(k)
    PROVE  /\ Grown /\ Len(rows') = Len(rows) + 1
           /\ rows'[Len(rows) + 1].live /\ ~rows'[k].live
           /\ \A j \in DOMAIN rows \ {k} : rows'[j] = rows[j]
<1> DEFINE n == Len(rows)
           r == [rows[k] EXCEPT !.live = FALSE]
           s == [rows EXCEPT ![k] = r]
<1>1. n \in Nat /\ rows \in Seq(Rows(n)) /\ DOMAIN rows = 1 .. n /\ rows[k] \in Rows(n)
  BY RowsAreRows
<1>2. r \in Rows(n) /\ ~r.live
  BY <1>1, RowFacts
<1>3. rows' = Append(s, Issued(k))
  BY DEF Rotate
<1> HIDE DEF r, n
<1>4. s \in Seq(Rows(n)) /\ Len(s) = n /\ s[k] = r /\ \A j \in DOMAIN rows \ {k} : s[j] = rows[j]
  BY <1>1, <1>2, RowChanged DEF n
<1> HIDE DEF s
<1>5. k \in 0 .. n
  BY <1>1
<1>6. rows' \in Seq(Rows(n + 1)) /\ Len(rows') = n + 1
      /\ rows'[n + 1].live /\ \A j \in 1 .. n : rows'[j] = s[j]
  BY <1>1, <1>3, <1>4, <1>5, RowAdded
<1>7. rows'[k] = s[k] /\ \A j \in DOMAIN rows \ {k} : rows'[j] = s[j]
  BY <1>1, <1>6
<1>8. Grown
  BY <1>1, <1>6 DEF Grown, Rows, n
<1>9. QED
  BY <1>2, <1>4, <1>6, <1>7, <1>8 DEF n

\* Reuse revokes every token.
LEMMA RevokeFamilyFacts ==
    ASSUME AuthTypeOK, RevokeFamily
    PROVE  /\ Grown /\ Len(rows') = Len(rows)
           /\ \A j \in DOMAIN rows : ~rows'[j].live
<1> DEFINE n == Len(rows)
           f(i) == [rows[i] EXCEPT !.live = FALSE]
<1>1. n \in Nat /\ DOMAIN rows = 1 .. n
  BY RowsAreRows
<1>2. rows' = [i \in 1 .. n |-> f(i)]
  BY <1>1 DEF RevokeFamily
<1>3. \A i \in 1 .. n : f(i) \in Rows(n) /\ ~f(i).live
  BY RowsAreRows, RowFacts
<1> HIDE DEF f, n
<1>4. rows' \in Seq(Rows(n)) /\ DOMAIN rows' = 1 .. n /\ \A j \in 1 .. n : ~rows'[j].live
  BY <1>1, <1>2, <1>3, IsASeq
<1>5. Len(rows') = n
  BY <1>1, <1>4
<1>6. QED
  BY <1>1, <1>4, <1>5 DEF Grown, Rows, n

\* A logout revokes the token it presents.
LEMMA RevokedFacts ==
    ASSUME AuthTypeOK, NEW k \in Token, rows' = Revoked(k)
    PROVE  /\ Grown /\ Len(rows') = Len(rows)
           /\ k # 0 => ~rows'[k].live
           /\ \A j \in DOMAIN rows \ {k} : rows'[j] = rows[j]
<1> DEFINE n == Len(rows)
           r == [rows[k] EXCEPT !.live = FALSE]
<1>1. n \in Nat /\ rows \in Seq(Rows(n)) /\ DOMAIN rows = 1 .. n
  BY RowsAreRows
<1>2. CASE Live(k)
  <2>1. k \in DOMAIN rows /\ rows' = [rows EXCEPT ![k] = r]
    BY <1>1, <1>2 DEF Live, Token, Revoked
  <2>2. r \in Rows(n) /\ ~r.live
    BY <1>1, <2>1, RowsAreRows, RowFacts
  <2> HIDE DEF r, n
  <2>3. rows' \in Seq(Rows(n)) /\ Len(rows') = Len(rows) /\ rows'[k] = r
        /\ \A j \in DOMAIN rows \ {k} : rows'[j] = rows[j]
    BY <1>1, <2>1, <2>2, RowChanged
  <2>4. QED
    BY <1>1, <2>1, <2>2, <2>3 DEF Grown, Rows, n
<1>3. CASE ~Live(k)
  BY <1>1, <1>3 DEF Grown, Revoked, Live, Rows
<1>4. QED
  BY <1>2, <1>3

-----------------------------------------------------------------------------
(* Types.                                                                   *)

LEMMA TokenFacts ==
    ASSUME AuthTypeOK
    PROVE  /\ Len(rows) \in Nat /\ DOMAIN rows = 1 .. Len(rows) /\ Token = 0 .. Len(rows)
           /\ \A k \in Token \ {0} : k \in DOMAIN rows
           /\ 0 \in Token
  BY RowsAreRows DEF Token

LEMMA TypeFacts ==
    ASSUME AuthTypeOK
    PROVE  /\ \A b \in Browsers : jar[b] \in Token
           /\ \A t \in Tabs : home[t] \in Browsers /\ Jar(t) \in Token
           /\ \A t \in Tabs, k \in Kinds : flow[t][k] \in Exchange
           /\ \A t \in Tabs : form[t] \in Form
           /\ \A t \in Tabs, c \in AllCalls : call[t][c] \in Call
           /\ "logout" \in AllCalls
           /\ upset \subseteq {"lost", "tabs", "logout", "early", "again"}
  BY DEF AuthTypeOK, Jar, AllCalls

LEMMA RecordFacts ==
    /\ \A e \in Exchange : /\ e = [at |-> e.at, token |-> e.token] /\ e.token \in Token
                           /\ e.at \in {"idle", "asked", "found", "answered", "refused"}
    /\ \A e \in Form : /\ e = [at |-> e.at, token |-> e.token] /\ e.token \in Token
                       /\ e.at \in {"idle", "asked", "answered"}
    /\ \A e \in Call : /\ e = [at |-> e.at, good |-> e.good, token |-> e.token]
                       /\ e.token \in Token /\ e.good \in BOOLEAN
                       /\ e.at \in {"idle", "sent", "waiting", "resent", "served"}
<1>1. \A e \in Exchange : /\ e = [at |-> e.at, token |-> e.token] /\ e.token \in Token
                          /\ e.at \in {"idle", "asked", "found", "answered", "refused"}
  BY DEF Exchange
<1>2. \A e \in Form : /\ e = [at |-> e.at, token |-> e.token] /\ e.token \in Token
                      /\ e.at \in {"idle", "asked", "answered"}
  BY DEF Form
<1>3. \A e \in Call : /\ e = [at |-> e.at, good |-> e.good, token |-> e.token]
                      /\ e.token \in Token /\ e.good \in BOOLEAN
                      /\ e.at \in {"idle", "sent", "waiting", "resent", "served"}
  BY DEF Call
<1>4. QED
  BY <1>1, <1>2, <1>3

LEMMA GrownIfUnchanged ==
    ASSUME AuthTypeOK, UNCHANGED rows
    PROVE  Grown
  BY RowsAreRows DEF AuthTypeOK, Grown, Token

\* What was issued stays issued, so what has not changed keeps its type.
LEMMA TypesGrow ==
    ASSUME AuthTypeOK, Grown
    PROVE  /\ Token \subseteq Token' /\ Token' = 0 .. Len(rows')
           /\ Exchange \subseteq Exchange' /\ Form \subseteq Form' /\ Call \subseteq Call'
           /\ rows' \in Seq([live : BOOLEAN, from : Token'])
           /\ jar \in [Browsers -> Token']
           /\ flow \in [Tabs -> [Kinds -> Exchange']] /\ ghost \in Exchange'
           /\ form \in [Tabs -> Form'] /\ call \in [Tabs -> [AllCalls -> Call']]
<1>1. Token \subseteq Token' /\ Token' = 0 .. Len(rows')
  BY DEF Grown, Token
<1>2. Exchange \subseteq Exchange'
  BY <1>1 DEF Exchange
<1>3. Form \subseteq Form'
  BY <1>1 DEF Form
<1>4. Call \subseteq Call'
  BY <1>1 DEF Call
<1>5. rows' \in Seq([live : BOOLEAN, from : Token'])
  BY <1>1 DEF Grown
<1>6. flow \in [Tabs -> [Kinds -> Exchange']] /\ ghost \in Exchange'
  BY <1>2 DEF AuthTypeOK
<1>7. call \in [Tabs -> [AllCalls -> Call']]
  BY <1>4 DEF AuthTypeOK
<1>8. form \in [Tabs -> Form'] /\ jar \in [Browsers -> Token']
  BY <1>1, <1>3 DEF AuthTypeOK
<1>9. QED
  BY <1>1, <1>2, <1>3, <1>4, <1>5, <1>6, <1>7, <1>8

-----------------------------------------------------------------------------
(* Every step keeps the types.                                              *)

LEMMA IdleTypes ==
    ASSUME 0 \in Token
    PROVE  Idle \in Exchange /\ Idle \in Form /\ Quiet \in Call
  BY DEF Exchange, Form, Call, Idle, Quiet

\* What the server does to the table, and the answer.
LEMMA ServedTypes ==
    ASSUME AuthTypeOK, NEW e \in Exchange, e.at = "found" => e.token # 0, RefreshHandler(e)
    PROVE  Grown /\ Reply(e) \in Exchange' /\ reused' \in BOOLEAN
<1> USE RecordFacts, TokenFacts
<1>1. CASE e.at = "asked" /\ (e.token = 0 \/ Live(e.token)) /\ UNCHANGED <<rows, reused>>
  <2>1. Grown /\ reused' \in BOOLEAN
    BY <1>1, GrownIfUnchanged DEF AuthTypeOK
  <2>2. Reply(e) \in {[at |-> "found", token |-> e.token], [at |-> "refused", token |-> 0]}
    BY <1>1 DEF Reply
  <2>3. Reply(e) \in Exchange
    BY <2>2 DEF Exchange
  <2>4. QED
    BY <2>1, <2>3, TypesGrow
<1>2. CASE e.at = "asked" /\ e.token # 0 /\ ~Live(e.token) /\ RevokeFamily
  <2>1. Grown /\ reused' \in BOOLEAN
    BY <1>2, RevokeFamilyFacts DEF RevokeFamily
  <2>2. Reply(e) = [at |-> "refused", token |-> 0]
    BY <1>2 DEF Reply
  <2>3. Reply(e) \in Exchange
    BY <2>2 DEF Exchange
  <2>4. QED
    BY <2>1, <2>3, TypesGrow
<1>3. CASE e.at = "found" /\ rows' = Rotate(e.token) /\ UNCHANGED reused
  <2>1. e.token \in DOMAIN rows
    BY <1>3
  <2>2. Grown /\ Len(rows') = Len(rows) + 1 /\ reused' \in BOOLEAN
    BY <1>3, <2>1, RotateFacts DEF AuthTypeOK
  <2>3. Reply(e) = [at |-> "answered", token |-> Len(rows) + 1]
    BY <1>3 DEF Reply
  <2>4. Len(rows) + 1 \in Token'
    BY <2>2, TypesGrow
  <2>5. QED
    BY <2>2, <2>3, <2>4 DEF Exchange
<1>4. QED
  BY <1>1, <1>2, <1>3 DEF RefreshHandler

LEMMA TypesServeRefresh ==
    ASSUME AuthInv, NEW t \in Tabs, NEW k \in Kinds, ServeRefresh(t, k)
    PROVE  AuthTypeOK'
<1> USE DEF AuthInv
<1>1. flow[t][k] \in Exchange /\ (flow[t][k].at = "found" => flow[t][k].token # 0)
  BY TypeFacts DEF Shapes, ExchangeShape
<1>2. Grown /\ Reply(flow[t][k]) \in Exchange' /\ reused' \in BOOLEAN
  BY <1>1, ServedTypes DEF ServeRefresh
<1>3. flow' \in [Tabs -> [Kinds -> Exchange']]
  BY <1>2, TypesGrow DEF ServeRefresh
<1>4. QED
  BY <1>2, <1>3, TypesGrow DEF ServeRefresh, AuthTypeOK

LEMMA TypesServer ==
    ASSUME AuthInv, NEW t \in Tabs, SignIn(t) \/ RefuseSignIn(t) \/ Logout(t) \/ ServeGhost
    PROVE  AuthTypeOK'
<1> USE TokenFacts DEF AuthInv
<1>1. CASE SignIn(t)
  <2>1. Grown /\ Len(rows') = Len(rows) + 1
    BY <1>1, IssueFacts DEF SignIn
  <2>2. [at |-> "answered", token |-> Len(rows) + 1] \in Form'
    BY <2>1, TypesGrow DEF Form
  <2>3. form' \in [Tabs -> Form']
    BY <1>1, <2>1, <2>2, TypesGrow DEF SignIn
  <2>4. QED
    BY <1>1, <2>1, <2>3, TypesGrow DEF SignIn, AuthTypeOK
<1>2. CASE RefuseSignIn(t)
  <2>1. Grown
    BY <1>2, GrownIfUnchanged DEF RefuseSignIn, server
  <2>2. Idle \in Form'
    BY <2>1, IdleTypes, TypesGrow
  <2>3. form' \in [Tabs -> Form']
    BY <1>2, <2>1, <2>2, TypesGrow DEF RefuseSignIn
  <2>4. QED
    BY <1>2, <2>1, <2>3, TypesGrow DEF RefuseSignIn, AuthTypeOK, server
<1>3. CASE Logout(t)
  <2>1. Out(t) \in Call /\ "logout" \in AllCalls
    BY TypeFacts DEF Out
  <2>2. Grown
    BY <1>3, <2>1, RevokedFacts, RecordFacts DEF Logout, Out
  <2>3. [Out(t) EXCEPT !.at = "served"] \in Call
    BY <2>1 DEF Call
  <2>4. call' \in [Tabs -> [AllCalls -> Call']]
    BY <1>3, <2>1, <2>2, <2>3, TypesGrow DEF Logout, Out
  <2>5. QED
    BY <1>3, <2>2, <2>4, TypesGrow DEF Logout, AuthTypeOK
<1>4. CASE ServeGhost
  <2>1. ghost \in Exchange /\ (ghost.at = "found" => ghost.token # 0)
    BY DEF AuthTypeOK, Shapes
  <2>2. Grown /\ Reply(ghost) \in Exchange' /\ reused' \in BOOLEAN
    BY <1>4, <2>1, ServedTypes DEF ServeGhost
  <2>3. ghost' \in Exchange'
    BY <1>4, <2>2, IdleTypes, TypesGrow DEF ServeGhost
  <2>4. QED
    BY <1>4, <2>2, <2>3, TypesGrow DEF ServeGhost, AuthTypeOK
<1>5. QED
  BY <1>1, <1>2, <1>3, <1>4

\* The other steps leave the table alone.
LEMMA TypesUnserved ==
    ASSUME AuthTypeOK, UNCHANGED rows
    PROVE  /\ Token' = Token /\ Exchange' = Exchange /\ Form' = Form /\ Call' = Call
           /\ rows' \in Seq([live : BOOLEAN, from : Token'])
           /\ Idle \in Exchange /\ Idle \in Form /\ Quiet \in Call
           /\ \A n \in Token, a \in {"idle", "asked", "found", "answered", "refused"} :
                 [at |-> a, token |-> n] \in Exchange
           /\ \A n \in Token, a \in {"idle", "sent", "waiting", "resent", "served"}, g \in BOOLEAN :
                 [at |-> a, good |-> g, token |-> n] \in Call
           /\ \A e \in Form : [e EXCEPT !.at = "asked"] \in Form
<1>1. Token' = Token
  BY DEF Token
<1>2. Exchange' = Exchange /\ Form' = Form /\ Call' = Call
  BY <1>1 DEF Exchange, Form, Call
<1>3. rows' \in Seq([live : BOOLEAN, from : Token'])
  BY <1>1 DEF AuthTypeOK
<1>4. \A n \in Token, a \in {"idle", "asked", "found", "answered", "refused"} :
          [at |-> a, token |-> n] \in Exchange
  BY DEF Exchange
<1>5. \A n \in Token, a \in {"idle", "sent", "waiting", "resent", "served"}, g \in BOOLEAN :
          [at |-> a, good |-> g, token |-> n] \in Call
  BY DEF Call
<1>6. \A e \in Form : [e EXCEPT !.at = "asked"] \in Form
  BY DEF Form
<1>7. QED
  BY <1>1, <1>2, <1>3, <1>4, <1>5, <1>6, IdleTypes, TokenFacts

LEMMA TypesRestore ==
    ASSUME AuthInv, NEW t \in Tabs,
           RestoreEnds(t) \/ RestoreRefused(t) \/ RestoreLost(t) \/ SignedIn(t) \/ Submit(t) \/ AccessExpires(t)
    PROVE  AuthTypeOK'
<1> USE DEF AuthInv, server, Kinds
<1>1. UNCHANGED rows
  BY DEF RestoreEnds, RestoreRefused, RestoreLost, SignedIn, Submit, AccessExpires
<1>2. flow[t]["restore"] \in Exchange /\ form[t] \in Form /\ home[t] \in Browsers
      /\ flow[t]["restore"].token \in Token /\ form[t].token \in Token
  BY TypeFacts, RecordFacts
<1>3. flow' \in [Tabs -> [Kinds -> Exchange]]
  <2>1. flow' = flow \/ flow' = [flow EXCEPT ![t]["restore"] = Idle]
    BY DEF RestoreEnds, RestoreRefused, RestoreLost, RestoreFails, SignedIn, Submit, AccessExpires
  <2>2. Idle \in Exchange
    BY <1>1, TypesUnserved
  <2>3. QED
    BY <2>1, <2>2 DEF AuthTypeOK
<1>4. form' \in [Tabs -> Form]
  <2>1. CASE SignedIn(t)
    BY <1>1, <2>1, TypesUnserved DEF SignedIn, AuthTypeOK
  <2>2. CASE Submit(t)
    <3>1. [form[t] EXCEPT !.at = "asked"] \in Form
      BY <1>1, <1>2, TypesUnserved
    <3>2. QED
      BY <2>2, <3>1 DEF Submit, AuthTypeOK
  <2>3. QED
    BY <2>1, <2>2 DEF RestoreEnds, RestoreRefused, RestoreLost, AccessExpires, AuthTypeOK
<1>5. jar' \in [Browsers -> Token]
  <2>1. CASE RestoreLost(t)
    <3>1. jar' = jar \/ jar' = [jar EXCEPT ![home[t]] = flow[t]["restore"].token]
      BY <2>1 DEF RestoreLost
    <3>2. QED
      BY <1>2, <3>1 DEF AuthTypeOK
  <2>2. CASE SignedIn(t) \/ RestoreEnds(t)
    BY <1>2, <2>2 DEF SignedIn, RestoreEnds, AuthTypeOK
  <2>3. QED
    BY <2>1, <2>2 DEF RestoreRefused, Submit, AccessExpires, AuthTypeOK
<1>6. ghost' \in Exchange
  <2>1. CASE RestoreLost(t)
    BY <1>1, <1>2, <2>1, TypesUnserved DEF RestoreLost
  <2>2. QED
    BY <2>1 DEF RestoreEnds, RestoreRefused, SignedIn, Submit, AccessExpires, AuthTypeOK
<1>7. /\ page' \in [Tabs -> {"loading", "anonymous", "authenticated"}]
      /\ access' \in [Tabs -> {"none", "good", "expired"}]
  BY DEF RestoreEnds, RestoreRefused, RestoreLost, RestoreFails, SignedIn, Submit, AccessExpires, AuthTypeOK
<1>8. upset' \subseteq {"lost", "tabs", "logout", "early", "again"}
  BY DEF RestoreEnds, RestoreRefused, RestoreLost, RestoreFails, SignedIn, Submit, Clash, AccessExpires, AuthTypeOK
<1>9. home' = home /\ call' = call /\ reloads' = reloads /\ reused' = reused
  BY DEF RestoreEnds, RestoreRefused, RestoreLost, RestoreFails, SignedIn, Submit, AccessExpires, AuthTypeOK
<1>10. QED
  BY <1>1, <1>3, <1>4, <1>5, <1>6, <1>7, <1>8, <1>9, TypesUnserved DEF AuthTypeOK

LEMMA TypesReload ==
    ASSUME AuthInv, NEW t \in Tabs, Reload(t)
    PROVE  AuthTypeOK'
<1> USE DEF AuthInv, Kinds
<1>1. UNCHANGED rows
  BY DEF Reload
<1>2. Asks(t) \in Exchange
  BY <1>1, TypeFacts, TypesUnserved DEF Asks
<1>3. flow' \in [Tabs -> [Kinds -> Exchange]]
  BY <1>1, <1>2, TypesUnserved DEF Reload, AuthTypeOK, Restoring
<1>4. ghost' \in Exchange
  <2>1. Abandoned(t) \subseteq Exchange
    BY TypeFacts DEF Abandoned
  <2> DEFINE g == {e \in Abandoned(t) : e.at # "answered"}
  <2>2. ghost' = IF g = {} THEN ghost ELSE CHOOSE e \in g : TRUE
    BY DEF Reload
  <2>3. g \subseteq Exchange /\ ghost \in Exchange
    BY <2>1 DEF AuthTypeOK
  <2> HIDE DEF g
  <2>4. g # {} => (CHOOSE e \in g : TRUE) \in g
    OBVIOUS
  <2>5. QED
    BY <2>2, <2>3, <2>4
<1>5. /\ page' \in [Tabs -> {"loading", "anonymous", "authenticated"}]
      /\ access' \in [Tabs -> {"none", "good", "expired"}]
      /\ reloads' \in 0 .. MaxReloads
  BY AuthAssumption DEF Reload, AuthTypeOK
<1>6. upset' \subseteq {"lost", "tabs", "logout", "early", "again"}
  BY DEF Reload, AuthTypeOK, Overlap
<1>7. QED
  BY <1>1, <1>3, <1>4, <1>5, <1>6, TypesUnserved DEF AuthTypeOK, Reload

LEMMA TypesCall ==
    ASSUME AuthInv, NEW t \in Tabs,
           \/ \E c \in AllCalls : Ask(t, c) \/ Answered(t, c) \/ Unauthorized(t, c)
           \/ LoggedOut(t) \/ LogoutLost(t)
    PROVE  AuthTypeOK'
<1> USE DEF AuthInv, server
<1>1. UNCHANGED rows
  BY DEF Ask, Answered, Unauthorized, LoggedOut, LogoutLost, SignedOut
<1>2. home[t] \in Browsers /\ Jar(t) \in Token /\ "logout" \in AllCalls /\ 0 \in Token
  BY TypeFacts, TokenFacts
<1>3. call' \in [Tabs -> [AllCalls -> Call]]
  <2>1. CASE LoggedOut(t) \/ LogoutLost(t)
    <3>1. call' = [call EXCEPT ![t]["logout"] = Quiet] /\ Quiet \in Call
      BY <1>1, <2>1, TypesUnserved DEF LoggedOut, LogoutLost, SignedOut
    <3>2. QED
      BY <1>2, <3>1 DEF AuthTypeOK
  <2>2. ASSUME NEW c \in AllCalls, Ask(t, c)
        PROVE  call' \in [Tabs -> [AllCalls -> Call]]
    <3>1. \A g \in BOOLEAN, n \in Token : [at |-> "sent", good |-> g, token |-> n] \in Call
      BY <1>1, TypesUnserved
    <3>2. [at |-> "sent", good |-> access[t] = "good", token |-> IF c = "logout" THEN Jar(t) ELSE 0] \in Call
      BY <1>2, <3>1
    <3>3. QED
      BY <2>2, <3>2 DEF Ask, AuthTypeOK
  <2>3. ASSUME NEW c \in AllCalls, Answered(t, c)
        PROVE  call' \in [Tabs -> [AllCalls -> Call]]
    BY <1>1, <2>3, TypesUnserved DEF Answered, AuthTypeOK
  <2>4. ASSUME NEW c \in AllCalls, Unauthorized(t, c)
        PROVE  call' \in [Tabs -> [AllCalls -> Call]]
    <3>1. [Quiet EXCEPT !.at = "waiting"] \in Call
      BY <1>2 DEF Call, Quiet
    <3>2. QED
      BY <2>4, <3>1 DEF Unauthorized, AuthTypeOK
  <2>5. QED
    BY <2>1, <2>2, <2>3, <2>4
<1>4. flow' \in [Tabs -> [Kinds -> Exchange]]
  <2>1. Asks(t) \in Exchange
    BY <1>1, <1>2, TypesUnserved DEF Asks
  <2>2. flow' = flow \/ flow' = [flow EXCEPT ![t]["refresh"] = Asks(t)]
    BY DEF Ask, Answered, Unauthorized, LoggedOut, LogoutLost, SignedOut, Join
  <2>3. flow \in [Tabs -> [Kinds -> Exchange]] /\ "refresh" \in Kinds
    BY DEF AuthTypeOK, Kinds
  <2> HIDE DEF AuthInv
  <2>4. QED
    BY <2>1, <2>2, <2>3
<1>5. jar' \in [Browsers -> Token]
  BY <1>2 DEF Ask, Answered, Unauthorized, LoggedOut, LogoutLost, AuthTypeOK
<1>6. /\ page' \in [Tabs -> {"loading", "anonymous", "authenticated"}]
      /\ access' \in [Tabs -> {"none", "good", "expired"}]
  BY DEF Ask, Answered, Unauthorized, LoggedOut, LogoutLost, SignedOut, AuthTypeOK
<1>7. upset' \subseteq {"lost", "tabs", "logout", "early", "again"}
  BY DEF Ask, Answered, Unauthorized, LoggedOut, LogoutLost, AuthTypeOK, Overlap
<1>8. UNCHANGED <<home, form, ghost, reloads, reused>>
  BY DEF Ask, Answered, Unauthorized, LoggedOut, LogoutLost, SignedOut
<1>9. QED
  BY <1>1, <1>3, <1>4, <1>5, <1>6, <1>7, <1>8, TypesUnserved DEF AuthTypeOK

LEMMA TypesRefresh ==
    ASSUME AuthInv, NEW t \in Tabs, Refreshed(t) \/ RefreshRefused(t) \/ RefreshLost(t)
    PROVE  AuthTypeOK'
<1> USE DEF AuthInv, server
<1> DEFINE e == flow[t]["refresh"]
<1>1. UNCHANGED rows
  BY DEF Refreshed, RefreshRefused, RefreshLost
<1>2. home[t] \in Browsers /\ e \in Exchange /\ e.token \in Token /\ 0 \in Token
  BY TypeFacts, TokenFacts, RecordFacts DEF Kinds
<1>3. call' \in [Tabs -> [AllCalls -> Call]]
  <2>1. \A c \in AllCalls : call[t][c] \in Call
    BY TypeFacts
  <2>2. CASE Refreshed(t)
    <3> DEFINE r(c) == [at |-> "resent", good |-> TRUE, token |-> IF c = "logout" THEN e.token ELSE 0]
               F == [c \in AllCalls |-> IF c \notin Waiting(t) THEN call[t][c] ELSE r(c)]
    <3>1. \A c : r(c) \in Call
      BY <1>1, <1>2, TypesUnserved
    <3>2. call' = [call EXCEPT ![t] = F]
      BY <2>2 DEF Refreshed
    <3> HIDE DEF r
    <3>3. F \in [AllCalls -> Call]
      BY <2>1, <3>1
    <3> HIDE DEF F
    <3>4. QED
      BY <3>2, <3>3 DEF AuthTypeOK
  <2>3. CASE ~Refreshed(t)
    <3> DEFINE F == [c \in AllCalls |-> IF c \in Waiting(t) THEN Quiet ELSE call[t][c]]
    <3>1. call' = [call EXCEPT ![t] = F]
      BY <2>3 DEF RefreshRefused, RefreshLost, SessionExpired
    <3>2. F \in [AllCalls -> Call]
      BY <1>1, <2>1, TypesUnserved
    <3> HIDE DEF F
    <3>3. QED
      BY <3>1, <3>2 DEF AuthTypeOK
  <2>4. QED
    BY <2>2, <2>3
<1>4. flow' \in [Tabs -> [Kinds -> Exchange]]
  <2>1. flow' = [flow EXCEPT ![t]["refresh"] = Idle]
    BY DEF Refreshed, RefreshRefused, RefreshLost, SessionExpired
  <2>2. Idle \in Exchange
    BY <1>1, TypesUnserved
  <2>3. QED
    BY <2>1, <2>2 DEF AuthTypeOK, Kinds
<1>5. jar' \in [Browsers -> Token]
  <2>1. jar' = jar \/ jar' = [jar EXCEPT ![home[t]] = e.token]
    BY DEF Refreshed, RefreshRefused, RefreshLost, SessionExpired, CookieSet
  <2>2. QED
    BY <1>2, <2>1 DEF AuthTypeOK
<1>6. /\ page' \in [Tabs -> {"loading", "anonymous", "authenticated"}]
      /\ access' \in [Tabs -> {"none", "good", "expired"}]
  BY DEF Refreshed, RefreshRefused, RefreshLost, SessionExpired, AuthTypeOK
<1>7. upset' \subseteq {"lost", "tabs", "logout", "early", "again"}
  BY DEF Refreshed, RefreshRefused, RefreshLost, AuthTypeOK
<1>8. ghost' \in Exchange
  BY <1>1, <1>2, TypesUnserved DEF Refreshed, RefreshRefused, RefreshLost, AuthTypeOK
<1>9. UNCHANGED <<home, form, reloads, reused>>
  BY DEF Refreshed, RefreshRefused, RefreshLost, SessionExpired
<1>10. QED
  BY <1>1, <1>3, <1>4, <1>5, <1>6, <1>7, <1>8, <1>9, TypesUnserved DEF AuthTypeOK

-----------------------------------------------------------------------------
(* What a step does, place by place: to the cookies, the exchanges, the     *)
(* forms and the calls.                                                     *)

JarStays == \A b \in Browsers : jar'[b] = jar[b]
JarSet(t, n) == \A b \in Browsers : jar'[b] = IF b = home[t] THEN n ELSE jar[b]
FlowStays == \A u \in Tabs, x \in Kinds : flow'[u][x] = flow[u][x]
FlowSet(t, k, e) ==
    \A u \in Tabs, x \in Kinds : flow'[u][x] = IF u = t /\ x = k THEN e ELSE flow[u][x]
FormStays == \A u \in Tabs : form'[u] = form[u]
FormSet(t, e) == \A u \in Tabs : form'[u] = IF u = t THEN e ELSE form[u]
CallStays == \A u \in Tabs, c \in AllCalls : call'[u][c] = call[u][c]
CallSet(t, c, e) ==
    \A u \in Tabs, d \in AllCalls : call'[u][d] = IF u = t /\ d = c THEN e ELSE call[u][d]
PageStays == \A u \in Tabs : page'[u] = page[u]
PageSet(t, p) == \A u \in Tabs : page'[u] = IF u = t THEN p ELSE page[u]

LEMMA FlowSets ==
    ASSUME AuthTypeOK, NEW t \in Tabs, NEW k \in Kinds, NEW e, flow' = [flow EXCEPT ![t][k] = e]
    PROVE  FlowSet(t, k, e)
  BY DEF AuthTypeOK, FlowSet

LEMMA CallSets ==
    ASSUME AuthTypeOK, NEW t \in Tabs, NEW c \in AllCalls, NEW e, call' = [call EXCEPT ![t][c] = e]
    PROVE  CallSet(t, c, e)
  BY DEF AuthTypeOK, CallSet

LEMMA OtherSets ==
    ASSUME AuthTypeOK, NEW t \in Tabs, NEW e
    PROVE  /\ jar' = [jar EXCEPT ![home[t]] = e] => JarSet(t, e)
           /\ form' = [form EXCEPT ![t] = e] => FormSet(t, e)
           /\ page' = [page EXCEPT ![t] = e] => PageSet(t, e)
           /\ jar' = jar => JarStays
           /\ flow' = flow => FlowStays
           /\ form' = form => FormStays
           /\ call' = call => CallStays
           /\ page' = page => PageStays
  BY DEF AuthTypeOK, JarSet, FormSet, PageSet, JarStays, FlowStays, FormStays, CallStays, PageStays

LEMMA ServeRefreshSets ==
    ASSUME AuthInv, NEW t \in Tabs, NEW k \in Kinds, ServeRefresh(t, k)
    PROVE  /\ FlowSet(t, k, Reply(flow[t][k]))
           /\ JarStays /\ FormStays /\ CallStays /\ PageStays
           /\ home' = home /\ upset' = upset /\ ghost' = ghost
  BY FlowSets, OtherSets DEF AuthInv, ServeRefresh

LEMMA ServeGhostSets ==
    ASSUME AuthInv, ServeGhost
    PROVE  /\ FlowStays /\ JarStays /\ FormStays /\ CallStays /\ PageStays
           /\ home' = home /\ upset' = upset
  BY DEF AuthInv, ServeGhost, AuthTypeOK, JarStays, FlowStays, FormStays, CallStays, PageStays

LEMMA SignInSets ==
    ASSUME AuthInv, NEW t \in Tabs, SignIn(t)
    PROVE  /\ FormSet(t, [at |-> "answered", token |-> Len(rows) + 1])
           /\ JarStays /\ FlowStays /\ CallStays /\ PageStays
           /\ home' = home /\ upset' = upset /\ ghost' = ghost /\ reused' = reused
  BY OtherSets DEF AuthInv, SignIn

LEMMA RefuseSignInSets ==
    ASSUME AuthInv, NEW t \in Tabs, RefuseSignIn(t)
    PROVE  /\ FormSet(t, Idle)
           /\ JarStays /\ FlowStays /\ CallStays /\ PageStays
           /\ home' = home /\ upset' = upset /\ ghost' = ghost /\ reused' = reused /\ rows' = rows
  BY OtherSets DEF AuthInv, RefuseSignIn, server

LEMMA LogoutSets ==
    ASSUME AuthInv, NEW t \in Tabs, Logout(t)
    PROVE  /\ CallSet(t, "logout", [Out(t) EXCEPT !.at = "served"])
           /\ JarStays /\ FlowStays /\ FormStays /\ PageStays
           /\ home' = home /\ upset' = upset /\ ghost' = ghost /\ reused' = reused
<1>1. call' = [call EXCEPT ![t]["logout"] = [Out(t) EXCEPT !.at = "served"]]
  BY DEF Logout, Out
<1>2. CallSet(t, "logout", [Out(t) EXCEPT !.at = "served"])
  BY <1>1, CallSets, TypeFacts DEF AuthInv
<1>3. QED
  BY <1>2, OtherSets DEF AuthInv, Logout

LEMMA RestoreEndsSets ==
    ASSUME AuthInv, NEW t \in Tabs, RestoreEnds(t)
    PROVE  /\ FlowSet(t, "restore", Idle) /\ JarSet(t, flow[t]["restore"].token)
           /\ PageSet(t, "authenticated") /\ FormStays /\ CallStays
           /\ home' = home /\ upset' = upset /\ ghost' = ghost /\ reused' = reused /\ rows' = rows
  BY FlowSets, OtherSets DEF AuthInv, RestoreEnds, server, Kinds

LEMMA RestoreRefusedSets ==
    ASSUME AuthInv, NEW t \in Tabs, RestoreRefused(t)
    PROVE  /\ FlowSet(t, "restore", Idle) /\ JarStays
           /\ PageSet(t, "anonymous") /\ FormStays /\ CallStays
           /\ home' = home /\ upset' = upset /\ ghost' = ghost /\ reused' = reused /\ rows' = rows
  BY FlowSets, OtherSets DEF AuthInv, RestoreRefused, RestoreFails, server, Kinds

LEMMA RestoreLostSets ==
    ASSUME AuthInv, NEW t \in Tabs, RestoreLost(t)
    PROVE  /\ FlowSet(t, "restore", Idle)
           /\ JarStays \/ (flow[t]["restore"].at = "answered" /\ JarSet(t, flow[t]["restore"].token))
           /\ PageSet(t, "anonymous") /\ FormStays /\ CallStays
           /\ home' = home /\ "lost" \in upset' /\ reused' = reused /\ rows' = rows
           /\ ghost' = Idle \/ (ghost' = flow[t]["restore"] /\ ghost'.at \in {"asked", "found"})
<1>1. FlowSet(t, "restore", Idle)
  BY FlowSets DEF AuthInv, RestoreLost, RestoreFails, Kinds
<1>2. JarStays \/ (flow[t]["restore"].at = "answered" /\ JarSet(t, flow[t]["restore"].token))
  <2>1. \/ jar' = jar
        \/ flow[t]["restore"].at = "answered" /\ jar' = [jar EXCEPT ![home[t]] = flow[t]["restore"].token]
    BY DEF RestoreLost
  <2>2. QED
    BY <2>1, OtherSets DEF AuthInv
<1>3. PageSet(t, "anonymous") /\ FormStays /\ CallStays
  BY OtherSets DEF AuthInv, RestoreLost, RestoreFails
<1>4. ghost' = Idle \/ (ghost' = flow[t]["restore"] /\ ghost'.at \in {"asked", "found"})
  BY DEF RestoreLost
<1>5. home' = home /\ "lost" \in upset' /\ reused' = reused /\ rows' = rows
  BY DEF RestoreLost
<1>6. QED
  BY <1>1, <1>2, <1>3, <1>4, <1>5

LEMMA SignedInSets ==
    ASSUME AuthInv, NEW t \in Tabs, SignedIn(t)
    PROVE  /\ JarSet(t, form[t].token) /\ PageSet(t, "authenticated") /\ FormSet(t, Idle)
           /\ FlowStays /\ CallStays
           /\ home' = home /\ upset' = upset /\ ghost' = ghost /\ reused' = reused /\ rows' = rows
  BY OtherSets DEF AuthInv, SignedIn, server

LEMMA SubmitSets ==
    ASSUME AuthInv, NEW t \in Tabs, Submit(t)
    PROVE  /\ FormSet(t, [form[t] EXCEPT !.at = "asked"])
           /\ JarStays /\ FlowStays /\ CallStays /\ PageStays
           /\ home' = home /\ ghost' = ghost /\ reused' = reused /\ rows' = rows
<1>1. form' = [form EXCEPT ![t] = [form[t] EXCEPT !.at = "asked"]]
  BY DEF Submit
<1>2. FormSet(t, [form[t] EXCEPT !.at = "asked"])
  BY <1>1, OtherSets DEF AuthInv
<1>3. QED
  BY <1>2, OtherSets DEF AuthInv, Submit, server

\* A sign-in that upsets nothing meets no exchange, no logout and no session.
LEMMA SubmitIsCalm ==
    ASSUME NEW t \in Tabs, Submit(t)
    PROVE  /\ upset' = {} => ~Exchanging(t) /\ page[t] # "authenticated"
           /\ "logout" \notin upset' => \A u \in Siblings(t) \cup {t} : ~LoggingOut(u)
<1>1. upset' = upset \cup Clash(t)
  BY DEF Submit
<1>2. /\ Exchanging(t) => "early" \in Clash(t)
      /\ page[t] = "authenticated" => "again" \in Clash(t)
      /\ (\E u \in Siblings(t) \cup {t} : LoggingOut(u)) => "logout" \in Clash(t)
  BY DEF Clash
<1>3. QED
  BY <1>1, <1>2

LEMMA ReloadSets ==
    ASSUME AuthInv, NEW t \in Tabs, Reload(t)
    PROVE  /\ \A u \in Tabs, x \in Kinds :
                 flow'[u][x] = IF u # t THEN flow[u][x] ELSE IF x = "restore" THEN Asks(t) ELSE Idle
           /\ PageSet(t, "loading") /\ JarStays /\ FormStays /\ CallStays
           /\ home' = home /\ reused' = reused /\ rows' = rows
  BY OtherSets DEF AuthInv, Reload, AuthTypeOK, Restoring, Kinds

\* the call that Ask sends
Sent(t, c) == [at |-> "sent", good |-> access[t] = "good",
               token |-> IF c = "logout" THEN Jar(t) ELSE 0]

LEMMA AskSets ==
    ASSUME AuthInv, NEW t \in Tabs, NEW c \in AllCalls, Ask(t, c)
    PROVE  /\ CallSet(t, c, Sent(t, c))
           /\ JarStays /\ FlowStays /\ FormStays /\ PageStays
           /\ home' = home /\ ghost' = ghost /\ reused' = reused /\ rows' = rows
<1>1. call' = [call EXCEPT ![t][c] = Sent(t, c)]
  BY DEF Ask, Sent
<1>2. QED
  BY <1>1, CallSets, OtherSets DEF AuthInv, Ask, server

LEMMA AnsweredSets ==
    ASSUME AuthInv, NEW t \in Tabs, NEW c \in AllCalls, Answered(t, c)
    PROVE  /\ CallSet(t, c, Quiet)
           /\ JarStays /\ FlowStays /\ FormStays /\ PageStays
           /\ home' = home /\ upset' = upset /\ ghost' = ghost /\ reused' = reused /\ rows' = rows
  BY CallSets, OtherSets DEF AuthInv, Answered, server

LEMMA UnauthorizedSets ==
    ASSUME AuthInv, NEW t \in Tabs, NEW c \in AllCalls, Unauthorized(t, c)
    PROVE  /\ CallSet(t, c, [Quiet EXCEPT !.at = "waiting"])
           /\ IF flow[t]["refresh"].at # "idle" THEN FlowStays ELSE FlowSet(t, "refresh", Asks(t))
           /\ JarStays /\ FormStays /\ PageStays
           /\ home' = home /\ ghost' = ghost /\ reused' = reused /\ rows' = rows
  BY CallSets, FlowSets, OtherSets DEF AuthInv, Unauthorized, Join, server, Kinds

LEMMA RefreshedSets ==
    ASSUME AuthInv, NEW t \in Tabs, Refreshed(t)
    PROVE  /\ FlowSet(t, "refresh", Idle) /\ JarSet(t, flow[t]["refresh"].token)
           /\ \A u \in Tabs, d \in AllCalls : ~(u = t /\ d \in Waiting(t)) => call'[u][d] = call[u][d]
           /\ \A d \in Waiting(t) : /\ call'[t][d].at = "resent" /\ call'[t][d].good
                                    /\ d = "logout" => call'[t][d].token = flow[t]["refresh"].token
           /\ FormStays /\ PageStays
           /\ home' = home /\ ghost' = ghost /\ reused' = reused /\ rows' = rows
<1>1. FlowSet(t, "refresh", Idle) /\ JarSet(t, flow[t]["refresh"].token) /\ FormStays /\ PageStays
  BY FlowSets, OtherSets DEF AuthInv, Refreshed, CookieSet, server, Kinds
<1>2. /\ \A u \in Tabs, d \in AllCalls : ~(u = t /\ d \in Waiting(t)) => call'[u][d] = call[u][d]
      /\ \A d \in Waiting(t) : /\ call'[t][d].at = "resent" /\ call'[t][d].good
                               /\ d = "logout" => call'[t][d].token = flow[t]["refresh"].token
  <2> DEFINE r(d) == [at |-> "resent", good |-> TRUE,
                      token |-> IF d = "logout" THEN flow[t]["refresh"].token ELSE 0]
             F == [c \in AllCalls |-> IF c \notin Waiting(t) THEN call[t][c] ELSE r(c)]
  <2>1. call' = [call EXCEPT ![t] = F]
    BY DEF Refreshed
  <2> HIDE DEF r
  <2>2. \A u \in Tabs, d \in AllCalls :
           call'[u][d] = IF u = t /\ d \in Waiting(t) THEN r(d) ELSE call[u][d]
    BY <2>1 DEF AuthInv, AuthTypeOK
  <2>3. \A d \in Waiting(t) : d \in AllCalls /\ call'[t][d] = r(d)
    BY <2>2 DEF Waiting
  <2>4. \A d : /\ r(d).at = "resent" /\ r(d).good
               /\ d = "logout" => r(d).token = flow[t]["refresh"].token
    BY DEF r
  <2>5. QED
    BY <2>2, <2>3, <2>4
<1>3. home' = home /\ ghost' = ghost /\ reused' = reused /\ rows' = rows
  BY DEF Refreshed, server
<1>4. QED
  BY <1>1, <1>2, <1>3

LEMMA SessionExpiredSets ==
    ASSUME AuthInv, NEW t \in Tabs, SessionExpired(t)
    PROVE  /\ FlowSet(t, "refresh", Idle) /\ PageSet(t, "anonymous") /\ JarStays /\ FormStays
           /\ \A u \in Tabs, d \in AllCalls :
                 call'[u][d] = IF u = t /\ d \in Waiting(t) THEN Quiet ELSE call[u][d]
           /\ home' = home
<1>1. FlowSet(t, "refresh", Idle) /\ PageSet(t, "anonymous") /\ JarStays /\ FormStays
  BY FlowSets, OtherSets DEF AuthInv, SessionExpired, Kinds
<1>2. \A u \in Tabs, d \in AllCalls :
         call'[u][d] = IF u = t /\ d \in Waiting(t) THEN Quiet ELSE call[u][d]
  BY DEF SessionExpired, AuthInv, AuthTypeOK
<1>3. QED
  BY <1>1, <1>2 DEF SessionExpired

LEMMA AccessExpiresSets ==
    ASSUME AuthInv, NEW t \in Tabs, AccessExpires(t)
    PROVE  /\ FlowStays /\ JarStays /\ FormStays /\ CallStays /\ PageStays
           /\ home' = home /\ upset' = upset /\ ghost' = ghost /\ reused' = reused /\ rows' = rows
  BY OtherSets DEF AuthInv, AccessExpires, server

LEMMA RefreshRefusedSets ==
    ASSUME AuthInv, NEW t \in Tabs, RefreshRefused(t)
    PROVE  SessionExpired(t) /\ upset' = upset /\ ghost' = ghost /\ reused' = reused /\ rows' = rows
  BY DEF RefreshRefused, server

LEMMA RefreshLostSets ==
    ASSUME AuthInv, NEW t \in Tabs, RefreshLost(t)
    PROVE  /\ SessionExpired(t) /\ "lost" \in upset' /\ reused' = reused /\ rows' = rows
           /\ ghost' = Idle \/ (ghost' = flow[t]["refresh"] /\ ghost'.at \in {"asked", "found"})
  BY DEF RefreshLost

LEMMA SignedOutSets ==
    ASSUME AuthInv, NEW t \in Tabs, SignedOut(t)
    PROVE  /\ CallSet(t, "logout", Quiet) /\ PageSet(t, "anonymous") /\ FlowStays /\ FormStays
           /\ home' = home /\ ghost' = ghost /\ reused' = reused /\ rows' = rows
  BY CallSets, OtherSets, TypeFacts DEF AuthInv, SignedOut, server

LEMMA LoggedOutSets ==
    ASSUME AuthInv, NEW t \in Tabs, LoggedOut(t)
    PROVE  SignedOut(t) /\ upset' = upset /\ JarSet(t, 0)
  BY OtherSets DEF AuthInv, LoggedOut

LEMMA LogoutLostSets ==
    ASSUME AuthInv, NEW t \in Tabs, LogoutLost(t)
    PROVE  SignedOut(t) /\ "lost" \in upset' /\ JarStays
  BY OtherSets DEF AuthInv, LogoutLost

-----------------------------------------------------------------------------
(* What holds whatever upsets the protocol.                                 *)

LEMMA ReplyFacts ==
    ASSUME NEW e \in Exchange, RefreshHandler(e)
    PROVE  /\ Reply(e).at \in {"found", "answered", "refused"}
           /\ Reply(e).at = "found" => e.at = "asked" /\ Reply(e).token = e.token /\ Live(e.token) /\ rows' = rows
           /\ Reply(e).at = "answered" => e.at = "found" /\ Reply(e).token = Len(rows) + 1
                                          /\ rows' = Rotate(e.token)
           /\ Reply(e).at = "refused" => e.at = "asked" /\ Reply(e).token = 0
           /\ e.at \in {"asked", "found"}
<1>1. e.at \in {"asked", "found"}
  BY DEF RefreshHandler
<1>2. CASE e.at = "found"
  BY <1>2 DEF RefreshHandler, Reply
<1>3. CASE e.at = "asked" /\ Live(e.token)
  <2>1. Reply(e) = [e EXCEPT !.at = "found"] /\ rows' = rows
    BY <1>3 DEF RefreshHandler, Reply, Live
  <2>2. QED
    BY <1>3, <2>1
<1>4. CASE e.at = "asked" /\ ~Live(e.token)
  BY <1>4 DEF RefreshHandler, Reply
<1>5. QED
  BY <1>1, <1>2, <1>3, <1>4

LEMMA ShapesStep ==
    ASSUME AuthInv, Next
    PROVE  Shapes'
<1> USE DEF AuthInv, Shapes, Out, FlowStays, FlowSet, FormStays, FormSet, CallStays, CallSet
<1>0. /\ ExchangeShape(Idle) /\ FormShape(Idle) /\ LogoutShape(Quiet) /\ "logout" \in AllCalls
      /\ "restore" \in Kinds /\ "refresh" \in Kinds
  BY DEF ExchangeShape, FormShape, LogoutShape, Idle, Quiet, AllCalls, Kinds
<1>1. ASSUME NEW t \in Tabs, NEW k \in Kinds, ServeRefresh(t, k)
     PROVE  Shapes'
  <2>1. flow[t][k] \in Exchange
    BY TypeFacts
  <2>2. ExchangeShape(Reply(flow[t][k]))
    BY <1>1, <2>1, ReplyFacts, TokenFacts DEF ServeRefresh, Live, ExchangeShape
  <2>3. QED
    BY <1>0, <1>1, <2>2, ServeRefreshSets
<1>2. ASSUME ServeGhost
     PROVE  Shapes'
  <2>1. ghost \in Exchange
    BY DEF AuthTypeOK
  <2>2. ghost'.at = "found" => ghost'.token # 0
    BY <1>2, <2>1, ReplyFacts DEF ServeGhost, Live, Idle
  <2>3. QED
    BY <1>0, <1>2, <2>2, ServeGhostSets
<1>3. ASSUME NEW t \in Tabs, SignIn(t)
     PROVE  Shapes'
  <2>1. FormShape([at |-> "answered", token |-> Len(rows) + 1])
    BY TokenFacts DEF FormShape
  <2>2. QED
    BY <1>0, <1>3, <2>1, SignInSets
<1>4. ASSUME NEW t \in Tabs, RefuseSignIn(t)
     PROVE  Shapes'
  BY <1>0, <1>4, RefuseSignInSets
<1>5. ASSUME NEW t \in Tabs, Logout(t)
     PROVE  Shapes'
  <2>1. Out(t) \in Call
    BY TypeFacts
  <2>2. LogoutShape([Out(t) EXCEPT !.at = "served"])
    BY <1>5, <2>1 DEF LogoutShape, Logout, Call
  <2>3. QED
    BY <1>0, <1>5, <2>2, LogoutSets
<1>6. ASSUME NEW t \in Tabs, RestoreEnds(t)
     PROVE  Shapes'
  BY <1>0, <1>6, RestoreEndsSets
<1>7. ASSUME NEW t \in Tabs, RestoreRefused(t)
     PROVE  Shapes'
  BY <1>0, <1>7, RestoreRefusedSets
<1>8. ASSUME NEW t \in Tabs, RestoreLost(t)
     PROVE  Shapes'
  <2>1. ghost'.at = "found" => ghost'.token # 0
    BY <1>0, <1>8, RestoreLostSets DEF Idle, ExchangeShape
  <2>2. QED
    BY <1>0, <1>8, <2>1, RestoreLostSets
<1>9. ASSUME NEW t \in Tabs, SignedIn(t)
     PROVE  Shapes'
  BY <1>0, <1>9, SignedInSets
<1>10. ASSUME NEW t \in Tabs, Submit(t)
     PROVE  Shapes'
  <2>1. form[t] \in Form
    BY TypeFacts
  <2>2. FormShape([form[t] EXCEPT !.at = "asked"])
    BY <1>10, <2>1 DEF FormShape, Form, Submit
  <2>3. QED
    BY <1>0, <1>10, <2>2, SubmitSets
<1>11. ASSUME NEW t \in Tabs, AccessExpires(t)
     PROVE  Shapes'
  BY <1>0, <1>11, AccessExpiresSets
<1>12. ASSUME NEW t \in Tabs, Reload(t)
     PROVE  Shapes'
  <2>1. ExchangeShape(Asks(t))
    BY DEF ExchangeShape, Asks
  <2>2. ghost'.at = "found" => ghost'.token # 0
    <3> DEFINE g == {e \in Abandoned(t) : e.at # "answered"}
    <3>1. ghost' = IF g = {} THEN ghost ELSE CHOOSE e \in g : TRUE
      BY <1>12 DEF Reload
    <3>2. \A e \in g : ExchangeShape(e)
      BY DEF Abandoned
    <3> HIDE DEF g
    <3>3. g # {} => (CHOOSE e \in g : TRUE) \in g
      OBVIOUS
    <3>4. QED
      BY <3>1, <3>2, <3>3 DEF ExchangeShape
  <2>3. QED
    BY <1>0, <1>12, <2>1, <2>2, ReloadSets
<1>13. ASSUME NEW t \in Tabs, NEW c \in AllCalls, Ask(t, c)
     PROVE  Shapes'
  <2>1. LogoutShape(Sent(t, c))
    BY DEF LogoutShape, Sent
  <2>2. QED
    BY <1>0, <1>13, <2>1, AskSets
<1>14. ASSUME NEW t \in Tabs, NEW c \in AllCalls, Answered(t, c)
     PROVE  Shapes'
  BY <1>0, <1>14, AnsweredSets
<1>15. ASSUME NEW t \in Tabs, NEW c \in AllCalls, Unauthorized(t, c)
     PROVE  Shapes'
  <2>1. LogoutShape([Quiet EXCEPT !.at = "waiting"]) /\ ExchangeShape(Asks(t))
    BY DEF LogoutShape, Quiet, ExchangeShape, Asks
  <2>2. QED
    BY <1>0, <1>15, <2>1, UnauthorizedSets
<1>16. ASSUME NEW t \in Tabs, Refreshed(t)
     PROVE  Shapes'
  <2>1. \A u \in Tabs : LogoutShape(Out(u)')
    <3>1. CASE "logout" \in Waiting(t)
      BY <1>0, <1>16, <3>1, RefreshedSets DEF LogoutShape
    <3>2. CASE "logout" \notin Waiting(t)
      BY <1>0, <1>16, <3>2, RefreshedSets
    <3>3. QED
      BY <3>1, <3>2
  <2>2. QED
    BY <1>0, <1>16, <2>1, RefreshedSets
<1>17. ASSUME NEW t \in Tabs, RefreshRefused(t)
     PROVE  Shapes'
  BY <1>0, <1>17, RefreshRefusedSets, SessionExpiredSets
<1>18. ASSUME NEW t \in Tabs, RefreshLost(t)
     PROVE  Shapes'
  <2>1. ghost'.at = "found" => ghost'.token # 0
    BY <1>0, <1>18, RefreshLostSets DEF Idle, ExchangeShape
  <2>2. QED
    BY <1>0, <1>18, <2>1, RefreshLostSets, SessionExpiredSets
<1>19. ASSUME NEW t \in Tabs, LoggedOut(t)
     PROVE  Shapes'
  BY <1>0, <1>19, LoggedOutSets, SignedOutSets
<1>20. ASSUME NEW t \in Tabs, LogoutLost(t)
     PROVE  Shapes'
  BY <1>0, <1>20, LogoutLostSets, SignedOutSets
<1>21. QED
  BY <1>1, <1>2, <1>3, <1>4, <1>5, <1>6, <1>7, <1>8, <1>9, <1>10, <1>11, <1>12, <1>13, <1>14, <1>15, <1>16, <1>17, <1>18, <1>19, <1>20
     DEF Next, ServerNext, TabNext, UserNext, FaultNext

LEMMA JarFacts ==
    ASSUME AuthTypeOK, home' = home
    PROVE  /\ JarStays => \A u \in Tabs : Jar(u)' = Jar(u)
           /\ \A t \in Tabs : \A n : JarSet(t, n) =>
                 \A u \in Tabs : Jar(u)' = IF home[u] = home[t] THEN n ELSE Jar(u)
           /\ \A u \in Tabs : Siblings(u)' = Siblings(u)
           /\ \A t, u \in Tabs : home[u] = home[t] /\ Siblings(u) = {} => u = t
  BY DEF AuthTypeOK, JarStays, JarSet, Jar, Siblings

LEMMA CookieStep ==
    ASSUME AuthInv, Next
    PROVE  SignedInHasCookie'
<1> USE JarFacts DEF AuthInv, SignedInHasCookie, PageSet, PageStays
<1>1. ASSUME home' = home, JarStays, PageStays \/ \E t \in Tabs, p \in {"loading", "anonymous"} : PageSet(t, p)
      PROVE  SignedInHasCookie'
  BY <1>1
<1>2. ASSUME home' = home, NEW t \in Tabs, NEW n, n # 0, JarSet(t, n),
             PageStays \/ \E p \in {"authenticated", "anonymous"} : PageSet(t, p)
      PROVE  SignedInHasCookie'
  BY <1>2
<1>3. ASSUME home' = home, NEW t \in Tabs, JarSet(t, 0), PageSet(t, "anonymous")
      PROVE  SignedInHasCookie'
  BY <1>3
<1> HIDE JarFacts DEF SignedInHasCookie, PageSet, PageStays
<1>4. ASSUME NEW t \in Tabs, ServerNext(t)
      PROVE  SignedInHasCookie'
  BY <1>1, <1>4, ServeRefreshSets, SignInSets, RefuseSignInSets, LogoutSets DEF ServerNext
<1>5. ASSUME NEW t \in Tabs, UserNext(t)
      PROVE  SignedInHasCookie'
  BY <1>1, <1>5, ReloadSets, SubmitSets, AccessExpiresSets, AskSets DEF UserNext
<1>6. ASSUME NEW t \in Tabs, TabNext(t)
      PROVE  SignedInHasCookie'
  <2>1. CASE RestoreEnds(t)
    <3>1. flow[t]["restore"].token # 0
      BY <2>1 DEF RestoreEnds, Shapes, ExchangeShape, Kinds
    <3>2. QED
      BY <1>2, <2>1, <3>1, RestoreEndsSets
  <2>2. CASE Refreshed(t)
    <3>1. flow[t]["refresh"].token # 0
      BY <2>2 DEF Refreshed, Shapes, ExchangeShape, Kinds
    <3>2. QED
      BY <1>2, <2>2, <3>1, RefreshedSets
  <2>3. CASE SignedIn(t)
    <3>1. form[t].token # 0
      BY <2>3 DEF SignedIn, Shapes, FormShape
    <3>2. QED
      BY <1>2, <2>3, <3>1, SignedInSets
  <2>4. CASE LoggedOut(t)
    BY <1>3, <2>4, LoggedOutSets, SignedOutSets
  <2>5. CASE RestoreRefused(t) \/ RefreshRefused(t)
    BY <1>1, <2>5, RestoreRefusedSets, RefreshRefusedSets, SessionExpiredSets
  <2>6. CASE \E c \in AllCalls : Answered(t, c) \/ Unauthorized(t, c)
    BY <1>1, <2>6, AnsweredSets, UnauthorizedSets
  <2>7. QED
    BY <1>6, <2>1, <2>2, <2>3, <2>4, <2>5, <2>6 DEF TabNext
<1>7. ASSUME NEW t \in Tabs, FaultNext(t)
      PROVE  SignedInHasCookie'
  <2>1. CASE RestoreLost(t)
    <3>1. flow[t]["restore"].at = "answered" => flow[t]["restore"].token # 0
      BY DEF Shapes, ExchangeShape, Kinds
    <3>2. QED
      BY <1>1, <1>2, <2>1, <3>1, RestoreLostSets
  <2>2. CASE RefreshLost(t) \/ LogoutLost(t)
    BY <1>1, <2>2, RefreshLostSets, SessionExpiredSets, LogoutLostSets, SignedOutSets
  <2>3. QED
    BY <1>7, <2>1, <2>2 DEF FaultNext
<1>8. CASE ServeGhost
  BY <1>1, <1>8, ServeGhostSets
<1>9. QED
  BY <1>4, <1>5, <1>6, <1>7, <1>8 DEF Next

\* What has been upset stays upset.
LEMMA UpsetGrows ==
    ASSUME Next
    PROVE  upset \subseteq upset'
<1>1. ASSUME NEW t \in Tabs, ServerNext(t)
      PROVE  upset \subseteq upset'
  BY <1>1 DEF ServerNext, ServeRefresh, SignIn, RefuseSignIn, Logout
<1>2. ASSUME NEW t \in Tabs, TabNext(t)
      PROVE  upset \subseteq upset'
  BY <1>2 DEF TabNext, RestoreEnds, RestoreRefused, Refreshed, RefreshRefused, SignedIn, LoggedOut,
              Answered, Unauthorized
<1>3. ASSUME NEW t \in Tabs, UserNext(t)
      PROVE  upset \subseteq upset'
  BY <1>3 DEF UserNext, Reload, Submit, AccessExpires, Ask
<1>4. ASSUME NEW t \in Tabs, FaultNext(t)
      PROVE  upset \subseteq upset'
  BY <1>4 DEF FaultNext, RestoreLost, RefreshLost, LogoutLost
<1>5. CASE ServeGhost
  BY <1>5 DEF ServeGhost
<1>6. QED
  BY <1>1, <1>2, <1>3, <1>4, <1>5 DEF Next

LEMMA OneExchangeStep ==
    ASSUME AuthInv, Next
    PROVE  OneExchange'
<1> USE UpsetGrows DEF AuthInv
<1> DEFINE Same(u) == /\ \A x \in Kinds : flow'[u][x].at = "idle" <=> flow[u][x].at = "idle"
                      /\ \A d \in AllCalls : /\ call'[u][d].at = "idle" <=> call[u][d].at = "idle"
                                             /\ call'[u][d].at = "waiting" <=> call[u][d].at = "waiting"
                      /\ page'[u] = page[u] /\ (form'[u].at # "idle" => form[u].at # "idle")
<1>1. ASSUME NEW u \in Tabs, Same(u)
      PROVE  ExchangesOne(u)'
  BY <1>1 DEF OneExchange, ExchangesOne, Waiting, Exchanging, Kinds
<1>2. SUFFICES ASSUME NEW u \in Tabs, ~Same(u)
               PROVE  ExchangesOne(u)'
  BY <1>1 DEF OneExchange
<1> HIDE DEF Same
<1> USE DEF FlowStays, FlowSet, CallStays, CallSet, FormStays, FormSet, PageStays, PageSet
<1>3. ASSUME NEW t \in Tabs, ServerNext(t)
      PROVE  Same(u)
  <2>1. ASSUME NEW k \in Kinds, ServeRefresh(t, k)
        PROVE  Same(u)
    <3>1. flow[t][k].at # "idle" /\ Reply(flow[t][k]).at # "idle"
      BY <2>1, ReplyFacts, TypeFacts DEF ServeRefresh
    <3>2. QED
      BY <2>1, <3>1, ServeRefreshSets DEF Same
  <2>2. CASE SignIn(t) \/ RefuseSignIn(t)
    BY <2>2, SignInSets, RefuseSignInSets DEF Same, SignIn, Idle
  <2>3. CASE Logout(t)
    <3> DEFINE e == [Out(t) EXCEPT !.at = "served"]
    <3>1. Out(t) \in Call
      BY TypeFacts DEF Out
    <3>2. e.at = "served" /\ Out(t).at \notin {"idle", "waiting"}
      BY <2>3, <3>1 DEF Call, Logout, Out
    <3>3. CallSet(t, "logout", e) /\ FlowStays /\ FormStays /\ PageStays
      BY <2>3, LogoutSets
    <3> HIDE DEF e
    <3>4. QED
      BY <3>2, <3>3 DEF Same, Out
  <2>4. QED
    BY <1>3, <2>1, <2>2, <2>3 DEF ServerNext
<1>4. ASSUME ServeGhost
      PROVE  Same(u)
  BY <1>4, ServeGhostSets DEF Same
<1>5. ASSUME NEW t \in Tabs, t # u, TabNext(t) \/ UserNext(t) \/ FaultNext(t)
      PROVE  Same(u)
  <2>1. ASSUME NEW c \in AllCalls, Ask(t, c) \/ Answered(t, c) \/ Unauthorized(t, c)
        PROVE  Same(u)
    <3>1. /\ \A d \in AllCalls : call'[u][d] = call[u][d]
          /\ \A x \in Kinds : flow'[u][x] = flow[u][x]
          /\ FormStays /\ PageStays
      <4>1. \A d \in AllCalls : call'[u][d] = call[u][d]
        BY <1>5, <2>1, AskSets, AnsweredSets, UnauthorizedSets
      <4>2. FormStays /\ PageStays /\ (FlowStays \/ FlowSet(t, "refresh", Asks(t)))
        BY <2>1, AskSets, AnsweredSets, UnauthorizedSets
      <4>3. QED
        BY <1>5, <4>1, <4>2
    <3>2. QED
      BY <3>1 DEF Same
  <2>2. CASE TabNext(t)
    <3>1. ASSUME \A c \in AllCalls : ~Answered(t, c) /\ ~Unauthorized(t, c)
          PROVE  /\ \A d \in AllCalls : call'[u][d] = call[u][d]
                 /\ \A x \in Kinds : flow'[u][x] = flow[u][x]
                 /\ form'[u] = form[u] /\ page'[u] = page[u]
      BY <1>5, <2>2, <3>1, RestoreEndsSets, RestoreRefusedSets, RefreshedSets, RefreshRefusedSets,
         SessionExpiredSets, SignedInSets, LoggedOutSets, SignedOutSets DEF TabNext
    <3>2. QED
      BY <2>1, <3>1 DEF Same
  <2>3. CASE UserNext(t)
    <3>1. ASSUME \A c \in AllCalls : ~Ask(t, c)
          PROVE  /\ \A d \in AllCalls : call'[u][d] = call[u][d]
                 /\ \A x \in Kinds : flow'[u][x] = flow[u][x]
                 /\ form'[u] = form[u] /\ page'[u] = page[u]
      <4>1. Reload(t) \/ Submit(t) \/ AccessExpires(t)
        BY <2>3, <3>1 DEF UserNext
      <4>2. CASE Reload(t)
        BY <1>5, <4>2, ReloadSets
      <4>3. CASE Submit(t)
        BY <1>5, <4>3, SubmitSets
      <4>4. CASE AccessExpires(t)
        BY <4>4, AccessExpiresSets
      <4>5. QED
        BY <4>1, <4>2, <4>3, <4>4
    <3>2. QED
      BY <2>1, <3>1 DEF Same
  <2>4. CASE FaultNext(t)
    BY <1>5, <2>4, RestoreLostSets, RefreshLostSets, SessionExpiredSets, LogoutLostSets, SignedOutSets
       DEF FaultNext, Same
  <2>5. QED
    BY <1>5, <2>2, <2>3, <2>4
<1> DEFINE old == ExchangesOne(u)
<1>6. old /\ "restore" \in Kinds /\ "refresh" \in Kinds /\ "logout" \in AllCalls
  BY DEF OneExchange, Kinds, AllCalls
<1> USE DEF ExchangesOne, Waiting, Exchanging
<1>7. ASSUME TabNext(u)
      PROVE  ExchangesOne(u)'
  <2>1. CASE RestoreEnds(u) \/ RestoreRefused(u)
    BY <1>6, <2>1, RestoreEndsSets, RestoreRefusedSets DEF Kinds, Idle, RestoreEnds, RestoreRefused
  <2>2. CASE Refreshed(u)
    <3>1. flow'[u]["refresh"].at = "idle" /\ flow'[u]["restore"] = flow[u]["restore"]
          /\ form'[u] = form[u] /\ page'[u] = page[u]
      BY <1>6, <2>2, RefreshedSets DEF Idle
    <3>2. \A d \in AllCalls : call'[u][d].at # "waiting" /\ (call'[u][d].at = "idle" <=> call[u][d].at = "idle")
      BY <2>2, RefreshedSets
    <3>3. QED
      BY <1>6, <3>1, <3>2 DEF Kinds
  <2>3. CASE RefreshRefused(u)
    BY <1>6, <2>3, RefreshRefusedSets, SessionExpiredSets DEF Kinds, Idle, Quiet
  <2>4. CASE SignedIn(u)
    BY <1>6, <2>4, SignedInSets DEF Kinds, Idle, SignedIn
  <2>5. CASE LoggedOut(u)
    BY <1>6, <2>5, LoggedOutSets, SignedOutSets DEF Kinds, Quiet, LoggedOut
  <2>6. ASSUME NEW c \in AllCalls, Answered(u, c)
        PROVE  ExchangesOne(u)'
    BY <1>6, <2>6, AnsweredSets DEF Kinds, Quiet, Answered
  <2>7. ASSUME NEW c \in AllCalls, Unauthorized(u, c)
        PROVE  ExchangesOne(u)'
    <3> DEFINE w == [Quiet EXCEPT !.at = "waiting"]
    <3>1. w.at = "waiting" /\ Asks(u).at = "asked"
      BY DEF Quiet, Asks
    <3>2. /\ CallSet(u, c, w) /\ FormStays /\ PageStays
          /\ IF flow[u]["refresh"].at # "idle" THEN FlowStays ELSE FlowSet(u, "refresh", Asks(u))
      BY <2>7, UnauthorizedSets
    <3> HIDE DEF w
    <3>3. call[u][c].at = "sent" /\ flow[u]["restore"].at = "idle"
      BY <1>6, <2>7 DEF Unauthorized
    <3>4. flow'[u]["restore"].at = "idle" /\ flow'[u]["refresh"].at # "idle"
      BY <1>6, <3>1, <3>2, <3>3
    <3>5. c \in Waiting(u)'
      BY <3>1, <3>2
    <3>6. upset' = {} /\ form'[u].at # "idle" => ~Exchanging(u)'
      <4>1. CASE flow[u]["refresh"].at # "idle"
        BY <1>6, <3>2, <4>1
      <4>2. CASE flow[u]["refresh"].at = "idle" /\ form[u].at # "idle"
        <5>1. "early" \in Overlap(u)
          BY <4>2 DEF Overlap
        <5>2. QED
          BY <2>7, <4>2, <5>1 DEF Unauthorized
      <4>3. QED
        BY <3>2, <4>1, <4>2
    <3>7. QED
      BY <3>4, <3>5, <3>6
  <2>8. QED
    BY <1>7, <2>1, <2>2, <2>3, <2>4, <2>5, <2>6, <2>7 DEF TabNext
<1>8. ASSUME UserNext(u)
      PROVE  ExchangesOne(u)'
  <2>1. CASE Reload(u)
    <3>0. form[u].at = "idle" /\ \A d \in AllCalls : call[u][d].at = "idle"
      BY <2>1 DEF Reload
    <3>1. /\ form'[u].at = "idle" /\ page'[u] = "loading"
          /\ \A d \in AllCalls : call'[u][d].at = "idle"
      BY <2>1, <3>0, ReloadSets
    <3>2. flow'[u]["refresh"].at = "idle"
      BY <1>6, <2>1, ReloadSets DEF Idle
    <3>3. QED
      BY <3>1, <3>2
  <2>2. CASE Submit(u)
    BY <1>6, <2>2, SubmitSets, SubmitIsCalm DEF Kinds, Submit
  <2>3. CASE AccessExpires(u)
    BY <1>6, <2>3, AccessExpiresSets DEF Kinds
  <2>4. ASSUME NEW c \in AllCalls, Ask(u, c)
        PROVE  ExchangesOne(u)'
    BY <1>6, <2>4, AskSets DEF Kinds, Ask
  <2>5. QED
    BY <1>8, <2>1, <2>2, <2>3, <2>4 DEF UserNext
<1>9. ASSUME FaultNext(u)
      PROVE  ExchangesOne(u)'
  <2>1. CASE RestoreLost(u)
    BY <1>6, <2>1, RestoreLostSets DEF Kinds, Idle
  <2>2. CASE RefreshLost(u)
    BY <1>6, <2>2, RefreshLostSets, SessionExpiredSets DEF Kinds, Idle, Quiet
  <2>3. CASE LogoutLost(u)
    BY <1>6, <2>3, LogoutLostSets, SignedOutSets DEF Kinds, Quiet, LogoutLost
  <2>4. QED
    BY <1>9, <2>1, <2>2, <2>3 DEF FaultNext
<1>10. QED
  BY <1>2, <1>3, <1>4, <1>5, <1>7, <1>8, <1>9 DEF Next

\* Where the tokens that are presented after a step come from.
LEMMA UsesKept ==
    ASSUME AuthTypeOK, home' = home,
           \A b \in Browsers : jar'[b] = 0 \/ Uses(b, jar'[b]),
           \A u \in Tabs, k \in Kinds : flow'[u][k].token = 0 \/ Uses(home[u], flow'[u][k].token),
           \A u \in Tabs : Out(u)'.token = 0 \/ Uses(home[u], Out(u)'.token)
    PROVE  \A b \in Browsers, n \in Nat \ {0} : Uses(b, n)' => Uses(b, n)
<1>1. SUFFICES ASSUME NEW b \in Browsers, NEW n \in Nat \ {0}, Uses(b, n)'
               PROVE  Uses(b, n)
  OBVIOUS
<1>2. CASE jar'[b] = n
  BY <1>2
<1>3. ASSUME NEW t \in Tabs, home[t] = b, Out(t)'.token = n
      PROVE  Uses(b, n)
  BY <1>3
<1>4. ASSUME NEW t \in Tabs, home[t] = b, NEW k \in Kinds, flow'[t][k].token = n
      PROVE  Uses(b, n)
  BY <1>4
<1>5. QED
  BY <1>1, <1>2, <1>3, <1>4 DEF Uses

UseKept == \A b \in Browsers, n \in Nat \ {0} : Uses(b, n)' => Uses(b, n)
FormTokensKept == \A u \in Tabs : form'[u].token = form[u].token \/ form'[u].token = 0

\* The step issues a token to an exchange of t, or to the form of t.
TokenForExchange(t) ==
    /\ \A b \in Browsers, n \in Nat \ {0} :
          Uses(b, n)' => Uses(b, n) \/ (n = Len(rows) + 1 /\ b = home[t])
    /\ FormTokensKept
TokenForForm(t) ==
    UseKept /\ \A u \in Tabs : form'[u].token = IF u = t THEN Len(rows) + 1 ELSE form[u].token

\* The step puts the token of the form of t into the cookie.
TokenFromForm(t) ==
    /\ \A b \in Browsers, n \in Nat \ {0} :
          Uses(b, n)' => Uses(b, n) \/ (n = form[t].token /\ b = home[t])
    /\ \A u \in Tabs : form'[u].token = IF u = t THEN 0 ELSE form[u].token

LEMMA UsesAreIssued ==
    ASSUME AuthTypeOK, NEW n
    PROVE  /\ \A b \in Browsers : Has(b, n) => n \in 0 .. Len(rows)
           /\ \A t \in Tabs : form[t].token \in 0 .. Len(rows)
           /\ Len(rows) \in Nat
<1>1. \A t \in Tabs : /\ form[t].token \in Token /\ Out(t).token \in Token
                      /\ \A k \in Kinds : flow[t][k].token \in Token
  BY TypeFacts, RecordFacts DEF Out
<1>2. \A b \in Browsers : jar[b] \in Token
  BY TypeFacts
<1>3. QED
  BY <1>1, <1>2, TokenFacts DEF Has, Uses

LEMMA PrivateIfMoved ==
    ASSUME AuthInv, home' = home,
           \/ UseKept /\ FormTokensKept
           \/ \E t \in Tabs : TokenForExchange(t) \/ TokenForForm(t) \/ TokenFromForm(t)
    PROVE  OneBrowser' /\ FormIsPrivate'
<1> USE DEF AuthInv
<1>1. \A t \in Tabs : home[t] \in Browsers
  BY TypeFacts
<1>2. \A t \in Tabs : form[t].token \in 0 .. Len(rows)
  BY UsesAreIssued
<1>3. \A b \in Browsers, n \in Nat \ {0} : Has(b, n) => n # Len(rows) + 1
  BY UsesAreIssued
<1>4. Len(rows) \in Nat
  BY UsesAreIssued
<1> HIDE DEF AuthInv
<1>5. OneBrowser /\ FormIsPrivate
  BY DEF AuthInv
<1>6. CASE UseKept /\ FormTokensKept
  <2>1. \A b \in Browsers, n \in Nat \ {0} : Has(b, n)' => Has(b, n)
    BY <1>6 DEF UseKept, FormTokensKept, Has
  <2>2. OneBrowser'
    BY <1>5, <2>1 DEF OneBrowser
  <2>3. FormIsPrivate'
    BY <1>2, <1>5, <1>6 DEF UseKept, FormTokensKept, FormIsPrivate
  <2>4. QED
    BY <2>2, <2>3
<1>7. ASSUME NEW t \in Tabs, TokenForExchange(t)
      PROVE  OneBrowser' /\ FormIsPrivate'
  <2>1. \A b \in Browsers, n \in Nat \ {0} : Has(b, n)' => Has(b, n) \/ (n = Len(rows) + 1 /\ b = home[t])
    BY <1>7 DEF TokenForExchange, FormTokensKept, Has
  <2>2. OneBrowser'
    BY <1>3, <1>5, <2>1 DEF OneBrowser
  <2>3. FormIsPrivate'
    BY <1>2, <1>4, <1>5, <1>7 DEF TokenForExchange, FormTokensKept, FormIsPrivate
  <2>4. QED
    BY <2>2, <2>3
<1>8. ASSUME NEW t \in Tabs, TokenForForm(t)
      PROVE  OneBrowser' /\ FormIsPrivate'
  <2>1. \A b \in Browsers, n \in Nat \ {0} : Has(b, n)' => Has(b, n) \/ (n = Len(rows) + 1 /\ b = home[t])
    BY <1>8 DEF TokenForForm, UseKept, Has
  <2>2. OneBrowser'
    BY <1>3, <1>5, <2>1 DEF OneBrowser
  <2>3. \A b \in Browsers : ~Uses(b, Len(rows) + 1)
    BY <1>3, <1>4 DEF Has
  <2>4. FormIsPrivate'
    BY <1>2, <1>4, <1>5, <1>8, <2>3 DEF TokenForForm, UseKept, FormIsPrivate
  <2>5. QED
    BY <2>2, <2>4
<1>9. ASSUME NEW t \in Tabs, TokenFromForm(t)
      PROVE  OneBrowser' /\ FormIsPrivate'
  <2>1. \A b \in Browsers, n \in Nat \ {0} : Has(b, n)' => Has(b, n)
    BY <1>9 DEF TokenFromForm, Has
  <2>2. OneBrowser'
    BY <1>5, <2>1 DEF OneBrowser
  <2>3. FormIsPrivate'
    BY <1>2, <1>5, <1>9 DEF TokenFromForm, FormIsPrivate
  <2>4. QED
    BY <2>2, <2>3
<1>10. QED
  BY <1>6, <1>7, <1>8, <1>9

LEMMA PrivateStep ==
    ASSUME AuthInv, Next
    PROVE  OneBrowser' /\ FormIsPrivate'
<1> DEFINE Moved == /\ home' = home
                    /\ \/ UseKept /\ FormTokensKept
                       \/ \E t \in Tabs : TokenForExchange(t) \/ TokenForForm(t) \/ TokenFromForm(t)
<1>1. SUFFICES Moved
  BY PrivateIfMoved
<1>2. /\ AuthTypeOK /\ "logout" \in AllCalls /\ "restore" \in Kinds /\ "refresh" \in Kinds
      /\ \A t \in Tabs : home[t] \in Browsers
  BY TypeFacts DEF AuthInv, Kinds, AllCalls
<1>3. /\ \A b \in Browsers : Uses(b, jar[b])
      /\ \A u \in Tabs : Uses(home[u], Jar(u)) /\ Uses(home[u], Out(u).token)
      /\ \A u \in Tabs, k \in Kinds : Uses(home[u], flow[u][k].token)
  BY <1>2 DEF Uses, Jar
<1> DEFINE Cookies == \A b \in Browsers : jar'[b] = 0 \/ Uses(b, jar'[b])
           Exchanges == \A u \in Tabs, k \in Kinds : flow'[u][k].token = 0 \/ Uses(home[u], flow'[u][k].token)
           Logouts == \A u \in Tabs : Out(u)'.token = 0 \/ Uses(home[u], Out(u)'.token)
<1>4. /\ JarStays => Cookies
      /\ FlowStays => Exchanges
      /\ CallStays => Logouts
  BY <1>2, <1>3 DEF JarStays, FlowStays, CallStays, Out
<1>5. /\ \A t \in Tabs : \A n : JarSet(t, n) /\ (n = 0 \/ Uses(home[t], n)) => Cookies
      /\ \A t \in Tabs, k \in Kinds : \A e : FlowSet(t, k, e) /\ (e.token = 0 \/ Uses(home[t], e.token)) => Exchanges
      /\ \A t \in Tabs, c \in AllCalls : \A e :
            CallSet(t, c, e) /\ (c # "logout" \/ e.token = 0 \/ Uses(home[t], e.token)) => Logouts
  BY <1>2, <1>3 DEF JarSet, FlowSet, CallSet, Out
<1>6. /\ FormStays => FormTokensKept
      /\ \A t \in Tabs : \A e : FormSet(t, e) /\ (e.token = 0 \/ e.token = form[t].token) => FormTokensKept
  BY DEF FormStays, FormSet, FormTokensKept
<1>7. home' = home /\ Cookies /\ Exchanges /\ Logouts => UseKept
  BY <1>2, UsesKept DEF UseKept
<1>8. home' = home /\ Cookies /\ Exchanges /\ Logouts /\ FormTokensKept => Moved
  BY <1>7
<1> HIDE DEF Cookies, Exchanges, Logouts
<1>9. Idle.token = 0 /\ Quiet.token = 0
  BY DEF Idle, Quiet
<1>10. ASSUME NEW t \in Tabs, ServerNext(t)
       PROVE  Moved
  <2>1. ASSUME NEW k \in Kinds, ServeRefresh(t, k)
        PROVE  Moved
    <3>1. /\ flow[t][k] \in Exchange
          /\ RefreshHandler(flow[t][k])
      BY <2>1, TypeFacts DEF ServeRefresh, AuthInv
    <3>2. /\ FlowSet(t, k, Reply(flow[t][k]))
          /\ JarStays /\ FormStays /\ CallStays /\ home' = home
      BY <2>1, ServeRefreshSets
    <3>3. CASE Reply(flow[t][k]).at = "answered"
      <4>1. Reply(flow[t][k]).token = Len(rows) + 1
        BY <3>1, <3>3, ReplyFacts
      <4>2. \A b \in Browsers, n \in Nat \ {0} :
               Uses(b, n)' => Uses(b, n) \/ (n = Len(rows) + 1 /\ b = home[t])
        BY <1>2, <3>2, <4>1 DEF Uses, JarStays, CallStays, FlowSet, Out
      <4>3. QED
        BY <1>6, <3>2, <4>2 DEF TokenForExchange
    <3>4. CASE Reply(flow[t][k]).at # "answered"
      <4>1. Reply(flow[t][k]).token = 0 \/ Reply(flow[t][k]).token = flow[t][k].token
        BY <3>1, <3>4, ReplyFacts
      <4>2. Exchanges
        BY <1>3, <1>5, <3>2, <4>1
      <4>3. QED
        BY <1>4, <1>6, <1>8, <3>2, <4>2
    <3>5. QED
      BY <3>3, <3>4
  <2>2. CASE SignIn(t)
    <3>1. JarStays /\ FlowStays /\ CallStays /\ home' = home
          /\ FormSet(t, [at |-> "answered", token |-> Len(rows) + 1])
      BY <2>2, SignInSets
    <3>2. UseKept
      BY <1>4, <1>7, <3>1
    <3>3. \A u \in Tabs : form'[u].token = IF u = t THEN Len(rows) + 1 ELSE form[u].token
      BY <3>1 DEF FormSet
    <3>4. QED
      BY <3>1, <3>2, <3>3 DEF TokenForForm
  <2>3. CASE RefuseSignIn(t)
    BY <1>4, <1>6, <1>8, <1>9, <2>3, RefuseSignInSets
  <2>4. CASE Logout(t)
    <3>1. Out(t) \in Call
      BY TypeFacts DEF Out, AuthInv
    <3>2. [Out(t) EXCEPT !.at = "served"].token = Out(t).token
      BY <3>1 DEF Call
    <3>3. Logouts
      BY <1>2, <1>3, <1>5, <2>4, <3>2, LogoutSets
    <3>4. QED
      BY <1>4, <1>6, <1>8, <2>4, <3>3, LogoutSets
  <2>5. QED
    BY <1>10, <2>1, <2>2, <2>3, <2>4 DEF ServerNext
<1>11. CASE ServeGhost
  BY <1>4, <1>6, <1>8, <1>11, ServeGhostSets
<1>12. ASSUME NEW t \in Tabs, TabNext(t)
       PROVE  Moved
  <2>1. CASE RestoreEnds(t)
    BY <1>2, <1>3, <1>4, <1>5, <1>6, <1>8, <1>9, <2>1, RestoreEndsSets
  <2>2. CASE RestoreRefused(t)
    BY <1>2, <1>4, <1>5, <1>6, <1>8, <1>9, <2>2, RestoreRefusedSets
  <2>3. CASE Refreshed(t)
    <3>1. Cookies /\ Exchanges /\ FormTokensKept /\ home' = home
      BY <1>2, <1>3, <1>5, <1>6, <1>9, <2>3, RefreshedSets
    <3>2. Logouts
      <4>1. SUFFICES ASSUME NEW u \in Tabs
                     PROVE  Out(u)'.token = 0 \/ Uses(home[u], Out(u)'.token)
        BY DEF Logouts
      <4>2. CASE u = t /\ "logout" \in Waiting(t)
        <5>1. Out(u)'.token = flow[t]["refresh"].token
          BY <2>3, <4>2, RefreshedSets DEF Out
        <5>2. QED
          BY <1>2, <1>3, <4>2, <5>1
      <4>3. CASE ~(u = t /\ "logout" \in Waiting(t))
        <5>1. Out(u)' = Out(u)
          BY <1>2, <2>3, <4>3, RefreshedSets DEF Out
        <5>2. QED
          BY <1>3, <5>1
      <4>4. QED
        BY <4>2, <4>3
    <3>3. QED
      BY <1>8, <3>1, <3>2
  <2>4. CASE RefreshRefused(t)
    <3>1. SessionExpired(t)
      BY <2>4, RefreshRefusedSets
    <3>2. Logouts
      BY <1>2, <1>3, <1>9, <3>1, SessionExpiredSets DEF Logouts, Out
    <3>3. QED
      BY <1>2, <1>4, <1>5, <1>6, <1>8, <1>9, <3>1, <3>2, SessionExpiredSets
  <2>5. CASE SignedIn(t)
    <3>1. /\ JarSet(t, form[t].token) /\ FormSet(t, Idle) /\ FlowStays /\ CallStays /\ home' = home
      BY <2>5, SignedInSets
    <3>2. \A b \in Browsers, n \in Nat \ {0} :
             Uses(b, n)' => Uses(b, n) \/ (n = form[t].token /\ b = home[t])
      BY <1>2, <3>1 DEF Uses, JarSet, CallStays, FlowStays, Out
    <3>3. \A u \in Tabs : form'[u].token = IF u = t THEN 0 ELSE form[u].token
      BY <1>9, <3>1 DEF FormSet
    <3>4. QED
      BY <3>1, <3>2, <3>3 DEF TokenFromForm
  <2>6. CASE LoggedOut(t)
    BY <1>2, <1>4, <1>5, <1>6, <1>8, <1>9, <2>6, LoggedOutSets, SignedOutSets
  <2>7. ASSUME NEW c \in AllCalls, Answered(t, c)
        PROVE  Moved
    BY <1>2, <1>4, <1>5, <1>6, <1>8, <1>9, <2>7, AnsweredSets
  <2>8. ASSUME NEW c \in AllCalls, Unauthorized(t, c)
        PROVE  Moved
    <3>1. [Quiet EXCEPT !.at = "waiting"].token = 0 /\ Asks(t).token = Jar(t)
      BY DEF Quiet, Asks
    <3>2. QED
      BY <1>2, <1>3, <1>4, <1>5, <1>6, <1>8, <2>8, <3>1, UnauthorizedSets
  <2>9. QED
    BY <1>12, <2>1, <2>2, <2>3, <2>4, <2>5, <2>6, <2>7, <2>8 DEF TabNext
<1>13. ASSUME NEW t \in Tabs, UserNext(t)
       PROVE  Moved
  <2>1. CASE Reload(t)
    <3>1. Asks(t).token = Jar(t)
      BY DEF Asks
    <3>2. Exchanges
      BY <1>2, <1>3, <1>9, <2>1, <3>1, ReloadSets DEF Exchanges
    <3>3. QED
      BY <1>4, <1>6, <1>8, <2>1, <3>2, ReloadSets
  <2>2. CASE Submit(t)
    <3>1. form[t] \in Form
      BY TypeFacts DEF AuthInv
    <3>2. [form[t] EXCEPT !.at = "asked"].token = form[t].token
      BY <3>1 DEF Form
    <3>3. QED
      BY <1>4, <1>6, <1>8, <2>2, <3>2, SubmitSets
  <2>3. CASE AccessExpires(t)
    BY <1>4, <1>6, <1>8, <2>3, AccessExpiresSets
  <2>4. ASSUME NEW c \in AllCalls, Ask(t, c)
        PROVE  Moved
    <3>1. c # "logout" \/ Sent(t, c).token = Jar(t)
      BY DEF Sent
    <3>2. Logouts
      BY <1>3, <1>5, <2>4, <3>1, AskSets
    <3>3. QED
      BY <1>4, <1>6, <1>8, <2>4, <3>2, AskSets
  <2>5. QED
    BY <1>13, <2>1, <2>2, <2>3, <2>4 DEF UserNext
<1>14. ASSUME NEW t \in Tabs, FaultNext(t)
       PROVE  Moved
  <2>1. CASE RestoreLost(t)
    BY <1>2, <1>3, <1>4, <1>5, <1>6, <1>8, <1>9, <2>1, RestoreLostSets
  <2>2. CASE RefreshLost(t)
    <3>1. SessionExpired(t)
      BY <2>2, RefreshLostSets
    <3>2. Logouts
      BY <1>2, <1>3, <1>9, <3>1, SessionExpiredSets DEF Logouts, Out
    <3>3. QED
      BY <1>2, <1>4, <1>5, <1>6, <1>8, <1>9, <3>1, <3>2, SessionExpiredSets
  <2>3. CASE LogoutLost(t)
    BY <1>2, <1>4, <1>5, <1>6, <1>8, <1>9, <2>3, LogoutLostSets, SignedOutSets
  <2>4. QED
    BY <1>14, <2>1, <2>2, <2>3 DEF FaultNext
<1>15. QED
  BY <1>10, <1>11, <1>12, <1>13, <1>14 DEF Next

-----------------------------------------------------------------------------
(* As long as nothing upsets the protocol.                                  *)

\* Token n is live after the step.
LiveNext(n) == n # 0 /\ rows'[n].live

\* Which tokens a step leaves live.
LEMMA LiveAfter ==
    ASSUME AuthInv
    PROVE  /\ rows' = rows => \A n : LiveNext(n) <=> Live(n)
           /\ \A t \in Tabs, k \in Kinds : ServeRefresh(t, k) =>
                 \/ rows' = rows
                 \/ flow[t][k].token # 0 /\ ~Live(flow[t][k].token)
                 \/ /\ Reply(flow[t][k]).at = "answered" /\ Reply(flow[t][k]).token = Len(rows) + 1
                    /\ flow[t][k].token # 0 /\ ~LiveNext(flow[t][k].token) /\ LiveNext(Len(rows) + 1)
                    /\ \A n \in Token \ {flow[t][k].token} : LiveNext(n) <=> Live(n)
           /\ \A t \in Tabs : SignIn(t) =>
                 LiveNext(Len(rows) + 1) /\ \A n \in Token : LiveNext(n) <=> Live(n)
           /\ \A t \in Tabs : Logout(t) =>
                 /\ Out(t).token # 0 => ~LiveNext(Out(t).token)
                 /\ \A n \in Token \ {Out(t).token} : LiveNext(n) <=> Live(n)
<1> USE DEF AuthInv
<1>1. rows' = rows => \A n : LiveNext(n) <=> Live(n)
  BY DEF Live, LiveNext
<1>2. ASSUME NEW t \in Tabs, NEW k \in Kinds, ServeRefresh(t, k)
      PROVE  \/ rows' = rows
             \/ flow[t][k].token # 0 /\ ~Live(flow[t][k].token)
             \/ /\ Reply(flow[t][k]).at = "answered" /\ Reply(flow[t][k]).token = Len(rows) + 1
                /\ flow[t][k].token # 0 /\ ~LiveNext(flow[t][k].token) /\ LiveNext(Len(rows) + 1)
                /\ \A n \in Token \ {flow[t][k].token} : LiveNext(n) <=> Live(n)
  <2> DEFINE e == flow[t][k]
  <2>1. e \in Exchange /\ RefreshHandler(e) /\ ExchangeShape(e)
    BY <1>2, TypeFacts DEF ServeRefresh, Shapes
  <2>2. CASE e.at = "found" /\ rows' = Rotate(e.token)
    <3>1. e.token \in DOMAIN rows /\ e.token # 0
      BY <2>1, <2>2, TokenFacts, RecordFacts DEF ExchangeShape
    <3>2. Reply(e).at = "answered" /\ Reply(e).token = Len(rows) + 1
      BY <2>2 DEF Reply
    <3>3. /\ rows'[Len(rows) + 1].live /\ ~rows'[e.token].live
          /\ \A j \in DOMAIN rows \ {e.token} : rows'[j] = rows[j]
      BY <2>2, <3>1, RotateFacts
    <3>4. Len(rows) \in Nat /\ \A n \in Token : n = 0 \/ n \in DOMAIN rows
      BY TokenFacts
    <3> HIDE DEF e
    <3>5. ~LiveNext(e.token) /\ LiveNext(Len(rows) + 1)
      BY <3>3, <3>4 DEF Live, LiveNext
    <3>6. \A n \in Token \ {e.token} : LiveNext(n) <=> Live(n)
      BY <3>3, <3>4 DEF Live, LiveNext
    <3>7. QED
      BY <3>1, <3>2, <3>5, <3>6 DEF e
  <2>3. QED
    BY <2>1, <2>2 DEF RefreshHandler
<1>3. ASSUME NEW t \in Tabs, SignIn(t)
      PROVE  LiveNext(Len(rows) + 1) /\ \A n \in Token : LiveNext(n) <=> Live(n)
  <2>1. rows'[Len(rows) + 1].live /\ \A j \in DOMAIN rows : rows'[j] = rows[j]
    BY <1>3, IssueFacts DEF SignIn
  <2>2. Len(rows) \in Nat /\ \A n \in Token : n = 0 \/ n \in DOMAIN rows
    BY TokenFacts
  <2>3. QED
    BY <2>1, <2>2 DEF Live, LiveNext
<1>4. ASSUME NEW t \in Tabs, Logout(t)
      PROVE  /\ Out(t).token # 0 => ~LiveNext(Out(t).token)
             /\ \A n \in Token \ {Out(t).token} : LiveNext(n) <=> Live(n)
  <2>1. Out(t).token \in Token /\ rows' = Revoked(Out(t).token)
    BY <1>4, TypeFacts, RecordFacts DEF Logout, Out
  <2>2. /\ Out(t).token # 0 => ~rows'[Out(t).token].live
        /\ \A j \in DOMAIN rows \ {Out(t).token} : rows'[j] = rows[j]
    BY <2>1, RevokedFacts
  <2>3. \A n \in Token : n = 0 \/ n \in DOMAIN rows
    BY TokenFacts
  <2>4. QED
    BY <2>2, <2>3 DEF Live, LiveNext
<1>5. QED
  BY <1>1, <1>2, <1>3, <1>4

\* The steps that upset nothing, and what they have found.
Undisturbed(t) == /\ \A u \in Siblings(t) : ~Exchanging(u) /\ ~LoggingOut(u)
                  /\ ~LoggingOut(t)
LEMMA CalmSteps ==
    ASSUME AuthInv, Next, Calm'
    PROVE  /\ Calm /\ ghost = Idle /\ ~reused
           /\ OneAtATime /\ LogoutIsAlone /\ TokensAreLive /\ CookiesAreLive
           /\ \A t \in Tabs : ~FaultNext(t)
           /\ ~ServeGhost
           /\ \A t \in Tabs : Reload(t) => Abandoned(t) = {} /\ Undisturbed(t)
           /\ \A t \in Tabs, c \in AllCalls :
                 Unauthorized(t, c) /\ flow[t]["refresh"].at = "idle" => Undisturbed(t)
           /\ \A t \in Tabs : Ask(t, "logout") => Siblings(t) = {} /\ ~Exchanging(t)
           /\ \A t \in Tabs : Refreshed(t) /\ "logout" \in Waiting(t) =>
                 Siblings(t) = {} /\ flow[t]["restore"].at = "idle"
<1>1. Calm
  BY UpsetGrows DEF Calm
<1>2. /\ ghost = Idle /\ ~reused
      /\ OneAtATime /\ LogoutIsAlone /\ TokensAreLive /\ CookiesAreLive
  BY <1>1 DEF AuthInv, CalmInv
<1>3. "lost" \notin upset' /\ "tabs" \notin upset' /\ "logout" \notin upset'
  BY DEF Calm
<1>4. ASSUME NEW t \in Tabs
      PROVE  ~FaultNext(t)
  BY <1>3 DEF FaultNext, RestoreLost, RefreshLost, LogoutLost
<1>5. ~ServeGhost
  BY <1>2 DEF ServeGhost, RefreshHandler, Idle
<1>6. ASSUME NEW t \in Tabs, Overlap(t) \subseteq upset'
      PROVE  Undisturbed(t)
  BY <1>3, <1>6 DEF Overlap, Undisturbed
<1>7. ASSUME NEW t \in Tabs, Reload(t)
      PROVE  Abandoned(t) = {} /\ Undisturbed(t)
  BY <1>3, <1>6, <1>7 DEF Reload
<1>8. ASSUME NEW t \in Tabs, NEW c \in AllCalls, Unauthorized(t, c), flow[t]["refresh"].at = "idle"
      PROVE  Undisturbed(t)
  BY <1>6, <1>8 DEF Unauthorized
<1>9. ASSUME NEW t \in Tabs, Ask(t, "logout")
      PROVE  Siblings(t) = {} /\ ~Exchanging(t)
  BY <1>3, <1>9 DEF Ask
<1>10. ASSUME NEW t \in Tabs, Refreshed(t), "logout" \in Waiting(t)
       PROVE  Siblings(t) = {} /\ flow[t]["restore"].at = "idle"
  BY <1>3, <1>10 DEF Refreshed
<1>11. QED
  BY <1>1, <1>2, <1>4, <1>5, <1>7, <1>8, <1>9, <1>10

LEMMA QuietStep ==
    ASSUME AuthInv, Next, Calm'
    PROVE  ghost' = Idle /\ ~reused'
<1>1. /\ ghost = Idle /\ ~reused /\ TokensAreLive /\ ~ServeGhost
      /\ \A t \in Tabs : ~FaultNext(t) /\ (Reload(t) => Abandoned(t) = {})
  BY CalmSteps
<1>2. ASSUME NEW t \in Tabs, ServerNext(t)
      PROVE  ghost' = Idle /\ ~reused'
  <2>1. ASSUME NEW k \in Kinds, ServeRefresh(t, k)
        PROVE  ghost' = Idle /\ ~reused'
    <3>1. flow[t][k].token # 0 => Live(flow[t][k].token)
      BY <1>1 DEF TokensAreLive
    <3>2. QED
      BY <1>1, <2>1, <3>1 DEF ServeRefresh, RefreshHandler
  <2>2. QED
    BY <1>1, <1>2, <2>1, SignInSets, RefuseSignInSets, LogoutSets DEF ServerNext
<1>3. ASSUME NEW t \in Tabs, TabNext(t)
      PROVE  ghost' = Idle /\ ~reused'
  BY <1>1, <1>3, RestoreEndsSets, RestoreRefusedSets, RefreshedSets, RefreshRefusedSets, SignedInSets,
     LoggedOutSets, SignedOutSets, AnsweredSets, UnauthorizedSets DEF TabNext
<1>4. ASSUME NEW t \in Tabs, UserNext(t)
      PROVE  ghost' = Idle /\ ~reused'
  <2>1. CASE Reload(t)
    BY <1>1, <2>1, ReloadSets DEF Reload
  <2>2. QED
    BY <1>1, <1>4, <2>1, SubmitSets, AccessExpiresSets, AskSets DEF UserNext
<1>5. QED
  BY <1>1, <1>2, <1>3, <1>4 DEF Next

\* A step starts an exchange with the cookie of the browser, or starts none.
Starts(t) ==
    /\ Undisturbed(t)
    /\ \A k \in Kinds : flow[t][k].at \in {"idle", "refused"}
    /\ \A u \in Tabs \ {t}, k \in Kinds : flow'[u][k] = flow[u][k]
    /\ \A k \in Kinds : flow'[t][k] = Idle \/ flow'[t][k] = Asks(t)
StartsNone ==
    \A u \in Tabs, k \in Kinds : /\ flow'[u][k].at # "idle" => flow[u][k].at # "idle"
                                 /\ flow[u][k].token = 0 => flow'[u][k].token = 0

LEMMA CalmStarts ==
    ASSUME AuthInv, Next, Calm'
    PROVE  home' = home /\ (StartsNone \/ \E t \in Tabs : Starts(t))
<1> USE DEF FlowStays, FlowSet, Idle
<1>1. /\ ~ServeGhost
      /\ \A t \in Tabs : ~FaultNext(t) /\ (Reload(t) => Abandoned(t) = {} /\ Undisturbed(t))
      /\ \A t \in Tabs, c \in AllCalls :
            Unauthorized(t, c) /\ flow[t]["refresh"].at = "idle" => Undisturbed(t)
  BY CalmSteps
<1>2. ASSUME NEW t \in Tabs, ServerNext(t)
      PROVE  home' = home /\ StartsNone
  <2>1. ASSUME NEW k \in Kinds, ServeRefresh(t, k)
        PROVE  home' = home /\ StartsNone
    <3>1. flow[t][k] \in Exchange /\ RefreshHandler(flow[t][k]) /\ ExchangeShape(flow[t][k])
      BY <2>1, TypeFacts DEF ServeRefresh, AuthInv, Shapes
    <3>2. flow[t][k].at # "idle" /\ (flow[t][k].token = 0 => Reply(flow[t][k]).token = 0)
      BY <3>1, ReplyFacts DEF ExchangeShape
    <3>3. QED
      BY <2>1, <3>2, ServeRefreshSets DEF StartsNone
  <2>2. QED
    BY <1>2, <2>1, SignInSets, RefuseSignInSets, LogoutSets DEF ServerNext, StartsNone
<1>3. ASSUME NEW t \in Tabs, TabNext(t)
      PROVE  home' = home /\ (StartsNone \/ Starts(t))
  <2>1. ASSUME NEW c \in AllCalls, Unauthorized(t, c)
        PROVE  home' = home /\ (StartsNone \/ Starts(t))
    <3>1. CASE flow[t]["refresh"].at # "idle"
      BY <2>1, <3>1, UnauthorizedSets DEF StartsNone
    <3>2. CASE flow[t]["refresh"].at = "idle"
      <4>1. FlowSet(t, "refresh", Asks(t)) /\ home' = home
        BY <2>1, <3>2, UnauthorizedSets
      <4>2. flow[t]["restore"].at = "idle"
        BY <2>1 DEF AuthInv, OneExchange, ExchangesOne, Unauthorized
      <4>3. flow[t]["restore"] = Idle
        <5>1. flow[t]["restore"] \in Exchange /\ ExchangeShape(flow[t]["restore"])
          BY TypeFacts DEF AuthInv, Shapes, Kinds
        <5>2. QED
          BY <4>2, <5>1, RecordFacts DEF ExchangeShape
      <4>4. Undisturbed(t)
        BY <1>1, <2>1, <3>2
      <4>5. QED
        BY <3>2, <4>1, <4>2, <4>3, <4>4 DEF Starts, Kinds
    <3>3. QED
      BY <3>1, <3>2
  <2>2. QED
    BY <1>3, <2>1, RestoreEndsSets, RestoreRefusedSets, RefreshedSets, RefreshRefusedSets, SessionExpiredSets,
       SignedInSets, LoggedOutSets, SignedOutSets, AnsweredSets DEF TabNext, StartsNone
<1>4. ASSUME NEW t \in Tabs, UserNext(t)
      PROVE  home' = home /\ (StartsNone \/ Starts(t))
  <2>1. CASE Reload(t)
    <3>1. \A k \in Kinds : flow[t][k].at \in {"idle", "refused"}
      BY <1>1, <2>1, TypeFacts, RecordFacts DEF Abandoned, AuthInv
    <3>2. QED
      BY <1>1, <2>1, <3>1, ReloadSets DEF Starts
  <2>2. QED
    BY <1>4, <2>1, SubmitSets, AccessExpiresSets, AskSets DEF UserNext, StartsNone
<1>5. QED
  BY <1>1, <1>2, <1>3, <1>4 DEF Next

LEMMA OneAtATimeStep ==
    ASSUME AuthInv, Next, Calm'
    PROVE  OneAtATime'
<1>1. OneAtATime /\ home' = home /\ \A t \in Tabs : Siblings(t)' = Siblings(t)
  BY CalmSteps, CalmStarts DEF Siblings
<1>2. \A t \in Tabs : \A u \in Siblings(t) : u \in Tabs /\ u # t /\ t \in Siblings(u)
  BY DEF Siblings
<1>3. CASE StartsNone
  BY <1>1, <1>2, <1>3 DEF StartsNone, OneAtATime, Exchanging
<1>4. ASSUME NEW t \in Tabs, Starts(t)
      PROVE  OneAtATime'
  <2>1. \A u \in Tabs \ {t} : Exchanging(u)' <=> Exchanging(u)
    BY <1>4 DEF Starts, Exchanging
  <2>2. \A u \in Siblings(t) : ~Exchanging(u)
    BY <1>4 DEF Starts, Undisturbed
  <2>3. QED
    BY <1>1, <1>2, <1>4, <2>1, <2>2 DEF Starts, OneAtATime
<1>5. QED
  BY <1>3, <1>4, CalmStarts

LEMMA LogoutIsAloneStep ==
    ASSUME AuthInv, Next, Calm'
    PROVE  LogoutIsAlone'
<1> DEFINE Same(u) == Out(u)' = Out(u) /\ (Exchanging(u)' => Exchanging(u))
           Done(u) == /\ Out(u)'.at # "idle" => Siblings(u) = {}
                      /\ Out(u)'.at # "idle" /\ Out(u)'.good => ~Exchanging(u)'
<1>1. /\ LogoutIsAlone /\ home' = home /\ (\A t \in Tabs : Siblings(t)' = Siblings(t))
      /\ StartsNone \/ \E t \in Tabs : Starts(t)
  BY CalmSteps, CalmStarts DEF Siblings
<1>2. /\ ~ServeGhost
      /\ \A t \in Tabs : /\ ~FaultNext(t)
                         /\ Ask(t, "logout") => Siblings(t) = {} /\ ~Exchanging(t)
                         /\ Refreshed(t) /\ "logout" \in Waiting(t) =>
                               Siblings(t) = {} /\ flow[t]["restore"].at = "idle"
  BY CalmSteps
<1>3. SUFFICES ASSUME NEW u \in Tabs
               PROVE  Done(u)
  BY <1>1 DEF LogoutIsAlone, LoggingOut, Out
<1>4. ASSUME Same(u)
      PROVE  Done(u)
  BY <1>1, <1>4 DEF LogoutIsAlone, LoggingOut, Out
<1>5. "logout" \in AllCalls /\ "refresh" \in Kinds /\ "restore" \in Kinds
  BY DEF AllCalls, Kinds
<1>6. StartsNone => (Exchanging(u)' => Exchanging(u))
  BY DEF StartsNone, Exchanging
<1>7. ASSUME NEW t \in Tabs, Starts(t), Out(u)' = Out(u)
      PROVE  Done(u)
  <2>1. CASE u = t
    BY <1>1, <1>7, <2>1 DEF LogoutIsAlone, LoggingOut, Out, Starts, Undisturbed
  <2>2. CASE u # t
    BY <1>4, <1>7, <2>2 DEF Starts, Exchanging
  <2>3. QED
    BY <2>1, <2>2
<1>8. ASSUME Out(u)' = Out(u)
      PROVE  Done(u)
  BY <1>1, <1>4, <1>6, <1>7, <1>8
<1> HIDE DEF Same
<1>9. ASSUME NEW t \in Tabs, ServerNext(t)
      PROVE  Done(u)
  <2>1. CASE CallStays
    BY <1>5, <1>8, <2>1 DEF CallStays, Out
  <2>2. CASE Logout(t) /\ u = t
    <3>1. Out(t) \in Call
      BY TypeFacts DEF Out, AuthInv
    <3>2. [Out(t) EXCEPT !.at = "served"].good = Out(t).good
      BY <3>1 DEF Call
    <3>3. Out(t).at # "idle" /\ Out(t).good
      BY <2>2 DEF Logout, Out
    <3>4. Out(t)'.good = Out(t).good /\ \A x \in Kinds : flow'[t][x] = flow[t][x]
      BY <1>5, <2>2, <3>2, LogoutSets DEF CallSet, FlowStays, Out
    <3>5. QED
      BY <1>1, <2>2, <3>3, <3>4 DEF LogoutIsAlone, LoggingOut, Exchanging, Out
  <2>3. CASE Logout(t) /\ u # t
    BY <1>5, <1>8, <2>3, LogoutSets DEF CallSet, Out
  <2>4. QED
    BY <1>9, <2>1, <2>2, <2>3, ServeRefreshSets, SignInSets, RefuseSignInSets DEF ServerNext
<1>10. ASSUME NEW t \in Tabs, TabNext(t)
       PROVE  Done(u)
  <2>1. CASE CallStays
    BY <1>5, <1>8, <2>1 DEF CallStays, Out
  <2>2. CASE Refreshed(t)
    <3>1. CASE u = t /\ "logout" \in Waiting(t)
      <4>1. Siblings(t) = {} /\ flow[t]["restore"].at = "idle"
        BY <1>2, <2>2, <3>1
      <4>2. ~Exchanging(t)'
        BY <1>5, <2>2, <4>1, RefreshedSets DEF FlowSet, Exchanging, Kinds, Idle
      <4>3. QED
        BY <3>1, <4>1, <4>2
    <3>2. CASE ~(u = t /\ "logout" \in Waiting(t))
      BY <1>5, <1>8, <2>2, <3>2, RefreshedSets DEF Out
    <3>3. QED
      BY <3>1, <3>2
  <2>3. CASE RefreshRefused(t)
    <3>1. SessionExpired(t)
      BY <2>3, RefreshRefusedSets
    <3>2. Out(u)' = Out(u) \/ Out(u)' = Quiet
      BY <1>5, <3>1, SessionExpiredSets DEF Out
    <3>3. QED
      BY <1>8, <3>2 DEF Quiet
  <2>4. CASE LoggedOut(t)
    <3>1. Out(u)' = Out(u) \/ Out(u)' = Quiet
      BY <1>5, <2>4, LoggedOutSets, SignedOutSets DEF CallSet, Out
    <3>2. QED
      BY <1>8, <3>1 DEF Quiet
  <2>5. ASSUME NEW c \in AllCalls, Answered(t, c)
        PROVE  Done(u)
    <3>1. Out(u)' = Out(u) \/ Out(u)' = Quiet
      BY <1>5, <2>5, AnsweredSets DEF CallSet, Out
    <3>2. QED
      BY <1>8, <3>1 DEF Quiet
  <2>6. ASSUME NEW c \in AllCalls, Unauthorized(t, c)
        PROVE  Done(u)
    <3>1. CASE c = "logout" /\ u = t
      <4> DEFINE w == [Quiet EXCEPT !.at = "waiting"]
      <4>1. ~w.good
        BY DEF Quiet
      <4>2. CallSet(t, c, w)
        BY <2>6, UnauthorizedSets
      <4> HIDE DEF w
      <4>3. Out(t).at # "idle" /\ Out(t)'.good = w.good
        BY <1>5, <2>6, <3>1, <4>2 DEF Unauthorized, CallSet, Out
      <4>4. QED
        BY <1>1, <3>1, <4>1, <4>3 DEF LogoutIsAlone
    <3>2. CASE ~(c = "logout" /\ u = t)
      BY <1>5, <1>8, <2>6, <3>2, UnauthorizedSets DEF CallSet, Out
    <3>3. QED
      BY <3>1, <3>2
  <2>7. QED
    BY <1>10, <2>1, <2>2, <2>3, <2>4, <2>5, <2>6, RestoreEndsSets, RestoreRefusedSets, SignedInSets DEF TabNext
<1>11. ASSUME NEW t \in Tabs, UserNext(t)
       PROVE  Done(u)
  <2>1. CASE CallStays
    BY <1>5, <1>8, <2>1 DEF CallStays, Out
  <2>2. ASSUME NEW c \in AllCalls, Ask(t, c)
        PROVE  Done(u)
    <3>1. CASE c = "logout" /\ u = t
      <4>1. Siblings(t) = {} /\ ~Exchanging(t)
        BY <1>2, <2>2, <3>1
      <4>2. ~Exchanging(t)'
        BY <2>2, <4>1, AskSets DEF FlowStays, Exchanging
      <4>3. QED
        BY <3>1, <4>1, <4>2
    <3>2. CASE ~(c = "logout" /\ u = t)
      BY <1>5, <1>8, <2>2, <3>2, AskSets DEF CallSet, Out
    <3>3. QED
      BY <3>1, <3>2
  <2>3. QED
    BY <1>11, <2>1, <2>2, ReloadSets, SubmitSets, AccessExpiresSets DEF UserNext
<1>12. QED
  BY <1>2, <1>9, <1>10, <1>11 DEF Next

\* What is exchanged is live: a cookie that is not is being replaced, by an
\* exchange or a logout of the same browser, and then no exchange starts.
LEMMA StartIsLive ==
    ASSUME AuthInv, CookiesAreLive, NEW t \in Tabs, Starts(t), Jar(t) # 0
    PROVE  Live(Jar(t))
<1>1. Live(Jar(t)) \/ Replacing(home[t])
  BY TypeFacts DEF AuthInv, CookiesAreLive, Jar
<1>2. ASSUME NEW u \in Tabs, home[u] = home[t],
             (\E k \in Kinds : flow[u][k].at = "answered") \/ Out(u).at = "served"
      PROVE  FALSE
  <2>1. u = t \/ u \in Siblings(t)
    BY <1>2 DEF Siblings
  <2>2. Exchanging(u) \/ LoggingOut(u)
    BY <1>2 DEF Exchanging, LoggingOut, Out, AuthInv, Shapes, LogoutShape
  <2>3. CASE u = t
    BY <1>2, <2>2, <2>3 DEF Starts, Undisturbed, AuthInv, Shapes, LogoutShape, LoggingOut, Out
  <2>4. CASE u \in Siblings(t)
    BY <2>2, <2>4 DEF Starts, Undisturbed
  <2>5. QED
    BY <2>1, <2>3, <2>4
<1>3. QED
  BY <1>1, <1>2 DEF Replacing

\* Nobody else has the token that a tab exchanges ...
LEMMA ExchangedAlone ==
    ASSUME AuthInv, OneAtATime, NEW t \in Tabs, NEW k \in Kinds, flow[t][k].token # 0
    PROVE  /\ \A u \in Tabs, x \in Kinds :
                 ~(u = t /\ x = k) /\ flow[u][x].token # 0 => flow[u][x].token # flow[t][k].token
           /\ \A u \in Tabs : form[u].token # flow[t][k].token
           /\ \A b \in Browsers : jar[b] = flow[t][k].token => b = home[t]
<1> DEFINE n == flow[t][k].token
<1>1. n \in Nat \ {0} /\ home[t] \in Browsers /\ Uses(home[t], n) /\ Has(home[t], n)
  <2>1. home[t] \in Browsers /\ Uses(home[t], n)
    BY TypeFacts DEF Uses, AuthInv
  <2>2. n \in 0 .. Len(rows) /\ Len(rows) \in Nat
    BY <2>1, UsesAreIssued DEF Has, AuthInv
  <2>3. QED
    BY <2>1, <2>2 DEF Has
<1>2. \A u \in Tabs, x \in Kinds : flow[u][x].token # 0 => flow[u][x].at # "idle" /\ Exchanging(u)
  BY DEF AuthInv, Shapes, ExchangeShape, Exchanging
<1>3. ASSUME NEW u \in Tabs, NEW x \in Kinds, ~(u = t /\ x = k), flow[u][x].token # 0, flow[u][x].token = n
      PROVE  FALSE
  <2>1. home[u] = home[t]
    <3>1. home[u] \in Browsers /\ Has(home[u], n)
      BY <1>3, TypeFacts DEF Has, Uses, AuthInv
    <3>2. QED
      BY <1>1, <3>1 DEF AuthInv, OneBrowser
  <2>2. CASE u = t
    <3>1. \A y \in Kinds : flow[t][y].at # "idle"
      BY <1>1, <1>2, <1>3, <2>2 DEF Kinds
    <3>2. QED
      BY <3>1 DEF AuthInv, OneExchange, ExchangesOne, Waiting, Kinds
  <2>3. CASE u # t
    <3>1. u \in Siblings(t)
      BY <2>1, <2>3 DEF Siblings
    <3>2. QED
      BY <1>1, <1>2, <1>3, <3>1 DEF OneAtATime
  <2>4. QED
    BY <2>2, <2>3
<1>4. \A u \in Tabs : form[u].token # n
  BY <1>1 DEF AuthInv, FormIsPrivate
<1>5. \A b \in Browsers : jar[b] = n => b = home[t]
  BY <1>1 DEF Has, Uses, AuthInv, OneBrowser
<1>6. QED
  BY <1>3, <1>4, <1>5

\* ... nor the one that it revokes.
LEMMA RevokedAlone ==
    ASSUME AuthInv, LogoutIsAlone, NEW t \in Tabs, LoggingOut(t), Out(t).token # 0
    PROVE  /\ \A u \in Tabs, x \in Kinds : flow[u][x].token # Out(t).token
           /\ \A u \in Tabs : form[u].token # Out(t).token
           /\ \A b \in Browsers : jar[b] = Out(t).token => b = home[t]
<1> DEFINE n == Out(t).token
<1>1. n \in Nat \ {0} /\ home[t] \in Browsers /\ Uses(home[t], n) /\ Has(home[t], n)
  <2>1. home[t] \in Browsers /\ Uses(home[t], n)
    BY TypeFacts DEF Uses, AuthInv
  <2>2. n \in 0 .. Len(rows) /\ Len(rows) \in Nat
    BY <2>1, UsesAreIssued DEF Has, AuthInv
  <2>3. QED
    BY <2>1, <2>2 DEF Has
<1>2. \A u \in Tabs, x \in Kinds : flow[u][x].token # 0 => Exchanging(u)
  BY DEF AuthInv, Shapes, ExchangeShape, Exchanging
<1>3. ASSUME NEW u \in Tabs, NEW x \in Kinds, flow[u][x].token = n
      PROVE  FALSE
  <2>1. home[u] = home[t]
    <3>1. home[u] \in Browsers /\ Has(home[u], n)
      BY <1>3, TypeFacts DEF Has, Uses, AuthInv
    <3>2. QED
      BY <1>1, <3>1 DEF AuthInv, OneBrowser
  <2>2. u = t
    BY <2>1 DEF LogoutIsAlone, LoggingOut, Out, Siblings
  <2>3. QED
    BY <1>1, <1>2, <1>3, <2>2 DEF LogoutIsAlone
<1>4. \A u \in Tabs : form[u].token # n
  BY <1>1 DEF AuthInv, FormIsPrivate
<1>5. \A b \in Browsers : jar[b] = n => b = home[t]
  BY <1>1 DEF Has, Uses, AuthInv, OneBrowser
<1>6. QED
  BY <1>3, <1>4, <1>5

\* The tabs change no token and issue none.
LEMMA TabSteps ==
    ASSUME AuthInv, Next, Calm', NEW t \in Tabs, TabNext(t) \/ UserNext(t)
    PROVE  /\ rows' = rows /\ FormTokensKept
           /\ \A u \in Tabs, k \in Kinds : \/ flow'[u][k] \in {flow[u][k], Idle}
                                           \/ Starts(u) /\ flow'[u][k] = Asks(u)
<1> USE DEF FlowStays, FlowSet, FormStays, FormSet
<1> DEFINE Kept == \A u \in Tabs, k \in Kinds : flow'[u][k] \in {flow[u][k], Idle}
           Fine == \A u \in Tabs, k \in Kinds : \/ flow'[u][k] \in {flow[u][k], Idle}
                                                \/ Starts(u) /\ flow'[u][k] = Asks(u)
<1>1. rows' = rows
  BY RestoreEndsSets, RestoreRefusedSets, RefreshedSets, RefreshRefusedSets, SignedInSets, LoggedOutSets,
     SignedOutSets, AnsweredSets, UnauthorizedSets, ReloadSets, SubmitSets, AccessExpiresSets, AskSets
     DEF TabNext, UserNext
<1>2. FormTokensKept
  <2>1. CASE SignedIn(t)
    BY <2>1, SignedInSets DEF FormTokensKept, Idle
  <2>2. CASE Submit(t)
    <3>1. form[t] \in Form
      BY TypeFacts DEF AuthInv
    <3>2. [form[t] EXCEPT !.at = "asked"].token = form[t].token
      BY <3>1 DEF Form
    <3>3. QED
      BY <2>2, <3>2, SubmitSets DEF FormTokensKept
  <2>3. FormStays => FormTokensKept
    BY DEF FormTokensKept
  <2>4. CASE TabNext(t)
    BY <2>1, <2>3, <2>4, RestoreEndsSets, RestoreRefusedSets, RefreshedSets, RefreshRefusedSets,
       SessionExpiredSets, LoggedOutSets, SignedOutSets, AnsweredSets, UnauthorizedSets DEF TabNext
  <2>5. CASE UserNext(t)
    BY <2>2, <2>3, <2>5, ReloadSets, AccessExpiresSets, AskSets DEF UserNext
  <2>6. QED
    BY <2>4, <2>5
<1>3. ASSUME NEW u \in Tabs, Starts(u)
      PROVE  Fine
  BY <1>3 DEF Starts
<1>4. ASSUME ~\E u \in Tabs : Starts(u)
      PROVE  Kept
  <2>1. StartsNone
    BY <1>4, CalmStarts
  <2>2. FlowStays => Kept
    OBVIOUS
  <2>3. ASSUME TabNext(t)
        PROVE  Kept
    <3>1. ASSUME NEW c \in AllCalls, Unauthorized(t, c)
          PROVE  Kept
      <4>0. Asks(t).at # "idle"
        BY DEF Asks
      <4>1. "refresh" \in Kinds
        BY DEF Kinds
      <4>2. flow[t]["refresh"].at # "idle"
        BY <2>1, <3>1, <4>1, <4>0, UnauthorizedSets DEF StartsNone
      <4>3. QED
        BY <2>2, <3>1, <4>2, UnauthorizedSets
    <3>2. QED
      BY <2>2, <2>3, <3>1, RestoreEndsSets, RestoreRefusedSets, RefreshedSets, RefreshRefusedSets,
         SessionExpiredSets, SignedInSets, LoggedOutSets, SignedOutSets, AnsweredSets DEF TabNext
  <2>4. ASSUME UserNext(t)
        PROVE  Kept
    <3>1. ASSUME Reload(t)
          PROVE  Kept
      <4>0. Asks(t).at # "idle"
        BY DEF Asks
      <4>1. "restore" \in Kinds
        BY DEF Kinds
      <4>2. flow[t]["restore"].at # "idle"
        BY <2>1, <3>1, <4>1, <4>0, ReloadSets DEF StartsNone
      <4>3. Abandoned(t) = {} /\ Undisturbed(t)
        BY <3>1, CalmSteps
      <4>4. \A k \in Kinds : flow[t][k].at \in {"idle", "refused"}
        BY <4>3, TypeFacts, RecordFacts DEF Abandoned, AuthInv
      <4>5. Starts(t)
        BY <3>1, <4>3, <4>4, ReloadSets DEF Starts
      <4>6. QED
        BY <1>4, <4>5
    <3>2. QED
      BY <2>2, <2>4, <3>1, SubmitSets, AccessExpiresSets, AskSets DEF UserNext
  <2>5. QED
    BY <2>3, <2>4
<1>5. QED
  BY <1>1, <1>2, <1>3, <1>4

LEMMA TokensAreLiveStep ==
    ASSUME AuthInv, Next, Calm'
    PROVE  TokensAreLive'
<1> DEFINE After == \A u \in Tabs :
               /\ \A x \in Kinds : flow'[u][x].token # 0 => LiveNext(flow'[u][x].token)
               /\ form'[u].token # 0 => LiveNext(form'[u].token)
<1>1. SUFFICES After
  BY DEF TokensAreLive, Live, LiveNext
<1>2. /\ OneAtATime /\ LogoutIsAlone /\ TokensAreLive /\ CookiesAreLive /\ ~ServeGhost
      /\ \A t \in Tabs : ~FaultNext(t)
  BY CalmSteps
<1>3. \A u \in Tabs : form[u].token \in Token /\ \A x \in Kinds : flow[u][x].token \in Token
  BY TypeFacts, RecordFacts DEF AuthInv
<1>4. ASSUME NEW t \in Tabs, NEW k \in Kinds, ServeRefresh(t, k)
      PROVE  After
  <2>1. FlowSet(t, k, Reply(flow[t][k])) /\ FormStays
    BY <1>4, ServeRefreshSets
  <2>2. flow[t][k] \in Exchange /\ RefreshHandler(flow[t][k])
    BY <1>4, TypeFacts DEF ServeRefresh, AuthInv
  <2>3. flow[t][k].token # 0 => Live(flow[t][k].token)
    BY <1>2 DEF TokensAreLive
  <2>4. CASE rows' = rows
    <3>1. \A n : LiveNext(n) <=> Live(n)
      BY <2>4 DEF Live, LiveNext
    <3>2. Reply(flow[t][k]).token # 0 => Live(Reply(flow[t][k]).token)
      <4>1. flow[t][k].at # "found"
        <5>1. SUFFICES ASSUME flow[t][k].at = "found" PROVE FALSE
          OBVIOUS
        <5>2. flow[t][k].token # 0 /\ rows' = Rotate(flow[t][k].token)
          BY <2>2, <5>1 DEF RefreshHandler, AuthInv, Shapes, ExchangeShape
        <5>3. flow[t][k].token \in DOMAIN rows
          BY <1>3, <5>2, TokenFacts DEF AuthInv
        <5>4. QED
          BY <2>4, <5>2, <5>3, RotateFacts, RowsAreRows DEF AuthInv
      <4>2. QED
        BY <2>2, <2>3, <4>1, ReplyFacts
    <3>3. QED
      BY <1>2, <2>1, <3>1, <3>2 DEF TokensAreLive, FlowSet, FormStays
  <2>5. CASE rows' # rows
    <3>1. /\ Reply(flow[t][k]).token = Len(rows) + 1
          /\ flow[t][k].token # 0 /\ LiveNext(Len(rows) + 1)
          /\ \A n \in Token \ {flow[t][k].token} : LiveNext(n) <=> Live(n)
      BY <1>4, <2>3, <2>5, LiveAfter
    <3>2. /\ \A u \in Tabs, x \in Kinds :
                ~(u = t /\ x = k) /\ flow[u][x].token # 0 => flow[u][x].token # flow[t][k].token
          /\ \A u \in Tabs : form[u].token # flow[t][k].token
      BY <1>2, <3>1, ExchangedAlone
    <3>3. QED
      BY <1>2, <1>3, <2>1, <3>1, <3>2 DEF TokensAreLive, FlowSet, FormStays
  <2>6. QED
    BY <2>4, <2>5
<1>5. ASSUME NEW t \in Tabs, SignIn(t)
      PROVE  After
  <2>1. FlowStays /\ FormSet(t, [at |-> "answered", token |-> Len(rows) + 1])
    BY <1>5, SignInSets
  <2>2. LiveNext(Len(rows) + 1) /\ \A n \in Token : LiveNext(n) <=> Live(n)
    BY <1>5, LiveAfter
  <2>3. QED
    BY <1>2, <1>3, <2>1, <2>2 DEF TokensAreLive, FlowStays, FormSet
<1>6. ASSUME NEW t \in Tabs, Logout(t)
      PROVE  After
  <2>1. FlowStays /\ FormStays
    BY <1>6, LogoutSets
  <2>2. \A n \in Token \ {Out(t).token} : LiveNext(n) <=> Live(n)
    BY <1>6, LiveAfter
  <2>3. LoggingOut(t)
    BY <1>6 DEF Logout, LoggingOut
  <2>4. Out(t).token # 0 => /\ \A u \in Tabs, x \in Kinds : flow[u][x].token # Out(t).token
                            /\ \A u \in Tabs : form[u].token # Out(t).token
    BY <1>2, <2>3, RevokedAlone
  <2>5. QED
    BY <1>2, <1>3, <2>1, <2>2, <2>4 DEF TokensAreLive, FlowStays, FormStays
<1>7. ASSUME NEW t \in Tabs, RefuseSignIn(t)
      PROVE  After
  BY <1>2, <1>7, RefuseSignInSets DEF TokensAreLive, FlowStays, FormSet, Idle, Live, LiveNext
<1>8. ASSUME NEW t \in Tabs, TabNext(t) \/ UserNext(t)
      PROVE  After
  <2>1. /\ rows' = rows /\ FormTokensKept
        /\ \A u \in Tabs, k \in Kinds : \/ flow'[u][k] \in {flow[u][k], Idle}
                                        \/ Starts(u) /\ flow'[u][k] = Asks(u)
    BY <1>8, TabSteps
  <2>2. \A n : LiveNext(n) <=> Live(n)
    BY <2>1 DEF Live, LiveNext
  <2>3. \A u \in Tabs : Starts(u) /\ Jar(u) # 0 => Live(Jar(u))
    BY <1>2, StartIsLive
  <2>4. Idle.token = 0 /\ \A u : Asks(u).token = Jar(u)
    BY DEF Idle, Asks
  <2>5. QED
    BY <1>2, <2>1, <2>2, <2>3, <2>4 DEF TokensAreLive, FormTokensKept
<1>9. QED
  BY <1>2, <1>4, <1>5, <1>6, <1>7, <1>8 DEF Next, ServerNext

LEMMA CookiesAreLiveStep ==
    ASSUME AuthInv, Next, Calm'
    PROVE  CookiesAreLive'
<1> DEFINE Good(b) == jar'[b] # 0 => LiveNext(jar'[b]) \/ Replacing(b)'
<1>1. SUFFICES \A b \in Browsers : Good(b)
  BY DEF CookiesAreLive, Live, LiveNext
<1>2. /\ OneAtATime /\ LogoutIsAlone /\ TokensAreLive /\ CookiesAreLive /\ ~ServeGhost
      /\ \A t \in Tabs : ~FaultNext(t) /\ (Reload(t) => Abandoned(t) = {})
  BY CalmSteps
<1>3. /\ "logout" \in AllCalls /\ "restore" \in Kinds /\ "refresh" \in Kinds
      /\ \A b \in Browsers : jar[b] \in Token
      /\ \A t \in Tabs : home[t] \in Browsers
  BY TypeFacts DEF AuthInv, Kinds
\* a cookie that a step neither sets nor revokes
<1>4. ASSUME NEW b \in Browsers, jar'[b] = jar[b], Live(jar[b]) => LiveNext(jar[b]),
             Replacing(b) => Replacing(b)'
      PROVE  Good(b)
  BY <1>2, <1>4 DEF CookiesAreLive
<1>5. ASSUME NEW b \in Browsers, home' = home,
             \A t \in Tabs, k \in Kinds : flow[t][k].at = "answered" => flow'[t][k].at = "answered",
             \A t \in Tabs : Out(t).at = "served" => Out(t)'.at = "served"
      PROVE  Replacing(b) => Replacing(b)'
  BY <1>5 DEF Replacing
<1>6. ASSUME NEW t \in Tabs, NEW k \in Kinds, ServeRefresh(t, k), NEW b \in Browsers
      PROVE  Good(b)
  <2>1. FlowSet(t, k, Reply(flow[t][k])) /\ JarStays /\ CallStays /\ home' = home
    BY <1>6, ServeRefreshSets
  <2>2. flow[t][k] \in Exchange /\ flow[t][k].at # "answered"
    BY <1>6, TypeFacts, ReplyFacts DEF ServeRefresh, AuthInv
  <2>3. Replacing(b) => Replacing(b)'
    BY <1>3, <1>5, <2>1, <2>2 DEF FlowSet, CallStays, Out
  <2>4. CASE rows' = rows
    BY <1>4, <2>1, <2>3, <2>4 DEF JarStays, Live, LiveNext
  <2>5. CASE rows' # rows
    <3>1. flow[t][k].token # 0 => Live(flow[t][k].token)
      BY <1>2 DEF TokensAreLive
    <3>2. /\ Reply(flow[t][k]).at = "answered" /\ flow[t][k].token # 0
          /\ \A n \in Token \ {flow[t][k].token} : LiveNext(n) <=> Live(n)
      BY <1>6, <2>5, <3>1, LiveAfter
    <3>3. CASE jar[b] = flow[t][k].token
      <4>1. b = home[t]
        BY <1>2, <3>2, <3>3, ExchangedAlone
      <4>2. flow'[t][k].at = "answered"
        BY <2>1, <3>2 DEF FlowSet
      <4>3. QED
        BY <2>1, <4>1, <4>2 DEF Replacing
    <3>4. CASE jar[b] # flow[t][k].token
      BY <1>3, <1>4, <2>1, <2>3, <3>2, <3>4 DEF JarStays
    <3>5. QED
      BY <3>3, <3>4
  <2>6. QED
    BY <2>4, <2>5
<1>7. ASSUME NEW t \in Tabs, Logout(t), NEW b \in Browsers
      PROVE  Good(b)
  <2>1. CallSet(t, "logout", [Out(t) EXCEPT !.at = "served"]) /\ JarStays /\ FlowStays /\ home' = home
    BY <1>7, LogoutSets
  <2>2. Out(t) \in Call
    BY TypeFacts DEF Out, AuthInv
  <2>3. [Out(t) EXCEPT !.at = "served"].at = "served"
    BY <2>2 DEF Call
  <2>4. Out(t)'.at = "served" /\ \A u \in Tabs \ {t} : Out(u)' = Out(u)
    BY <1>3, <2>1, <2>3 DEF CallSet, Out
  <2>5. Replacing(b) => Replacing(b)'
    BY <1>5, <2>1, <2>4 DEF FlowStays
  <2>6. \A n \in Token \ {Out(t).token} : LiveNext(n) <=> Live(n)
    BY <1>7, LiveAfter
  <2>7. CASE jar[b] = Out(t).token /\ jar[b] # 0
    <3>1. LoggingOut(t)
      BY <1>7 DEF Logout, LoggingOut
    <3>2. b = home[t]
      BY <1>2, <2>7, <3>1, RevokedAlone
    <3>3. QED
      BY <2>1, <2>4, <3>2 DEF Replacing
  <2>8. CASE jar[b] # Out(t).token
    BY <1>3, <1>4, <2>1, <2>5, <2>6, <2>8 DEF JarStays
  <2>9. CASE jar[b] = 0
    BY <2>1, <2>9 DEF JarStays
  <2>10. QED
    BY <2>7, <2>8, <2>9
<1>8. ASSUME NEW t \in Tabs, SignIn(t) \/ RefuseSignIn(t), NEW b \in Browsers
      PROVE  Good(b)
  <2>1. JarStays /\ FlowStays /\ CallStays /\ home' = home
    BY <1>8, SignInSets, RefuseSignInSets
  <2>2. \A n \in Token : LiveNext(n) <=> Live(n)
    BY <1>8, LiveAfter, RefuseSignInSets DEF Live, LiveNext
  <2>3. Replacing(b) => Replacing(b)'
    BY <1>3, <1>5, <2>1 DEF FlowStays, CallStays, Out
  <2>4. QED
    BY <1>3, <1>4, <2>1, <2>2, <2>3 DEF JarStays
\* the steps of a tab
<1>9. ASSUME NEW t \in Tabs, TabNext(t) \/ UserNext(t), NEW b \in Browsers
      PROVE  Good(b)
  <2>1. rows' = rows
    BY <1>9, TabSteps
  <2>2. \A n : LiveNext(n) <=> Live(n)
    BY <2>1 DEF Live, LiveNext
  <2>3. ASSUME NEW n, JarSet(t, n), n # 0 => Live(n), home' = home,
               \A u \in Tabs \ {t} : (\A k \in Kinds : flow'[u][k] = flow[u][k]) /\ Out(u)' = Out(u)
        PROVE  Good(b)
    <3>1. CASE b = home[t]
      BY <2>2, <2>3, <3>1 DEF JarSet
    <3>2. CASE b # home[t]
      <4>1. Replacing(b) => Replacing(b)'
        BY <2>3, <3>2 DEF Replacing
      <4>2. QED
        BY <1>4, <2>2, <2>3, <3>2, <4>1 DEF JarSet
    <3>3. QED
      BY <3>1, <3>2
  <2>4. ASSUME JarStays, home' = home,
               \A u \in Tabs, k \in Kinds : flow[u][k].at = "answered" => flow'[u][k].at = "answered",
               \A u \in Tabs : Out(u).at = "served" => Out(u)'.at = "served"
        PROVE  Good(b)
    BY <1>4, <1>5, <2>2, <2>4 DEF JarStays
  <2>5. CASE RestoreEnds(t)
    <3>1. flow[t]["restore"].token # 0 => Live(flow[t]["restore"].token)
      BY <1>2, <1>3 DEF TokensAreLive
    <3>2. QED
      BY <1>3, <2>3, <2>5, <3>1, RestoreEndsSets DEF FlowSet, CallStays, Out
  <2>6. CASE Refreshed(t)
    <3>1. flow[t]["refresh"].token # 0 => Live(flow[t]["refresh"].token)
      BY <1>2, <1>3 DEF TokensAreLive
    <3>2. QED
      BY <1>3, <2>3, <2>6, <3>1, RefreshedSets DEF FlowSet, Out
  <2>7. CASE SignedIn(t)
    BY <1>2, <1>3, <2>3, <2>7, SignedInSets DEF TokensAreLive, FlowStays, CallStays, Out
  <2>8. CASE LoggedOut(t)
    BY <1>3, <2>3, <2>8, LoggedOutSets, SignedOutSets DEF FlowStays, CallSet, Out
  <2>9. CASE RestoreRefused(t)
    BY <1>3, <2>4, <2>9, RestoreRefusedSets DEF FlowSet, CallStays, Out, RestoreRefused
  <2>10. CASE RefreshRefused(t)
    <3>1. SessionExpired(t) /\ flow[t]["refresh"].at = "refused"
      BY <2>10 DEF RefreshRefused
    <3>2. \A u \in Tabs : Out(u).at = "served" => Out(u)'.at = "served"
      BY <1>3, <3>1, SessionExpiredSets DEF Out, Waiting
    <3>3. QED
      BY <1>3, <2>4, <3>1, <3>2, SessionExpiredSets DEF FlowSet
  <2>11. ASSUME NEW c \in AllCalls, Answered(t, c)
         PROVE  Good(b)
    <3>1. c # "logout"
      BY <2>11 DEF Answered
    <3>2. \A u \in Tabs : Out(u).at = "served" => Out(u)'.at = "served"
      BY <1>3, <2>11, <3>1, AnsweredSets DEF CallSet, Out
    <3>3. QED
      BY <2>4, <2>11, <3>2, AnsweredSets DEF FlowStays
  <2>12. ASSUME NEW c \in AllCalls, Unauthorized(t, c)
         PROVE  Good(b)
    <3>1. JarStays /\ home' = home
      BY <2>12, UnauthorizedSets
    <3>2. \A u \in Tabs : Out(u).at = "served" => Out(u)'.at = "served"
      BY <1>3, <2>12, UnauthorizedSets DEF CallSet, Out, Unauthorized
    <3>3. \A u \in Tabs, k \in Kinds : flow[u][k].at = "answered" => flow'[u][k].at = "answered"
      BY <1>3, <2>12, UnauthorizedSets DEF FlowStays, FlowSet
    <3>4. QED
      BY <2>4, <3>1, <3>2, <3>3
  <2>13. CASE Reload(t)
    <3>1. JarStays /\ home' = home /\ CallStays
      BY <2>13, ReloadSets
    <3>2. \A k \in Kinds : flow[t][k].at # "answered"
      BY <1>2, <2>13 DEF Abandoned
    <3>3. QED
      BY <1>3, <2>4, <2>13, <3>1, <3>2, ReloadSets DEF CallStays, Out
  <2>14. CASE Submit(t) \/ AccessExpires(t)
    BY <1>3, <2>4, <2>14, SubmitSets, AccessExpiresSets DEF FlowStays, CallStays, Out
  <2>15. ASSUME NEW c \in AllCalls, Ask(t, c)
         PROVE  Good(b)
    <3>1. \A u \in Tabs : Out(u).at = "served" => Out(u)'.at = "served"
      BY <1>3, <2>15, AskSets DEF CallSet, Out, Ask
    <3>2. QED
      BY <2>4, <2>15, <3>1, AskSets DEF FlowStays
  <2>16. QED
    BY <1>9, <2>5, <2>6, <2>7, <2>8, <2>9, <2>10, <2>11, <2>12, <2>13, <2>14, <2>15 DEF TabNext, UserNext
<1>10. QED
  BY <1>2, <1>6, <1>7, <1>8, <1>9 DEF Next, ServerNext

\* What was revoked stays revoked.
LEMMA DeadStaysDead ==
    ASSUME AuthInv, Next, Calm', NEW n \in Token, LiveNext(n)
    PROVE  Live(n)
<1>1. /\ ~ServeGhost /\ TokensAreLive
      /\ \A t \in Tabs : ~FaultNext(t)
  BY CalmSteps
<1>2. ASSUME NEW t \in Tabs, ServerNext(t)
      PROVE  Live(n)
  <2>1. ASSUME NEW k \in Kinds, ServeRefresh(t, k)
        PROVE  Live(n)
    <3>1. flow[t][k].token # 0 => Live(flow[t][k].token)
      BY <1>1 DEF TokensAreLive
    <3>2. QED
      BY <2>1, <3>1, LiveAfter
  <2>2. QED
    BY <1>2, <2>1, LiveAfter, RefuseSignInSets DEF ServerNext, LiveNext
<1>3. ASSUME NEW t \in Tabs, TabNext(t) \/ UserNext(t)
      PROVE  Live(n)
  BY <1>3, TabSteps, LiveAfter
<1>4. QED
  BY <1>1, <1>2, <1>3 DEF Next

Untouched(u) == /\ \A k \in Kinds : flow'[u][k] = flow[u][k]
                /\ form'[u] = form[u] /\ Out(u)' = Out(u) /\ page'[u] = page[u]
                /\ Jar(u)' = Jar(u)

\* A step of a tab alone in its browser leaves the other tabs alone.
LEMMA OthersUntouched ==
    ASSUME AuthInv, Alone, NEW t \in Tabs, ServerNext(t) \/ TabNext(t) \/ UserNext(t)
    PROVE  home' = home /\ \A u \in Tabs \ {t} : Untouched(u)
<1> DEFINE Only == home' = home /\ \A u \in Tabs \ {t} : Untouched(u)
           Rest == \A u \in Tabs \ {t} : /\ \A k \in Kinds : flow'[u][k] = flow[u][k]
                                         /\ form'[u] = form[u] /\ call'[u]["logout"] = call[u]["logout"]
                                         /\ page'[u] = page[u]
           JarHere == JarStays \/ \E n : JarSet(t, n)
<1> USE DEF AuthInv
<1>1. "logout" \in AllCalls /\ "restore" \in Kinds /\ "refresh" \in Kinds
  BY DEF AllCalls, Kinds
<1>2. home' = home /\ JarHere
  <2>1. CASE ServerNext(t)
    BY <2>1, ServeRefreshSets, SignInSets, RefuseSignInSets, LogoutSets DEF ServerNext
  <2>2. CASE TabNext(t)
    BY <2>2, RestoreEndsSets, RestoreRefusedSets, RefreshedSets, RefreshRefusedSets, SessionExpiredSets,
       SignedInSets, LoggedOutSets, SignedOutSets, AnsweredSets, UnauthorizedSets DEF TabNext
  <2>3. CASE UserNext(t)
    BY <2>3, ReloadSets, SubmitSets, AccessExpiresSets, AskSets DEF UserNext
  <2>4. QED
    BY <2>1, <2>2, <2>3
<1>3. Rest
  <2> USE <1>1 DEF FlowStays, FlowSet, FormStays, FormSet, CallStays, CallSet, PageStays, PageSet
  <2>1. CASE ServerNext(t)
    <3>1. ASSUME NEW k \in Kinds, ServeRefresh(t, k)
          PROVE  Rest
      BY <3>1, ServeRefreshSets
    <3>2. CASE SignIn(t) \/ RefuseSignIn(t)
      BY <3>2, SignInSets, RefuseSignInSets
    <3>3. CASE Logout(t)
      BY <3>3, LogoutSets
    <3>4. QED
      BY <2>1, <3>1, <3>2, <3>3 DEF ServerNext
  <2>2. CASE TabNext(t)
    <3>1. ASSUME NEW c \in AllCalls, Unauthorized(t, c)
          PROVE  Rest
      BY <3>1, UnauthorizedSets
    <3>2. ASSUME NEW c \in AllCalls, Answered(t, c)
          PROVE  Rest
      BY <3>2, AnsweredSets
    <3>3. CASE RestoreEnds(t) \/ RestoreRefused(t)
      BY <3>3, RestoreEndsSets, RestoreRefusedSets
    <3>4. CASE Refreshed(t)
      BY <3>4, RefreshedSets
    <3>5. CASE RefreshRefused(t)
      BY <3>5, RefreshRefusedSets, SessionExpiredSets
    <3>6. CASE SignedIn(t)
      BY <3>6, SignedInSets
    <3>7. CASE LoggedOut(t)
      BY <3>7, LoggedOutSets, SignedOutSets
    <3>8. QED
      BY <2>2, <3>1, <3>2, <3>3, <3>4, <3>5, <3>6, <3>7 DEF TabNext
  <2>3. CASE UserNext(t)
    <3>1. CASE Reload(t)
      BY <3>1, ReloadSets
    <3>2. CASE Submit(t) \/ AccessExpires(t)
      BY <3>2, SubmitSets, AccessExpiresSets
    <3>3. ASSUME NEW c \in AllCalls, Ask(t, c)
          PROVE  Rest
      BY <3>3, AskSets
    <3>4. QED
      BY <2>3, <3>1, <3>2, <3>3 DEF UserNext
  <2>4. QED
    BY <2>1, <2>2, <2>3
<1>4. \A u \in Tabs \ {t} : Jar(u)' = Jar(u)
  BY <1>2, JarFacts DEF Alone
<1>5. QED
  BY <1>2, <1>3, <1>4 DEF Untouched, Out

LEMMA AloneStepOthers ==
    ASSUME AuthInv, Next, Calm', NEW u \in Tabs, AloneTab(u), Untouched(u)
    PROVE  AloneTab(u)' /\ \A n : HeldBy(u, n) => HeldBy(u, n)'
<1>1. ~Live(Jar(u)) => ~Live(Jar(u))'
  <2>1. Jar(u) \in Token /\ Jar(u)' = Jar(u)
    BY TypeFacts DEF AuthInv, Untouched
  <2>2. Live(Jar(u))' => LiveNext(Jar(u))
    BY <2>1 DEF Live, LiveNext
  <2>3. QED
    BY <2>1, <2>2, DeadStaysDead
<1>2. /\ \A k \in Kinds : flow'[u][k] = flow[u][k]
      /\ form'[u] = form[u] /\ Out(u)' = Out(u) /\ page'[u] = page[u] /\ Jar(u)' = Jar(u)
  BY DEF Untouched
<1>3. /\ Exchanging(u)' <=> Exchanging(u)
      /\ LoggingOut(u)' <=> LoggingOut(u)
      /\ flow'[u]["refresh"] = flow[u]["refresh"]
  BY <1>2 DEF Exchanging, LoggingOut, Out, Kinds
<1>4. AloneTab(u)'
  BY <1>1, <1>2, <1>3 DEF AloneTab
<1>5. QED
  BY <1>2, <1>4 DEF HeldBy

\* What a tab that is alone is known to be, before a step that upsets nothing.
LEMMA AloneFacts ==
    ASSUME AuthInv, Next, Alone, upset' = {}, NEW t \in Tabs
    PROVE  /\ upset = {} /\ Calm' /\ LiveIsHeld /\ AloneTab(t) /\ ExchangesOne(t)
           /\ LoggingOut(t) => ~Exchanging(t)
           /\ \A k \in Kinds : /\ flow[t][k].token # 0 => Live(flow[t][k].token)
                               /\ ExchangeShape(flow[t][k])
           /\ FormShape(form[t]) /\ LogoutShape(Out(t))
           /\ page[t] = "authenticated" => Jar(t) # 0
           /\ "logout" \in AllCalls /\ "restore" \in Kinds /\ "refresh" \in Kinds
           /\ Kinds = {"restore", "refresh"} /\ home[t] \in Browsers
           /\ Jar(t) \in Token
           /\ ~Live(0) /\ ~LiveNext(0)
           /\ \A n \in Token : LiveNext(n) => Live(n)
<1>1. upset = {} /\ Calm'
  BY UpsetGrows DEF Calm
<1>2. LogoutIsAlone /\ TokensAreLive
  BY <1>1, CalmSteps
<1>3. /\ "logout" \in AllCalls /\ "restore" \in Kinds /\ "refresh" \in Kinds
      /\ Kinds = {"restore", "refresh"} /\ home[t] \in Browsers /\ Jar(t) \in Token
  BY TypeFacts DEF AuthInv, Kinds
<1>4. LiveIsHeld /\ AloneTab(t) /\ ExchangesOne(t)
  BY <1>1 DEF AuthInv, AloneInv, OneExchange
<1>5. page[t] = "authenticated" => Jar(t) # 0
  BY DEF Alone, AuthInv, SignedInHasCookie
<1>6. /\ \A k \in Kinds : ExchangeShape(flow[t][k])
      /\ FormShape(form[t]) /\ LogoutShape(Out(t))
  BY DEF AuthInv, Shapes
<1>7. \A n \in Token : LiveNext(n) => Live(n)
  BY <1>1, DeadStaysDead
<1>8. ~Live(0) /\ ~LiveNext(0)
  BY DEF Live, LiveNext
<1>9. QED
  BY <1>1, <1>2, <1>3, <1>4, <1>5, <1>6, <1>7, <1>8 DEF LogoutIsAlone, TokensAreLive

\* What a step of tab t leaves it.
Keeps(t) == AloneTab(t)' /\ \A n \in Token : LiveNext(n) /\ HeldBy(t, n) => HeldBy(t, n)'

\* AloneTab and HeldBy, with the two exchanges of the tab spelled out.
LEMMA KeepsIf ==
    ASSUME NEW t \in Tabs, NEW p, NEW e, NEW r, NEW f, NEW o, NEW j \in Nat,
           page'[t] = p, flow'[t]["restore"] = e, flow'[t]["refresh"] = r,
           form'[t] = f, Out(t)' = o, Jar(t)' = j,
           f.at # "idle" => p # "authenticated",
           o.at # "idle" => p = "authenticated",
           p # "authenticated" /\ e.at = "idle" /\ r.at = "idle" => j = 0,
           r.token # 0 => p = "authenticated",
           \A x \in {e, r} : /\ x.at \in {"asked", "found"} => x.token = j
                             /\ x.at = "refused" => j = 0
                             /\ x.at = "answered" => ~LiveNext(j),
           o.at # "idle" /\ o.good /\ o.at # "served" => o.token = j,
           o.at = "served" => ~LiveNext(j)
    PROVE  AloneTab(t)'
<1>1. Live(Jar(t))' <=> LiveNext(j)
  BY DEF Live, LiveNext
<1>2. Exchanging(t)' <=> e.at # "idle" \/ r.at # "idle"
  BY DEF Exchanging, Kinds
<1>3. LoggingOut(t)' <=> o.at # "idle" /\ o.good
  BY DEF LoggingOut, Out
<1>4. \A k \in Kinds : flow'[t][k] \in {e, r}
  BY DEF Kinds
<1>5. QED
  BY <1>1, <1>2, <1>3, <1>4 DEF AloneTab

LEMMA AloneServeRefresh ==
    ASSUME AuthInv, Next, Alone, upset' = {}, NEW t \in Tabs, NEW k \in Kinds, ServeRefresh(t, k)
    PROVE  Keeps(t) /\ \A n : rows' # rows /\ n = Len(rows) + 1 => HeldBy(t, n)'
<1> DEFINE e == flow[t][k]
<1>1. /\ FlowSet(t, k, Reply(e)) /\ FormStays /\ PageStays /\ CallStays
      /\ JarStays /\ home' = home
  BY ServeRefreshSets
<1>2. Jar(t)' = Jar(t)
  BY <1>1, JarFacts DEF AuthInv
<1>3. e \in Exchange /\ RefreshHandler(e) /\ e.token \in Token
  BY TypeFacts, RecordFacts DEF ServeRefresh, AuthInv
<1>4. /\ AloneTab(t) /\ ExchangesOne(t) /\ ExchangeShape(e) /\ (e.token # 0 => Live(e.token))
      /\ ~LiveNext(0) /\ Jar(t) \in Token /\ "logout" \in AllCalls
      /\ Kinds = {"restore", "refresh"}
      /\ \A n \in Token : LiveNext(n) => Live(n)
  BY AloneFacts
<1>5. e.at \in {"asked", "found"} /\ e.token = Jar(t)
  BY <1>3, <1>4, ReplyFacts DEF AloneTab
<1>6. /\ Reply(e).at \in {"found", "answered", "refused"}
      /\ Reply(e).at = "found" => Reply(e).token = e.token
      /\ Reply(e).at = "refused" => Reply(e).token = 0
      /\ Reply(e).at = "answered" => e.at = "found" /\ Reply(e).token = Len(rows) + 1
                                     /\ rows' = Rotate(e.token)
  BY <1>3, ReplyFacts
<1>7. Reply(e).at = "refused" => Jar(t) = 0
  BY <1>3, <1>4, <1>5 DEF Reply, Exchange
<1>8. Reply(e).at = "answered" => ~LiveNext(Jar(t))
  <2>1. SUFFICES ASSUME Reply(e).at = "answered"
                 PROVE  ~LiveNext(e.token)
    BY <1>5
  <2>2. e.token \in DOMAIN rows /\ rows' = Rotate(e.token)
    BY <1>3, <1>4, <1>6, <2>1, TokenFacts DEF ExchangeShape, AuthInv
  <2>3. QED
    BY <2>2, RotateFacts DEF LiveNext, AuthInv
<1>9. rows' # rows => Reply(e).at = "answered"
  BY <1>3, <1>4, LiveAfter
<1> HIDE DEF e
<1>10. \A x \in Kinds : /\ flow'[t][x].at \in {"asked", "found"} => flow'[t][x].token = Jar(t)
                        /\ flow'[t][x].at = "refused" => Jar(t) = 0
                        /\ flow'[t][x].at = "answered" => ~LiveNext(Jar(t))
  BY <1>1, <1>4, <1>5, <1>6, <1>7, <1>8 DEF FlowSet, AloneTab
<1>11. Exchanging(t)'
  BY <1>1, <1>6 DEF FlowSet, Exchanging
<1>12. flow'[t]["refresh"].token # 0 => page'[t] = "authenticated"
  <2>1. CASE k = "refresh"
    <3>1. Reply(e).token # 0 => flow[t]["refresh"].token # 0
      BY <1>4, <1>6, <2>1 DEF e, ExchangeShape
    <3>2. QED
      BY <1>1, <1>4, <2>1, <3>1 DEF FlowSet, AloneTab, PageStays
  <2>2. CASE k # "refresh"
    BY <1>1, <1>4, <2>2 DEF FlowSet, AloneTab, PageStays
  <2>3. QED
    BY <2>1, <2>2
<1>13. /\ Out(t)' = Out(t) /\ (LoggingOut(t)' <=> LoggingOut(t))
       /\ page'[t] = page[t] /\ form'[t] = form[t]
  BY <1>1, <1>4 DEF CallStays, Out, LoggingOut, PageStays, FormStays
<1>14. Live(Jar(t))' <=> LiveNext(Jar(t))
  BY <1>2 DEF Live, LiveNext
<1>15. AloneTab(t)'
  BY <1>2, <1>4, <1>10, <1>11, <1>12, <1>13, <1>14 DEF AloneTab
<1>16. \A n \in Token : HeldBy(t, n) => HeldBy(t, n)'
  <2>1. \A x \in Kinds : flow[t][x].at = "answered" => flow'[t][x] = flow[t][x]
    BY <1>1, <1>5 DEF FlowSet, e
  <2>2. QED
    BY <1>2, <1>13, <2>1 DEF HeldBy
<1>17. \A n : rows' # rows /\ n = Len(rows) + 1 => HeldBy(t, n)'
  <2>1. flow'[t][k] = Reply(e)
    BY <1>1 DEF FlowSet
  <2>2. rows' # rows => flow'[t][k].at = "answered" /\ flow'[t][k].token = Len(rows) + 1
    BY <1>6, <1>9, <2>1
  <2>3. \A n : flow'[t][k].at = "answered" /\ flow'[t][k].token = n => HeldBy(t, n)'
    BY DEF HeldBy
  <2>4. QED
    BY <2>2, <2>3
<1>18. QED
  BY <1>15, <1>16, <1>17 DEF Keeps

\* The other steps of the server.
LEMMA AloneServer ==
    ASSUME AuthInv, Next, Alone, upset' = {}, NEW t \in Tabs, SignIn(t) \/ RefuseSignIn(t) \/ Logout(t)
    PROVE  /\ Keeps(t)
           /\ \A n : SignIn(t) /\ n = Len(rows) + 1 => HeldBy(t, n)'
<1> DEFINE j == Jar(t)
           o == Out(t)
           e == flow[t]["restore"]
           r == flow[t]["refresh"]
<1>1. /\ JarStays /\ FlowStays /\ PageStays /\ home' = home
  BY SignInSets, RefuseSignInSets, LogoutSets
<1>2. /\ AloneTab(t) /\ FormShape(form[t]) /\ LogoutShape(o) /\ Kinds = {"restore", "refresh"}
      /\ "logout" \in AllCalls /\ ~LiveNext(0) /\ Jar(t) \in Token
      /\ \A n \in Token : LiveNext(n) => Live(n)
  BY AloneFacts
<1>3. /\ Jar(t)' = j /\ flow'[t]["restore"] = e /\ flow'[t]["refresh"] = r /\ page'[t] = page[t]
  BY <1>1, <1>2, JarFacts DEF AuthInv, FlowStays, PageStays
<1>4. /\ form[t].at # "idle" => page[t] # "authenticated"
      /\ o.at # "idle" => page[t] = "authenticated"
      /\ page[t] # "authenticated" /\ e.at = "idle" /\ r.at = "idle" => j = 0
      /\ r.token # 0 => page[t] = "authenticated"
      /\ \A x \in {e, r} : /\ x.at \in {"asked", "found"} => x.token = j
                           /\ x.at = "refused" => j = 0
                           /\ x.at = "answered" => ~LiveNext(j)
      /\ o.at # "idle" /\ o.good /\ o.at # "served" => o.token = j
      /\ o.at = "served" => ~LiveNext(j)
  BY <1>2 DEF AloneTab, Exchanging, LoggingOut, Out
<1>5. \A n \in Token : \/ Jar(t) = n
                       \/ \E x \in Kinds : flow[t][x].at = "answered" /\ flow[t][x].token = n
                    => HeldBy(t, n)'
  BY <1>1, <1>3 DEF HeldBy, FlowStays
<1>6. form'[t] = form[t] => \A n \in Token : HeldBy(t, n) => HeldBy(t, n)'
  BY <1>5 DEF HeldBy
<1>7. j \in Nat
  BY <1>2, TokenFacts DEF AuthInv
<1> HIDE DEF j, o, e, r
<1>8. ASSUME SignIn(t)
      PROVE  Keeps(t)
  <2> DEFINE f == [at |-> "answered", token |-> Len(rows) + 1]
  <2>1. CallStays /\ form'[t] = f /\ form[t].at = "asked"
    BY <1>8, SignInSets DEF FormSet, SignIn
  <2>2. Out(t)' = o
    BY <1>2, <2>1 DEF CallStays, Out, o
  <2>3. AloneTab(t)'
    BY <1>3, <1>4, <1>7, <2>1, <2>2, KeepsIf
  <2>4. form[t].token = 0
    BY <1>2, <2>1 DEF FormShape
  <2>5. \A n \in Token : LiveNext(n) /\ HeldBy(t, n) => HeldBy(t, n)'
    BY <1>2, <1>5, <2>4 DEF HeldBy
  <2>6. QED
    BY <2>3, <2>5 DEF Keeps
<1>9. ASSUME RefuseSignIn(t)
      PROVE  Keeps(t)
  <2>1. CallStays /\ form'[t] = Idle /\ form[t].at = "asked"
    BY <1>9, RefuseSignInSets DEF FormSet, RefuseSignIn
  <2>2. Out(t)' = o
    BY <1>2, <2>1 DEF CallStays, Out, o
  <2>3. AloneTab(t)'
    BY <1>3, <1>4, <1>7, <2>1, <2>2, KeepsIf DEF Idle
  <2>4. form[t].token = 0
    BY <1>2, <2>1 DEF FormShape
  <2>5. \A n \in Token : LiveNext(n) /\ HeldBy(t, n) => HeldBy(t, n)'
    BY <1>2, <1>5, <2>4 DEF HeldBy
  <2>6. QED
    BY <2>3, <2>5 DEF Keeps
<1>10. ASSUME Logout(t)
      PROVE  Keeps(t)
  <2> DEFINE oo == [Out(t) EXCEPT !.at = "served"]
  <2>1. CallSet(t, "logout", oo) /\ FormStays /\ o.at \in {"sent", "resent"} /\ o.good
    BY <1>10, LogoutSets DEF Logout, Out, o
  <2>2. Out(t)' = oo /\ form'[t] = form[t]
    BY <1>2, <2>1 DEF CallSet, Out, FormStays
  <2>3. oo.at = "served"
    <3>1. Out(t) \in Call
      BY TypeFacts DEF Out, AuthInv
    <3>2. QED
      BY <3>1 DEF Call
  <2>4. ~LiveNext(j)
    <3>1. o.token # 0 => ~LiveNext(o.token)
      BY <1>10, LiveAfter DEF o
    <3>2. QED
      BY <1>2, <1>4, <2>1, <3>1
  <2> HIDE DEF oo
  <2>5. AloneTab(t)'
    BY <1>3, <1>4, <1>7, <2>1, <2>2, <2>3, <2>4, KeepsIf
  <2>6. QED
    BY <1>6, <2>2, <2>5 DEF Keeps
<1>11. \A n : SignIn(t) /\ n = Len(rows) + 1 => HeldBy(t, n)'
  <2>1. SignIn(t) => form'[t].token = Len(rows) + 1
    BY SignInSets DEF FormSet
  <2>2. QED
    BY <2>1 DEF HeldBy
<1>12. QED
  BY <1>8, <1>9, <1>10, <1>11

\* The cookie of a tab, after a step that sets the cookie of its browser or
\* leaves the cookies alone.
LEMMA CookieAfter ==
    ASSUME AuthTypeOK, home' = home, NEW t \in Tabs
    PROVE  /\ JarStays => Jar(t)' = Jar(t)
           /\ \A n : JarSet(t, n) => Jar(t)' = n
  BY JarFacts

\* restoreSession ends.
LEMMA AloneRestore ==
    ASSUME AuthInv, Next, Alone, upset' = {}, NEW t \in Tabs, RestoreEnds(t) \/ RestoreRefused(t)
    PROVE  Keeps(t)
<1> DEFINE j == flow[t]["restore"].token
<1>1. /\ AloneTab(t) /\ ExchangesOne(t) /\ (\A k \in Kinds : ExchangeShape(flow[t][k]))
      /\ upset = {} /\ Kinds = {"restore", "refresh"}
      /\ "logout" \in AllCalls /\ ~LiveNext(0) /\ Jar(t) \in Token
      /\ \A n \in Token : LiveNext(n) => Live(n)
  BY AloneFacts
<1>2. /\ flow'[t]["restore"] = Idle /\ flow'[t]["refresh"] = flow[t]["refresh"]
      /\ form'[t] = form[t] /\ Out(t)' = Out(t) /\ home' = home
      /\ flow[t]["restore"].at \in {"answered", "refused"}
  BY <1>1, RestoreEndsSets, RestoreRefusedSets
     DEF FlowSet, FormStays, CallStays, Out, RestoreEnds, RestoreRefused
<1>3. /\ form[t].at = "idle" /\ Out(t).at = "idle"
      /\ flow[t]["refresh"].at = "idle" /\ flow[t]["refresh"].token = 0
  BY <1>1, <1>2 DEF ExchangesOne, Exchanging, Waiting, Out, ExchangeShape
<1>4. j \in Nat /\ Jar(t) \in Nat
  BY <1>1, TypeFacts, RecordFacts, TokenFacts DEF AuthInv
<1>5. CASE RestoreEnds(t)
  <2>1. Jar(t)' = j /\ page'[t] = "authenticated" /\ flow[t]["restore"].at = "answered"
    <3>1. JarSet(t, j) /\ PageSet(t, "authenticated") /\ AuthTypeOK
      BY <1>5, RestoreEndsSets DEF AuthInv
    <3>2. flow[t]["restore"].at = "answered"
      BY <1>5 DEF RestoreEnds
    <3>3. QED
      BY <1>2, <3>1, <3>2, CookieAfter DEF PageSet
  <2> HIDE DEF j
  <2>2. AloneTab(t)'
    BY <1>2, <1>3, <1>4, <2>1, KeepsIf DEF Idle
  <2>3. ~Live(Jar(t))
    BY <1>1, <2>1 DEF AloneTab
  <2>4. \A n \in Token : LiveNext(n) /\ HeldBy(t, n) => HeldBy(t, n)'
    BY <1>1, <1>2, <1>3, <2>1, <2>3 DEF HeldBy, j
  <2>5. QED
    BY <2>2, <2>4 DEF Keeps
<1>6. CASE RestoreRefused(t)
  <2>1. Jar(t)' = Jar(t) /\ page'[t] = "anonymous" /\ flow[t]["restore"].at = "refused"
    BY <1>2, <1>6, RestoreRefusedSets, CookieAfter DEF PageSet, RestoreRefused, AuthInv
  <2>2. Jar(t) = 0
    BY <1>1, <2>1 DEF AloneTab
  <2>3. AloneTab(t)'
    BY <1>2, <1>3, <1>4, <2>1, <2>2, KeepsIf DEF Idle
  <2>4. \A n \in Token : HeldBy(t, n) => HeldBy(t, n)'
    BY <1>1, <1>2, <1>3, <2>1 DEF HeldBy
  <2>5. QED
    BY <2>3, <2>4 DEF Keeps
<1>7. QED
  BY <1>5, <1>6

\* The exchange that calls wait for ends.
LEMMA AloneRefreshed ==
    ASSUME AuthInv, Next, Alone, upset' = {}, NEW t \in Tabs, Refreshed(t)
    PROVE  Keeps(t)
<1> DEFINE j == flow[t]["refresh"].token
<1>1. /\ AloneTab(t) /\ ExchangesOne(t) /\ (\A k \in Kinds : ExchangeShape(flow[t][k]))
      /\ (LoggingOut(t) => ~Exchanging(t)) /\ LogoutShape(Out(t))
      /\ upset = {} /\ Kinds = {"restore", "refresh"}
      /\ "logout" \in AllCalls /\ ~LiveNext(0) /\ Jar(t) \in Token
      /\ \A n \in Token : LiveNext(n) => Live(n)
  BY AloneFacts
<1>2. /\ flow'[t]["refresh"] = Idle /\ flow'[t]["restore"] = flow[t]["restore"]
      /\ form'[t] = form[t] /\ home' = home /\ page'[t] = page[t]
      /\ "logout" \notin Waiting(t) => Out(t)' = Out(t)
      /\ "logout" \in Waiting(t) => Out(t)'.at = "resent" /\ Out(t)'.token = j
  BY <1>1, RefreshedSets DEF FlowSet, FormStays, PageStays, Out
<1>3. flow[t]["refresh"].at = "answered" /\ j # 0
  BY <1>1 DEF Refreshed, ExchangeShape
<1>4. Jar(t)' = j /\ page[t] = "authenticated"
  BY <1>1, <1>2, <1>3, RefreshedSets, CookieAfter DEF AuthInv, AloneTab
<1>5. /\ flow[t]["restore"].at = "idle" /\ flow[t]["restore"].token = 0
      /\ form[t].at = "idle" /\ ~LoggingOut(t)
  BY <1>1, <1>3, <1>4 DEF ExchangesOne, Exchanging, AloneTab, ExchangeShape
<1>6. j \in Nat
  BY <1>1, TypeFacts, RecordFacts, TokenFacts DEF AuthInv
<1>7. /\ Out(t)'.at # "idle" /\ Out(t)'.good /\ Out(t)'.at # "served" => Out(t)'.token = j
      /\ Out(t)'.at # "served"
  BY <1>1, <1>2, <1>5 DEF LoggingOut, LogoutShape, Out
<1> HIDE DEF j
<1>8. AloneTab(t)'
  <2>1. PICK o : o = Out(t)'
    OBVIOUS
  <2>2. QED
    BY <1>2, <1>4, <1>5, <1>6, <1>7, <2>1, KeepsIf DEF Idle
<1>9. ~Live(Jar(t))
  BY <1>1, <1>3 DEF AloneTab
<1>10. \A n \in Token : LiveNext(n) /\ HeldBy(t, n) => HeldBy(t, n)'
  BY <1>1, <1>2, <1>4, <1>5, <1>9 DEF HeldBy, j
<1>11. QED
  BY <1>8, <1>10 DEF Keeps

LEMMA AloneRefreshRefused ==
    ASSUME AuthInv, Next, Alone, upset' = {}, NEW t \in Tabs, RefreshRefused(t)
    PROVE  Keeps(t)
<1>1. /\ AloneTab(t) /\ ExchangesOne(t) /\ (\A k \in Kinds : ExchangeShape(flow[t][k]))
      /\ (page[t] = "authenticated" => Jar(t) # 0)
      /\ upset = {} /\ Kinds = {"restore", "refresh"}
      /\ "logout" \in AllCalls /\ ~LiveNext(0) /\ Jar(t) \in Token
      /\ \A n \in Token : LiveNext(n) => Live(n)
  BY AloneFacts
<1>2. flow[t]["refresh"].at = "refused" /\ SessionExpired(t)
  BY DEF RefreshRefused
<1>3. /\ flow'[t]["refresh"] = Idle /\ flow'[t]["restore"] = flow[t]["restore"]
      /\ form'[t] = form[t] /\ home' = home /\ page'[t] = "anonymous"
      /\ Out(t)' \in {Out(t), Quiet} /\ JarStays
  BY <1>1, <1>2, SessionExpiredSets DEF FlowSet, FormStays, PageSet, Out
<1>4. Jar(t)' = Jar(t) /\ Jar(t) = 0 /\ page[t] # "authenticated"
  BY <1>1, <1>2, <1>3, CookieAfter DEF AuthInv, AloneTab
<1>5. /\ flow[t]["restore"].at = "idle" /\ Out(t).at = "idle"
  BY <1>1, <1>2, <1>4 DEF ExchangesOne, AloneTab, Waiting
<1>6. Out(t)'.at = "idle"
  BY <1>3, <1>5 DEF Quiet
<1>7. AloneTab(t)'
  <2>1. PICK o : o = Out(t)'
    OBVIOUS
  <2>2. QED
    BY <1>3, <1>4, <1>5, <1>6, <2>1, KeepsIf DEF Idle
<1>8. \A n \in Token : LiveNext(n) /\ HeldBy(t, n) => HeldBy(t, n)'
  BY <1>1, <1>2, <1>3, <1>4, <1>5 DEF HeldBy
<1>9. QED
  BY <1>7, <1>8 DEF Keeps

\* A sign-in and a logout end.
LEMMA AloneSignedIn ==
    ASSUME AuthInv, Next, Alone, upset' = {}, NEW t \in Tabs, SignedIn(t)
    PROVE  Keeps(t)
<1> DEFINE j == form[t].token
<1>1. /\ AloneTab(t) /\ ExchangesOne(t) /\ (\A k \in Kinds : ExchangeShape(flow[t][k]))
      /\ upset = {} /\ Kinds = {"restore", "refresh"}
      /\ "logout" \in AllCalls /\ ~LiveNext(0) /\ Jar(t) \in Token
      /\ \A n \in Token : LiveNext(n) => Live(n)
  BY AloneFacts
<1>2. /\ flow'[t]["refresh"] = flow[t]["refresh"] /\ flow'[t]["restore"] = flow[t]["restore"]
      /\ form'[t] = Idle /\ home' = home /\ page'[t] = "authenticated"
      /\ Out(t)' = Out(t) /\ form[t].at = "answered" /\ JarSet(t, j)
  <2>1. form[t].at = "answered"
    BY DEF SignedIn
  <2>2. QED
    BY <1>1, <2>1, SignedInSets DEF FlowStays, FormSet, PageSet, CallStays, Out
<1>3. Jar(t)' = j /\ j \in Nat
  BY <1>2, CookieAfter, TypeFacts, RecordFacts, TokenFacts DEF AuthInv
<1>4. ~Exchanging(t) /\ page[t] # "authenticated" /\ Out(t).at = "idle" /\ Jar(t) = 0
  BY <1>1, <1>2 DEF ExchangesOne, AloneTab
<1>5. /\ flow[t]["refresh"].at = "idle" /\ flow[t]["restore"].at = "idle"
      /\ flow[t]["refresh"].token = 0
  BY <1>1, <1>4 DEF Exchanging, ExchangeShape
<1> HIDE DEF j
<1>6. AloneTab(t)'
  BY <1>2, <1>3, <1>4, <1>5, KeepsIf DEF Idle
<1>7. \A n \in Token : LiveNext(n) /\ HeldBy(t, n) => HeldBy(t, n)'
  BY <1>1, <1>2, <1>3, <1>4, <1>5 DEF HeldBy, j
<1>8. QED
  BY <1>6, <1>7 DEF Keeps

LEMMA AloneLoggedOut ==
    ASSUME AuthInv, Next, Alone, upset' = {}, NEW t \in Tabs, LoggedOut(t)
    PROVE  Keeps(t)
<1>1. /\ AloneTab(t) /\ (LoggingOut(t) => ~Exchanging(t)) /\ LogoutShape(Out(t))
      /\ (\A k \in Kinds : ExchangeShape(flow[t][k])) /\ Kinds = {"restore", "refresh"}
      /\ "logout" \in AllCalls /\ ~LiveNext(0) /\ Jar(t) \in Token
      /\ \A n \in Token : LiveNext(n) => Live(n)
  BY AloneFacts
<1>2. /\ flow'[t]["refresh"] = flow[t]["refresh"] /\ flow'[t]["restore"] = flow[t]["restore"]
      /\ form'[t] = form[t] /\ home' = home /\ page'[t] = "anonymous"
      /\ Out(t)' = Quiet /\ Out(t).at = "served" /\ JarSet(t, 0)
  BY <1>1, LoggedOutSets, SignedOutSets DEF FlowStays, FormStays, PageSet, CallSet, Out, LoggedOut
<1>3. Jar(t)' = 0 /\ ~Live(Jar(t))
  BY <1>1, <1>2, CookieAfter DEF AuthInv, AloneTab
<1>4. ~Exchanging(t)
  BY <1>1, <1>2 DEF LoggingOut, LogoutShape, Out
<1>5. /\ flow[t]["refresh"].at = "idle" /\ flow[t]["restore"].at = "idle"
      /\ flow[t]["refresh"].token = 0
  BY <1>1, <1>4 DEF Exchanging, ExchangeShape
<1>6. AloneTab(t)'
  BY <1>1, <1>2, <1>3, <1>5, KeepsIf DEF Quiet
<1>7. \A n \in Token : LiveNext(n) /\ HeldBy(t, n) => HeldBy(t, n)'
  BY <1>1, <1>2, <1>3, <1>5 DEF HeldBy
<1>8. QED
  BY <1>6, <1>7 DEF Keeps

\* The calls, and what the person does.
LEMMA AloneCalls ==
    ASSUME AuthInv, Next, Alone, upset' = {}, NEW t \in Tabs, NEW c \in AllCalls,
           Answered(t, c) \/ Ask(t, c)
    PROVE  Keeps(t)
<1>1. /\ AloneTab(t) /\ Kinds = {"restore", "refresh"} /\ upset = {}
      /\ "logout" \in AllCalls /\ ~LiveNext(0) /\ Jar(t) \in Token
      /\ \A n \in Token : LiveNext(n) => Live(n)
  BY AloneFacts
<1>2. /\ FlowStays /\ FormStays /\ PageStays /\ JarStays /\ home' = home
  BY AnsweredSets, AskSets
<1>3. /\ flow'[t]["refresh"] = flow[t]["refresh"] /\ flow'[t]["restore"] = flow[t]["restore"]
      /\ form'[t] = form[t] /\ page'[t] = page[t] /\ Jar(t)' = Jar(t)
      /\ \A k \in Kinds : flow'[t][k] = flow[t][k]
  BY <1>1, <1>2, CookieAfter DEF FlowStays, FormStays, PageStays, AuthInv
<1>4. \/ Out(t)' = Out(t)
      \/ page[t] = "authenticated" /\ Out(t)'.at = "sent" /\ Out(t)'.token = Jar(t)
  <2>1. CASE c = "logout"
    <3>1. Ask(t, c) /\ page[t] = "authenticated"
      BY <2>1 DEF Answered, Ask
    <3>2. Out(t)' = Sent(t, c)
      BY <1>1, <2>1, <3>1, AskSets DEF CallSet, Out
    <3>3. QED
      BY <2>1, <3>1, <3>2 DEF Sent
  <2>2. CASE c # "logout"
    BY <1>1, <2>2, AnsweredSets, AskSets DEF CallSet, Out
  <2>3. QED
    BY <2>1, <2>2
<1>5. Jar(t) \in Nat
  BY <1>1, TokenFacts DEF AuthInv
<1>6. AloneTab(t)'
  <2>1. PICK o : o = Out(t)'
    OBVIOUS
  <2>2. /\ \A x \in {flow[t]["restore"], flow[t]["refresh"]} :
              /\ x.at \in {"asked", "found"} => x.token = Jar(t)
              /\ x.at = "refused" => Jar(t) = 0
              /\ x.at = "answered" => ~LiveNext(Jar(t))
        /\ page[t] # "authenticated" /\ flow[t]["restore"].at = "idle" /\ flow[t]["refresh"].at = "idle"
              => Jar(t) = 0
        /\ form[t].at # "idle" => page[t] # "authenticated"
        /\ flow[t]["refresh"].token # 0 => page[t] = "authenticated"
    BY <1>1 DEF AloneTab, Exchanging
  <2>3. /\ o.at # "idle" => page[t] = "authenticated"
        /\ o.at # "idle" /\ o.good /\ o.at # "served" => o.token = Jar(t)
        /\ o.at = "served" => ~LiveNext(Jar(t))
    BY <1>1, <1>4, <2>1 DEF AloneTab, LoggingOut, Out
  <2>4. QED
    BY <1>3, <1>5, <2>1, <2>2, <2>3, KeepsIf
<1>7. \A n \in Token : HeldBy(t, n) => HeldBy(t, n)'
  BY <1>3 DEF HeldBy
<1>8. QED
  BY <1>6, <1>7 DEF Keeps

LEMMA AloneUnauthorized ==
    ASSUME AuthInv, Next, Alone, upset' = {}, NEW t \in Tabs, NEW c \in AllCalls, Unauthorized(t, c)
    PROVE  Keeps(t)
<1>1. /\ AloneTab(t) /\ ExchangesOne(t) /\ Kinds = {"restore", "refresh"} /\ upset = {}
      /\ "logout" \in AllCalls /\ ~LiveNext(0) /\ Jar(t) \in Token
      /\ \A n \in Token : LiveNext(n) => Live(n)
  BY AloneFacts
<1>2. call[t][c].at = "sent"
  BY DEF Unauthorized
<1>3. /\ CallSet(t, c, [Quiet EXCEPT !.at = "waiting"])
      /\ FormStays /\ PageStays /\ JarStays /\ home' = home
      /\ IF flow[t]["refresh"].at # "idle" THEN FlowStays ELSE FlowSet(t, "refresh", Asks(t))
  BY UnauthorizedSets
<1>4. /\ flow'[t]["restore"] = flow[t]["restore"]
      /\ \/ flow'[t]["refresh"] = flow[t]["refresh"]
         \/ flow[t]["refresh"].at = "idle" /\ flow'[t]["refresh"] = Asks(t)
      /\ form'[t] = form[t] /\ page'[t] = page[t] /\ Jar(t)' = Jar(t)
  BY <1>1, <1>3, CookieAfter DEF FlowStays, FlowSet, FormStays, PageStays, AuthInv
<1>5. \/ Out(t)' = Out(t)
      \/ Out(t).at # "idle" /\ Out(t)'.at = "waiting" /\ ~Out(t)'.good
  <2>1. CASE c = "logout"
    <3>1. Quiet.good = FALSE /\ Quiet = [at |-> "idle", good |-> FALSE, token |-> 0]
      BY DEF Quiet
    <3>2. [Quiet EXCEPT !.at = "waiting"].at = "waiting" /\ ~[Quiet EXCEPT !.at = "waiting"].good
      BY <3>1
    <3>3. Out(t)' = [Quiet EXCEPT !.at = "waiting"]
      BY <1>1, <1>3, <2>1 DEF CallSet, Out
    <3>4. QED
      BY <1>2, <2>1, <3>2, <3>3 DEF Out
  <2>2. CASE c # "logout"
    BY <1>1, <1>3, <2>2 DEF CallSet, Out
  <2>3. QED
    BY <2>1, <2>2
<1>6. flow[t]["restore"].at = "idle"
  BY <1>1, <1>2 DEF ExchangesOne
<1>7. flow[t]["refresh"].at = "idle" /\ page[t] # "authenticated" => Jar(t) = 0
  BY <1>1, <1>6 DEF AloneTab, Exchanging
<1>8. Jar(t) \in Nat /\ Asks(t).at = "asked" /\ Asks(t).token = Jar(t)
  BY <1>1, TokenFacts DEF AuthInv, Asks
<1>9. AloneTab(t)'
  <2>1. PICK o, r : o = Out(t)' /\ r = flow'[t]["refresh"]
    OBVIOUS
  <2>2. /\ \A x \in {flow[t]["restore"], r} :
              /\ x.at \in {"asked", "found"} => x.token = Jar(t)
              /\ x.at = "refused" => Jar(t) = 0
              /\ x.at = "answered" => ~LiveNext(Jar(t))
        /\ page[t] # "authenticated" /\ flow[t]["restore"].at = "idle" /\ r.at = "idle"
              => Jar(t) = 0
        /\ form[t].at # "idle" => page[t] # "authenticated"
        /\ r.token # 0 => page[t] = "authenticated"
    BY <1>1, <1>4, <1>7, <1>8, <2>1 DEF AloneTab, Exchanging
  <2>3. /\ o.at # "idle" => page[t] = "authenticated"
        /\ o.at # "idle" /\ o.good /\ o.at # "served" => o.token = Jar(t)
        /\ o.at = "served" => ~LiveNext(Jar(t))
    BY <1>1, <1>5, <2>1 DEF AloneTab, LoggingOut, Out
  <2>4. QED
    BY <1>4, <1>8, <2>1, <2>2, <2>3, KeepsIf
<1>10. \A n \in Token : HeldBy(t, n) => HeldBy(t, n)'
  BY <1>1, <1>4 DEF HeldBy
<1>11. QED
  BY <1>9, <1>10 DEF Keeps

LEMMA AloneUser ==
    ASSUME AuthInv, Next, Alone, upset' = {}, NEW t \in Tabs, Reload(t) \/ Submit(t) \/ AccessExpires(t)
    PROVE  Keeps(t)
<1>1. /\ AloneTab(t) /\ ExchangesOne(t) /\ Kinds = {"restore", "refresh"} /\ upset = {} /\ Calm'
      /\ "logout" \in AllCalls /\ "restore" \in Kinds /\ "refresh" \in Kinds
      /\ ~LiveNext(0) /\ Jar(t) \in Token
      /\ \A n \in Token : LiveNext(n) => Live(n)
  BY AloneFacts
<1>2. FormStays \/ FormSet(t, [form[t] EXCEPT !.at = "asked"])
  BY ReloadSets, SubmitSets, AccessExpiresSets
<1>3. /\ CallStays /\ JarStays /\ home' = home
  BY ReloadSets, SubmitSets, AccessExpiresSets
<1>4. Out(t)' = Out(t) /\ Jar(t)' = Jar(t)
  BY <1>1, <1>3, CookieAfter DEF CallStays, Out, AuthInv
<1>5. form'[t] = form[t] \/ form'[t].token = form[t].token
  <2>1. [form[t] EXCEPT !.at = "asked"].token = form[t].token
    BY TypeFacts DEF Form, AuthInv
  <2>2. QED
    BY <1>2, <2>1 DEF FormStays, FormSet
<1>6. Jar(t) \in Nat /\ Asks(t).at = "asked" /\ Asks(t).token = Jar(t)
  BY <1>1, TokenFacts DEF AuthInv, Asks
<1>7. CASE Reload(t)
  <2>1. Abandoned(t) = {}
    BY <1>1, <1>7, CalmSteps
  <2>2. \A k \in Kinds : flow[t][k].at # "answered"
    BY <2>1 DEF Abandoned
  <2>3. form[t].at = "idle" /\ Out(t).at = "idle"
    BY <1>1, <1>7 DEF Reload, Out
  <2>4. /\ flow'[t]["restore"] = Asks(t) /\ flow'[t]["refresh"] = Idle
        /\ page'[t] = "loading" /\ form'[t] = form[t]
    BY <1>1, <1>7, ReloadSets DEF PageSet, FormStays
  <2>5. AloneTab(t)'
    BY <1>4, <1>6, <2>3, <2>4, KeepsIf DEF Idle
  <2>6. \A n \in Token : HeldBy(t, n) => HeldBy(t, n)'
    BY <1>4, <2>2, <2>4 DEF HeldBy
  <2>7. QED
    BY <2>5, <2>6 DEF Keeps
<1>8. ASSUME FlowStays, PageStays,
             form'[t].at # "idle" => page[t] # "authenticated"
      PROVE  Keeps(t)
  <2>1. /\ flow'[t]["restore"] = flow[t]["restore"] /\ flow'[t]["refresh"] = flow[t]["refresh"]
        /\ page'[t] = page[t] /\ \A k \in Kinds : flow'[t][k] = flow[t][k]
    BY <1>1, <1>8 DEF FlowStays, PageStays
  <2>2. PICK f : f = form'[t]
    OBVIOUS
  <2>3. /\ \A x \in {flow[t]["restore"], flow[t]["refresh"]} :
              /\ x.at \in {"asked", "found"} => x.token = Jar(t)
              /\ x.at = "refused" => Jar(t) = 0
              /\ x.at = "answered" => ~LiveNext(Jar(t))
        /\ page[t] # "authenticated" /\ flow[t]["restore"].at = "idle" /\ flow[t]["refresh"].at = "idle"
              => Jar(t) = 0
        /\ flow[t]["refresh"].token # 0 => page[t] = "authenticated"
        /\ Out(t).at # "idle" => page[t] = "authenticated"
        /\ Out(t).at # "idle" /\ Out(t).good /\ Out(t).at # "served" => Out(t).token = Jar(t)
        /\ Out(t).at = "served" => ~LiveNext(Jar(t))
    BY <1>1 DEF AloneTab, Exchanging, LoggingOut, Out
  <2>4. AloneTab(t)'
    BY <1>4, <1>6, <1>8, <2>1, <2>2, <2>3, KeepsIf
  <2>5. \A n \in Token : HeldBy(t, n) => HeldBy(t, n)'
    BY <1>4, <1>5, <2>1 DEF HeldBy
  <2>6. QED
    BY <2>4, <2>5 DEF Keeps
<1>9. CASE Submit(t)
  BY <1>8, <1>9, SubmitSets, SubmitIsCalm DEF Submit
<1>10. CASE AccessExpires(t)
  <2>1. form'[t] = form[t] /\ FlowStays /\ PageStays
    BY <1>10, AccessExpiresSets DEF FormStays
  <2>2. QED
    BY <1>1, <1>8, <2>1 DEF AloneTab
<1>11. QED
  BY <1>7, <1>9, <1>10

\* Every step of tab t.
LEMMA AloneKeeps ==
    ASSUME AuthInv, Next, Alone, upset' = {}, NEW t \in Tabs,
           ServerNext(t) \/ TabNext(t) \/ UserNext(t)
    PROVE  Keeps(t)
  BY AloneServeRefresh, AloneServer, AloneRestore, AloneRefreshed, AloneRefreshRefused, AloneSignedIn,
     AloneLoggedOut, AloneCalls, AloneUnauthorized, AloneUser DEF ServerNext, TabNext, UserNext

LEMMA AloneStep ==
    ASSUME AuthInv, Next
    PROVE  AloneInv'
<1>1. home' = home
  <2>1. \A t \in Tabs : ServerNext(t) \/ TabNext(t) \/ UserNext(t) \/ FaultNext(t) => home' = home
    BY DEF ServerNext, ServeRefresh, SignIn, RefuseSignIn, Logout, TabNext, RestoreEnds, RestoreRefused,
           Refreshed, RefreshRefused, SessionExpired, SignedIn, LoggedOut, SignedOut, Answered, Unauthorized,
           UserNext, Reload, Submit, AccessExpires, Ask, FaultNext, RestoreLost, RefreshLost, LogoutLost
  <2>2. QED
    BY <2>1 DEF Next, ServeGhost
<1>2. SUFFICES ASSUME upset' = {}, Alone'
               PROVE  LiveIsHeld' /\ \A u \in Tabs : AloneTab(u)'
  BY DEF AloneInv
<1>3. Alone
  BY <1>1, <1>2 DEF Alone, Siblings
<1>4. /\ upset = {} /\ Calm'
  BY <1>2, UpsetGrows DEF Calm
<1>5. LiveIsHeld /\ \A u \in Tabs : AloneTab(u)
  BY <1>3, <1>4 DEF AuthInv, AloneInv
<1>6. /\ ~ServeGhost /\ \A t \in Tabs : ~FaultNext(t)
      /\ TokensAreLive
  BY <1>4, CalmSteps
<1>7. PICK t \in Tabs : ServerNext(t) \/ TabNext(t) \/ UserNext(t)
  BY <1>6 DEF Next
<1>8. Keeps(t)
  BY <1>2, <1>3, <1>7, AloneKeeps
<1>9. \A u \in Tabs \ {t} : Untouched(u)
  BY <1>3, <1>7, OthersUntouched
<1>10. \A u \in Tabs \ {t} : AloneTab(u)' /\ \A n : HeldBy(u, n) => HeldBy(u, n)'
  BY <1>4, <1>5, <1>9, AloneStepOthers
<1>11. \A u \in Tabs : AloneTab(u)'
  BY <1>8, <1>10 DEF Keeps
\* the rows there were
<1>12. ASSUME NEW n \in Token, LiveNext(n)
       PROVE  \E u \in Tabs : HeldBy(u, n)'
  <2>1. Live(n) /\ n \in DOMAIN rows
    BY <1>4, <1>12, DeadStaysDead, TokenFacts DEF Live, AuthInv
  <2>2. PICK u \in Tabs : HeldBy(u, n)
    BY <1>5, <2>1 DEF LiveIsHeld, Live
  <2>3. QED
    BY <1>8, <1>10, <1>12, <2>2 DEF Keeps
\* the row that is new
<1>13. \A n : n = Len(rows) + 1 /\ rows' # rows /\ n \in DOMAIN rows' => HeldBy(t, n)'
  <2>1. ASSUME NEW n, n = Len(rows) + 1, rows' # rows, n \in DOMAIN rows', TabNext(t) \/ UserNext(t)
        PROVE  FALSE
    BY <1>4, <2>1, TabSteps
  <2>2. ASSUME NEW n, n = Len(rows) + 1, rows' # rows, n \in DOMAIN rows', Logout(t) \/ RefuseSignIn(t)
        PROVE  FALSE
    <3>1. Logout(t)
      BY <2>2, RefuseSignInSets
    <3>2. rows' = Revoked(Out(t).token) /\ Out(t).token \in Token
      BY <3>1, TypeFacts, RecordFacts DEF Logout, Out, AuthInv
    <3>3. Len(rows') = Len(rows) /\ Grown
      BY <3>2, RevokedFacts DEF AuthInv
    <3>4. QED
      BY <2>2, <3>3 DEF Grown
  <2>3. ASSUME NEW n, n = Len(rows) + 1, rows' # rows, NEW k \in Kinds, ServeRefresh(t, k)
        PROVE  HeldBy(t, n)'
    BY <1>2, <1>3, <2>3, AloneServeRefresh
  <2>4. ASSUME NEW n, n = Len(rows) + 1, SignIn(t)
        PROVE  HeldBy(t, n)'
    BY <1>2, <1>3, <2>4, AloneServer
  <2>5. QED
    BY <1>7, <2>1, <2>2, <2>3, <2>4 DEF ServerNext
<1>14. Len(rows) \in Nat /\ Token = 0 .. Len(rows) /\ DOMAIN rows = 1 .. Len(rows)
       /\ \A n \in DOMAIN rows' : n \in DOMAIN rows \/ (n = Len(rows) + 1 /\ rows' # rows)
  <2>1. Len(rows) \in Nat /\ Token = 0 .. Len(rows) /\ DOMAIN rows = 1 .. Len(rows)
    BY TokenFacts DEF AuthInv
  <2>2. ASSUME rows' = rows \/ Len(rows') = Len(rows) \/ Len(rows') = Len(rows) + 1, Grown \/ rows' = rows
        PROVE  \A n \in DOMAIN rows' : n \in DOMAIN rows \/ (n = Len(rows) + 1 /\ rows' # rows)
    BY <2>1, <2>2 DEF Grown
  <2>3. ASSUME NEW k \in Kinds, ServeRefresh(t, k)
        PROVE  (rows' = rows \/ Len(rows') = Len(rows) \/ Len(rows') = Len(rows) + 1) /\ (Grown \/ rows' = rows)
    <3>1. flow[t][k] \in Exchange /\ RefreshHandler(flow[t][k])
      BY <2>3, TypeFacts DEF ServeRefresh, AuthInv
    <3>2. flow[t][k].at = "found" => flow[t][k].token \in DOMAIN rows
      BY <3>1, RecordFacts, TokenFacts DEF AuthInv, Shapes, ExchangeShape
    <3>3. QED
      BY <3>1, <3>2, RotateFacts, RevokeFamilyFacts DEF RefreshHandler, AuthInv
  <2>4. ASSUME SignIn(t)
        PROVE  (rows' = rows \/ Len(rows') = Len(rows) \/ Len(rows') = Len(rows) + 1) /\ (Grown \/ rows' = rows)
    BY <2>4, IssueFacts DEF SignIn, AuthInv
  <2>5. ASSUME Logout(t)
        PROVE  (rows' = rows \/ Len(rows') = Len(rows) \/ Len(rows') = Len(rows) + 1) /\ (Grown \/ rows' = rows)
    <3>1. rows' = Revoked(Out(t).token) /\ Out(t).token \in Token
      BY <2>5, TypeFacts, RecordFacts DEF Logout, Out, AuthInv
    <3>2. QED
      BY <3>1, RevokedFacts DEF AuthInv
  <2>6. ASSUME RefuseSignIn(t) \/ TabNext(t) \/ UserNext(t)
        PROVE  rows' = rows
    BY <1>4, <2>6, TabSteps, RefuseSignInSets
  <2>7. (rows' = rows \/ Len(rows') = Len(rows) \/ Len(rows') = Len(rows) + 1) /\ (Grown \/ rows' = rows)
    BY <1>7, <2>3, <2>4, <2>5, <2>6 DEF ServerNext
  <2>8. QED
    BY <2>1, <2>2, <2>7
<1>15. LiveIsHeld'
  <2>1. SUFFICES ASSUME NEW n \in DOMAIN rows', rows'[n].live
                 PROVE  \E u \in Tabs : HeldBy(u, n)'
    BY DEF LiveIsHeld
  <2>2. CASE n \in DOMAIN rows
    BY <1>12, <1>14, <2>1, <2>2 DEF LiveNext
  <2>3. CASE n = Len(rows) + 1 /\ rows' # rows
    BY <1>13, <2>1, <2>3
  <2>4. QED
    BY <1>14, <2>1, <2>2, <2>3
<1>16. QED
  BY <1>11, <1>15

-----------------------------------------------------------------------------
(* The invariant, and what it says of the sessions.                         *)

LEMMA TypeStep ==
    ASSUME AuthInv, Next
    PROVE  AuthTypeOK'
<1>1. ASSUME NEW t \in Tabs, ServerNext(t)
      PROVE  AuthTypeOK'
  BY <1>1, TypesServeRefresh, TypesServer DEF ServerNext
<1>2. ASSUME NEW t \in Tabs, TabNext(t)
      PROVE  AuthTypeOK'
  BY <1>2, TypesRestore, TypesRefresh, TypesCall DEF TabNext
<1>3. ASSUME NEW t \in Tabs, UserNext(t)
      PROVE  AuthTypeOK'
  BY <1>3, TypesReload, TypesRestore, TypesCall DEF UserNext
<1>4. ASSUME NEW t \in Tabs, FaultNext(t)
      PROVE  AuthTypeOK'
  BY <1>4, TypesRestore, TypesRefresh, TypesCall DEF FaultNext
<1>5. ASSUME ServeGhost
      PROVE  AuthTypeOK'
  <2>1. CASE Tabs # {}
    BY <1>5, <2>1, TypesServer
  <2>2. CASE Tabs = {}
    <3>1. ghost \in Exchange /\ (ghost.at = "found" => ghost.token # 0)
      BY DEF AuthTypeOK, Shapes, AuthInv
    <3>2. Grown /\ Reply(ghost) \in Exchange' /\ reused' \in BOOLEAN
      BY <1>5, <3>1, ServedTypes DEF ServeGhost, AuthInv
    <3>3. ghost' \in Exchange'
      BY <1>5, <3>2, IdleTypes, TypesGrow, TokenFacts DEF ServeGhost, AuthInv
    <3>4. QED
      BY <1>5, <3>2, <3>3, TypesGrow DEF ServeGhost, AuthTypeOK, AuthInv
  <2>3. QED
    BY <2>1, <2>2
<1>6. QED
  BY <1>1, <1>2, <1>3, <1>4, <1>5 DEF Next

LEMMA AuthStep ==
    ASSUME AuthInv, Next
    PROVE  AuthInv'
<1>1. CalmInv'
  <2>1. SUFFICES ASSUME Calm'
                 PROVE  /\ ghost' = Idle /\ ~reused'
                        /\ OneAtATime' /\ LogoutIsAlone' /\ TokensAreLive' /\ CookiesAreLive'
    BY DEF CalmInv, Idle
  <2>2. QED
    BY <2>1, QuietStep, OneAtATimeStep, LogoutIsAloneStep, TokensAreLiveStep, CookiesAreLiveStep
<1>2. QED
  BY <1>1, TypeStep, PrivateStep, ShapesStep, OneExchangeStep, CookieStep, AloneStep DEF AuthInv

LEMMA AuthInit ==
    ASSUME Init
    PROVE  AuthInv
<1> DEFINE e == [at |-> "asked", token |-> 0]
<1>1. /\ rows = <<>> /\ ghost = Idle /\ reused = FALSE /\ upset = {} /\ reloads = 0
      /\ home \in [Tabs -> Browsers]
      /\ page = [t \in Tabs |-> "loading"] /\ access = [t \in Tabs |-> "none"]
  BY DEF Init
<1>2. /\ \A b \in Browsers : jar[b] = 0
      /\ jar = [b \in Browsers |-> 0]
      /\ form = [t \in Tabs |-> Idle]
      /\ call = [t \in Tabs |-> [c \in AllCalls |-> Quiet]]
      /\ flow = [t \in Tabs |-> Restoring(e)]
  BY DEF Init
<1>3. /\ Idle.at = "idle" /\ Idle.token = 0 /\ Quiet.at = "idle" /\ Quiet.good = FALSE /\ Quiet.token = 0
      /\ e.at = "asked" /\ e.token = 0
  BY DEF Idle, Quiet
<1>4. Token = 0 .. 0 /\ 0 \in Token /\ DOMAIN rows = {}
  BY <1>1 DEF Token
<1>5. e \in Exchange /\ Idle \in Exchange /\ Idle \in Form /\ Quiet \in Call
  BY <1>4, IdleTypes DEF Exchange
<1> HIDE DEF e
<1>6. Restoring(e) \in [Kinds -> Exchange]
  BY <1>5 DEF Restoring
<1>7. rows \in Seq([live : BOOLEAN, from : Token])
  BY <1>1
<1>8. AuthTypeOK
  <2>1. jar \in [Browsers -> Token] /\ form \in [Tabs -> Form] /\ call \in [Tabs -> [AllCalls -> Call]]
    BY <1>2, <1>4, <1>5
  <2>2. flow \in [Tabs -> [Kinds -> Exchange]] /\ ghost \in Exchange
    BY <1>1, <1>2, <1>5, <1>6
  <2>3. /\ page \in [Tabs -> {"loading", "anonymous", "authenticated"}]
        /\ access \in [Tabs -> {"none", "good", "expired"}]
        /\ reused \in BOOLEAN /\ upset \subseteq {"lost", "tabs", "logout", "early", "again"}
    BY <1>1
  <2>4. reloads \in 0 .. MaxReloads
    BY <1>1, AuthAssumption
  <2>5. QED
    BY <1>1, <1>7, <2>1, <2>2, <2>3, <2>4 DEF AuthTypeOK
<1>9. /\ \A t \in Tabs : /\ flow[t]["restore"] = e /\ flow[t]["refresh"] = Idle
                         /\ form[t] = Idle /\ page[t] = "loading"
                         /\ \A c \in AllCalls : call[t][c] = Quiet
                         /\ Out(t) = Quiet
      /\ \A t \in Tabs, k \in Kinds : flow[t][k] \in {e, Idle}
      /\ Kinds = {"restore", "refresh"} /\ "logout" \in AllCalls
  BY <1>1, <1>2 DEF Restoring, Kinds, Out, AllCalls
<1>10. \A t \in Tabs : Jar(t) = 0 /\ home[t] \in Browsers
  BY <1>1, <1>2 DEF Jar
<1>11. OneBrowser /\ FormIsPrivate
  <2>1. \A b \in Browsers, n \in Nat \ {0} : ~Has(b, n)
    BY <1>2, <1>3, <1>9 DEF Has, Uses
  <2>2. QED
    BY <1>3, <1>9, <2>1 DEF OneBrowser, FormIsPrivate
<1>12. Shapes
  BY <1>1, <1>3, <1>9 DEF Shapes, ExchangeShape, FormShape, LogoutShape
<1>13. OneExchange /\ SignedInHasCookie
  <2>1. \A t \in Tabs : Waiting(t) = {}
    BY <1>3, <1>9 DEF Waiting
  <2>2. QED
    BY <1>3, <1>9, <2>1 DEF OneExchange, ExchangesOne, SignedInHasCookie
<1>14. CalmInv
  BY <1>1, <1>2, <1>3, <1>9, <1>10
     DEF CalmInv, OneAtATime, LogoutIsAlone, LoggingOut, TokensAreLive, CookiesAreLive, Out
<1>15. LiveIsHeld
  BY <1>4 DEF LiveIsHeld
<1>16. \A t \in Tabs : AloneTab(t)
  BY <1>3, <1>9, <1>10 DEF AloneTab, Exchanging, LoggingOut, Out
<1>17. QED
  BY <1>8, <1>11, <1>12, <1>13, <1>14, <1>15, <1>16 DEF AuthInv, AloneInv

\* Everything said above of tokens, cookies and tabs holds in every state that
\* the server, the tabs, the person and the network can reach.
THEOREM AuthInvariant == Spec => []AuthInv
<1>1. Init => AuthInv
  BY AuthInit
<1>2. AuthInv /\ [Next]_vars => AuthInv'
  <2>1. SUFFICES ASSUME AuthInv, UNCHANGED vars
                 PROVE  AuthInv'
    BY AuthStep
  <2> USE <2>1 DEF vars, AuthInv
  <2>2. AuthTypeOK'
    BY DEF AuthTypeOK, Token, Exchange, Form, Call
  <2>3. OneBrowser' /\ FormIsPrivate'
    BY DEF OneBrowser, FormIsPrivate, Has, Uses, Out
  <2>4. Shapes' /\ SignedInHasCookie'
    BY DEF Shapes, ExchangeShape, FormShape, LogoutShape, Out, SignedInHasCookie, Siblings, Jar
  <2>5. OneExchange'
    BY DEF OneExchange, ExchangesOne, Waiting, Exchanging
  <2>6. CalmInv'
    BY DEF CalmInv, Calm, OneAtATime, Siblings, Exchanging, LogoutIsAlone, LoggingOut, Out, TokensAreLive, Live,
           CookiesAreLive, Replacing, Idle
  <2>7. AloneInv'
    BY DEF AloneInv, Alone, Siblings, LiveIsHeld, HeldBy, AloneTab, Jar, Exchanging, LoggingOut, Out, Live
  <2>8. QED
    BY <2>2, <2>3, <2>4, <2>5, <2>6, <2>7
<1>3. QED
  BY <1>1, <1>2, PTL DEF Spec

\* Whatever a tab or a request presents was issued by the server, and every
\* variable has its type.
THEOREM AuthTypeCorrect == Spec => []AuthTypeOK
<1>1. AuthInv => AuthTypeOK
  BY DEF AuthInv
<1>2. QED
  BY <1>1, AuthInvariant, PTL

\* Reuse detection never signs a customer out because of the calls of one page,
\* however many meet a 401 at the same time: an answer was lost, two tabs of a
\* browser refreshed at once, or a refresh met a logout.
THEOREM ReuseIsExplainedAlways == Spec => []ReuseIsExplained
<1>1. AuthInv => ReuseIsExplained
  BY DEF AuthInv, CalmInv, Calm, ReuseIsExplained
<1>2. QED
  BY <1>1, AuthInvariant, PTL

\* When nothing is in flight, a tab that is shown signed in has a live token in
\* its cookie, and the live tokens are those of the tabs signed in.
THEOREM TokensMatchTabsAlways == Spec => []TokensMatchTabs
<1>1. ASSUME AuthInv
      PROVE  SignedInCanGoOn
  <2>1. SUFFICES ASSUME Settled, Calm, NEW t \in Tabs, page[t] = "authenticated", Siblings(t) = {}
                 PROVE  Live(Jar(t))
    BY DEF SignedInCanGoOn, Calm
  <2>2. CookiesAreLive
    BY <1>1, <2>1 DEF AuthInv, CalmInv
  <2>3. Jar(t) # 0 /\ home[t] \in Browsers /\ "logout" \in AllCalls
    BY <1>1, <2>1, TypeFacts DEF AuthInv, SignedInHasCookie
  <2>4. ~Replacing(home[t])
    BY <2>1, <2>3 DEF Settled, Replacing, Exchanging, Out
  <2>5. QED
    BY <2>2, <2>3, <2>4 DEF CookiesAreLive, Jar
<1>2. ASSUME AuthInv
      PROVE  LiveTokensAreHeld
  <2>1. SUFFICES ASSUME Settled, upset = {}, Alone, NEW k \in DOMAIN rows, rows[k].live
                 PROVE  \E t \in Tabs : page[t] = "authenticated" /\ Jar(t) = k
    BY DEF LiveTokensAreHeld, Alone
  <2>2. LiveIsHeld /\ \A t \in Tabs : AloneTab(t)
    BY <1>2, <2>1 DEF AuthInv, AloneInv
  <2>3. PICK t \in Tabs : HeldBy(t, k)
    BY <2>1, <2>2 DEF LiveIsHeld
  <2>4. k # 0
    BY <1>2, <2>1, TokenFacts DEF AuthInv
  <2>5. form[t].token = 0 /\ ~Exchanging(t)
    BY <1>2, <2>1 DEF Settled, AuthInv, Shapes, FormShape
  <2>6. Jar(t) = k
    BY <2>3, <2>4, <2>5 DEF HeldBy, Exchanging
  <2>7. QED
    BY <2>2, <2>4, <2>5, <2>6 DEF AloneTab
<1>3. AuthInv => TokensMatchTabs
  BY <1>1, <1>2 DEF TokensMatchTabs
<1>4. QED
  BY <1>3, AuthInvariant, PTL

\* A call that waits for a refresh has one to wait for: when the promise of the
\* tab is settled, no call that shared it is left behind.
THEOREM WaitersGoOnAlways == Spec => []WaitersGoOn
<1>1. AuthInv => WaitersGoOn
  BY DEF AuthInv, OneExchange, ExchangesOne, WaitersGoOn
<1>2. QED
  BY <1>1, AuthInvariant, PTL
=============================================================================
