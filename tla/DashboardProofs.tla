---------------------------- MODULE DashboardProofs ----------------------------
(*****************************************************************************)
(* What requests of the dashboard may do: accounts, tokens and sessions,     *)
(* the limits on requests, the symbols a page shows as loading and the       *)
(* refresh of market data, for any number of requests, rules, symbols and    *)
(* refreshes.                                                                *)
(*****************************************************************************)
EXTENDS RefreshController, Accounts, RateLimits, SymbolPrices, FiniteSetTheorems, SequenceTheorems, TLAPS
--------------------------------------------------------------------------------
(*****************************************************************************)
(* Accounts, for any number of requests served at once. AppliedOnce says     *)
(* why a link works once although the check of a token and its use are       *)
(* steps of their own, SessionsNotAhead why a new session version turns      *)
(* away every session there is.                                              *)
(*****************************************************************************)

AccountRow == [email : Email, password : Password, version : Nat, verified : BOOLEAN]
TokenRow == [id : Nat, purpose : Purpose, used : BOOLEAN]
MailTask == [id : Nat, purpose : Purpose, at : {"queued", "send", "failed"}, token : Nat]
Session == [id : Nat, version : Nat]

LoginRequest == [at : {"login"}, id : Nat, version : Nat]
TokenRequest == [at : {"consume", "apply", "revoke"}, token : 1..MaxToken, id : Nat,
                 purpose : Purpose, password : Password]
SessionRequest == [at : {"logout", "change", "delete", "rewrite", "drop"}, id : Nat,
                   old : Password, new : Password]
Request == {NoRequest} \cup LoginRequest \cup TokenRequest \cup SessionRequest

AccountsTyped ==
  /\ created \in Nat /\ issued \in 0..MaxToken
  /\ account \in [DOMAIN account -> AccountRow] /\ DOMAIN account \subseteq 1..created
  /\ token \in [DOMAIN token -> TokenRow] /\ DOMAIN token \subseteq 1..issued
  /\ mailing \subseteq MailTask /\ session \subseteq Session
  /\ request \in [Handler -> Request]
  /\ \A h \in Handler : request[h].at = "consume" => request[h].token <= issued
  /\ resets \in [1..MaxToken -> Nat]

AccountsInv == AccountsTyped /\ NoOrphanToken /\ AppliedOnce /\ SessionsNotAhead

(* A request of each kind has the fields of its kind.                      *)
LEMMA RequestKinds ==
  ASSUME NEW r \in Request
  PROVE  /\ r.at = "login" => r \in LoginRequest
         /\ r.at \in {"consume", "apply", "revoke"} => r \in TokenRequest
         /\ r.at \in {"logout", "change", "delete", "rewrite", "drop"} => r \in SessionRequest
  BY DEF Request, NoRequest, LoginRequest, TokenRequest, SessionRequest

(* No change of a row takes its session version back.                      *)
LEMMA RowUpdates ==
  ASSUME NEW row \in AccountRow, NEW w \in Password
  PROVE  /\ [row EXCEPT !.verified = TRUE] \in AccountRow
         /\ [row EXCEPT !.verified = TRUE].version >= row.version
         /\ [row EXCEPT !.version = @ + 1] \in AccountRow
         /\ [row EXCEPT !.version = @ + 1].version >= row.version
         /\ NewPassword(row, w) \in AccountRow
         /\ NewPassword(row, w).version >= row.version
  <1>1. row.version \in Nat BY DEF AccountRow
  <1>2. [row EXCEPT !.verified = TRUE].version = row.version
        /\ [row EXCEPT !.version = @ + 1].version = row.version + 1
        /\ NewPassword(row, w).version = row.version + 1
    BY DEF AccountRow, NewPassword
  <1>3. row.version >= row.version /\ row.version + 1 >= row.version BY <1>1
  <1>4. [row EXCEPT !.verified = TRUE] \in AccountRow BY DEF AccountRow
  <1>5. [row EXCEPT !.version = @ + 1] \in AccountRow BY <1>1 DEF AccountRow
  <1>6. NewPassword(row, w) \in AccountRow
    <2>1. \A n \in Nat : [row EXCEPT !.password = w, !.version = n] \in AccountRow
      BY DEF AccountRow
    <2>2. row.version + 1 \in Nat BY <1>1
    <2>. QED BY <2>1, <2>2 DEF NewPassword
  <1>. QED BY ONLY <1>2, <1>3, <1>4, <1>5, <1>6

LEMMA AccountsInvInit ==
  ASSUME AccountsInit PROVE AccountsInv
  BY AccountsAssumption DEF AccountsInit, AccountsInv, AccountsTyped, NoOrphanToken, AppliedOnce, SessionsNotAhead,
         Applying, Spent, Request, NoRequest
--------------------------------------------------------------------------------
(* A request goes on to where it applies no token and signs no session.    *)
LEMMA RequestMoves ==
  ASSUME AccountsInv, NEW h \in Handler, NEW r \in Request,
         r.at \notin {"login", "consume", "apply"},
         request' = [request EXCEPT ![h] = r],
         UNCHANGED <<account, created, token, issued, session, resets>>,
         mailing' \subseteq MailTask
  PROVE  AccountsInv'
  <1>. USE DEF AccountsInv
  <1>1. AccountsTyped' BY DEF AccountsTyped
  <1>2. NoOrphanToken' BY DEF NoOrphanToken, Known
  <1>3. AppliedOnce' BY DEF AppliedOnce, Applying, Spent, Unused, AccountsTyped
  <1>4. SessionsNotAhead' BY DEF SessionsNotAhead, Known, AccountsTyped
  <1>. QED BY <1>1, <1>2, <1>3, <1>4

(* Nothing but the mails moves.                                            *)
LEMMA MailMoves ==
  ASSUME AccountsInv, mailing' \subseteq MailTask,
         UNCHANGED <<account, created, token, issued, session, request, resets>>
  PROVE  AccountsInv'
  BY DEF AccountsInv, AccountsTyped, NoOrphanToken, AppliedOnce, SessionsNotAhead, Applying,
         Spent, Unused, Known

(* Tokens that go away stay spent.                                         *)
LEMMA TokensGo ==
  ASSUME AccountsInv, NEW gone, token' = Without(token, gone),
         request' \in [Handler -> Request],
         \A g \in Handler : request'[g] = request[g] \/ request'[g] = NoRequest,
         mailing' \subseteq MailTask,
         UNCHANGED <<account, created, issued, session, resets>>
  PROVE  AccountsInv'
  <1>. USE DEF AccountsInv
  <1>1. AccountsTyped' BY DEF AccountsTyped, Without, Request, NoRequest
  <1>2. NoOrphanToken' BY DEF NoOrphanToken, Known, Without
  <1>3. \A t : Spent(t) => Spent(t)' BY DEF Spent, Unused, Without
  <1>4. \A g \in Handler : Applying(g)' => Applying(g) /\ request'[g] = request[g]
    BY DEF Applying, AccountsTyped, NoRequest
  <1>5. AppliedOnce' BY <1>3, <1>4 DEF AppliedOnce
  <1>6. SessionsNotAhead' BY DEF SessionsNotAhead, Known, AccountsTyped, NoRequest
  <1>. QED BY <1>1, <1>2, <1>5, <1>6

(* An account row changes, and its session version does not go back.       *)
LEMMA RowChanges ==
  ASSUME AccountsInv, NEW id, NEW row \in AccountRow,
         Known(id) => row.version >= account[id].version,
         account' = IF Known(id) THEN [account EXCEPT ![id] = row] ELSE account,
         NEW h \in Handler, NEW r \in Request, r.at \notin {"login", "consume", "apply"},
         request' = [request EXCEPT ![h] = r],
         UNCHANGED <<created, token, issued, mailing, session>>,
         resets' \in [1..MaxToken -> Nat],
         \A t \in 1..MaxToken : resets'[t] # resets[t] => Applying(h) /\ t = request[h].token
  PROVE  AccountsInv'
  <1>. USE DEF AccountsInv
  <1>1. AccountsTyped' BY DEF AccountsTyped, Known
  <1>2. DOMAIN account' = DOMAIN account BY DEF Known, AccountsTyped
  <1>3. NoOrphanToken' BY <1>2 DEF NoOrphanToken, Known
  <1>4. \A t : Spent(t)' <=> Spent(t) BY DEF Spent, Unused
  <1>5. \A g \in Handler : Applying(g)' => Applying(g) /\ request'[g] = request[g] /\ g # h
    BY DEF Applying, AccountsTyped
  <1>6. AppliedOnce' BY <1>4, <1>5 DEF AppliedOnce
  <1>7. SessionsNotAhead'
    <2>1. \A s \in session : Known(s.id) => s.version <= account'[s.id].version
      <3>. SUFFICES ASSUME NEW s \in session, Known(s.id)
                    PROVE  s.version <= account'[s.id].version
        OBVIOUS
      <3>1. s.version \in Nat /\ account[s.id] \in AccountRow /\ s.version <= account[s.id].version
        BY DEF AccountsTyped, Session, SessionsNotAhead, Known
      <3>2. CASE s.id = id /\ Known(id)
        <4>1. account'[s.id] = row BY <3>2 DEF Known, AccountsTyped
        <4>2. account[s.id].version \in Nat /\ row.version \in Nat BY <3>1 DEF AccountRow
        <4>. QED BY <3>1, <3>2, <4>1, <4>2
      <3>3. CASE ~(s.id = id /\ Known(id))
        <4>1. account'[s.id] = account[s.id] BY <3>3 DEF Known, AccountsTyped
        <4>. QED BY <3>1, <4>1
      <3>. QED BY <3>2, <3>3
    <2>2. \A g \in Handler : request'[g].at = "login" => request[g].at = "login" /\ request'[g] = request[g]
      BY DEF AccountsTyped
    <2>. QED BY <1>2, <2>1, <2>2 DEF SessionsNotAhead, Known
  <1>. QED BY <1>1, <1>3, <1>6, <1>7
--------------------------------------------------------------------------------
LEMMA RegisterInv ==
  ASSUME AccountsInv, NEW h \in Handler, NEW e \in Email, NEW w \in Password, Register(h, e, w)
  PROVE  AccountsInv'
  <1>. USE DEF AccountsInv
  <1>. DEFINE row == [email |-> e, password |-> w, version |-> 1, verified |-> FALSE]
  <1>1. /\ created \in Nat /\ created' = created + 1 /\ ~Known(created')
        /\ account' = With(account, created', row)
        /\ session' = session \cup {Signed(created', 1)}
        /\ mailing' = mailing \cup {Mail(created', "verify_email")}
        /\ UNCHANGED <<token, issued, request, resets>>
    BY DEF Register, AccountsTyped, Known
  <1>2. row \in AccountRow BY DEF AccountRow
  <1>. HIDE DEF row
  <1>3. AccountsTyped'
    <2>1. Signed(created', 1) \in Session /\ Mail(created', "verify_email") \in MailTask
      BY <1>1 DEF Signed, Session, Mail, MailTask, Purpose
    <2>. QED BY <1>1, <1>2, <2>1 DEF AccountsTyped, With
  <1>4. /\ DOMAIN account' = DOMAIN account \cup {created'}
        /\ \A id \in DOMAIN account : account'[id] = account[id]
        /\ account'[created'] = row
    BY <1>1 DEF With, Known
  <1>5. NoOrphanToken' BY <1>1, <1>4 DEF NoOrphanToken, Known
  <1>6. AppliedOnce' BY <1>1 DEF AppliedOnce, Applying, Spent, Unused
  <1>7. SessionsNotAhead'
    <2>1. \A s \in session : s.id \in 1..created /\ (Known(s.id) => s.version <= account[s.id].version)
      BY DEF SessionsNotAhead
    <2>2. \A s \in session' : s.id \in 1..created' /\ (s.id \in DOMAIN account' => s.version <= account'[s.id].version)
      <3>1. row.version = 1 BY DEF row
      <3>2. Signed(created', 1).id = created' /\ Signed(created', 1).version = 1 BY DEF Signed
      <3>. QED BY <1>1, <1>4, <2>1, <3>1, <3>2 DEF Known
    <2>3. \A g \in Handler : request'[g].at = "login" => request'[g].id \in 1..created'
      BY <1>1 DEF SessionsNotAhead
    <2>. QED BY <2>2, <2>3 DEF SessionsNotAhead, Known
  <1>. QED BY <1>3, <1>5, <1>6, <1>7

LEMMA AuthenticateInv ==
  ASSUME AccountsInv, NEW h \in Handler, NEW e \in Email, NEW w \in Password, Authenticate(h, e, w)
  PROVE  AccountsInv'
  <1>. USE DEF AccountsInv
  <1>1. PICK id \in DOMAIN account :
          request' = [request EXCEPT ![h] = [at |-> "login", id |-> id, version |-> account[id].version]]
    BY DEF Authenticate, Go
  <1>2. UNCHANGED <<account, created, token, issued, mailing, session, resets>> BY DEF Authenticate
  <1>3. id \in 1..created /\ account[id].version \in Nat BY DEF AccountsTyped, AccountRow
  <1>4. [at |-> "login", id |-> id, version |-> account[id].version] \in Request
    BY <1>3 DEF Request, LoginRequest
  <1>5. AccountsTyped' BY <1>1, <1>2, <1>4 DEF AccountsTyped
  <1>6. NoOrphanToken' BY <1>2 DEF NoOrphanToken, Known
  <1>7. AppliedOnce' BY <1>1, <1>2 DEF AppliedOnce, Applying, Spent, Unused, AccountsTyped
  <1>8. SessionsNotAhead' BY <1>1, <1>2, <1>3 DEF SessionsNotAhead, Known, AccountsTyped
  <1>. QED BY <1>5, <1>6, <1>7, <1>8

(* The version that is signed is that of the row, if there is a row.       *)
LEMMA SignInInv ==
  ASSUME AccountsInv, NEW h \in Handler, SignIn(h)
  PROVE  AccountsInv'
  <1>. USE DEF AccountsInv
  <1>. DEFINE id == request[h].id
              version == IF Known(id) THEN account[id].version ELSE request[h].version
  <1>1. /\ session' \in {session, session \cup {Signed(id, version)}}
        /\ request' = [request EXCEPT ![h] = NoRequest]
        /\ UNCHANGED <<account, created, token, issued, mailing, resets>>
    BY DEF SignIn, Go
  <1>2. request[h] \in LoginRequest /\ id \in 1..created
    BY RequestKinds DEF SignIn, AccountsTyped, SessionsNotAhead
  <1>3. version \in Nat /\ (Known(id) => version = account[id].version)
    BY <1>2 DEF LoginRequest, AccountsTyped, AccountRow, Known
  <1>4. /\ Signed(id, version).id = id /\ Signed(id, version).version = version
        /\ Signed(id, version) \in Session
    BY <1>2, <1>3 DEF Signed, Session, AccountsTyped
  <1>. HIDE DEF id, version
  <1>5. AccountsTyped' BY <1>1, <1>4 DEF AccountsTyped, Request, NoRequest
  <1>6. NoOrphanToken' BY <1>1 DEF NoOrphanToken, Known
  <1>7. AppliedOnce' BY <1>1 DEF AppliedOnce, Applying, Spent, Unused, AccountsTyped, NoRequest
  <1>8. SessionsNotAhead'
    <2>1. \A s \in session' : s.id \in 1..created /\ (Known(s.id) => s.version <= account[s.id].version)
      BY <1>1, <1>2, <1>3, <1>4 DEF SessionsNotAhead
    <2>2. \A g \in Handler : request'[g].at = "login" => request'[g].id \in 1..created
      BY <1>1 DEF SessionsNotAhead, AccountsTyped, NoRequest
    <2>. QED BY <1>1, <2>1, <2>2 DEF SessionsNotAhead, Known
  <1>. QED BY <1>5, <1>6, <1>7, <1>8

(* A token is issued to an account that is there; the tokens it replaces   *)
(* were issued before it.                                                  *)
LEMMA IssueTokenInv ==
  ASSUME AccountsInv, NEW m \in mailing, IssueToken(m)
  PROVE  AccountsInv'
  <1>. USE DEF AccountsInv
  <1>0. m \in MailTask BY DEF AccountsTyped
  <1>1. CASE ~MayIssue(m)
    BY <1>1, MailMoves DEF IssueToken, AccountsTyped
  <1>2. CASE MayIssue(m)
    <2>. DEFINE row == [id |-> m.id, purpose |-> m.purpose, used |-> FALSE]
                old == OwnTokens(m.id, m.purpose)
    <2>1. /\ issued < MaxToken /\ issued' = issued + 1
          /\ token' = With(Without(token, old), issued', row)
          /\ mailing' = (mailing \ {m}) \cup {[m EXCEPT !.at = "send", !.token = issued']}
          /\ UNCHANGED <<account, created, session, request, resets>>
      BY <1>2 DEF IssueToken
    <2>2. row \in TokenRow /\ row.id = m.id BY <1>0 DEF TokenRow, MailTask
    <2>. HIDE DEF row, old
    <2>3. /\ DOMAIN token' = (DOMAIN token \ old) \cup {issued'}
          /\ token'[issued'] = row
          /\ \A t \in DOMAIN token \ old : t # issued' => token'[t] = token[t]
      BY <2>1 DEF With, Without
    <2>4. /\ issued \in 0..MaxToken /\ issued' \in 1..MaxToken /\ issued' \in Nat
          /\ DOMAIN token \subseteq 1..issued
      BY <2>1, AccountsAssumption DEF AccountsTyped
    <2>5. AccountsTyped'
      <3>1. [m EXCEPT !.at = "send", !.token = issued'] \in MailTask
        <4>1. \A n \in Nat : [m EXCEPT !.at = "send", !.token = n] \in MailTask
          BY <1>0 DEF MailTask
        <4>. QED BY <2>4, <4>1
      <3>2. token' \in [DOMAIN token' -> TokenRow] BY <2>1, <2>2 DEF With, Without, AccountsTyped
      <3>3. DOMAIN token' \subseteq 1..issued' BY <2>1, <2>3, <2>4
      <3>4. \A h \in Handler : request'[h].at = "consume" => request'[h].token <= issued'
        <4>. SUFFICES ASSUME NEW h \in Handler, request[h].at = "consume"
                      PROVE  request[h].token <= issued'
          BY <2>1
        <4>1. request[h].token \in Nat BY RequestKinds DEF AccountsTyped, TokenRequest
        <4>. QED BY <2>1, <2>4, <4>1 DEF AccountsTyped
      <3>. QED BY <2>1, <2>4, <3>1, <3>2, <3>3, <3>4 DEF AccountsTyped
    <2>6. NoOrphanToken' BY <1>2, <2>1, <2>2, <2>3 DEF NoOrphanToken, Known, MayIssue
    <2>7. \A t \in 1..MaxToken : Spent(t) => Spent(t)'
      <3>. SUFFICES ASSUME NEW t \in 1..MaxToken, Spent(t) PROVE Spent(t)'
        OBVIOUS
      <3>1. t <= issued /\ t # issued' /\ t <= issued' BY <2>1, <2>4 DEF Spent
      <3>2. t \in DOMAIN token' => t \in DOMAIN token /\ token'[t] = token[t] BY <2>3, <3>1
      <3>. QED BY <3>1, <3>2 DEF Spent, Unused
    <2>8. AppliedOnce' BY <2>1, <2>7 DEF AppliedOnce, Applying
    <2>9. SessionsNotAhead' BY <2>1 DEF SessionsNotAhead, Known
    <2>. QED BY <2>5, <2>6, <2>8, <2>9
  <1>. QED BY <1>1, <1>2

LEMMA FindTokenInv ==
  ASSUME AccountsInv, NEW h \in Handler, NEW t, NEW w \in Password, FindToken(h, t, w)
  PROVE  AccountsInv'
  <1>. USE DEF AccountsInv
  <1>. DEFINE r == [at |-> "consume", token |-> t, id |-> token[t].id,
                    purpose |-> token[t].purpose, password |-> w]
  <1>1. /\ t \in DOMAIN token /\ request' = [request EXCEPT ![h] = r]
        /\ UNCHANGED <<account, created, token, issued, mailing, session, resets>>
    BY DEF FindToken, Unused, Go
  <1>2. t \in 1..issued /\ t \in 1..MaxToken /\ token[t] \in TokenRow
    BY <1>1, AccountsAssumption DEF AccountsTyped
  <1>3. r \in Request /\ r.at = "consume" /\ r.token <= issued
    BY <1>2 DEF Request, TokenRequest, TokenRow
  <1>. HIDE DEF r
  <1>4. AccountsTyped' BY <1>1, <1>3 DEF AccountsTyped
  <1>5. NoOrphanToken' BY <1>1 DEF NoOrphanToken, Known
  <1>6. AppliedOnce' BY <1>1, <1>3 DEF AppliedOnce, Applying, Spent, Unused, AccountsTyped
  <1>7. SessionsNotAhead' BY <1>1, <1>3 DEF SessionsNotAhead, Known, AccountsTyped
  <1>. QED BY <1>4, <1>5, <1>6, <1>7

(* The one request that marks the token has never applied it, and no other *)
(* is about to: the token was not spent until now.                         *)
LEMMA ConsumeTokenInv ==
  ASSUME AccountsInv, NEW h \in Handler, ConsumeToken(h)
  PROVE  AccountsInv'
  <1>. USE DEF AccountsInv
  <1>. DEFINE r == request[h]
              t == r.token
  <1>0. r \in TokenRequest /\ t \in 1..MaxToken /\ t <= issued /\ r.at = "consume"
    BY RequestKinds DEF ConsumeToken, AccountsTyped, TokenRequest
  <1>1. CASE ~StillUnused(t)
    <2>1. NoRequest \in Request /\ NoRequest.at = "free" BY DEF Request, NoRequest
    <2>. QED BY <1>1, <2>1, RequestMoves DEF ConsumeToken, Go, AccountsTyped
  <1>2. CASE StillUnused(t)
    <2>. DEFINE next == [r EXCEPT !.at = "apply"]
    <2>1. /\ t \in DOMAIN token /\ ~Spent(t)
          /\ token' = [token EXCEPT ![t].used = TRUE]
          /\ request' = [request EXCEPT ![h] = next]
          /\ UNCHANGED <<account, created, issued, mailing, session, resets>>
      BY <1>2 DEF ConsumeToken, StillUnused, Unused, Spent, Go
    <2>2. next \in TokenRequest /\ next.at = "apply" /\ next.token = t BY <1>0 DEF TokenRequest
    <2>3. token[t] \in TokenRow BY <2>1 DEF AccountsTyped
    <2>4. [token[t] EXCEPT !.used = TRUE] \in TokenRow BY <2>3 DEF TokenRow
    <2>5. /\ DOMAIN token' = DOMAIN token
          /\ token'[t].used = TRUE /\ token'[t].id = token[t].id
          /\ \A x \in DOMAIN token : x # t => token'[x] = token[x]
      BY <2>1, <2>3 DEF TokenRow, AccountsTyped
    <2>. HIDE DEF next, t, r
    <2>6. AccountsTyped'
      <3>1. token' \in [DOMAIN token' -> TokenRow] BY <2>1, <2>4 DEF AccountsTyped
      <3>2. request' \in [Handler -> Request] BY <2>1, <2>2 DEF AccountsTyped, Request
      <3>3. \A g \in Handler : request'[g].at = "consume" => request'[g].token <= issued
        BY <2>1, <2>2 DEF AccountsTyped
      <3>. QED BY <2>1, <2>5, <3>1, <3>2, <3>3 DEF AccountsTyped
    <2>7. NoOrphanToken' BY <2>1, <2>5 DEF NoOrphanToken, Known
    <2>8. \A x : Spent(x) => Spent(x)'
      <3>. SUFFICES ASSUME NEW x, Spent(x) PROVE Spent(x)'
        OBVIOUS
      <3>1. x # t BY <2>1
      <3>2. /\ x \in DOMAIN token' => x \in DOMAIN token /\ token'[x] = token[x]
            /\ issued' = issued
        BY <2>1, <2>5, <3>1
      <3>. QED BY <3>2 DEF Spent, Unused
    <2>9. resets[t] = 0 BY <1>0, <2>1 DEF AppliedOnce
    <2>10. \A g \in Handler : g # h /\ Applying(g)' => /\ Applying(g) /\ request'[g] = request[g]
                                                     /\ request[g].token # t
      <3>. SUFFICES ASSUME NEW g \in Handler, g # h, Applying(g)'
                    PROVE  Applying(g) /\ request'[g] = request[g] /\ request[g].token # t
        OBVIOUS
      <3>1. request'[g] = request[g] BY <2>1 DEF AccountsTyped
      <3>2. Applying(g) BY <3>1 DEF Applying
      <3>3. Spent(request[g].token) BY <3>2 DEF AppliedOnce
      <3>. QED BY <2>1, <3>1, <3>2, <3>3
    <2>11. request'[h].token = t BY <2>1, <2>2 DEF AccountsTyped
    <2>12. AppliedOnce'
      <3>1. \A g \in Handler : Applying(g)' =>
              request'[g].token \in 1..MaxToken /\ Spent(request[g].token)' /\ resets'[request'[g].token] = 0
        <4>1. ASSUME NEW g \in Handler, Applying(g)', g # h
              PROVE  /\ request'[g].token \in 1..MaxToken /\ Spent(request[g].token)'
                     /\ resets'[request'[g].token] = 0
          <5>1. /\ request[g].token \in 1..MaxToken /\ Spent(request[g].token)
                /\ resets[request[g].token] = 0
            BY <4>1, <2>10 DEF AppliedOnce
          <5>2. request'[g] = request[g] /\ resets' = resets BY <2>1, <2>10, <4>1
          <5>3. request[g].token \in 1..MaxToken => Spent(request[g].token)'
            <6>1. Spent(request[g].token) BY <5>1
            <6>. DEFINE x == request[g].token
            <6>2. (x \in DOMAIN token' => x \in DOMAIN token /\ (x # t => token'[x] = token[x]))
                  /\ token'[t].used = TRUE /\ issued' = issued
              BY <2>1, <2>5
            <6>. QED BY <2>1, <2>5, <5>2, <6>1, <6>2 DEF Spent, Unused
          <5>. QED BY <5>1, <5>2, <5>3
        <4>2. /\ request'[h].token \in 1..MaxToken /\ Spent(request[h].token)'
              /\ resets'[request'[h].token] = 0
          <5>1. Spent(request[h].token)'
            BY <1>0, <2>1, <2>5, <2>11 DEF Spent, Unused
          <5>. QED BY <1>0, <2>1, <2>9, <2>11, <5>1
        <4>. QED BY <4>1, <4>2
      <3>2. \A f, g \in Handler : Applying(f)' /\ Applying(g)' /\ request'[f].token = request'[g].token => f = g
        BY <2>10, <2>11 DEF AppliedOnce
      <3>3. \A x \in 1..MaxToken : resets'[x] # 0 => Spent(x)' BY <2>1, <2>8 DEF AppliedOnce
      <3>. QED BY <3>1, <3>2, <3>3 DEF AppliedOnce
    <2>13. SessionsNotAhead' BY <2>1, <2>2 DEF SessionsNotAhead, Known, AccountsTyped
    <2>. QED BY <2>6, <2>7, <2>12, <2>13
  <1>. QED BY <1>1, <1>2
--------------------------------------------------------------------------------
(* Verifying an address keeps the session version, a new password raises   *)
(* it, and the token is then done with.                                    *)
LEMMA ApplyTokenInv ==
  ASSUME AccountsInv, NEW h \in Handler, ApplyToken(h)
  PROVE  AccountsInv'
  <1>. USE DEF AccountsInv
  <1>. DEFINE r == request[h]
  <1>0. r \in TokenRequest /\ r.at = "apply" BY RequestKinds DEF ApplyToken, AccountsTyped
  <1>1. CASE r.purpose = "verify_email"
    <2>1. /\ account' = IF Known(r.id) THEN [account EXCEPT ![r.id].verified = TRUE] ELSE account
          /\ request' = [request EXCEPT ![h] = NoRequest]
          /\ UNCHANGED <<created, token, issued, mailing, session, resets>>
      BY <1>1 DEF ApplyToken, Go
    <2>2. NoRequest \in Request /\ NoRequest.at = "free" BY DEF Request, NoRequest
    <2>3. resets' \in [1..MaxToken -> Nat] BY <2>1 DEF AccountsTyped
    <2>4. CASE Known(r.id)
      <3>. DEFINE row == [account[r.id] EXCEPT !.verified = TRUE]
      <3>1. account[r.id] \in AccountRow BY <2>4 DEF Known, AccountsTyped
      <3>2. row \in AccountRow /\ row.version >= account[r.id].version
        BY <1>0, <3>1, RowUpdates DEF TokenRequest
      <3>. HIDE DEF row
      <3>3. account' = [account EXCEPT ![r.id] = row] BY <2>1, <2>4, <3>1 DEF row
      <3>. QED BY <2>1, <2>2, <2>3, <2>4, <3>2, <3>3, RowChanges
    <2>5. CASE ~Known(r.id)
      <3>1. account' = account BY <2>1, <2>5
      <3>. QED BY <2>1, <2>2, <3>1, RequestMoves DEF AccountsTyped
    <2>. QED BY <2>4, <2>5
  <1>2. CASE r.purpose = "reset_password"
    <2>. DEFINE next == [r EXCEPT !.at = "revoke"]
    <2>1. /\ SetPassword(r.id, r.password)
          /\ request' = [request EXCEPT ![h] = next]
          /\ resets' = [resets EXCEPT ![r.token] = @ + 1]
          /\ UNCHANGED <<created, token, issued, mailing, session>>
      BY <1>2 DEF ApplyToken, Go
    <2>2. next \in Request /\ next.at = "revoke" BY <1>0 DEF Request, TokenRequest
    <2>3. r.token \in 1..MaxToken /\ r.password \in Password BY <1>0 DEF TokenRequest
    <2>4. /\ resets' \in [1..MaxToken -> Nat]
          /\ \A t \in 1..MaxToken : resets'[t] # resets[t] => Applying(h) /\ t = r.token
      BY <1>0, <1>2, <2>1, <2>3 DEF AccountsTyped, Applying
    <2>. HIDE DEF next
    <2>5. CASE Known(r.id)
      <3>. DEFINE row == NewPassword(account[r.id], r.password)
      <3>1. account[r.id] \in AccountRow BY <2>5 DEF Known, AccountsTyped
      <3>2. row \in AccountRow /\ row.version >= account[r.id].version
        BY <2>3, <3>1, RowUpdates
      <3>. HIDE DEF row
      <3>3. account' = [account EXCEPT ![r.id] = row] BY <2>1, <2>5 DEF SetPassword, row
      <3>. QED BY <2>1, <2>2, <2>4, <2>5, <3>2, <3>3, RowChanges
    <2>6. CASE ~Known(r.id)
      <3>1. account' = account BY <2>1, <2>6 DEF SetPassword
      <3>2. AccountsTyped' BY <2>1, <2>2, <2>4, <3>1 DEF AccountsTyped
      <3>3. NoOrphanToken' BY <2>1, <3>1 DEF NoOrphanToken, Known
      <3>4. \A g \in Handler : Applying(g)' => /\ Applying(g) /\ request'[g] = request[g]
                                              /\ g # h /\ Applying(h)
        BY <1>0, <1>2, <2>1, <2>2 DEF Applying, AccountsTyped
      <3>5. \A t : Spent(t)' <=> Spent(t) BY <2>1 DEF Spent, Unused
      <3>6. Applying(h) BY <1>0, <1>2 DEF Applying
      <3>7. AppliedOnce' BY <2>4, <3>4, <3>5, <3>6 DEF AppliedOnce
      <3>8. SessionsNotAhead' BY <2>1, <2>2, <3>1 DEF SessionsNotAhead, Known, AccountsTyped
      <3>. QED BY <3>2, <3>3, <3>7, <3>8
    <2>. QED BY <2>5, <2>6
  <1>. QED BY <1>1, <1>2 DEF ApplyToken

LEMMA LogoutInv ==
  ASSUME AccountsInv, NEW h \in Handler, Logout(h)
  PROVE  AccountsInv'
  <1>. USE DEF AccountsInv
  <1>. DEFINE id == request[h].id
  <1>0. PICK w : w \in Password
    BY RequestKinds DEF Logout, AccountsTyped, SessionRequest
  <1>1. /\ account' = IF Known(id) THEN [account EXCEPT ![id].version = @ + 1] ELSE account
        /\ request' = [request EXCEPT ![h] = NoRequest]
        /\ UNCHANGED <<created, token, issued, mailing, session, resets>>
    BY DEF Logout, Go
  <1>2. NoRequest \in Request /\ NoRequest.at = "free" BY DEF Request, NoRequest
  <1>3. CASE Known(id)
    <2>. DEFINE row == [account[id] EXCEPT !.version = @ + 1]
    <2>1. account[id] \in AccountRow BY <1>3 DEF Known, AccountsTyped
    <2>2. row \in AccountRow /\ row.version >= account[id].version
      BY <1>0, <2>1, RowUpdates
    <2>. HIDE DEF row
    <2>3. account' = [account EXCEPT ![id] = row] BY <1>1, <1>3, <2>1 DEF row
    <2>. QED BY <1>1, <1>2, <1>3, <2>2, <2>3, RowChanges DEF AccountsTyped
  <1>4. CASE ~Known(id)
    <2>1. account' = account BY <1>1, <1>4
    <2>. QED BY <1>1, <1>2, <2>1, RequestMoves DEF AccountsTyped
  <1>. QED BY <1>3, <1>4

LEMMA RewritePasswordInv ==
  ASSUME AccountsInv, NEW h \in Handler, RewritePassword(h)
  PROVE  AccountsInv'
  <1>. USE DEF AccountsInv
  <1>. DEFINE r == request[h]
  <1>0. r \in SessionRequest /\ r.new \in Password
    BY RequestKinds DEF RewritePassword, AccountsTyped, SessionRequest
  <1>1. /\ SetPassword(r.id, r.new)
        /\ request' = [request EXCEPT ![h] = NoRequest]
        /\ UNCHANGED <<created, token, issued, mailing, session, resets>>
    BY DEF RewritePassword, Go
  <1>2. NoRequest \in Request /\ NoRequest.at = "free" BY DEF Request, NoRequest
  <1>3. CASE Known(r.id)
    <2>. DEFINE row == NewPassword(account[r.id], r.new)
    <2>1. account[r.id] \in AccountRow BY <1>3 DEF Known, AccountsTyped
    <2>2. row \in AccountRow /\ row.version >= account[r.id].version
      BY <1>0, <2>1, RowUpdates
    <2>. HIDE DEF row
    <2>3. account' = [account EXCEPT ![r.id] = row] BY <1>1, <1>3 DEF SetPassword, row
    <2>. QED BY <1>1, <1>2, <1>3, <2>2, <2>3, RowChanges DEF AccountsTyped
  <1>4. CASE ~Known(r.id)
    <2>1. account' = account BY <1>1, <1>4 DEF SetPassword
    <2>. QED BY <1>1, <1>2, <2>1, RequestMoves DEF AccountsTyped
  <1>. QED BY <1>3, <1>4

(* The tokens of the account go with it.                                   *)
LEMMA DropAccountInv ==
  ASSUME AccountsInv, NEW h \in Handler, DropAccount(h)
  PROVE  AccountsInv'
  <1>. USE DEF AccountsInv
  <1>. DEFINE id == request[h].id
              gone == UNION {OwnTokens(id, purpose) : purpose \in Purpose}
  <1>1. /\ account' = Without(account, {id}) /\ token' = Without(token, gone)
        /\ request' = [request EXCEPT ![h] = NoRequest]
        /\ UNCHANGED <<created, issued, mailing, session, resets>>
    BY DEF DropAccount, Go
  <1>2. \A t \in DOMAIN token \ gone : token[t].id # id
    BY DEF OwnTokens, AccountsTyped, TokenRow
  <1>. HIDE DEF gone
  <1>3. AccountsTyped' BY <1>1 DEF AccountsTyped, Without, Request, NoRequest
  <1>4. NoOrphanToken' BY <1>1, <1>2 DEF NoOrphanToken, Known, Without
  <1>5. \A t : Spent(t) => Spent(t)' BY <1>1 DEF Spent, Unused, Without
  <1>6. \A g \in Handler : Applying(g)' => Applying(g) /\ request'[g] = request[g]
    BY <1>1 DEF Applying, AccountsTyped, NoRequest
  <1>7. AppliedOnce' BY <1>1, <1>5, <1>6 DEF AppliedOnce
  <1>8. SessionsNotAhead'
    BY <1>1 DEF SessionsNotAhead, Known, Without, AccountsTyped, NoRequest
  <1>. QED BY <1>3, <1>4, <1>7, <1>8

LEMMA ApiDiesInv ==
  ASSUME AccountsInv, ApiDies PROVE AccountsInv'
  <1>. USE DEF AccountsInv, ApiDies
  <1>1. AccountsTyped' BY DEF AccountsTyped, Request, NoRequest
  <1>2. NoOrphanToken' BY DEF NoOrphanToken, Known
  <1>3. \A h \in Handler : request'[h].at = "free" BY DEF NoRequest
  <1>4. AppliedOnce' BY <1>3 DEF AppliedOnce, Applying, Spent, Unused
  <1>5. SessionsNotAhead' BY <1>3 DEF SessionsNotAhead, Known
  <1>. QED BY <1>1, <1>2, <1>4, <1>5
--------------------------------------------------------------------------------
LEMMA AccountsInvStep ==
  ASSUME AccountsInv, [AccountsNext]_accountVars PROVE AccountsInv'
  <1>0. CASE UNCHANGED accountVars
    BY <1>0, MailMoves DEF accountVars, AccountsInv, AccountsTyped
  <1>1. ASSUME NEW h \in Handler, NEW e \in Email, NEW w \in Password, Register(h, e, w)
        PROVE  AccountsInv'
    BY <1>1, RegisterInv
  <1>2. ASSUME NEW h \in Handler, NEW e \in Email, NEW w \in Password, Authenticate(h, e, w)
        PROVE  AccountsInv'
    BY <1>2, AuthenticateInv
  <1>3. ASSUME NEW h \in Handler, NEW e \in Email, NEW purpose \in Purpose, RequestMail(h, e, purpose)
        PROVE  AccountsInv'
    <2>1. PICK id \in DOMAIN account : mailing' = mailing \cup {Mail(id, purpose)}
      BY <1>3 DEF RequestMail
    <2>2. mailing' \subseteq MailTask
      BY <2>1 DEF Mail, MailTask, AccountsInv, AccountsTyped
    <2>. QED BY <1>3, <2>2, MailMoves DEF RequestMail
  <1>4. ASSUME NEW h \in Handler, NEW s \in session, NEW old \in Password, NEW new \in Password,
               NEW op \in {"logout", "change", "delete"}, EnterWithSession(h, s, op, old, new)
        PROVE  AccountsInv'
    <2>1. [at |-> op, id |-> s.id, old |-> old, new |-> new] \in Request
      BY DEF Request, SessionRequest, AccountsInv, AccountsTyped, Session
    <2>. QED BY <1>4, <2>1, RequestMoves DEF EnterWithSession, Go, AccountsInv, AccountsTyped
  <1>5. ASSUME NEW h \in Handler, NEW t \in mailbox, NEW w \in Password, FindToken(h, t, w)
        PROVE  AccountsInv'
    BY <1>5, FindTokenInv
  <1>6. ASSUME NEW h \in Handler, SignIn(h) PROVE AccountsInv' BY <1>6, SignInInv
  <1>7. ASSUME NEW h \in Handler, ConsumeToken(h) PROVE AccountsInv' BY <1>7, ConsumeTokenInv
  <1>8. ASSUME NEW h \in Handler, ApplyToken(h) PROVE AccountsInv' BY <1>8, ApplyTokenInv
  <1>9. ASSUME NEW h \in Handler, RevokeResets(h) PROVE AccountsInv'
    <2>1. NoRequest \in Request BY DEF Request
    <2>. QED BY <1>9, <2>1, TokensGo DEF RevokeResets, Go, AccountsInv, AccountsTyped
  <1>10. ASSUME NEW h \in Handler, Logout(h) PROVE AccountsInv' BY <1>10, LogoutInv
  <1>11. ASSUME NEW h \in Handler, CheckPassword(h) PROVE AccountsInv'
    <2>. DEFINE r == request[h]
                next == [r EXCEPT !.at = IF r.at = "change" THEN "rewrite" ELSE "drop"]
    <2>1. /\ request' \in {[request EXCEPT ![h] = next], [request EXCEPT ![h] = NoRequest]}
          /\ UNCHANGED <<account, created, token, issued, mailing, session, resets>>
      BY <1>11 DEF CheckPassword, Go
    <2>2. r \in SessionRequest
      BY <1>11, RequestKinds DEF CheckPassword, AccountsInv, AccountsTyped
    <2>3. next \in Request /\ next.at \in {"rewrite", "drop"} BY <2>2 DEF Request, SessionRequest
    <2>4. NoRequest \in Request /\ NoRequest.at = "free" BY DEF Request, NoRequest
    <2>. HIDE DEF next
    <2>. QED BY <2>1, <2>3, <2>4, RequestMoves DEF AccountsInv, AccountsTyped
  <1>12. ASSUME NEW h \in Handler, RewritePassword(h) PROVE AccountsInv'
    BY <1>12, RewritePasswordInv
  <1>13. ASSUME NEW h \in Handler, DropAccount(h) PROVE AccountsInv' BY <1>13, DropAccountInv
  <1>14. ASSUME NEW m \in mailing, IssueToken(m) PROVE AccountsInv' BY <1>14, IssueTokenInv
  <1>15. ASSUME NEW m \in mailing, SendMail(m) PROVE AccountsInv'
    <2>1. m \in MailTask BY DEF AccountsInv, AccountsTyped
    <2>2. [m EXCEPT !.at = "failed"] \in MailTask BY <2>1 DEF MailTask
    <2>. QED BY <1>15, <2>2, MailMoves DEF SendMail, AccountsInv, AccountsTyped
  <1>16. ASSUME NEW m \in mailing, RevokeUnsent(m) PROVE AccountsInv'
    BY <1>16, TokensGo DEF RevokeUnsent, AccountsInv, AccountsTyped
  <1>17. CASE ApiDies BY <1>17, ApiDiesInv
  <1>. QED
    BY <1>0, <1>1, <1>2, <1>3, <1>4, <1>5, <1>6, <1>7, <1>8, <1>9, <1>10, <1>11, <1>12, <1>13,
       <1>14, <1>15, <1>16, <1>17
    DEF AccountsNext

(* Rows keep their types, a token in use is used up, and no session is      *)
(* ahead of its account.                                                   *)
THEOREM AccountsInvariant == AccountsSpec => []AccountsInv
  <1>. USE DEF AccountsSpec
  <1>1. AccountsInit => AccountsInv BY AccountsInvInit
  <1>2. AccountsInv /\ [AccountsNext]_accountVars => AccountsInv' BY AccountsInvStep
  <1>. QED BY <1>1, <1>2, PTL

LEMMA ResetsStep ==
  ASSUME AccountsInv, ResetOnce, [AccountsNext]_accountVars PROVE ResetOnce'
  <1>1. ASSUME NEW h \in Handler, ApplyToken(h) PROVE ResetOnce'
    <2>. DEFINE t == request[h].token
    <2>0. request[h] \in TokenRequest
      BY <1>1, RequestKinds DEF ApplyToken, AccountsInv, AccountsTyped
    <2>1. CASE UNCHANGED resets BY <2>1 DEF ResetOnce
    <2>2. CASE resets' = [resets EXCEPT ![t] = @ + 1] /\ request[h].purpose = "reset_password"
      <3>1. resets[t] = 0 BY <1>1, <2>2 DEF ApplyToken, AccountsInv, AppliedOnce, Applying
      <3>2. resets \in [1..MaxToken -> Nat] BY DEF AccountsInv, AccountsTyped
      <3>. HIDE DEF t
      <3>. QED BY <2>2, <3>1, <3>2 DEF ResetOnce
    <2>. QED BY <1>1, <2>1, <2>2 DEF ApplyToken
  <1>2. CASE UNCHANGED resets BY <1>2 DEF ResetOnce
  <1>. QED
    BY <1>1, <1>2
    DEF AccountsNext, accountVars, Register, Authenticate, SignIn, RequestMail, IssueToken, SendMail,
        RevokeUnsent, FindToken, ConsumeToken, RevokeResets, EnterWithSession, Logout, CheckPassword,
        RewritePassword, DropAccount, ApiDies

(* A reset link sets a password once at most, however many requests use it *)
(* at a time, and whatever is issued, revoked or deleted meanwhile.        *)
THEOREM LinkWorksOnce == AccountsSpec => []ResetOnce
  <1>. USE DEF AccountsSpec
  <1>1. AccountsInit => ResetOnce BY DEF AccountsInit, ResetOnce
  <1>2. AccountsInv /\ ResetOnce /\ [AccountsNext]_accountVars => ResetOnce' BY ResetsStep
  <1>. QED BY <1>1, <1>2, AccountsInvariant, PTL

(* No token outlives its account, for any number of accounts and requests. *)
THEOREM TokensHaveAccounts == AccountsSpec => []NoOrphanToken
  <1>1. AccountsInv => NoOrphanToken BY DEF AccountsInv
  <1>. QED BY <1>1, AccountsInvariant, PTL

(* Only a reset and a change set a password, and both raise the version.   *)
LEMMA PasswordRaisesVersion ==
  ASSUME AccountsInv, AccountsNext, NEW id \in DOMAIN account \cap DOMAIN account',
         account'[id].password # account[id].password
  PROVE  account'[id].version > account[id].version
  <1>0. account[id] \in AccountRow /\ account \in [DOMAIN account -> AccountRow]
        /\ DOMAIN account \subseteq 1..created /\ created \in Nat
    BY DEF AccountsInv, AccountsTyped
  <1>1. ASSUME NEW x, NEW w, SetPassword(x, w)
        PROVE  account'[id].version > account[id].version
    <2>1. id = x BY <1>1, <1>0 DEF SetPassword, Known
    <2>2. account'[id] = NewPassword(account[id], w) BY <1>1, <2>1 DEF SetPassword, Known
    <2>3. NewPassword(account[id], w).version = account[id].version + 1 /\ account[id].version \in Nat
      BY <1>0 DEF NewPassword, AccountRow
    <2>. QED BY <2>2, <2>3
  <1>2. ASSUME NEW h \in Handler, ApplyToken(h) PROVE account'[id].version > account[id].version
    <2>1. CASE account' = IF Known(request[h].id)
                          THEN [account EXCEPT ![request[h].id].verified = TRUE] ELSE account
      BY <1>0, <2>1 DEF AccountRow
    <2>2. CASE SetPassword(request[h].id, request[h].password) BY <1>1, <2>2
    <2>. QED BY <1>2, <2>1, <2>2 DEF ApplyToken
  <1>3. ASSUME NEW h \in Handler, RewritePassword(h) PROVE account'[id].version > account[id].version
    BY <1>1, <1>3 DEF RewritePassword
  <1>4. ASSUME NEW h \in Handler, NEW e \in Email, NEW w \in Password, Register(h, e, w) PROVE FALSE
    BY <1>0, <1>4 DEF Register, With
  <1>5. ASSUME NEW h \in Handler, Logout(h) PROVE FALSE
    BY <1>0, <1>5 DEF Logout, AccountRow
  <1>6. ASSUME NEW h \in Handler, DropAccount(h) PROVE FALSE
    BY <1>6 DEF DropAccount, Without
  <1>7. CASE UNCHANGED account BY <1>7
  <1>. QED
    BY <1>2, <1>3, <1>4, <1>5, <1>6, <1>7
    DEF AccountsNext, Authenticate, SignIn, RequestMail, IssueToken, SendMail, RevokeUnsent,
        FindToken, ConsumeToken, RevokeResets, EnterWithSession, CheckPassword, ApiDies

(* Setting a password turns away every session of the account signed up to *)
(* then, those that another request is being handed at that moment too.    *)
THEOREM PasswordRevokes == AccountsSpec => PasswordEndsSessions
  <1>. DEFINE Revoked ==
         \A id \in DOMAIN account \cap DOMAIN account' :
           account'[id].password # account[id].password =>
             \A s \in session : s.id = id => ~Admits(s)'
  <1>1. AccountsInv /\ [AccountsNext]_accountVars => [Revoked]_accountVars
    <2>. SUFFICES ASSUME AccountsInv, AccountsNext,
                         NEW id \in DOMAIN account \cap DOMAIN account',
                         account'[id].password # account[id].password,
                         NEW s \in session, s.id = id
                  PROVE  ~Admits(s)'
      OBVIOUS
    <2>1. account'[id].version > account[id].version BY PasswordRaisesVersion
    <2>2. s.version <= account[id].version BY DEF AccountsInv, SessionsNotAhead, Known
    <2>3. s.version \in Nat /\ account[id].version \in Nat
      BY DEF AccountsInv, AccountsTyped, Session, AccountRow
    <2>4. AccountsInv' BY AccountsInvStep
    <2>5. account'[id].version \in Nat BY <2>4 DEF AccountsInv, AccountsTyped, AccountRow
    <2>6. account'[id].version # s.version BY <2>1, <2>2, <2>3, <2>5
    <2>. QED BY <2>6 DEF Admits
  <1>2. AccountsSpec => [][Revoked]_accountVars
    BY <1>1, AccountsInvariant, PTL DEF AccountsSpec
  <1>. QED BY <1>2 DEF PasswordEndsSessions

(* Session versions only grow within their bound, and a mail carries a     *)
(* token that was issued.                                                  *)
VersionsInRange == \A id \in DOMAIN account : account[id].version \in 1..MaxVersion

MailsCarryIssued ==
  /\ created <= MaxAccount /\ mailbox \subseteq 1..issued
  /\ \A m \in mailing : m.at = "queued" \/ m.token \in 1..issued

LEMMA RowVersions ==
  ASSUME AccountsInv, VersionsInRange, NEW id,
         Bumpable(id), NEW w,
         \/ account' = IF Known(id) THEN [account EXCEPT ![id].version = @ + 1] ELSE account
         \/ SetPassword(id, w)
  PROVE  VersionsInRange'
  <1>1. CASE ~Known(id) BY <1>1 DEF SetPassword, VersionsInRange
  <1>2. CASE Known(id)
    <2>. DEFINE row == account[id]
    <2>1. row \in AccountRow /\ row.version \in 1..MaxVersion /\ row.version < MaxVersion
      BY <1>2 DEF AccountsInv, AccountsTyped, VersionsInRange, Bumpable, Known
    <2>2. row.version + 1 \in 1..MaxVersion BY <2>1, AccountsAssumption
    <2>3. /\ [row EXCEPT !.version = @ + 1].version = row.version + 1
          /\ NewPassword(row, w).version = row.version + 1
      BY <2>1 DEF AccountRow, NewPassword
    <2>4. \/ account' = [account EXCEPT ![id] = [row EXCEPT !.version = @ + 1]]
          \/ account' = [account EXCEPT ![id] = NewPassword(row, w)]
      BY <1>2 DEF SetPassword
    <2>5. /\ DOMAIN account' = DOMAIN account /\ account'[id].version = row.version + 1
          /\ \A x \in DOMAIN account : x # id => account'[x] = account[x]
      BY <1>2, <2>3, <2>4 DEF Known
    <2>. QED BY <2>2, <2>5 DEF VersionsInRange
  <1>. QED BY <1>1, <1>2

LEMMA VersionsStep ==
  ASSUME AccountsInv, VersionsInRange, [AccountsNext]_accountVars
  PROVE  VersionsInRange'
  <1>1. CASE UNCHANGED account BY <1>1 DEF VersionsInRange
  <1>2. ASSUME NEW h \in Handler, NEW e \in Email, NEW w \in Password, Register(h, e, w)
        PROVE  VersionsInRange'
    <2>. DEFINE row == [email |-> e, password |-> w, version |-> 1, verified |-> FALSE]
    <2>1. account' = With(account, created', row) BY <1>2 DEF Register
    <2>2. row.version \in 1..MaxVersion BY AccountsAssumption
    <2>. HIDE DEF row
    <2>. QED BY <2>1, <2>2 DEF With, VersionsInRange
  <1>3. ASSUME NEW h \in Handler, ApplyToken(h) PROVE VersionsInRange'
    <2>. DEFINE r == request[h]
    <2>1. CASE r.purpose = "verify_email"
      <3>1. account' = IF Known(r.id) THEN [account EXCEPT ![r.id].verified = TRUE] ELSE account
        BY <1>3, <2>1 DEF ApplyToken
      <3>2. \A id \in DOMAIN account : account[id] \in AccountRow
        BY DEF AccountsInv, AccountsTyped
      <3>3. DOMAIN account' = DOMAIN account
            /\ \A id \in DOMAIN account : account'[id].version = account[id].version
        BY <3>1, <3>2 DEF AccountRow, Known
      <3>. QED BY <3>3 DEF VersionsInRange
    <2>2. CASE r.purpose # "verify_email"
      BY <1>3, <2>2, RowVersions DEF ApplyToken
    <2>. QED BY <2>1, <2>2
  <1>4. ASSUME NEW h \in Handler, Logout(h) PROVE VersionsInRange'
    BY <1>4, RowVersions DEF Logout
  <1>5. ASSUME NEW h \in Handler, RewritePassword(h) PROVE VersionsInRange'
    BY <1>5, RowVersions DEF RewritePassword
  <1>6. ASSUME NEW h \in Handler, DropAccount(h) PROVE VersionsInRange'
    BY <1>6 DEF DropAccount, Without, VersionsInRange
  <1>7. \/ UNCHANGED account
        \/ \E h \in Handler : \/ ApplyToken(h) \/ Logout(h) \/ RewritePassword(h) \/ DropAccount(h)
                              \/ \E e \in Email, w \in Password : Register(h, e, w)
    BY DEF AccountsNext, accountVars, Authenticate, RequestMail, EnterWithSession, FindToken,
           SignIn, ConsumeToken, RevokeResets, CheckPassword, IssueToken, SendMail,
           RevokeUnsent, ApiDies
  <1>. QED BY <1>1, <1>2, <1>3, <1>4, <1>5, <1>6, <1>7

LEMMA MailsStep ==
  ASSUME AccountsInv, MailsCarryIssued, [AccountsNext]_accountVars
  PROVE  MailsCarryIssued'
  <1>0. /\ created \in Nat /\ issued \in Nat /\ MaxAccount \in Nat
        /\ mailing \subseteq MailTask
    BY AccountsAssumption DEF AccountsInv, AccountsTyped
  <1>1. CASE UNCHANGED <<created, issued, mailbox>> /\ mailing' \subseteq mailing
    BY <1>1 DEF MailsCarryIssued
  <1>2. ASSUME NEW h \in Handler, NEW e \in Email, NEW w \in Password, Register(h, e, w)
        PROVE  MailsCarryIssued'
    BY <1>0, <1>2 DEF Register, MailsCarryIssued, Mail
  <1>3. ASSUME NEW h \in Handler, NEW e \in Email, NEW purpose \in Purpose, RequestMail(h, e, purpose)
        PROVE  MailsCarryIssued'
    BY <1>3 DEF RequestMail, MailsCarryIssued, Mail
  <1>4. ASSUME NEW m \in mailing, IssueToken(m) PROVE MailsCarryIssued'
    <2>1. CASE MayIssue(m)
      <3>. DEFINE sent == [m EXCEPT !.at = "send", !.token = issued']
      <3>1. /\ issued' = issued + 1 /\ UNCHANGED <<created, mailbox>>
            /\ mailing' = (mailing \ {m}) \cup {sent}
        BY <1>4, <2>1 DEF IssueToken
      <3>2. sent.token = issued'
        BY <1>0 DEF MailTask
      <3>3. 1..issued \subseteq 1..issued' /\ issued' \in 1..issued' BY <1>0, <3>1
      <3>. HIDE DEF sent
      <3>. QED BY <3>1, <3>2, <3>3 DEF MailsCarryIssued
    <2>2. CASE ~MayIssue(m)
      BY <1>1, <1>4, <2>2 DEF IssueToken
    <2>. QED BY <2>1, <2>2
  <1>5. ASSUME NEW m \in mailing, SendMail(m) PROVE MailsCarryIssued'
    <2>. DEFINE failed == [m EXCEPT !.at = "failed"]
    <2>1. /\ m.token \in 1..issued /\ UNCHANGED <<created, issued>>
          /\ mailbox' \subseteq mailbox \cup {m.token}
          /\ mailing' \subseteq mailing \cup {failed}
      BY <1>5 DEF SendMail, MailsCarryIssued
    <2>2. failed.token = m.token BY <1>0 DEF MailTask
    <2>. HIDE DEF failed
    <2>. QED BY <2>1, <2>2 DEF MailsCarryIssued
  <1>6. ASSUME NEW m \in mailing, RevokeUnsent(m) PROVE MailsCarryIssued'
    BY <1>1, <1>6 DEF RevokeUnsent
  <1>7. CASE ApiDies BY <1>1, <1>7 DEF ApiDies
  <1>8. \/ UNCHANGED <<created, issued, mailbox, mailing>>
        \/ ApiDies
        \/ \E m \in mailing : IssueToken(m) \/ SendMail(m) \/ RevokeUnsent(m)
        \/ \E h \in Handler, e \in Email :
             \/ \E w \in Password : Register(h, e, w)
             \/ \E purpose \in Purpose : RequestMail(h, e, purpose)
    BY DEF AccountsNext, accountVars, Authenticate, EnterWithSession, FindToken, SignIn,
           ConsumeToken, ApplyToken, RevokeResets, Logout, CheckPassword, RewritePassword,
           DropAccount
  <1>. QED BY <1>1, <1>2, <1>3, <1>4, <1>5, <1>6, <1>7, <1>8

(* Rows are of accounts and tokens that were drawn, and no mail has a      *)
(* token that was not issued.                                              *)
THEOREM AccountsTypes == AccountsSpec => []AccountsTypeOK
  <1>1. AccountsInit => VersionsInRange /\ MailsCarryIssued
    BY AccountsAssumption DEF AccountsInit, VersionsInRange, MailsCarryIssued
  <1>2. AccountsInv /\ VersionsInRange /\ MailsCarryIssued => AccountsTypeOK
    BY AccountsAssumption
    DEF AccountsInv, AccountsTyped, VersionsInRange, MailsCarryIssued, AccountsTypeOK
  <1>3. AccountsInv /\ VersionsInRange /\ [AccountsNext]_accountVars => VersionsInRange'
    BY VersionsStep
  <1>4. AccountsInv /\ MailsCarryIssued /\ [AccountsNext]_accountVars => MailsCarryIssued'
    BY MailsStep
  <1>. QED BY AccountsInvariant, <1>1, <1>2, <1>3, <1>4, PTL DEF AccountsSpec

--------------------------------------------------------------------------------
(*****************************************************************************)
(* Limits on requests. No rule lets more than its limit through in one       *)
(* window, for any rules, windows and number of requests. LimitPerWindow     *)
(* says nothing of the rows; CountsCover does: until a purge reaches a       *)
(* window, its row has counted every request the rule let through.           *)
(*****************************************************************************)

(* The window of an instant is open at that instant.                       *)
LEMMA WindowIsOpen ==
  ASSUME NEW rule \in LimitRule, NEW now \in 0..LastSecond
  PROVE  /\ <<rule, WindowStart(rule, now)>> \in Bucket
         /\ ~Expired(<<rule, WindowStart(rule, now)>>, now)
  <1>. DEFINE w == RuleWindow(rule)
  <1>1. w \in Nat \ {0} /\ LastSecond \in Nat BY LimitAssumption
  <1>2. now % w \in 0..(w - 1) BY <1>1
  <1>3. now % w <= now BY <1>1
  <1>. HIDE DEF w
  <1>4. WindowStart(rule, now) = now - (now % w) BY DEF WindowStart, w
  <1>5. WindowStart(rule, now) \in 0..LastSecond /\ WindowStart(rule, now) + w > now
    BY <1>1, <1>2, <1>3, <1>4
  <1>. QED BY <1>5, <1>1 DEF Bucket, Expired, w

(* What a later purge leaves, an earlier one leaves too.                   *)
LEMMA ExpiryIsMonotone ==
  ASSUME NEW b \in Bucket, NEW s \in Nat, NEW t \in Nat, s <= t, ~Expired(b, t)
  PROVE  ~Expired(b, s)
  <1>1. b[2] \in Nat /\ RuleWindow(b[1]) \in Nat BY LimitAssumption DEF Bucket
  <1>. QED BY <1>1 DEF Expired

Waiting == [todo : Seq(LimitRule), now : Nat, verdict : {"pass", "429", "503"}]

LEMMA LimitsInvInit == LimitsInit => LimitsInv
  BY LimitAssumption
  DEF LimitsInit, LimitsInv, RequestsWaiting, CountsCover, LimitPerWindow, Bucket

(* Steps that count nothing.                                               *)
LEMMA CountsUnchanged ==
  ASSUME LimitsInv, UNCHANGED <<counter, purgedAt, let>>,
         second' \in 0..LastSecond, RequestsWaiting'
  PROVE  LimitsInv'
  BY DEF LimitsInv, CountsCover, LimitPerWindow, Expired

(* Counting changes what is left to a request and its verdict, not its time. *)
LEMMA RequestCounted ==
  ASSUME LimitsInv, NEW i \in DOMAIN asking, UNCHANGED second,
         NEW todo \in Seq(LimitRule), NEW verdict \in {"pass", "429", "503"},
         asking' = [asking EXCEPT ![i].todo = todo, ![i].verdict = verdict]
  PROVE  RequestsWaiting'
  <1>. DEFINE r == [asking[i] EXCEPT !.todo = todo, !.verdict = verdict]
  <1>1. asking \in Seq(Waiting) /\ \A j \in DOMAIN asking : asking[j].now <= second
    BY DEF LimitsInv, RequestsWaiting, Waiting
  <1>2. DOMAIN asking = 1..Len(asking) /\ asking[i] \in Waiting
    BY <1>1, LenProperties, ElementOfSeq
  <1>3. r \in Waiting /\ r.now = asking[i].now BY <1>2 DEF Waiting
  <1>4. asking' = [asking EXCEPT ![i] = r] BY <1>2
  <1>. HIDE DEF r
  <1>5. /\ asking' \in Seq(Waiting) /\ Len(asking') = Len(asking)
        /\ \A j \in 1..Len(asking) : asking'[j] = IF j = i THEN r ELSE asking[j]
    <2>1. asking \in Seq(Waiting) /\ i \in 1..Len(asking) /\ r \in Waiting
      BY <1>1, <1>2, <1>3
    <2>2. /\ [asking EXCEPT ![i] = r] \in Seq(Waiting)
          /\ Len([asking EXCEPT ![i] = r]) = Len(asking)
          /\ \A j \in 1..Len(asking) : [asking EXCEPT ![i] = r][j] = IF j = i THEN r ELSE asking[j]
      <3>. DEFINE e == [asking EXCEPT ![i] = r]
                  n == Len(asking)
      <3>1. n \in Nat /\ asking \in [1..n -> Waiting] BY <2>1, LenProperties
      <3>. HIDE DEF n
      <3>2. e \in [1..n -> Waiting] /\ \A j \in 1..n : e[j] = IF j = i THEN r ELSE asking[j]
        BY <2>1, <3>1
      <3>. HIDE DEF e
      <3>3. e \in Seq(Waiting) /\ Len(e) = n BY ONLY <3>1, <3>2
      <3>. QED BY <3>2, <3>3 DEF e, n
    <2>. QED BY ONLY <1>4, <2>2, Zenon
  <1>6. DOMAIN asking' = DOMAIN asking BY <1>2, <1>5, LenProperties
  <1>7. \A j \in DOMAIN asking' : asking'[j].now <= second'
    BY <1>1, <1>2, <1>3, <1>5, <1>6
  <1>. QED BY <1>5, <1>7 DEF RequestsWaiting, Waiting

LEMMA CountRuleInv ==
  ASSUME LimitsInv, NEW i \in DOMAIN asking, CountRule(i)
  PROVE  LimitsInv'
  <1>. DEFINE q == asking[i]
              rule == Head(q.todo)
              b == <<rule, WindowStart(rule, q.now)>>
              rows == {x \in DOMAIN counter : ~Expired(x, q.now)}
              count == IF b \in rows THEN counter[b] + 1 ELSE 1
              admits == counter'[b] <= RuleLimit(rule)
  <1>1. /\ q.todo # <<>>
        /\ counter' = [x \in rows \cup {b} |-> IF x = b THEN count ELSE counter[x]]
        /\ asking' = [asking EXCEPT ![i].todo = Tail(@),
                                    ![i].verdict = IF admits THEN @ ELSE "429"]
        /\ let' = IF admits /\ ~Expired(b, purgedAt) THEN [let EXCEPT ![b] = @ + 1] ELSE let
        /\ purgedAt' = IF q.now > purgedAt THEN q.now ELSE purgedAt
        /\ UNCHANGED second
    BY DEF CountRule, Consume
  <1>2. /\ q \in [todo : Seq(LimitRule), now : Nat, verdict : {"pass", "429", "503"}]
        /\ q.now \in 0..LastSecond
    <2>1. /\ asking \in Seq(Waiting) /\ \A j \in DOMAIN asking : asking[j].now <= second
          /\ second \in 0..LastSecond
      BY DEF LimitsInv, RequestsWaiting, Waiting
    <2>2. q \in Waiting BY <2>1, LenProperties, ElementOfSeq
    <2>. QED BY <2>1, <2>2, LimitAssumption DEF Waiting
  <1>3. rule \in LimitRule BY <1>1, <1>2
  <1>4. b \in Bucket /\ ~Expired(b, q.now) BY <1>2, <1>3, WindowIsOpen
  <1>5. /\ second \in 0..LastSecond /\ purgedAt \in Nat /\ q.now \in Nat
        /\ DOMAIN counter \subseteq Bucket /\ \A x \in DOMAIN counter : counter[x] \in Nat
        /\ let \in [Bucket -> Nat]
        /\ CountsCover /\ LimitPerWindow
    BY <1>2 DEF LimitsInv
  <1>6. RequestsWaiting'
    <2>1. Tail(q.todo) \in Seq(LimitRule) BY <1>1, <1>2
    <2>2. (IF admits THEN q.verdict ELSE "429") \in {"pass", "429", "503"} BY <1>2
    <2>. HIDE DEF admits
    <2>3. asking' = [asking EXCEPT ![i].todo = Tail(q.todo),
                                   ![i].verdict = IF admits THEN q.verdict ELSE "429"]
      BY <1>1
    <2>. QED BY <1>1, <2>1, <2>2, <2>3, RequestCounted
  <1>7. rule = b[1] /\ (b \in rows <=> b \in DOMAIN counter) BY <1>4
  <1>8. RuleLimit(b[1]) \in Nat \ {0} BY <1>3, <1>7, LimitAssumption
  <1>. HIDE DEF q, rule, b
  <1>9. count \in Nat /\ counter'[b] = count BY <1>1, <1>5
  <1>10. ~Expired(b, purgedAt) => let[b] + 1 <= count
    BY <1>4, <1>5, <1>7 DEF CountsCover
  <1>11. /\ DOMAIN counter' \subseteq Bucket /\ \A x \in DOMAIN counter' : counter'[x] \in Nat
         /\ let' \in [Bucket -> Nat] /\ purgedAt' \in Nat
    BY <1>1, <1>4, <1>5, <1>9
  <1>12. LimitPerWindow'
    <2>1. CASE admits /\ ~Expired(b, purgedAt)
      <3>1. let' = [let EXCEPT ![b] = @ + 1] BY <1>1, <2>1
      <3>2. let[b] + 1 <= RuleLimit(b[1])
        BY <1>4, <1>5, <1>7, <1>8, <1>9, <1>10, <2>1
      <3>. QED BY <3>1, <3>2, <1>4, <1>5 DEF LimitPerWindow
    <2>2. CASE ~(admits /\ ~Expired(b, purgedAt))
      BY <1>1, <1>5, <2>2 DEF LimitPerWindow
    <2>. QED BY <2>1, <2>2
  <1>13. CountsCover'
    <2>. SUFFICES ASSUME NEW x \in Bucket, ~Expired(x, purgedAt')
                  PROVE  let'[x] <= (IF x \in DOMAIN counter' THEN counter'[x] ELSE 0)
      BY DEF CountsCover, Expired
    <2>1. ~Expired(x, purgedAt) /\ ~Expired(x, q.now)
      BY <1>1, <1>5, <1>11, ExpiryIsMonotone
    <2>2. let[x] <= (IF x \in DOMAIN counter THEN counter[x] ELSE 0)
      BY <2>1, <1>5 DEF CountsCover
    <2>3. CASE x = b
      <3>1. let'[b] <= let[b] + 1 BY <1>1, <1>4, <1>5
      <3>. QED BY <2>1, <2>3, <3>1, <1>1, <1>4, <1>5, <1>9, <1>10, <1>11
    <2>4. CASE x # b
      <3>1. let'[x] = let[x] BY <1>1, <1>5, <2>4
      <3>2. x \in DOMAIN counter <=> x \in DOMAIN counter'
        BY <1>1, <2>1, <2>4
      <3>3. x \in DOMAIN counter => counter'[x] = counter[x] BY <1>1, <2>1, <2>4
      <3>. QED BY <2>2, <3>1, <3>2, <3>3
    <2>. QED BY <2>3, <2>4
  <1>. QED BY <1>1, <1>5, <1>6, <1>11, <1>12, <1>13 DEF LimitsInv

LEMMA LimitsInvStep == LimitsInv /\ [LimitsNext]_limitVars => LimitsInv'
  <1>. SUFFICES ASSUME LimitsInv, [LimitsNext]_limitVars PROVE LimitsInv'
    OBVIOUS
  <1>1. CASE UNCHANGED limitVars
    BY <1>1, CountsUnchanged DEF limitVars, LimitsInv, RequestsWaiting
  <1>2. ASSUME NEW rules \in Matching, Arrive(rules) PROVE LimitsInv'
    <2>1. [todo |-> rules, now |-> second, verdict |-> "pass"]
            \in [todo : Seq(LimitRule), now : Nat, verdict : {"pass", "429", "503"}]
      BY LimitAssumption DEF LimitsInv
    <2>2. RequestsWaiting' BY <1>2, <2>1 DEF Arrive, LimitsInv, RequestsWaiting
    <2>. QED BY <1>2, <2>2, CountsUnchanged DEF Arrive, LimitsInv
  <1>3. ASSUME NEW i \in DOMAIN asking, CountRule(i) PROVE LimitsInv'
    BY <1>3, CountRuleInv
  <1>4. ASSUME NEW i \in DOMAIN asking, CountFails(i) PROVE LimitsInv'
    <2>1. RequestsWaiting'
      <3>1. <<>> \in Seq(LimitRule) OBVIOUS
      <3>. QED BY <1>4, <3>1, RequestCounted DEF CountFails
    <2>. QED BY <1>4, <2>1, CountsUnchanged DEF CountFails, LimitsInv
  <1>5. CASE NextSecond
    <2>1. second' \in 0..LastSecond BY <1>5, LimitAssumption DEF NextSecond, LimitsInv
    <2>2. RequestsWaiting'
      <3>1. \A i \in DOMAIN asking : asking[i].now \in Nat /\ asking[i].now <= second
        <4>1. asking \in Seq(Waiting) /\ \A i \in DOMAIN asking : asking[i].now <= second
          BY DEF LimitsInv, RequestsWaiting, Waiting
        <4>2. \A i \in DOMAIN asking : asking[i] \in Waiting
          BY <4>1, LenProperties, ElementOfSeq
        <4>. QED BY <4>1, <4>2 DEF Waiting
      <3>2. second \in Nat BY LimitAssumption DEF LimitsInv
      <3>3. \A i \in DOMAIN asking : asking[i].now <= second + 1 BY <3>1, <3>2
      <3>. QED BY <1>5, <3>3 DEF NextSecond, LimitsInv, RequestsWaiting
    <2>. QED BY <1>5, <2>1, <2>2, CountsUnchanged DEF NextSecond
  <1>. QED BY <1>1, <1>2, <1>3, <1>4, <1>5 DEF LimitsNext

(* In whatever order requests are counted, and whichever of them fail, no  *)
(* rule lets more than its limit through in a window, until a request of a *)
(* later window has purged it.                                             *)
THEOREM LimitHolds == LimitsSpec => []LimitPerWindow
  <1>1. LimitsInv => LimitPerWindow BY DEF LimitsInv
  <1>. QED BY LimitsInvInit, LimitsInvStep, <1>1, PTL DEF LimitsSpec

(* The row of a window has counted every request the rule let through.     *)
THEOREM RowsCountWhatPassed == LimitsSpec => []CountsCover
  <1>1. LimitsInv => CountsCover BY DEF LimitsInv
  <1>. QED BY LimitsInvInit, LimitsInvStep, <1>1, PTL DEF LimitsSpec

(* The rules a request has still to be counted for, and the requests that  *)
(* are done with a rule.                                                   *)
StillToCount(i) == {asking[i].todo[k] : k \in DOMAIN asking[i].todo}
DoneWith(r) == {i \in DOMAIN asking : r \notin StillToCount(i)}

(* No request is counted twice for a rule: a row counts no more requests   *)
(* than are done with it.                                                  *)
RowsInv ==
  /\ Len(asking) <= MaxRequest
  /\ \A i \in DOMAIN asking : IsInjective(asking[i].todo)
  /\ \A b \in DOMAIN counter : counter[b] \in 1..Cardinality(DoneWith(b[1]))
  /\ purgedAt <= second

(* What is left of a list after its head is a list without the head.       *)
LEMMA OnceEach ==
  ASSUME NEW s \in Seq(LimitRule), s # <<>>, IsInjective(s)
  PROVE  /\ IsInjective(Tail(s))
         /\ \A k \in DOMAIN Tail(s) : Tail(s)[k] # Head(s)
         /\ \A k \in DOMAIN Tail(s) : \E j \in DOMAIN s : Tail(s)[k] = s[j]
  <1>1. /\ Len(s) \in Nat /\ DOMAIN s = 1..Len(s) /\ Len(s) # 0 /\ Head(s) = s[1]
        /\ Tail(s) \in Seq(LimitRule) /\ Len(Tail(s)) = Len(s) - 1
        /\ \A k \in 1..Len(Tail(s)) : Tail(s)[k] = s[k + 1]
    BY HeadTailProperties, LenProperties
  <1>2. DOMAIN Tail(s) = 1..(Len(s) - 1)
    BY <1>1, LenProperties
  <1>3. \A k \in DOMAIN Tail(s) : k + 1 \in DOMAIN s /\ k + 1 # 1 /\ Tail(s)[k] = s[k + 1] /\ k \in Int
    BY <1>1, <1>2
  <1>. QED BY <1>1, <1>3 DEF IsInjective

(* Requests are done with more and more rules.                             *)
LEMMA DoneGrows ==
  ASSUME asking \in Seq(Waiting), asking' \in Seq(Waiting),
         DOMAIN asking \subseteq DOMAIN asking',
         \A i \in DOMAIN asking : StillToCount(i)' \subseteq StillToCount(i)
  PROVE  \A r : /\ DoneWith(r) \subseteq DoneWith(r)'
                /\ IsFiniteSet(DoneWith(r)) /\ IsFiniteSet(DoneWith(r)')
                /\ Cardinality(DoneWith(r)) \in Nat /\ Cardinality(DoneWith(r)') \in Nat
                /\ Cardinality(DoneWith(r)) <= Cardinality(DoneWith(r)')
  <1>. TAKE r
  <1>1. DoneWith(r) \subseteq DoneWith(r)' BY DEF DoneWith
  <1>2. IsFiniteSet(DOMAIN asking')
    <2>1. DOMAIN asking' = 1..Len(asking') /\ Len(asking') \in Nat BY LenProperties
    <2>. QED BY <2>1, FS_Interval
  <1>3. DoneWith(r)' \subseteq DOMAIN asking' BY DEF DoneWith
  <1>4. IsFiniteSet(DoneWith(r)') BY <1>2, <1>3, FS_Subset
  <1>5. IsFiniteSet(DoneWith(r)) /\ Cardinality(DoneWith(r)) <= Cardinality(DoneWith(r)')
    BY <1>1, <1>4, FS_Subset
  <1>. QED BY <1>1, <1>4, <1>5, FS_CardinalityType

LEMMA RowsKept ==
  ASSUME RowsInv, UNCHANGED counter, asking \in Seq(Waiting), asking' \in Seq(Waiting),
         DOMAIN asking \subseteq DOMAIN asking', Len(asking') <= MaxRequest,
         \A i \in DOMAIN asking : StillToCount(i)' \subseteq StillToCount(i),
         \A i \in DOMAIN asking' : IsInjective(asking'[i].todo),
         purgedAt' <= second'
  PROVE  RowsInv'
  <1>1. \A b \in DOMAIN counter : counter[b] \in 1..Cardinality(DoneWith(b[1])')
    <2>. TAKE b \in DOMAIN counter
    <2>1. counter[b] \in 1..Cardinality(DoneWith(b[1])) BY DEF RowsInv
    <2>2. /\ Cardinality(DoneWith(b[1])) \in Nat /\ Cardinality(DoneWith(b[1])') \in Nat
          /\ Cardinality(DoneWith(b[1])) <= Cardinality(DoneWith(b[1])')
      BY DoneGrows
    <2>. HIDE DEF DoneWith
    <2>. QED BY <2>1, <2>2
  <1>. QED BY <1>1 DEF RowsInv

LEMMA CountRuleRows ==
  ASSUME LimitsInv, LimitsInv', RowsInv, NEW i \in DOMAIN asking, CountRule(i)
  PROVE  RowsInv'
  <1>. DEFINE q == asking[i]
              rule == Head(q.todo)
              b == <<rule, WindowStart(rule, q.now)>>
              rows == {x \in DOMAIN counter : ~Expired(x, q.now)}
              count == IF b \in rows THEN counter[b] + 1 ELSE 1
              d == [asking[i] EXCEPT !.todo = Tail(q.todo),
                      !.verdict = IF counter'[b] <= RuleLimit(rule) THEN @ ELSE "429"]
  <1>1. /\ q.todo # <<>> /\ UNCHANGED second
        /\ counter' = [x \in rows \cup {b} |-> IF x = b THEN count ELSE counter[x]]
        /\ asking' = [asking EXCEPT ![i] = d]
        /\ purgedAt' = IF q.now > purgedAt THEN q.now ELSE purgedAt
    <2>1. asking' = [asking EXCEPT ![i].todo = Tail(@),
                                    ![i].verdict = IF counter'[b] <= RuleLimit(rule) THEN @ ELSE "429"]
      BY DEF CountRule
    <2>2. asking' = [asking EXCEPT ![i] = d] BY <2>1
    <2>. QED BY <2>2 DEF CountRule, Consume
  <1>2. /\ asking \in Seq(Waiting) /\ asking' \in Seq(Waiting) /\ second \in Int
        /\ \A j \in DOMAIN asking : asking[j].now <= second
    BY LimitAssumption DEF LimitsInv, RequestsWaiting, Waiting
  <1>3. /\ DOMAIN asking = 1..Len(asking) /\ Len(asking) \in Nat /\ q \in Waiting
        /\ DOMAIN asking' = 1..Len(asking') /\ Len(asking') \in Nat
    BY <1>2, LenProperties, ElementOfSeq
  <1>4. q.todo \in Seq(LimitRule) /\ IsInjective(q.todo) /\ q.now \in Nat
    BY <1>3 DEF Waiting, RowsInv
  <1>5. d.todo = Tail(q.todo) BY <1>3 DEF Waiting
  <1>6. /\ IsInjective(d.todo) /\ \A k \in DOMAIN d.todo : d.todo[k] # rule
        /\ \A k \in DOMAIN d.todo : \E j \in DOMAIN q.todo : d.todo[k] = q.todo[j]
    BY <1>1, <1>4, <1>5, OnceEach
  <1>7. 1 \in DOMAIN q.todo /\ q.todo[1] = rule
    BY <1>1, <1>4, LenProperties, HeadTailProperties
  <1>. HIDE DEF d
  <1>8. /\ DOMAIN asking' = DOMAIN asking /\ asking'[i] = d
        /\ \A j \in DOMAIN asking : j # i => asking'[j] = asking[j]
    BY <1>1
  <1>9. Len(asking') = Len(asking)
    <2>1. 1..Len(asking') = 1..Len(asking) BY <1>3, <1>8
    <2>2. \A m, n \in Nat : 1..m = 1..n => m = n
      <3>. SUFFICES ASSUME NEW m \in Nat, NEW n \in Nat, 1..m = 1..n PROVE m = n
        OBVIOUS
      <3>1. (m = 0 \/ m \in 1..n) /\ (n = 0 \/ n \in 1..m) OBVIOUS
      <3>. QED BY <3>1
    <2>. QED BY <1>3, <2>1, <2>2
  <1>10. \A j \in DOMAIN asking : StillToCount(j)' \subseteq StillToCount(j)
    <2>. TAKE j \in DOMAIN asking
    <2>1. CASE j = i BY <1>6, <1>8, <2>1 DEF StillToCount
    <2>2. CASE j # i BY <1>8, <2>2 DEF StillToCount
    <2>. QED BY <2>1, <2>2
  <1>. PICK r : r = rule OBVIOUS
  <1>11. i \notin DoneWith(r) /\ i \in DoneWith(r)'
    <2>1. r \in StillToCount(i) BY <1>7 DEF StillToCount
    <2>2. ~(r \in StillToCount(i)') BY <1>6, <1>8 DEF StillToCount
    <2>. QED BY <1>8, <2>1, <2>2 DEF DoneWith
  <1>12. \A s : /\ DoneWith(s) \subseteq DoneWith(s)'
                /\ IsFiniteSet(DoneWith(s)) /\ IsFiniteSet(DoneWith(s)')
                /\ Cardinality(DoneWith(s)) \in Nat /\ Cardinality(DoneWith(s)') \in Nat
                /\ Cardinality(DoneWith(s)) <= Cardinality(DoneWith(s)')
    BY <1>2, <1>8, <1>10, DoneGrows
  <1>13. Cardinality(DoneWith(r)) + 1 <= Cardinality(DoneWith(r)')
    <2>1. (DoneWith(r) \cup {i}) \subseteq DoneWith(r)' BY <1>11, <1>12
    <2>2. Cardinality(DoneWith(r) \cup {i}) = Cardinality(DoneWith(r)) + 1
      BY <1>11, <1>12, FS_AddElement
    <2>3. Cardinality(DoneWith(r) \cup {i}) <= Cardinality(DoneWith(r)')
      BY <1>12, <2>1, FS_Subset
    <2>. QED BY <2>2, <2>3
  <1>14. \A x \in DOMAIN counter : counter[x] \in 1..Cardinality(DoneWith(x[1])) BY DEF RowsInv
  <1>15. b[1] = rule OBVIOUS
  <1>. HIDE DEF q, rule, b
  <1>16. \A x \in DOMAIN counter' : counter'[x] \in 1..Cardinality(DoneWith(x[1])')
    <2>. TAKE x \in DOMAIN counter'
    <2>1. CASE x = b
      <3>1. counter'[x] = count BY <1>1, <2>1
      <3>2. count \in 1..(Cardinality(DoneWith(r)) + 1)
        <4>1. b \in rows => counter[b] \in 1..Cardinality(DoneWith(r)) BY <1>14, <1>15
        <4>2. Cardinality(DoneWith(r)) \in Nat BY <1>12
        <4>. QED BY <4>1, <4>2
      <3>3. x[1] = r BY <1>15, <2>1
      <3>4. Cardinality(DoneWith(r)) \in Nat /\ Cardinality(DoneWith(r)') \in Nat BY <1>12
      <3>. QED BY <1>13, <3>1, <3>2, <3>3, <3>4
    <2>2. CASE x # b
      <3>1. x \in DOMAIN counter /\ counter'[x] = counter[x] BY <1>1, <2>2
      <3>2. /\ Cardinality(DoneWith(x[1])) \in Nat /\ Cardinality(DoneWith(x[1])') \in Nat
            /\ Cardinality(DoneWith(x[1])) <= Cardinality(DoneWith(x[1])')
        BY <1>12
      <3>3. counter[x] \in 1..Cardinality(DoneWith(x[1])) BY <1>14, <3>1
      <3>. QED BY <3>1, <3>2, <3>3
    <2>. QED BY <2>1, <2>2
  <1>17. purgedAt' <= second'
    <2>1. purgedAt <= second /\ q.now <= second BY <1>2 DEF RowsInv, q
    <2>. QED BY <1>1, <2>1
  <1>18. \A j \in DOMAIN asking' : IsInjective(asking'[j].todo)
    <2>. TAKE j \in DOMAIN asking'
    <2>1. CASE j = i BY <1>6, <1>8, <2>1
    <2>2. CASE j # i BY <1>8, <2>2 DEF RowsInv
    <2>. QED BY <2>1, <2>2
  <1>. QED BY <1>9, <1>16, <1>17, <1>18 DEF RowsInv

LEMMA RowsInvStep == LimitsInv /\ RowsInv /\ [LimitsNext]_limitVars /\ LimitsInv' => RowsInv'
  <1>. SUFFICES ASSUME LimitsInv, RowsInv, [LimitsNext]_limitVars, LimitsInv' PROVE RowsInv'
    OBVIOUS
  <1>0. /\ asking \in Seq(Waiting) /\ asking' \in Seq(Waiting)
        /\ second \in Int /\ purgedAt \in Int /\ MaxRequest \in Nat
    BY LimitAssumption DEF LimitsInv, RequestsWaiting, Waiting
  <1>. DEFINE n == Len(asking)
  <1>00. n \in Nat /\ DOMAIN asking = 1..n BY <1>0, LenProperties
  <1>1. CASE UNCHANGED limitVars
    BY <1>1, <1>0, RowsKept DEF limitVars, RowsInv, StillToCount
  <1>2. ASSUME NEW rules \in Matching, Arrive(rules) PROVE RowsInv'
    <2>. DEFINE d == [todo |-> rules, now |-> second, verdict |-> "pass"]
    <2>1. asking' = Append(asking, d) /\ n < MaxRequest /\ UNCHANGED <<second, counter, purgedAt>>
      BY <1>2 DEF Arrive
    <2>2. d \in Waiting /\ IsInjective(d.todo)
      BY LimitAssumption DEF Waiting, LimitsInv, IsInjective
    <2>. HIDE DEF d, n
    <2>3. /\ Len(asking') = n + 1 /\ DOMAIN asking' = 1..(n + 1)
          /\ \A j \in 1..n : asking'[j] = asking[j]
          /\ asking'[n + 1] = d
      <3>1. asking \in Seq(Waiting) /\ d \in Waiting BY <1>0, <2>2
      <3>2. /\ Append(asking, d) \in Seq(Waiting) /\ Len(Append(asking, d)) = n + 1
            /\ \A j \in 1..n : Append(asking, d)[j] = asking[j]
            /\ Append(asking, d)[n + 1] = d
        BY <3>1, AppendProperties DEF n
      <3>. QED BY <2>1, <3>2, LenProperties
    <2>4. \A j \in DOMAIN asking : StillToCount(j)' \subseteq StillToCount(j)
      BY <1>00, <2>3 DEF StillToCount
    <2>5. \A j \in DOMAIN asking' : IsInjective(asking'[j].todo)
      <3>. TAKE j \in DOMAIN asking'
      <3>1. j \in 1..n \/ j = n + 1 BY <1>00, <2>3
      <3>. QED BY <1>00, <2>2, <2>3, <3>1 DEF RowsInv
    <2>6. DOMAIN asking \subseteq DOMAIN asking' /\ Len(asking') <= MaxRequest
      BY <1>0, <1>00, <2>1, <2>3
    <2>. QED BY <1>0, <2>1, <2>4, <2>5, <2>6, RowsKept DEF RowsInv
  <1>3. ASSUME NEW i \in DOMAIN asking, CountRule(i) PROVE RowsInv'
    BY <1>3, CountRuleRows
  <1>4. ASSUME NEW i \in DOMAIN asking, CountFails(i) PROVE RowsInv'
    <2>. DEFINE d == [asking[i] EXCEPT !.todo = <<>>, !.verdict = "503"]
    <2>1. asking' = [asking EXCEPT ![i] = d] /\ UNCHANGED <<second, counter, purgedAt>>
      <3>1. asking' = [asking EXCEPT ![i].todo = <<>>, ![i].verdict = "503"]
        BY <1>4 DEF CountFails
      <3>. QED BY <1>4, <3>1 DEF CountFails
    <2>2. asking[i] \in Waiting BY <1>0, <1>00, ElementOfSeq
    <2>3. d.todo = <<>> /\ DOMAIN d.todo = {} BY <2>2 DEF Waiting
    <2>. HIDE DEF d, n
    <2>4. /\ DOMAIN asking' = DOMAIN asking /\ asking'[i] = d
          /\ \A j \in DOMAIN asking : j # i => asking'[j] = asking[j]
      BY <2>1
    <2>5. Len(asking') = n
      <3>1. DOMAIN asking' = 1..Len(asking') /\ Len(asking') \in Nat BY <1>0, LenProperties
      <3>. QED BY <1>00, <2>4, <3>1
    <2>6. \A j \in DOMAIN asking : StillToCount(j)' \subseteq StillToCount(j)
      BY <2>3, <2>4 DEF StillToCount
    <2>7. \A j \in DOMAIN asking' : IsInjective(asking'[j].todo)
      BY <2>3, <2>4 DEF RowsInv, IsInjective
    <2>. QED BY <1>0, <2>1, <2>4, <2>5, <2>6, <2>7, RowsKept DEF RowsInv, n
  <1>5. CASE NextSecond
    BY <1>5, <1>0, RowsKept DEF NextSecond, RowsInv, StillToCount
  <1>. QED BY <1>1, <1>2, <1>3, <1>4, <1>5 DEF LimitsNext

(* Rows are of windows that were, and a row counts every request at most   *)
(* once, so that no number of rules and purges drives it past the requests.*)
THEOREM LimitsTypes == LimitsSpec => []LimitsTypeOK
  <1>1. LimitsInit => RowsInv
    BY LimitAssumption DEF LimitsInit, RowsInv
  <1>2. LimitsInv /\ RowsInv => LimitsTypeOK
    <2>. SUFFICES ASSUME LimitsInv, RowsInv, NEW b \in DOMAIN counter
                  PROVE  counter[b] \in 1..MaxRequest
      BY DEF LimitsTypeOK, LimitsInv, RowsInv
    <2>1. asking \in Seq(Waiting) BY DEF LimitsInv, RequestsWaiting, Waiting
    <2>2. DOMAIN asking = 1..Len(asking) /\ Len(asking) \in Nat BY <2>1, LenProperties
    <2>3. IsFiniteSet(DOMAIN asking) /\ Cardinality(DOMAIN asking) = Len(asking)
      BY <2>2, FS_Interval
    <2>4. DoneWith(b[1]) \subseteq DOMAIN asking BY DEF DoneWith
    <2>5. Cardinality(DoneWith(b[1])) <= Len(asking) /\ Cardinality(DoneWith(b[1])) \in Nat
      BY <2>3, <2>4, FS_Subset, FS_CardinalityType
    <2>6. counter[b] \in 1..Cardinality(DoneWith(b[1])) /\ Len(asking) <= MaxRequest BY DEF RowsInv
    <2>. QED BY <2>2, <2>5, <2>6, LimitAssumption
  <1>. QED BY LimitsInvInit, LimitsInvStep, <1>1, RowsInvStep, <1>2, PTL DEF LimitsSpec

--------------------------------------------------------------------------------
(*****************************************************************************)
(* Prices of symbols. Nothing is shown as loading for which no call is       *)
(* responsible, for any symbols, batches and times: the safety that          *)
(* LoadingEnds rests on.                                                     *)
(*****************************************************************************)

Symbols == SUBSET ShownSymbol
Given == [prices : Symbols, pending : Symbols, unavailable : BOOLEAN, ready : BOOLEAN]
Call == [at : {"none", "sleep", "asked"}, queued : Symbols, left : Symbols, batch : Symbols]

PricesInv == PricesTypeOK /\ LoadingIsQueued

LEMMA PricesInvInit == PricesInit => PricesInv
  BY DEF PricesInit, PricesInv, PricesTypeOK, LoadingIsQueued, NoCall

(* Taking the first call off the chain moves its symbols, and a new call   *)
(* adds its own.                                                           *)
LEMMA ChainTail ==
  ASSUME NEW q \in Seq(Symbols), q # <<>>
  PROVE  /\ Tail(q) \in Seq(Symbols) /\ Head(q) \in Symbols
         /\ UNION {q[i] : i \in DOMAIN q}
              \subseteq Head(q) \cup UNION {Tail(q)[i] : i \in DOMAIN Tail(q)}
  <1>. DEFINE rest == Tail(q)
  <1>1. /\ rest \in Seq(Symbols) /\ Head(q) \in Symbols /\ Head(q) = q[1]
        /\ Len(q) \in Nat \ {0} /\ DOMAIN q = 1..Len(q)
        /\ DOMAIN rest = 1..(Len(q) - 1) /\ \A i \in 1..(Len(q) - 1) : rest[i] = q[i + 1]
    OBVIOUS
  <1>. HIDE DEF rest
  <1>2. ASSUME NEW i \in DOMAIN q, i # 1 PROVE i - 1 \in DOMAIN rest /\ rest[i - 1] = q[i]
    BY <1>1, <1>2
  <1>3. \A i \in DOMAIN q : q[i] \subseteq Head(q) \cup UNION {rest[j] : j \in DOMAIN rest}
    BY <1>1, <1>2
  <1>. QED BY <1>1, <1>3 DEF rest

LEMMA ChainAppend ==
  ASSUME NEW q \in Seq(Symbols), NEW s \in Symbols
  PROVE  /\ Append(q, s) \in Seq(Symbols)
         /\ s \cup UNION {q[i] : i \in DOMAIN q}
              \subseteq UNION {Append(q, s)[i] : i \in DOMAIN Append(q, s)}
  <1>. DEFINE longer == Append(q, s)
  <1>1. /\ longer \in Seq(Symbols) /\ Len(q) \in Nat /\ DOMAIN q = 1..Len(q)
        /\ DOMAIN longer = 1..(Len(q) + 1) /\ longer[Len(q) + 1] = s
        /\ \A i \in 1..Len(q) : longer[i] = q[i]
    OBVIOUS
  <1>. HIDE DEF longer
  <1>2. Len(q) + 1 \in DOMAIN longer /\ \A i \in DOMAIN q : i \in DOMAIN longer BY <1>1
  <1>. QED BY <1>1, <1>2 DEF longer

LEMMA WantedSome == ASSUME NEW symbols, NEW failed PROVE Wanted(symbols, failed) \subseteq symbols
  BY DEF Wanted

(* A call goes on with its own symbols, or it is over.                     *)
LEMMA LoopsOutcome ==
  ASSUME NEW queued \in Symbols, NEW left \in SUBSET queued, NEW unavailable,
         NEW to \in Loops(queued, left, unavailable)
  PROVE  /\ to \in Call /\ to.left \cup to.batch \subseteq to.queued
         /\ to = NoCall \/ to.queued = queued
  <1>1. CASE to = NoCall BY <1>1 DEF NoCall, Call, Symbols
  <1>2. CASE to = [at |-> "sleep", queued |-> queued, left |-> left, batch |-> {}]
    BY <1>2 DEF Call, Symbols
  <1>3. CASE to \in Sends(queued, left) /\ to # NoCall
    <2>. DEFINE wanted == Wanted(left, failedAge)
    <2>1. wanted \subseteq left BY WantedSome
    <2>2. PICK b \in SUBSET wanted :
            to = [at |-> "asked", queued |-> queued, left |-> wanted \ b, batch |-> b]
      BY <1>3 DEF Sends
    <2>. HIDE DEF wanted
    <2>. QED BY <2>1, <2>2 DEF Call, Symbols
  <1>. QED BY <1>1, <1>2, <1>3 DEF Loops

(* Wherever the call goes, what it stops asking for stops loading.         *)
LEMMA MovesInv ==
  ASSUME NEW queued \in Symbols, NEW to \in Call, NEW state \in Given,
         to.left \cup to.batch \subseteq to.queued, to = NoCall \/ to.queued = queued,
         CallGoesOn(queued, to, state),
         chain' \in Seq(Symbols), mounted \in BOOLEAN, UNCHANGED mounted,
         mounted => state.pending \subseteq OnChain' \cup queued
  PROVE  PricesInv'
  <1>. DEFINE pending == IF to = NoCall THEN WithoutCall(queued, state.pending)
                         ELSE state.pending \cup to.batch
  <1>1. call' = to /\ given' = [state EXCEPT !.pending = pending] BY DEF CallGoesOn
  <1>2. state.pending \in Symbols /\ to.batch \in Symbols BY DEF Given, Call
  <1>3. pending \in Symbols BY <1>2 DEF WithoutCall, Symbols
  <1>4. mounted => pending \subseteq OnChain' \cup to.queued
    BY <1>2 DEF WithoutCall, NoCall
  <1>. HIDE DEF pending
  <1>5. given' \in Given /\ given'.pending = pending BY <1>1, <1>3 DEF Given
  <1>6. PricesTypeOK' BY <1>1, <1>5 DEF PricesTypeOK, Given, Call, Symbols
  <1>7. LoadingIsQueued' BY <1>1, <1>4, <1>5 DEF LoadingIsQueued
  <1>. QED BY <1>6, <1>7 DEF PricesInv

(* A batch that was answered is no longer loading; the rest of the state   *)
(* the answer sets is not about loading.                                   *)
LEMMA AnswerInv ==
  ASSUME PricesInv, NEW prices \in Symbols, NEW unavailable \in BOOLEAN,
         NEW left \in SUBSET call.queued, NEW blocked,
         NEW to \in Loops(call.queued, left, blocked),
         CallGoesOn(call.queued, to, [Done(given) EXCEPT !.prices = prices, !.unavailable = unavailable]),
         UNCHANGED <<chain, mounted>>
  PROVE  PricesInv'
  <1>. DEFINE state == [Done(given) EXCEPT !.prices = prices, !.unavailable = unavailable]
  <1>1. given \in Given /\ call.queued \in Symbols /\ call.batch \subseteq call.queued
        /\ chain \in Seq(Symbols) /\ mounted \in BOOLEAN
    BY DEF PricesInv, PricesTypeOK, Given, Symbols
  <1>2. Done(given) \in Given /\ Done(given).pending = given.pending \ call.batch
    BY <1>1 DEF Done, Given, Symbols
  <1>3. state \in Given /\ state.pending = given.pending \ call.batch BY <1>2 DEF Given
  <1>4. mounted => state.pending \subseteq OnChain' \cup call.queued
    BY <1>3 DEF PricesInv, LoadingIsQueued, OnChain
  <1>5. /\ to \in Call /\ to.left \cup to.batch \subseteq to.queued
        /\ to = NoCall \/ to.queued = call.queued
    BY <1>1, LoopsOutcome
  <1>. HIDE DEF state
  <1>6. CallGoesOn(call.queued, to, state) BY DEF state
  <1>. QED BY <1>1, <1>3, <1>4, <1>5, <1>6, MovesInv

LEMMA EnqueueInv ==
  ASSUME PricesInv, NEW symbols \in Symbols, NEW failed, Enqueue(symbols, failed),
         UNCHANGED <<call, mounted>>
  PROVE  PricesInv'
  <1>. DEFINE queued == Wanted(symbols, failed)
  <1>0. queued \in Symbols BY WantedSome DEF Symbols
  <1>. USE DEF PricesInv
  <1>. HIDE DEF queued
  <1>1. CASE UNCHANGED <<chain, given>>
    BY <1>1 DEF PricesTypeOK, LoadingIsQueued, OnChain
  <1>2. CASE chain' = Append(chain, queued) /\ given' = [given EXCEPT !.pending = @ \cup queued]
    <2>1. chain \in Seq(Symbols) /\ given \in Given BY DEF PricesTypeOK, Given, Symbols
    <2>2. chain' \in Seq(Symbols) /\ queued \cup OnChain \subseteq OnChain'
      BY <1>0, <1>2, <2>1, ChainAppend DEF OnChain
    <2>3. given' \in Given /\ given'.pending = given.pending \cup queued
      BY <1>0, <1>2, <2>1 DEF Given, Symbols
    <2>4. PricesTypeOK' BY <2>2, <2>3 DEF PricesTypeOK, Given, Symbols
    <2>5. LoadingIsQueued' BY <2>2, <2>3 DEF LoadingIsQueued
    <2>. QED BY <2>4, <2>5
  <1>. QED BY <1>1, <1>2 DEF Enqueue, queued

(* Steps that keep what is loading, the chain and the call.                *)
LEMMA LoadingKept ==
  ASSUME PricesInv, given' \in Given, given'.pending = given.pending,
         UNCHANGED <<chain, call>>, mounted' \in BOOLEAN, mounted' => mounted
  PROVE  PricesInv'
  <1>. USE DEF PricesInv
  <1>1. PricesTypeOK' BY DEF PricesTypeOK, Given, Symbols
  <1>2. OnChain' = OnChain BY DEF OnChain
  <1>3. LoadingIsQueued' BY <1>2 DEF LoadingIsQueued
  <1>. QED BY <1>1, <1>3

LEMMA PricesInvStep == PricesInv /\ [PricesNext]_priceVars => PricesInv'
  <1>. SUFFICES ASSUME PricesInv, [PricesNext]_priceVars PROVE PricesInv'
    OBVIOUS
  <1>0. /\ given \in Given /\ chain \in Seq(Symbols) /\ mounted \in BOOLEAN
        /\ call \in Call /\ call.left \cup call.batch \subseteq call.queued
        /\ call.queued \in Symbols
    BY DEF PricesInv, PricesTypeOK, Given, Call, Symbols
  <1>1. CASE UNCHANGED priceVars BY <1>0, <1>1, LoadingKept DEF priceVars
  <1>2. ASSUME NEW ok \in BOOLEAN, ProbeAnswers(ok) PROVE PricesInv'
    <2>1. given' \in Given /\ given'.pending = given.pending
      BY <1>0, <1>2 DEF ProbeAnswers, Given
    <2>. QED BY <1>0, <1>2, <2>1, LoadingKept DEF ProbeAnswers
  <1>3. CASE Render \/ Unmount \/ ClockRuns
    <2>1. /\ UNCHANGED <<given, chain, call>> /\ mounted' \in BOOLEAN
          /\ mounted' => mounted
      <3>1. CASE Render BY <1>0, <3>1 DEF Render
      <3>2. CASE Unmount BY <3>2 DEF Unmount
      <3>3. CASE ClockRuns BY <1>0, <3>3 DEF ClockRuns
      <3>. QED BY <1>3, <3>1, <3>2, <3>3
    <2>. QED BY <1>0, <2>1, LoadingKept
  <1>4. ASSUME NEW s \in ShownSymbol, MergePrice(s) PROVE PricesInv'
    <2>1. given' \in Given /\ given'.pending = given.pending
      BY <1>0, <1>4 DEF MergePrice, Given, Symbols
    <2>. QED BY <1>0, <1>4, <2>1, LoadingKept DEF MergePrice
  <1>5. ASSUME NEW s \in ShownSymbol, RetryPriceFor(s) PROVE PricesInv'
    BY <1>5, EnqueueInv DEF RetryPriceFor, Symbols
  <1>6. ASSUME NEW symbols \in SUBSET ShownSymbol, FetchPricesFor(symbols) PROVE PricesInv'
    BY <1>6, EnqueueInv DEF FetchPricesFor, Symbols
  <1>7. CASE StartCall
    <2>. DEFINE queued == Head(chain)
                left == Wanted(queued, failedAge)
    <2>1. /\ call = NoCall /\ chain # <<>> /\ chain' = Tail(chain) /\ UNCHANGED mounted
      BY <1>7 DEF StartCall
    <2>2. PICK to \in Loops(queued, left, unavailableNow) : CallGoesOn(queued, to, given)
      BY <1>7 DEF StartCall
    <2>3. chain' \in Seq(Symbols) /\ queued \in Symbols /\ OnChain \subseteq queued \cup OnChain'
      BY <1>0, <2>1, ChainTail DEF OnChain
    <2>4. left \in SUBSET queued BY WantedSome
    <2>5. mounted => given.pending \subseteq OnChain' \cup queued
      BY <2>1, <2>3 DEF PricesInv, LoadingIsQueued, NoCall
    <2>. HIDE DEF queued, left
    <2>6. /\ to \in Call /\ to.left \cup to.batch \subseteq to.queued
          /\ to = NoCall \/ to.queued = queued
      BY <2>2, <2>3, <2>4, LoopsOutcome
    <2>. QED BY <1>0, <2>1, <2>2, <2>3, <2>5, <2>6, MovesInv
  <1>8. CASE WakeUp
    <2>1. PICK to \in Loops(call.queued, call.left, unavailableNow) : CallGoesOn(call.queued, to, given)
      BY <1>8 DEF WakeUp
    <2>2. /\ to \in Call /\ to.left \cup to.batch \subseteq to.queued
          /\ to = NoCall \/ to.queued = call.queued
      BY <1>0, <2>1, LoopsOutcome
    <2>3. mounted => given.pending \subseteq OnChain' \cup call.queued
      BY <1>8 DEF WakeUp, PricesInv, LoadingIsQueued, OnChain
    <2>. QED BY <1>0, <1>8, <2>1, <2>2, <2>3, MovesInv DEF WakeUp
  <1>9. ASSUME NEW good \in SUBSET ShownSymbol, Quoted(good) PROVE PricesInv'
    <2>. DEFINE prices == Done(given).prices \cup good
                unavailable == Done(given).unavailable /\ good = {}
    <2>1. PICK to \in Loops(call.queued, call.left, unavailableNow) :
            CallGoesOn(call.queued, to,
                  [Done(given) EXCEPT !.prices = prices, !.unavailable = unavailable])
      BY <1>9 DEF Quoted
    <2>2. prices \in Symbols /\ unavailable \in BOOLEAN
      BY <1>0 DEF Done, Given, Symbols
    <2>3. call.left \in SUBSET call.queued BY <1>0
    <2>. HIDE DEF prices, unavailable
    <2>. QED BY <1>9, <2>1, <2>2, <2>3, AnswerInv DEF Quoted
  <1>10. ASSUME NEW gone \in BOOLEAN, QuotesFail(gone) PROVE PricesInv'
    <2>. DEFINE prices == Done(given).prices
                unavailable == Done(given).unavailable \/ gone
                left == IF gone THEN {} ELSE call.left
    <2>0. [Done(given) EXCEPT !.unavailable = unavailable]
            = [Done(given) EXCEPT !.prices = prices, !.unavailable = unavailable]
      BY <1>0 DEF Done, Given
    <2>1. PICK to \in Loops(call.queued, left, unavailableNow') :
            CallGoesOn(call.queued, to,
                  [Done(given) EXCEPT !.prices = prices, !.unavailable = unavailable])
      BY <1>10, <2>0 DEF QuotesFail
    <2>2. prices \in Symbols /\ unavailable \in BOOLEAN /\ left \in SUBSET call.queued
      BY <1>0 DEF Done, Given
    <2>. HIDE DEF prices, unavailable, left
    <2>. QED BY <1>10, <2>1, <2>2, AnswerInv DEF QuotesFail
  <1>11. CASE AnsweredTooLate
    <2>1. NoCall \in Call /\ NoCall.left \cup NoCall.batch \subseteq NoCall.queued
      BY DEF NoCall, Call, Symbols
    <2>. QED BY <1>0, <1>11, <2>1, MovesInv DEF AnsweredTooLate
  <1>. QED
    BY <1>1, <1>2, <1>3, <1>4, <1>5, <1>6, <1>7, <1>8, <1>9, <1>10, <1>11
    DEF PricesNext, BatchAnswered

(* Whatever is asked, answered, failed or dropped, a symbol shown as       *)
(* loading belongs to a call that waits or runs.                           *)
THEOREM LoadingAccounted == PricesSpec => []LoadingIsQueued
  <1>1. PricesInv => LoadingIsQueued BY DEF PricesInv
  <1>. QED BY PricesInvInit, PricesInvStep, <1>1, PTL DEF PricesSpec

(* The types of the hook's state.                                          *)
THEOREM PricesTypeCorrect == PricesSpec => []PricesTypeOK
  <1>1. PricesInv => PricesTypeOK BY DEF PricesInv
  <1>. QED BY PricesInvInit, PricesInvStep, <1>1, PTL DEF PricesSpec
--------------------------------------------------------------------------------
(*****************************************************************************)
(* The refresh controller, for any number of refreshes and polls. RefreshInv *)
(* is inductive: OneAtATime makes the tracker a step belongs to the only     *)
(* active one, so what the step writes to the shared status, event and       *)
(* process is about that run and no other.                                   *)
(*****************************************************************************)

LEMMA RefreshInvInit == RefreshInit => RefreshInv
  <1>. SUFFICES ASSUME RefreshInit PROVE RefreshInv
    OBVIOUS
  <1>. USE RefreshAssumption
       DEF RefreshInv, RefreshTypeOK, OneAtATime, OwnsChild, EventIsMine, TimelyCancelHonoured,
           StatusWritten, Run, NoRun, RefreshStatus, Live, Exited, Early, Watching, Ending, Active,
           At, Goto, statusVars, trackerVars, cancelVars
  <1>. USE DEF RefreshInit
  <1>1. RefreshTypeOK
    <2>0. isRunning \in BOOLEAN /\ cancelEvent \in BOOLEAN OBVIOUS
    <2>1. runs \in 0..MaxRuns /\ lastStatus \in RefreshStatus OBVIOUS
    <2>2. lastRefresh \in Run \cup {NoRun} /\ process \in Run \cup {NoRun}
          /\ target \in Run \cup {NoRun}
      OBVIOUS
    <2>3. tracker \in [Run -> Active \cup {"none", "done"}] /\ polls \in [Run -> 0..MaxPolls]
      OBVIOUS
    <2>4. child \in [Run -> Live \cup Exited \cup {"none"}]
          /\ cancel \in [Run -> {"none", "early", "timely", "late"}]
      OBVIOUS
    <2>5. handler \in {"free", "status", "set", "read", "poll", "terminate", "wait",
                        "waiting", "kill"}
      OBVIOUS
    <2>. QED BY <2>0, <2>1, <2>2, <2>3, <2>4, <2>5
  <1>2. OneAtATime OBVIOUS
  <1>3. OwnsChild OBVIOUS
  <1>4. EventIsMine OBVIOUS
  <1>5. TimelyCancelHonoured OBVIOUS
  <1>6. StatusWritten OBVIOUS
  <1>. QED BY <1>1, <1>2, <1>3, <1>4, <1>5, <1>6

(* Only the active tracker takes a step. *)
LEMMA TrackerStepActive == ASSUME NEW r \in Run, TrackerStep(r) PROVE tracker[r] \in Active
  BY DEF TrackerStep, Active, Early, Watching, Ending, At,
         TrackerBegins, ClearEvent, Spawn, SpawnFails, LoopCancelled, LoopNotCancelled,
         PollExited, PollAgain, PollTimeout, Reaped, ReapExpires, ReapKilledExpires,
         CheckCancelled, CheckNotCancelled, VerdictTimeout, VerdictSuccess, VerdictError,
         CheckAlerts, ForgetProcess, FreeSlot

(* The active tracker is that of the latest run. *)
LEMMA OneActive ==
  ASSUME RefreshInv, NEW r \in Run, tracker[r] \in Active PROVE r = runs
  BY RefreshAssumption
  DEF RefreshInv, RefreshTypeOK, OneAtATime, Run, Active, Early, Watching, Ending

(* Each step of the tracker thread keeps the invariant. *)
LEMMA TrackerInvStep == ASSUME RefreshInv, NEW r \in Run, TrackerStep(r) PROVE RefreshInv'
  <1>. USE RefreshAssumption
       DEF RefreshInv, RefreshTypeOK, OneAtATime, OwnsChild, EventIsMine, TimelyCancelHonoured,
           StatusWritten, Run, NoRun, RefreshStatus, Live, Exited, Early, Watching, Ending, Active,
           At, Goto, statusVars, trackerVars, cancelVars
  <1>0. tracker[r] \in Active /\ r = runs /\ \A q \in Run \ {r} : tracker[q] \notin Active
    BY TrackerStepActive, OneActive
  <1>1. CASE TrackerBegins(r)
    <2>1. RefreshTypeOK' BY <1>1 DEF TrackerBegins
    <2>2. OneAtATime' BY <1>1 DEF TrackerBegins
    <2>3. OwnsChild' BY <1>0, <1>1 DEF TrackerBegins
    <2>4. EventIsMine' BY <1>0, <1>1 DEF TrackerBegins
    <2>5. TimelyCancelHonoured' BY <1>0, <1>1 DEF TrackerBegins
    <2>6. StatusWritten' BY <1>0, <1>1 DEF TrackerBegins
    <2>. QED BY <2>1, <2>2, <2>3, <2>4, <2>5, <2>6
  <1>2. CASE ClearEvent(r)
    <2>1. RefreshTypeOK' BY <1>2 DEF ClearEvent
    <2>2. OneAtATime' BY <1>2 DEF ClearEvent
    <2>3. OwnsChild' BY <1>0, <1>2 DEF ClearEvent
    <2>4. EventIsMine' BY <1>0, <1>2 DEF ClearEvent
    <2>5. TimelyCancelHonoured' BY <1>0, <1>2 DEF ClearEvent
    <2>6. StatusWritten' BY <1>0, <1>2 DEF ClearEvent
    <2>. QED BY <2>1, <2>2, <2>3, <2>4, <2>5, <2>6
  <1>3. CASE Spawn(r) BY <1>3 DEF Spawn
  <1>4. CASE SpawnFails(r) BY <1>4 DEF SpawnFails
  <1>5. CASE LoopCancelled(r) BY <1>5 DEF LoopCancelled, Terminate, Terminated
  <1>6. CASE LoopNotCancelled(r) BY <1>6 DEF LoopNotCancelled
  <1>7. CASE PollExited(r) BY <1>7 DEF PollExited
  <1>8. CASE PollAgain(r) BY <1>8 DEF PollAgain
  <1>9. CASE PollTimeout(r)
    <2>1. RefreshTypeOK' BY <1>9 DEF PollTimeout, Terminate, Terminated
    <2>2. OneAtATime' BY <1>9 DEF PollTimeout, Terminate, Terminated
    <2>3. OwnsChild' BY <1>0, <1>9 DEF PollTimeout, Terminate, Terminated
    <2>4. EventIsMine' BY <1>0, <1>9 DEF PollTimeout, Terminate, Terminated
    <2>5. TimelyCancelHonoured' BY <1>0, <1>9 DEF PollTimeout, Terminate, Terminated
    <2>6. StatusWritten'
      <3>1. lastRefresh # runs BY <1>0, <1>9 DEF PollTimeout
      <3>2. lastStatus' = "timeout" /\ UNCHANGED <<lastRefresh, runs>> BY <1>9 DEF PollTimeout
      <3>. QED BY <3>1, <3>2
    <2>. QED BY <2>1, <2>2, <2>3, <2>4, <2>5, <2>6
  <1>10. CASE Reaped(r) BY <1>10 DEF Reaped
  <1>11. CASE ReapExpires(r) BY <1>11 DEF ReapExpires, Kill, Killed
  <1>12. CASE ReapKilledExpires(r) BY <1>12 DEF ReapKilledExpires
  <1>13. CASE CheckCancelled(r)
    <2>1. RefreshTypeOK' BY <1>13 DEF CheckCancelled
    <2>2. OneAtATime' BY <1>13 DEF CheckCancelled
    <2>3. OwnsChild' BY <1>0, <1>13 DEF CheckCancelled
    <2>4. EventIsMine' BY <1>0, <1>13 DEF CheckCancelled
    <2>5. TimelyCancelHonoured' BY <1>0, <1>13 DEF CheckCancelled
    <2>6. StatusWritten' BY <1>0, <1>13 DEF CheckCancelled
    <2>. QED BY <2>1, <2>2, <2>3, <2>4, <2>5, <2>6
  <1>14. CASE CheckNotCancelled(r) BY <1>14 DEF CheckNotCancelled
  <1>15. CASE VerdictTimeout(r) BY <1>15 DEF VerdictTimeout
  <1>16. CASE VerdictSuccess(r)
    <2>1. RefreshTypeOK' BY <1>16 DEF VerdictSuccess
    <2>2. OneAtATime' BY <1>16 DEF VerdictSuccess
    <2>3. OwnsChild' BY <1>0, <1>16 DEF VerdictSuccess
    <2>4. EventIsMine' BY <1>0, <1>16 DEF VerdictSuccess
    <2>5. TimelyCancelHonoured' BY <1>0, <1>16 DEF VerdictSuccess
    <2>6. StatusWritten' BY <1>0, <1>16 DEF VerdictSuccess
    <2>. QED BY <2>1, <2>2, <2>3, <2>4, <2>5, <2>6
  <1>17. CASE VerdictError(r) BY <1>17 DEF VerdictError
  <1>18. CASE CheckAlerts(r) BY <1>18 DEF CheckAlerts
  <1>19. CASE ForgetProcess(r) BY <1>19 DEF ForgetProcess
  <1>20. CASE FreeSlot(r)
    <2>1. RefreshTypeOK' BY <1>20 DEF FreeSlot
    <2>2. OneAtATime' BY <1>20 DEF FreeSlot
    <2>3. OwnsChild' BY <1>0, <1>20 DEF FreeSlot
    <2>4. EventIsMine' BY <1>0, <1>20 DEF FreeSlot
    <2>5. TimelyCancelHonoured' BY <1>0, <1>20 DEF FreeSlot
    <2>6. StatusWritten' BY <1>0, <1>20 DEF FreeSlot
    <2>. QED BY <2>1, <2>2, <2>3, <2>4, <2>5, <2>6
  <1>. QED
    BY <1>1, <1>2, <1>3, <1>4, <1>5, <1>6, <1>7, <1>8, <1>9, <1>10,
       <1>11, <1>12, <1>13, <1>14, <1>15, <1>16, <1>17, <1>18, <1>19, <1>20
    DEF TrackerStep

(* So does a child that exits at any moment. *)
LEMMA ChildInvStep == ASSUME RefreshInv, NEW r \in Run, ChildExits(r) PROVE RefreshInv'
  <1>. USE RefreshAssumption
       DEF RefreshInv, RefreshTypeOK, OneAtATime, OwnsChild, EventIsMine, TimelyCancelHonoured,
           StatusWritten, Run, NoRun, RefreshStatus, Live, Exited, Early, Watching, Ending, Active,
           At, Goto, statusVars, trackerVars, cancelVars
  <1>. QED BY DEF ChildExits

(* And each step of the cancel handler, wherever the tracker is. *)
LEMMA CancelInvStep == ASSUME RefreshInv, CancelStarts \/ CancelStep PROVE RefreshInv'
  <1>. USE RefreshAssumption
       DEF RefreshInv, RefreshTypeOK, OneAtATime, OwnsChild, EventIsMine, TimelyCancelHonoured,
           StatusWritten, Run, NoRun, RefreshStatus, Live, Exited, Early, Watching, Ending, Active,
           At, Goto, statusVars, trackerVars, cancelVars
  <1>1. CASE CancelStarts BY <1>1 DEF CancelStarts
  <1>2. CASE CancelWritesStatus BY <1>2 DEF CancelWritesStatus
  <1>3. CASE CancelSetsEvent
    <2>1. RefreshTypeOK' BY <1>3 DEF CancelSetsEvent, Arrival
    <2>2. OneAtATime' BY <1>3 DEF CancelSetsEvent, Arrival
    <2>3. OwnsChild' BY <1>3 DEF CancelSetsEvent, Arrival
    <2>4. EventIsMine' BY <1>3 DEF CancelSetsEvent, Arrival
    <2>5. TimelyCancelHonoured' BY <1>3 DEF CancelSetsEvent, Arrival
    <2>6. StatusWritten' BY <1>3 DEF CancelSetsEvent, Arrival
    <2>. QED BY <2>1, <2>2, <2>3, <2>4, <2>5, <2>6
  <1>4. CASE CancelFindsNoProcess BY <1>4 DEF CancelFindsNoProcess
  <1>5. CASE CancelReadsProcess BY <1>5 DEF CancelReadsProcess
  <1>6. CASE CancelPolls BY <1>6 DEF CancelPolls
  <1>7. CASE CancelTerminates BY <1>7 DEF CancelTerminates, Terminate, Terminated
  <1>8. CASE CancelWaits BY <1>8 DEF CancelWaits
  <1>9. CASE CancelWaitDone BY <1>9 DEF CancelWaitDone
  <1>10. CASE CancelWaitExpires BY <1>10 DEF CancelWaitExpires
  <1>11. CASE CancelKills BY <1>11 DEF CancelKills, Kill, Killed
  <1>. QED
    BY <1>1, <1>2, <1>3, <1>4, <1>5, <1>6, <1>7, <1>8, <1>9, <1>10,
       <1>11
    DEF CancelStep

(* And the handler that starts a refresh. *)
LEMMA TriggerInvStep == ASSUME RefreshInv, TriggerRefresh \/ TriggerWithoutKey PROVE RefreshInv'
  <1>. USE RefreshAssumption
       DEF RefreshInv, RefreshTypeOK, OneAtATime, OwnsChild, EventIsMine, TimelyCancelHonoured,
           StatusWritten, Run, NoRun, RefreshStatus, Live, Exited, Early, Watching, Ending, Active,
           At, Goto, statusVars, trackerVars, cancelVars
  <1>1. CASE TriggerRefresh
    <2>1. RefreshTypeOK' BY <1>1 DEF TriggerRefresh
    <2>2. OneAtATime'
      <3>1. tracker' = [tracker EXCEPT ![runs + 1] = "begin"] /\ runs' = runs + 1
            /\ runs \in Nat /\ isRunning' /\ UNCHANGED child
        BY <1>1 DEF TriggerRefresh
      <3>2. \A q \in Run : tracker[q] \notin Active BY <1>1 DEF TriggerRefresh
      <3>3. \A q \in Run : q <= runs => tracker[q] = "done" BY <3>1, <3>2
      <3>. QED BY <3>1, <3>3
    <2>3. OwnsChild' BY <1>1 DEF TriggerRefresh
    <2>4. EventIsMine' BY <1>1 DEF TriggerRefresh
    <2>5. TimelyCancelHonoured' BY <1>1 DEF TriggerRefresh
    <2>6. StatusWritten' BY <1>1 DEF TriggerRefresh
    <2>. QED BY <2>1, <2>2, <2>3, <2>4, <2>5, <2>6
  <1>2. CASE TriggerWithoutKey BY <1>2 DEF TriggerWithoutKey
  <1>. QED BY <1>1, <1>2

(* A step that changes nothing keeps it too. *)
LEMMA RefreshStutter == ASSUME RefreshInv, UNCHANGED refreshVars PROVE RefreshInv'
  <1>. USE RefreshAssumption
       DEF RefreshInv, RefreshTypeOK, OneAtATime, OwnsChild, EventIsMine, TimelyCancelHonoured,
           StatusWritten, Run, NoRun, RefreshStatus, Live, Exited, Early, Watching, Ending, Active,
           At, Goto, statusVars, trackerVars, cancelVars
  <1>. QED BY DEF refreshVars

LEMMA RefreshInvNext == RefreshInv /\ [RefreshNext]_refreshVars => RefreshInv'
  <1>. SUFFICES ASSUME RefreshInv, [RefreshNext]_refreshVars PROVE RefreshInv'
    OBVIOUS
  <1>1. CASE UNCHANGED refreshVars BY <1>1, RefreshStutter
  <1>2. CASE TriggerRefresh \/ TriggerWithoutKey BY <1>2, TriggerInvStep
  <1>3. CASE CancelStarts \/ CancelStep BY <1>3, CancelInvStep
  <1>4. CASE \E r \in Run : TrackerStep(r) \/ ChildExits(r)
    <2>1. PICK r \in Run : TrackerStep(r) \/ ChildExits(r) BY <1>4
    <2>. QED BY <2>1, TrackerInvStep, ChildInvStep
  <1>. QED BY <1>1, <1>2, <1>3, <1>4 DEF RefreshNext

(* The invariant the refresh controller keeps whatever clients, child and  *)
(* scheduler do.                                                           *)
THEOREM RefreshInvariant == RefreshSpec => []RefreshInv
  BY RefreshInvInit, RefreshInvNext, PTL DEF RefreshSpec

(* Every variable of refresh.py keeps its type.                            *)
THEOREM RefreshTypeCorrect == RefreshSpec => []RefreshTypeOK
  <1>1. RefreshInv => RefreshTypeOK BY DEF RefreshInv
  <1>. QED BY <1>1, RefreshInvariant, PTL

(* No refresh starts beside a child that was not killed, and none of those *)
(* children is forgotten (run_daily_tracker's finally, cancel_refresh).    *)
THEOREM NoOrphan == RefreshSpec => []LiveChildTracked
  <1>1. RefreshInv => LiveChildTracked
    BY DEF RefreshInv, OneAtATime, OwnsChild, LiveChildTracked, Active, Watching
  <1>. QED BY <1>1, RefreshInvariant, PTL

(* A cancel the run can still see ends it without data and without an      *)
(* alert check (run_daily_tracker's two looks at _refresh_cancel_event).   *)
THEOREM CancelHonoured == RefreshSpec => []TimelyCancelHonoured
  <1>1. RefreshInv => TimelyCancelHonoured BY DEF RefreshInv
  <1>. QED BY <1>1, RefreshInvariant, PTL

(* What is reported once nothing runs is how the last refresh ended.       *)
THEOREM StatusSettles == RefreshSpec => []SettledStatusTrue
  <1>1. RefreshInv => SettledStatusTrue
    BY DEF RefreshInv, StatusWritten, SettledStatusTrue
  <1>. QED BY <1>1, RefreshInvariant, PTL

(* An event left over from an earlier run cancels nothing: a run ends      *)
(* itself as cancelled only on a cancel sent while it could see it.        *)
THEOREM NoStaleCancel == RefreshSpec => CancelAddressed
  <1>1. RefreshInv =>
          \A r \in Run : LoopCancelled(r) \/ CheckCancelled(r) => cancel[r] = "timely"
    BY DEF RefreshInv, EventIsMine, LoopCancelled, CheckCancelled, At, Watching
  <1>. QED BY <1>1, RefreshInvariant, PTL DEF CancelAddressed
================================================================================
