-------------------------------- MODULE Accounts --------------------------------
(***************************************************************************)
(* Accounts of hosted users: rows of users and account_tokens, the routes  *)
(* of dashboard/backend/api/auth.py that change them, and the background   *)
(* tasks that mail tokens.                                                 *)
(*                                                                         *)
(* A step is one statement on the database with what the handler computes  *)
(* before its next one: the driver begins a transaction at the first       *)
(* write, so a read before it belongs to no transaction.  Passwords,       *)
(* addresses and signatures are opaque; a session is what                  *)
(* create_access_token signs, the account and its session version.         *)
(* Expired tokens and sessions behave like absent ones and are left out,   *)
(* as is a secret that is too short, for which register stops first.       *)
(***************************************************************************)
EXTENDS Naturals, FiniteSets

CONSTANTS Handler,           \* requests that are served at once
          Email, Password,
          MaxAccount,        \* bound: accounts ever created
          MaxToken,          \* bound: tokens ever issued
          MaxVersion,        \* bound: session version
          MaxMail,           \* bound: background tasks at once
          VerifyFirst        \* MARKETHELM_REQUIRE_EMAIL_VERIFICATION

ASSUME AccountsAssumption ==
  MaxAccount \in Nat /\ MaxToken \in Nat /\ MaxVersion \in Nat \ {0}

VARIABLES
  account,   \* id -> row of users; an id not in the domain has none
  created,   \* ids drawn so far
  token,     \* token -> row of account_tokens that is still there
  issued,    \* tokens drawn so far
  mailing,   \* background tasks of _send_token
  mailbox,   \* tokens that reached their user
  session,   \* sessions in the hands of browsers
  request,   \* handler -> the request it is in the middle of
  resets     \* history: token -> passwords it has set

accountVars == <<account, created, token, issued, mailing, mailbox, session, request, resets>>

Purpose == {"verify_email", "reset_password"}
NoRequest == [at |-> "free"]
--------------------------------------------------------------------------------
(* Slips: variants of definitions below with a plausible bug in them.      *)
SlipAnyRow(t) == t \in DOMAIN token
SlipSameVersion(row, w) == [row EXCEPT !.password = w]
SlipIssueAnyway(m) == TRUE
--------------------------------------------------------------------------------
AccountsInit ==
  /\ account = << >>
  /\ created = 0
  /\ token = << >>
  /\ issued = 0
  /\ mailing = {}
  /\ mailbox = {}
  /\ session = {}
  /\ request = [h \in Handler |-> NoRequest]
  /\ resets = [t \in 1..MaxToken |-> 0]

Known(id) == id \in DOMAIN account

Without(f, S) == [x \in DOMAIN f \ S |-> f[x]]

With(f, x, v) == [y \in DOMAIN f \cup {x} |-> IF y = x THEN v ELSE f[y]]

OwnTokens(id, purpose) == {t \in DOMAIN token : token[t].id = id /\ token[t].purpose = purpose}

Mail(id, purpose) == [id |-> id, purpose |-> purpose, at |-> "queued", token |-> 0]

(* _verify_password: hashes are salted, and match for their own password only. *)
Verified(row, w) == row.password = w

(* create_access_token, and decode_access_token of what was signed. *)
Signed(id, version) == [id |-> id, version |-> version]
Decodes(s) == s \in session

(* require_user_id: the account is there, the session was not revoked. *)
Admits(s) ==
  /\ Known(s.id)
  /\ account[s.id].version = s.version
  /\ VerifyFirst => account[s.id].verified

Go(h, r) == request' = [request EXCEPT ![h] = r]

(* register.  The address is unique, so a second insert is refused. *)
Register(h, e, w) ==
  /\ request[h].at = "free"
  /\ created < MaxAccount
  /\ \A id \in DOMAIN account : account[id].email # e
  /\ Cardinality(mailing) < MaxMail
  /\ created' = created + 1
  /\ account' = With(account, created', [email |-> e, password |-> w, version |-> 1,
                                         verified |-> FALSE])
  /\ session' = session \cup {Signed(created', 1)}
  /\ mailing' = mailing \cup {Mail(created', "verify_email")}
  /\ UNCHANGED <<token, issued, mailbox, request, resets>>

(* login: authenticate_user reads and compares. *)
Authenticate(h, e, w) ==
  /\ request[h].at = "free"
  /\ \E id \in DOMAIN account :
       /\ account[id].email = e /\ Verified(account[id], w)
       /\ Go(h, [at |-> "login", id |-> id, version |-> account[id].version])
  /\ UNCHANGED <<account, created, token, issued, mailing, mailbox, session, resets>>

(* ... and get_user_by_id reads again, for the version that is signed.  If *)
(* the account has gone meanwhile, what the first read saw is signed.      *)
SignIn(h) ==
  LET id == request[h].id
      version == IF Known(id) THEN account[id].version ELSE request[h].version
      allowed == ~VerifyFirst \/ (Known(id) /\ account[id].verified)
  IN /\ request[h].at = "login"
     /\ session' = IF allowed THEN session \cup {Signed(id, version)} ELSE session
     /\ Go(h, NoRequest)
     /\ UNCHANGED <<account, created, token, issued, mailing, mailbox, resets>>

(* verify-email/request and password-reset/request. *)
RequestMail(h, e, purpose) ==
  /\ request[h].at = "free"
  /\ Cardinality(mailing) < MaxMail
  /\ \E id \in DOMAIN account :
       /\ account[id].email = e
       /\ purpose = "verify_email" => ~account[id].verified
       /\ mailing' = mailing \cup {Mail(id, purpose)}
  /\ UNCHANGED <<account, created, token, issued, mailbox, session, request, resets>>

(* A token row references its account (PRAGMA foreign_keys). *)
MayIssue(m) == Known(m.id)

(* issue_token deletes the tokens of this purpose and inserts a new one in *)
(* one transaction; for an account that has gone it raises.                *)
IssueToken(m) ==
  /\ m \in mailing /\ m.at = "queued"
  /\ issued < MaxToken
  /\ IF MayIssue(m)
     THEN /\ issued' = issued + 1
          /\ token' = With(Without(token, OwnTokens(m.id, m.purpose)), issued',
                           [id |-> m.id, purpose |-> m.purpose, used |-> FALSE])
          /\ mailing' = (mailing \ {m}) \cup {[m EXCEPT !.at = "send", !.token = issued']}
     ELSE mailing' = mailing \ {m} /\ UNCHANGED <<issued, token>>
  /\ UNCHANGED <<account, created, mailbox, session, request, resets>>

(* send_account_email returns whether the mail went out. *)
SendMail(m) ==
  /\ m \in mailing /\ m.at = "send"
  /\ \/ mailbox' = mailbox \cup {m.token} /\ mailing' = mailing \ {m}
     \/ mailing' = (mailing \ {m}) \cup {[m EXCEPT !.at = "failed"]} /\ UNCHANGED mailbox
  /\ UNCHANGED <<account, created, token, issued, session, request, resets>>

(* revoke_tokens after a failed mail removes whatever token is there now.  *)
RevokeUnsent(m) ==
  /\ m \in mailing /\ m.at = "failed"
  /\ token' = Without(token, OwnTokens(m.id, m.purpose))
  /\ mailing' = mailing \ {m}
  /\ UNCHANGED <<account, created, issued, mailbox, session, request, resets>>

(* consume_token looks the row up ... *)
Unused(t) == t \in DOMAIN token /\ ~token[t].used

FindToken(h, t, w) ==
  /\ request[h].at = "free"
  /\ t \in mailbox /\ Unused(t)
  /\ Go(h, [at |-> "consume", token |-> t, id |-> token[t].id,
            purpose |-> token[t].purpose, password |-> w])
  /\ UNCHANGED <<account, created, token, issued, mailing, mailbox, session, resets>>

(* ... and marks it, WHERE consumed_at IS NULL: the row count says whether *)
(* this request was the one.                                               *)
StillUnused(t) == Unused(t)

ConsumeToken(h) ==
  LET r == request[h]
  IN /\ r.at = "consume"
     /\ IF StillUnused(r.token)
        THEN token' = [token EXCEPT ![r.token].used = TRUE] /\ Go(h, [r EXCEPT !.at = "apply"])
        ELSE Go(h, NoRequest) /\ UNCHANGED token
     /\ UNCHANGED <<account, created, issued, mailing, mailbox, session, resets>>

NewPassword(row, w) == [row EXCEPT !.password = w, !.version = @ + 1]

SetPassword(id, w) ==
  account' = IF Known(id) THEN [account EXCEPT ![id] = NewPassword(@, w)] ELSE account

Bumpable(id) == Known(id) => account[id].version < MaxVersion

(* mark_email_verified, or update_password. *)
ApplyToken(h) ==
  LET r == request[h]
  IN /\ r.at = "apply"
     /\ \/ /\ r.purpose = "verify_email"
           /\ account' = IF Known(r.id) THEN [account EXCEPT ![r.id].verified = TRUE] ELSE account
           /\ Go(h, NoRequest)
           /\ UNCHANGED resets
        \/ /\ r.purpose = "reset_password"
           /\ Bumpable(r.id)
           /\ SetPassword(r.id, r.password)
           /\ Go(h, [r EXCEPT !.at = "revoke"])
           /\ resets' = [resets EXCEPT ![r.token] = @ + 1]
     /\ UNCHANGED <<created, token, issued, mailing, mailbox, session>>

(* revoke_tokens at the end of a reset. *)
RevokeResets(h) ==
  /\ request[h].at = "revoke"
  /\ token' = Without(token, OwnTokens(request[h].id, "reset_password"))
  /\ Go(h, NoRequest)
  /\ UNCHANGED <<account, created, issued, mailing, mailbox, session, resets>>

(* logout, password/change and DELETE account first check the session. *)
EnterWithSession(h, s, op, old, new) ==
  /\ request[h].at = "free"
  /\ Decodes(s) /\ Admits(s)
  /\ op = "change" => old # new
  /\ Go(h, [at |-> op, id |-> s.id, old |-> old, new |-> new])
  /\ UNCHANGED <<account, created, token, issued, mailing, mailbox, session, resets>>

(* revoke_user_sessions; for an account that has gone it raises. *)
Logout(h) ==
  /\ request[h].at = "logout"
  /\ Bumpable(request[h].id)
  /\ account' = IF Known(request[h].id)
                THEN [account EXCEPT ![request[h].id].version = @ + 1] ELSE account
  /\ Go(h, NoRequest)
  /\ UNCHANGED <<created, token, issued, mailing, mailbox, session, resets>>

(* change_password and delete_user_account read the hash and compare ...   *)
CheckPassword(h) ==
  LET r == request[h]
  IN /\ r.at \in {"change", "delete"}
     /\ IF Known(r.id) /\ Verified(account[r.id], r.old)
        THEN Go(h, [r EXCEPT !.at = IF r.at = "change" THEN "rewrite" ELSE "drop"])
        ELSE Go(h, NoRequest)
     /\ UNCHANGED <<account, created, token, issued, mailing, mailbox, session, resets>>

(* ... and write by id alone. *)
RewritePassword(h) ==
  /\ request[h].at = "rewrite"
  /\ Bumpable(request[h].id)
  /\ SetPassword(request[h].id, request[h].new)
  /\ Go(h, NoRequest)
  /\ UNCHANGED <<created, token, issued, mailing, mailbox, session, resets>>

(* The row's tokens go with it (ON DELETE CASCADE). *)
DropAccount(h) ==
  LET id == request[h].id
  IN /\ request[h].at = "drop"
     /\ account' = Without(account, {id})
     /\ token' = Without(token, UNION {OwnTokens(id, purpose) : purpose \in Purpose})
     /\ Go(h, NoRequest)
     /\ UNCHANGED <<created, issued, mailing, mailbox, session, resets>>

(* The process dies: its requests and background tasks are lost. *)
ApiDies ==
  /\ mailing # {} \/ \E h \in Handler : request[h] # NoRequest
  /\ mailing' = {}
  /\ request' = [h \in Handler |-> NoRequest]
  /\ UNCHANGED <<account, created, token, issued, mailbox, session, resets>>

AccountsNext ==
  \/ \E h \in Handler, e \in Email :
       \/ \E w \in Password : Register(h, e, w) \/ Authenticate(h, e, w)
       \/ \E purpose \in Purpose : RequestMail(h, e, purpose)
  \/ \E h \in Handler, s \in session, old, new \in Password :
       \E op \in {"logout", "change", "delete"} : EnterWithSession(h, s, op, old, new)
  \/ \E h \in Handler, t \in mailbox, w \in Password : FindToken(h, t, w)
  \/ \E h \in Handler :
       \/ SignIn(h) \/ ConsumeToken(h) \/ ApplyToken(h) \/ RevokeResets(h)
       \/ Logout(h) \/ CheckPassword(h) \/ RewritePassword(h) \/ DropAccount(h)
  \/ \E m \in mailing : IssueToken(m) \/ SendMail(m) \/ RevokeUnsent(m)
  \/ ApiDies

AccountsSpec == AccountsInit /\ [][AccountsNext]_accountVars
--------------------------------------------------------------------------------
AccountsTypeOK ==
  /\ DOMAIN account \subseteq 1..created /\ created <= MaxAccount
  /\ DOMAIN token \subseteq 1..issued /\ issued <= MaxToken
  /\ mailbox \subseteq 1..issued
  /\ \A id \in DOMAIN account : account[id].version \in 1..MaxVersion
  /\ \A m \in mailing : m.at = "queued" \/ m.token \in 1..issued

(* A reset link sets a password at most once, however many requests use it *)
(* at a time and whatever is issued or revoked meanwhile.                  *)
ResetOnce == \A t \in 1..MaxToken : resets[t] <= 1

(* No token outlives its account, although background tasks issue tokens   *)
(* and requests use them while the account is deleted.                     *)
NoOrphanToken == \A t \in DOMAIN token : Known(token[t].id)

(* When a password is set, every session signed before is turned away      *)
(* (ARCHITECTURE.md: password changes invalidate other sessions).          *)
PasswordEndsSessions ==
  [][\A id \in DOMAIN account \cap DOMAIN account' :
       account'[id].password # account[id].password =>
         \A s \in session : s.id = id => ~Admits(s)']_accountVars

(* What the two theorems about tokens rest on: a token row belongs to an   *)
(* account that is there, and a token that a request applies is spent, by  *)
(* that request alone.                                                     *)
Applying(h) == request[h].at = "apply" /\ request[h].purpose = "reset_password"

Spent(t) == t <= issued /\ ~Unused(t)

AppliedOnce ==
  /\ \A h \in Handler : Applying(h) =>
       request[h].token \in 1..MaxToken /\ Spent(request[h].token) /\ resets[request[h].token] = 0
  /\ \A g, h \in Handler : Applying(g) /\ Applying(h) /\ request[g].token = request[h].token => g = h
  /\ \A t \in 1..MaxToken : resets[t] # 0 => Spent(t)

(* A session that was signed is not newer than the row of its account.     *)
SessionsNotAhead ==
  /\ \A s \in session : s.id \in 1..created /\ (Known(s.id) => s.version <= account[s.id].version)
  /\ \A h \in Handler : request[h].at = "login" => request[h].id \in 1..created
================================================================================
