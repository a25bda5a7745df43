------------------------------- MODULE Accounts -------------------------------
(***************************************************************************)
(* One account (src/src/routes/auth.ts, the credential and role changes of   *)
(* routes/users.ts, middleware/auth.ts): log-in with its lock-out, the       *)
(* second factor, sessions, and the changes that end them.                   *)
(*                                                                         *)
(* A call is a request in progress.  It reads the account once and writes it *)
(* by id, so every database or Redis call is a step and other calls fall in  *)
(* between.  RefreshTokens models the tokens within a session; here a        *)
(* session is open or revoked, in the database and in Redis.                 *)
(***************************************************************************)
EXTENDS Naturals, FiniteSets

CONSTANTS
  Calls,          \* requests in progress
  Sessions,       \* identifiers of sessions
  Roles,          \* values of users.role
  LockAt,         \* failed log-ins that lock the account (5)
  EscalateAt,     \* failed log-ins that are reported to the platform (10)
  MaxTries,       \* wrong codes of the second factor (5)
  MaxAttempts,    \* bound: failed log-ins counted
  MaxChanges,     \* bound: tokens, secrets and passwords created
  MaxCallCrashes, \* bound: requests that end between two calls
  MaxLapses       \* bound: reads and increments of the code counter that Redis fails

ASSUME AccountsAssumption ==
  /\ \A n \in {LockAt, MaxTries, MaxAttempts, MaxChanges} : n \in Nat \ {0}
  /\ EscalateAt \in Nat /\ LockAt < EscalateAt /\ MaxCallCrashes \in Nat /\ MaxLapses \in Nat
  /\ IsFiniteSet(Calls) /\ Roles # {}

VARIABLES
  user,      \* the users row
  session,   \* user_sessions and the sid: keys of Redis
  call,      \* the requests in progress
  code,      \* the partial token of the second factor and its counter
  past       \* history, see PastRecord

accountVars == <<user, session, call, code, past>>

-----------------------------------------------------------------------------
Numbers == 0 .. MaxChanges
\* pwd counts the changes of the credentials that end sessions; a token or a
\* secret is 0 while there is none.
User == [active : BOOLEAN, pwd : Numbers, role : Roles, attempts : 0 .. MaxAttempts,
         locked : {"never", "now", "expired"}, reset : Numbers, invite : Numbers, setup : BOOLEAN,
         totp : BOOLEAN, secret : Numbers]
\* What a call remembers of the row it read.
Snapshot == [pwd : Numbers, role : Roles, locked : {"never", "now", "expired"}, totp : BOOLEAN, secret : Numbers]
\* What a session, or the call that opens it, overlapped: a change of the password
\* or of the role, a deactivation; "unchecked": opened without reading is_active;
\* "unseen": the role changed while it was open, by a request that saw no change.
Events == {"password", "role", "off", "unchecked", "unseen"}
\* used: a request was served, since the session was revoked if it was.
Session == [status : {"none", "open", "revoked"}, marked : BOOLEAN, pwd : Numbers, role : Roles,
            raced : SUBSET Events, used : BOOLEAN]
Call == [op : {"none", "login", "code", "sso", "setup", "reset", "change", "role", "deactivate",
               "totp_setup", "totp_verify", "totp_disable", "logout"},
         step : {"idle", "verify", "lock", "unlock", "issue", "write", "list", "revoke", "mark", "off"},
         saw : Snapshot, list : SUBSET Sessions, raced : SUBSET Events, n : Nat]
PastRecord == [failed : Nat, told : Nat, escalated : Nat, wrong : Nat, spent : SUBSET Numbers, verified : Numbers,
               setupRaced : BOOLEAN, tokens : Numbers, crashes : 0 .. MaxCallCrashes, lapses : 0 .. MaxLapses]

AccountTypeOK ==
  /\ user \in User
  /\ session \in [Sessions -> Session]
  /\ call \in [Calls -> Call]
  /\ code \in [issued : BOOLEAN, tries : Nat]
  /\ past \in PastRecord

FirstRole == CHOOSE r \in Roles : TRUE
NoSession == [status |-> "none", marked |-> FALSE, pwd |-> 0, role |-> FirstRole, raced |-> {}, used |-> FALSE]
NoSnapshot == [pwd |-> 0, role |-> FirstRole, locked |-> "never", totp |-> FALSE, secret |-> 0]
NoCall == [op |-> "none", step |-> "idle", saw |-> NoSnapshot, list |-> {}, raced |-> {}, n |-> 0]

\* POST /users has created an account, which may have been set up since.
AccountInit(done) ==
  /\ user = [active |-> TRUE, pwd |-> 0, role |-> FirstRole, attempts |-> 0, locked |-> "never", reset |-> 0,
             invite |-> IF done THEN 0 ELSE 1, setup |-> done, totp |-> FALSE, secret |-> 0]
  /\ session = [s \in Sessions |-> NoSession]
  /\ call = [c \in Calls |-> NoCall]
  /\ code = [issued |-> FALSE, tries |-> 0]
  /\ past = [failed |-> 0, told |-> 0, escalated |-> 0, wrong |-> 0, spent |-> {}, verified |-> 0, setupRaced |-> FALSE,
             tokens |-> IF done THEN 0 ELSE 1, crashes |-> 0, lapses |-> 0]

-----------------------------------------------------------------------------
Running(op) == {c \in Calls : call[c].op = op}
OpenSessions == {s \in Sessions : session[s].status = "open"}
Seen == [pwd |-> user.pwd, role |-> user.role, locked |-> user.locked, totp |-> user.totp, secret |-> user.secret]
At(c, op, step) == call[c].op = op /\ call[c].step = step
Step(c, step) == call' = [call EXCEPT ![c].step = step]
Finished(c) == call' = [call EXCEPT ![c] = NoCall]

\* A request reads the account and has not written anything.
Begin(c, op, step) ==
  /\ call[c] = NoCall
  /\ call' = [call EXCEPT ![c] = [NoCall EXCEPT !.op = op, !.step = step, !.saw = Seen]]

\* A change that ends sessions: every other call in progress overlaps it.
Overlaps(c, what, step) ==
  call' = [d \in Calls |->
    IF d = c THEN [call[d] EXCEPT !.step = step]
    ELSE IF call[d] = NoCall THEN call[d]
    ELSE [call[d] EXCEPT !.raced = @ \cup {what}]]

\* The same, for a request that has nothing left to do.
Leaves(c, what) ==
  call' = [d \in Calls |-> IF d = c \/ call[d] = NoCall THEN NoCall ELSE [call[d] EXCEPT !.raced = @ \cup {what}]]

-----------------------------------------------------------------------------
(* Log-in *)

\* POST /auth/login finds an active account.
LoginRead(c) ==
  /\ user.active /\ Begin(c, "login", "verify")
  /\ UNCHANGED <<user, session, code, past>>

\* A locked account: the attempt is counted, the password is not looked at.
LoginLocked(c) ==
  /\ At(c, "login", "verify") /\ call[c].saw.locked = "now" /\ user.attempts < MaxAttempts
  /\ user' = [user EXCEPT !.attempts = @ + 1]
  /\ Finished(c)
  /\ UNCHANGED <<session, code, past>>

\* attempts >= 5
Locks(n) == n >= LockAt

\* attempts === 5
Tells(n) == n = LockAt

\* A wrong password: the increment is atomic and returns the new count.
LoginFails(c) ==
  LET n == user.attempts + 1
  IN  /\ At(c, "login", "verify") /\ call[c].saw.locked # "now" /\ n <= MaxAttempts
      /\ user' = [user EXCEPT !.attempts = n]
      /\ past' = [past EXCEPT !.failed = @ + 1,
                              !.told = IF Tells(n) THEN @ + 1 ELSE @,
                              !.escalated = IF n = EscalateAt THEN @ + 1 ELSE @]
      /\ IF Locks(n) THEN call' = [call EXCEPT ![c].step = "lock", ![c].n = n] ELSE Finished(c)
      /\ UNCHANGED <<session, code>>

\* locked_until is written by a second update.
SetLock(c) ==
  /\ At(c, "login", "lock")
  /\ user' = [user EXCEPT !.locked = "now"]
  /\ Finished(c)
  /\ UNCHANGED <<session, code, past>>

LockExpires ==
  /\ user.locked = "now"
  /\ user' = [user EXCEPT !.locked = "expired"]
  /\ UNCHANGED <<session, call, code, past>>

\* The right password: with a second factor a partial token is returned; without
\* one the log-in succeeds, unless the organisation requires it.
LoginPasses(c) ==
  /\ At(c, "login", "verify") /\ call[c].saw.locked # "now" /\ user.setup
  /\ \/ call[c].saw.totp /\ code' = [code EXCEPT !.issued = TRUE] /\ Finished(c)
     \/ ~call[c].saw.totp /\ (Step(c, "unlock") \/ Finished(c)) /\ UNCHANGED code
  /\ UNCHANGED <<user, session, past>>

\* Reset of the attempts and of the lock, in one update.
Unlock(c) ==
  /\ call[c].step = "unlock"
  /\ user' = [user EXCEPT !.attempts = 0, !.locked = "never"]
  /\ past' = [past EXCEPT !.failed = 0, !.told = 0, !.escalated = 0]
  /\ Step(c, "issue")
  /\ UNCHANGED <<session, code>>

\* What the session of c has to answer for.
RacedBy(c) ==
  call[c].raced \cup (IF Running("deactivate") = {} THEN {} ELSE {"off"})
                \cup (IF call[c].op \in {"setup", "code"} THEN {"unchecked"} ELSE {})

\* issueSessionTokens: a session, with the claims of the row that was read.
Issue(c) ==
  /\ call[c].step = "issue"
  /\ \E s \in Sessions :
       /\ session[s].status = "none"
       /\ session' = [session EXCEPT ![s] = [NoSession EXCEPT !.status = "open", !.pwd = call[c].saw.pwd,
                                             !.role = call[c].saw.role, !.raced = RacedBy(c)]]
  /\ Finished(c)
  /\ UNCHANGED <<user, code, past>>

TooManyTries(n) == n >= MaxTries

\* Redis does not answer: the request goes on as if there were no counter.
Lapse == [past EXCEPT !.lapses = @ + 1]
MayLapse == past.lapses < MaxLapses

\* POST /auth/2fa/authenticate: the counter is read, then the code verified.
CodeRead(c) ==
  /\ code.issued /\ user.secret # 0
  /\ \/ ~TooManyTries(code.tries) /\ UNCHANGED past
     \/ MayLapse /\ past' = Lapse
  /\ Begin(c, "code", "verify")
  /\ UNCHANGED <<user, session, code>>

\* A wrong code is counted, if Redis answers.
CodeFails(c) ==
  /\ At(c, "code", "verify")
  /\ \/ /\ code' = [code EXCEPT !.tries = @ + 1]
        /\ past' = [past EXCEPT !.wrong = @ + 1]
     \/ MayLapse /\ past' = [Lapse EXCEPT !.wrong = @ + 1] /\ UNCHANGED code
  /\ Finished(c)
  /\ UNCHANGED <<user, session>>

\* The counter is deleted, if Redis answers, and the session issued.
CodePasses(c) ==
  /\ At(c, "code", "verify")
  /\ \E n \in {0, code.tries} : code' = [code EXCEPT !.tries = n]
  /\ past' = [past EXCEPT !.wrong = 0]
  /\ Step(c, "unlock")
  /\ UNCHANGED <<user, session>>

\* GET /auth/sso/google/callback: an active account linked to the profile.
SsoRead(c) ==
  /\ user.active /\ Begin(c, "sso", "issue")
  /\ UNCHANGED <<user, session, code, past>>

-----------------------------------------------------------------------------
(* Sessions *)

\* isSessionRevoked: the key of Redis, else the row of the database.
IsRevoked(s) == session[s].marked \/ session[s].status = "revoked"

\* authenticate: a revocation that Redis missed is marked there.
Authenticate(s) ==
  /\ session[s].status # "none"
  /\ session' = [session EXCEPT ![s].used = ~IsRevoked(s), ![s].marked = IsRevoked(s)]
  /\ UNCHANGED <<user, call, code, past>>

\* POST /auth/refresh: new claims for an active account.
Refresh(s) ==
  /\ s \in OpenSessions /\ user.active
  /\ session' = [session EXCEPT ![s].role = user.role]
  /\ UNCHANGED <<user, call, code, past>>

\* DELETE /auth/sessions/:id and POST /auth/logout: revokeSession finds one.
Logout(c, s) ==
  /\ call[c] = NoCall /\ s \in OpenSessions
  /\ call' = [call EXCEPT ![c] = [NoCall EXCEPT !.op = "logout", !.step = "revoke", !.list = {s}]]
  /\ UNCHANGED <<user, session, code, past>>

\* The sessions that revokeAllForUser, or revokeOtherSessionsForUser but the
\* current one, will mark in Redis.
ListSessions(c) ==
  /\ call[c].step = "list"
  /\ \E keep \in {{}} \cup {{s} : s \in OpenSessions} :
       /\ (keep = {}) = (call[c].op \notin {"totp_verify", "totp_disable"})
       /\ call' = [call EXCEPT ![c].list = OpenSessions \ keep, ![c].step = "revoke"]
  /\ UNCHANGED <<user, session, code, past>>

\* revokeAllForUser writes by user, the other two the sessions they listed.
RevokedBy(c) ==
  IF call[c].op \in {"logout", "totp_verify", "totp_disable"} THEN call[c].list ELSE Sessions

\* The transaction of the revocation.
RevokeSessions(c) ==
  /\ call[c].step = "revoke"
  /\ session' = [s \in Sessions |->
       IF s \in OpenSessions \cap RevokedBy(c) THEN [session[s] EXCEPT !.status = "revoked", !.used = FALSE] ELSE session[s]]
  /\ Step(c, "mark")
  /\ UNCHANGED <<user, code, past>>

\* ... and its keys in Redis; deactivation goes on from there.
MarkSessions(c) ==
  /\ call[c].step = "mark"
  /\ session' = [s \in Sessions |-> IF s \in call[c].list THEN [session[s] EXCEPT !.marked = TRUE] ELSE session[s]]
  /\ IF call[c].op = "deactivate" THEN Step(c, "off") ELSE Finished(c)
  /\ UNCHANGED <<user, code, past>>

-----------------------------------------------------------------------------
(* Changes *)

NewToken == past.tokens + 1

\* POST /auth/forgot-password
ForgotPassword ==
  /\ user.active /\ past.tokens < MaxChanges
  /\ user' = [user EXCEPT !.reset = NewToken]
  /\ past' = [past EXCEPT !.tokens = NewToken]
  /\ UNCHANGED <<session, call, code>>

\* POST /users/:id/resend-invite
ResendInvite ==
  /\ ~user.setup /\ past.tokens < MaxChanges
  /\ user' = [user EXCEPT !.invite = NewToken]
  /\ past' = [past EXCEPT !.tokens = NewToken]
  /\ UNCHANGED <<session, call, code>>

\* POST /auth/reset-password and /auth/setup-account find the account by its token.
TokenRead(c, op) ==
  LET token == IF op = "reset" THEN user.reset ELSE user.invite
  IN  /\ call[c] = NoCall /\ token # 0
      /\ call' = [call EXCEPT ![c] = [NoCall EXCEPT !.op = op, !.step = "write", !.saw = Seen, !.n = token]]
      /\ UNCHANGED <<user, session, code, past>>

\* PUT /auth/change-password and the credentials of PUT /users/:id
ChangeRead(c) ==
  /\ user.setup /\ Begin(c, "change", "write")
  /\ UNCHANGED <<user, session, code, past>>

\* The update of a reset.
AfterReset == [user EXCEPT !.pwd = @ + 1, !.attempts = 0, !.reset = 0]

WriteReset(c) ==
  /\ At(c, "reset", "write") /\ user.pwd < MaxChanges
  /\ user' = AfterReset
  /\ past' = [past EXCEPT !.spent = @ \cup {call[c].n}, !.failed = 0, !.told = 0, !.escalated = 0]
  /\ Overlaps(c, "password", "list")
  /\ UNCHANGED <<session, code>>

\* An invited employee chooses a password and is logged in.
WriteSetup(c) ==
  /\ At(c, "setup", "write")
  /\ user' = [user EXCEPT !.invite = 0, !.setup = TRUE]
  /\ past' = [past EXCEPT !.spent = @ \cup {call[c].n}]
  /\ Step(c, "issue")
  /\ UNCHANGED <<session, code>>

\* Mutant: the sessions are revoked before the password changes.
WriteChangeLast(c) ==
  /\ At(c, "change", "write") /\ user.pwd < MaxChanges
  /\ IF call[c].n = 0
       THEN /\ session' = [s \in Sessions |->
                 IF s \in OpenSessions THEN [session[s] EXCEPT !.status = "revoked"] ELSE session[s]]
            /\ call' = [call EXCEPT ![c].n = 1] /\ UNCHANGED user
       ELSE user' = [user EXCEPT !.pwd = @ + 1] /\ Overlaps(c, "password", "mark") /\ UNCHANGED session
  /\ UNCHANGED <<code, past>>

WriteChange(c) ==
  /\ At(c, "change", "write") /\ user.pwd < MaxChanges
  /\ user' = [user EXCEPT !.pwd = @ + 1]
  /\ Overlaps(c, "password", "list")
  /\ UNCHANGED <<session, code, past>>

\* PUT /users/:id with a role; PUT /org/users/:id/role of a system role.
RoleRead(c) ==
  /\ Begin(c, "role", "write")
  /\ UNCHANGED <<user, session, code, past>>

\* Sessions that are open while their account's role becomes r, and nobody sees it.
Unseen(r) ==
  [s \in Sessions |->
     IF s \in OpenSessions /\ user.role # r THEN [session[s] EXCEPT !.raced = @ \cup {"unseen"}] ELSE session[s]]

\* A role is written whenever one was given.  PUT /users/:id ends the sessions only
\* if it differs from the one it read, PUT /org/users/:id/role always.
WriteRole(c) ==
  /\ At(c, "role", "write")
  /\ \E r \in Roles :
       /\ user' = [user EXCEPT !.role = r]
       /\ \/ Overlaps(c, "role", "list") /\ UNCHANGED session
          \/ r = call[c].saw.role /\ Leaves(c, "role") /\ session' = Unseen(r)
  /\ UNCHANGED <<code, past>>

\* PATCH /users/:id/deactivate revokes, then deactivates.
DeactivateRead(c) ==
  /\ Begin(c, "deactivate", "list")
  /\ UNCHANGED <<user, session, code, past>>

Deactivate(c) ==
  /\ At(c, "deactivate", "off")
  /\ user' = [user EXCEPT !.active = FALSE]
  /\ Leaves(c, "off")
  /\ UNCHANGED <<session, code, past>>

\* PATCH /users/:id/activate
Activate ==
  /\ ~user.active
  /\ user' = [user EXCEPT !.active = TRUE]
  /\ UNCHANGED <<session, call, code, past>>

-----------------------------------------------------------------------------
(* The authenticator app *)

MaySetUp == ~user.totp

\* POST /auth/2fa/setup
TotpSetupRead(c) ==
  /\ MaySetUp /\ Begin(c, "totp_setup", "write")
  /\ UNCHANGED <<user, session, code, past>>

TotpSetupWrite(c) ==
  /\ At(c, "totp_setup", "write") /\ past.tokens < MaxChanges
  /\ user' = [user EXCEPT !.secret = NewToken]
  /\ past' = [past EXCEPT !.tokens = NewToken, !.setupRaced = @ \/ Running("totp_verify") # {}]
  /\ Finished(c)
  /\ UNCHANGED <<session, code>>

\* POST /auth/2fa/verify: a code of the secret that was read.
TotpVerifyRead(c) ==
  /\ user.secret # 0 /\ ~user.totp /\ Begin(c, "totp_verify", "write")
  /\ UNCHANGED <<user, session, code, past>>

TotpVerifyWrite(c) ==
  /\ At(c, "totp_verify", "write")
  /\ user' = [user EXCEPT !.totp = TRUE]
  /\ past' = [past EXCEPT !.verified = call[c].saw.secret,
                          !.setupRaced = @ \/ Running("totp_setup") \cup Running("totp_disable") # {}]
  /\ Step(c, "list")
  /\ UNCHANGED <<session, code>>

\* DELETE /auth/2fa
TotpDisableRead(c) ==
  /\ user.totp /\ Begin(c, "totp_disable", "write")
  /\ UNCHANGED <<user, session, code, past>>

TotpDisableWrite(c) ==
  /\ At(c, "totp_disable", "write")
  /\ user' = [user EXCEPT !.totp = FALSE, !.secret = 0]
  /\ past' = [past EXCEPT !.setupRaced = @ \/ Running("totp_verify") # {}]
  /\ Step(c, "list")
  /\ UNCHANGED <<session, code>>

-----------------------------------------------------------------------------
CallCrash(c) ==
  /\ call[c] # NoCall /\ past.crashes < MaxCallCrashes
  /\ past' = [past EXCEPT !.crashes = @ + 1]
  /\ Finished(c)
  /\ UNCHANGED <<user, session, code>>

LoginNext ==
  \/ \E c \in Calls : \/ LoginRead(c) \/ LoginLocked(c) \/ LoginFails(c) \/ SetLock(c) \/ LoginPasses(c)
                      \/ Unlock(c) \/ Issue(c)
  \/ LockExpires

CodeNext == \E c \in Calls : CodeRead(c) \/ CodeFails(c) \/ CodePasses(c)

RevokeNext ==
  \/ \E c \in Calls : \/ ListSessions(c) \/ RevokeSessions(c) \/ MarkSessions(c)
                      \/ \E s \in Sessions : Logout(c, s)
  \/ \E s \in Sessions : Authenticate(s) \/ Refresh(s)

ChangeNext ==
  \/ \E c \in Calls : \/ \E op \in {"reset", "setup"} : TokenRead(c, op)
                      \/ WriteReset(c) \/ WriteSetup(c) \/ ChangeRead(c) \/ WriteChange(c)
                      \/ RoleRead(c) \/ WriteRole(c) \/ DeactivateRead(c) \/ Deactivate(c) \/ SsoRead(c)
  \/ ForgotPassword \/ ResendInvite \/ Activate

TotpNext ==
  \E c \in Calls : \/ TotpSetupRead(c) \/ TotpSetupWrite(c) \/ TotpVerifyRead(c) \/ TotpVerifyWrite(c)
                   \/ TotpDisableRead(c) \/ TotpDisableWrite(c)

AccountNext == LoginNext \/ CodeNext \/ RevokeNext \/ ChangeNext \/ TotpNext \/ \E c \in Calls : CallCrash(c)

-----------------------------------------------------------------------------
(* Properties *)

\* However many wrong passwords arrive at once, the administrators are told of
\* a lock-out once, and the platform of its escalation at most once, until a
\* log-in or a reset clears the count.
LockAnnouncedOnce == past.told <= 1 /\ past.escalated <= 1

\* Once as many wrong passwords were verified as the limit allows the account
\* has been locked, whatever log-ins and resets overlapped them, unless a
\* request died between the count and the lock.  (Attempts on a locked account
\* are counted too: one that overlaps the unlocking raises the count, and the
\* fifth failure may then go unannounced.)
FailuresLock ==
  past.crashes = 0 /\ past.failed >= LockAt /\ (\A c \in Calls : call[c].step # "lock")
    => user.locked # "never"

\* Calls that have changed the account and have yet to revoke its sessions.
Revoking == {c \in Calls : call[c].step \in {"list", "revoke"}}

\* A session from before the last change of the password or of the role is open
\* only if the request that opened it was already under way when the change was
\* made (or while the change still runs, or died before its revocation), or if a
\* request that had read the old role before wrote it back and saw no change.
ChangeEndsSessions ==
  past.crashes = 0 /\ Revoking = {} =>
    \A s \in OpenSessions : /\ session[s].pwd # user.pwd => "password" \in session[s].raced
                            /\ session[s].role # user.role => session[s].raced \cap {"role", "unseen"} # {}

\* A deactivated account has an open session only if the log-in overlapped the
\* deactivation (which revokes first and deactivates after), or if it was opened
\* by an invitation or a code, which are not refused to an inactive account.
LeaverHasNoSession ==
  ~user.active /\ Running("deactivate") = {} =>
    \A s \in OpenSessions : session[s].raced \cap {"off", "unchecked"} # {}

\* A session the database has revoked serves no request, although the process
\* died before it wrote the key to Redis.
RevokedServesNothing == \A s \in Sessions : session[s].status = "revoked" => ~session[s].used

\* A reset or invitation link that set a password is never the account's link
\* again, however requests with it and requests for new links interleave.
SpentLinkIsDead == user.reset \notin past.spent /\ (user.setup => user.invite \notin past.spent)

\* The second factor asks for codes of the secret whose code was verified, so
\* long as no two requests about it overlapped.
EnabledSecretVerified == user.totp /\ ~past.setupRaced => user.secret = past.verified

\* A partial token admits no more wrong codes than its limit, one for each request
\* that had read the counter before, and one for each time Redis failed to read or
\* to count.
WrongCodesBounded == past.wrong <= MaxTries + Cardinality(Calls) - 1 + past.lapses

\* Failures lock the account, changes and revocations end its sessions, links and
\* codes are spent once, but for the overlaps and deaths that each part names.
AccountsSafe ==
  /\ AccountTypeOK
  /\ LockAnnouncedOnce
  /\ FailuresLock
  /\ ChangeEndsSessions
  /\ LeaverHasNoSession
  /\ RevokedServesNothing
  /\ SpentLinkIsDead
  /\ EnabledSecretVerified
  /\ WrongCodesBounded
=============================================================================
