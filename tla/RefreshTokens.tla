---------------------------- MODULE RefreshTokens ----------------------------
(***************************************************************************)
(* The refresh tokens and sessions of one user                              *)
(* (src/src/services/refreshTokens.ts): login, rotation with reuse          *)
(* detection, revocation of sessions and the retention purge.               *)
(*                                                                         *)
(* A token is a signed JWT that a client keeps plus, usually, a row of       *)
(* refresh_tokens; the row may be gone (purged) or never have existed (a    *)
(* token from before rotation) while the JWT still verifies.  Every database *)
(* call of a request is one step.  Time advances between requests only: a   *)
(* request takes seconds, the lifetimes are thirty days.                     *)
(***************************************************************************)
EXTENDS Integers, FiniteSets

CONSTANTS
  MaxToken,     \* bound: tokens 1 .. MaxToken are issued
  MaxFamily,    \* bound: families (sessions) 1 .. MaxFamily are created
  Legacy,       \* tokens without a row that clients hold initially
  Procs,        \* concurrent requests
  JwtTtl,       \* JWT_REFRESH_EXPIRES_IN
  RowTtl,       \* REFRESH_TTL_MS, also the retention of revoked rows
  MaxTime,      \* bound: time steps
  MaxUses,      \* bound: how often a token is presented
  MaxCrashes    \* bound: requests that end between two calls

Tokens == 1 .. MaxToken
Families == 1 .. MaxFamily

ASSUME TokensAssumption ==
  /\ \A n \in {MaxToken, MaxFamily, JwtTtl, RowTtl} : n \in Nat \ {0}
  /\ MaxTime \in Nat /\ MaxUses \in Nat /\ MaxCrashes \in Nat
  /\ IsFiniteSet(Procs) /\ Legacy \subseteq Nat /\ Legacy \cap Tokens = {}
  \* .env.example keeps the JWT lifetime within the lifetime of the row
  /\ JwtTtl <= RowTtl

VARIABLES
  row,       \* refresh_tokens
  session,   \* user_sessions
  held,      \* tokens that were returned to a client
  now, nextToken, nextFamily,
  pc, cur, fam, \* a request: its step, the token presented, the families it works on
  seen,      \* the row as it found it: absent ("none"), "fresh" or "used"
  succ,      \* the successor it created
  uses,      \* how often a token was presented with a valid JWT
  exchanged, \* history: how often a successor was returned for it
  crashes    \* requests that died so far

db == <<row, session>>
alloc == <<nextToken, nextFamily>>
req == <<pc, cur, fam, seen, succ>>
tokensVars == <<db, held, now, alloc, req, uses, exchanged, crashes>>

AllTokens == Tokens \cup Legacy
Row == [exists : BOOLEAN, family : 0 .. MaxFamily, revoked : BOOLEAN, replaced : BOOLEAN,
        issued : 0 .. MaxTime, revokedAt : 0 .. MaxTime]
Session == [exists : BOOLEAN, revoked : BOOLEAN, expires : 0 .. MaxTime + RowTtl, revokedAt : 0 .. MaxTime]

TokensTypeOK ==
  /\ row \in [AllTokens -> Row]
  /\ session \in [Families -> Session]
  /\ held \subseteq AllTokens
  /\ now \in 0 .. MaxTime
  /\ nextToken \in 1 .. MaxToken + 1 /\ nextFamily \in 1 .. MaxFamily + 1
  /\ pc \in [Procs -> {"idle", "session", "issue_session", "issue_token", "consume", "revoke"}]
  /\ cur \in [Procs -> AllTokens \cup {0}]
  /\ fam \in [Procs -> SUBSET Families]
  /\ seen \in [Procs -> {"none", "fresh", "used"}]
  /\ succ \in [Procs -> 0 .. MaxToken]
  /\ uses \in [AllTokens -> 0 .. MaxUses] /\ exchanged \in [AllTokens -> Nat]
  /\ crashes \in 0 .. MaxCrashes

NoRow == [exists |-> FALSE, family |-> 0, revoked |-> FALSE, replaced |-> FALSE, issued |-> 0, revokedAt |-> 0]
NoSession == [exists |-> FALSE, revoked |-> FALSE, expires |-> 0, revokedAt |-> 0]

TokensInit ==
  /\ row = [t \in AllTokens |-> NoRow]
  /\ session = [f \in Families |-> NoSession]
  /\ held = Legacy
  /\ now = 0 /\ nextToken = 1 /\ nextFamily = 1
  /\ pc = [p \in Procs |-> "idle"]
  /\ cur = [p \in Procs |-> 0]
  /\ fam = [p \in Procs |-> {}]
  /\ seen = [p \in Procs |-> "none"]
  /\ succ = [p \in Procs |-> 0]
  /\ uses = [t \in AllTokens |-> 0]
  /\ exchanged = [t \in AllTokens |-> 0]
  /\ crashes = 0

Finish(p) ==
  /\ pc' = [pc EXCEPT ![p] = "idle"]
  /\ cur' = [cur EXCEPT ![p] = 0]
  /\ fam' = [fam EXCEPT ![p] = {}]
  /\ seen' = [seen EXCEPT ![p] = "none"]
  /\ succ' = [succ EXCEPT ![p] = 0]

\* jwt.verify; a legacy token was signed at time 0
Verifies(t) == now < row[t].issued + JwtTtl

\* Bound: a request only starts while there is a token left for it.
TokenLeft == nextToken + Cardinality({q \in Procs : pc[q] \in {"session", "issue_session", "issue_token"}}) <= MaxToken

\* The login route, after the password was checked: a new family.
Login(p) ==
  /\ pc[p] = "idle" /\ nextFamily <= MaxFamily /\ TokenLeft
  /\ fam' = [fam EXCEPT ![p] = {nextFamily}]
  /\ nextFamily' = nextFamily + 1
  /\ pc' = [pc EXCEPT ![p] = "issue_session"]
  /\ UNCHANGED <<db, held, now, nextToken, cur, seen, succ, uses, exchanged, crashes>>

\* rotateRefreshToken: verify the JWT and find the row; without a row the token
\* is migrated into a new family.
Present(p, t) ==
  /\ pc[p] = "idle" /\ t \in held /\ Verifies(t) /\ uses[t] < MaxUses
  /\ TokenLeft
  /\ uses' = [uses EXCEPT ![t] = @ + 1]
  /\ cur' = [cur EXCEPT ![p] = t]
  /\ IF row[t].exists
       THEN /\ fam' = [fam EXCEPT ![p] = {row[t].family}]
            /\ seen' = [seen EXCEPT ![p] = IF row[t].revoked \/ row[t].replaced THEN "used" ELSE "fresh"]
            /\ pc' = [pc EXCEPT ![p] = "session"]
            /\ UNCHANGED nextFamily
       ELSE /\ nextFamily <= MaxFamily
            /\ fam' = [fam EXCEPT ![p] = {nextFamily}]
            /\ nextFamily' = nextFamily + 1
            /\ pc' = [pc EXCEPT ![p] = "issue_session"]
            /\ UNCHANGED seen
  /\ UNCHANGED <<db, held, now, nextToken, succ, exchanged, crashes>>

FamilyOf(p) == CHOOSE f \in fam[p] : TRUE

\* Mutant: the session is not looked at.
SessionOkAlways(f) == TRUE

SessionOk(f) == ~session[f].revoked

\* Revoked session: refused.  A row that was used or revoked when it was read:
\* reuse.  An expired row: refused.
CheckSession(p) ==
  /\ pc[p] = "session"
  /\ IF ~SessionOk(FamilyOf(p)) \/ (seen[p] = "fresh" /\ row[cur[p]].issued + RowTtl < now)
       THEN Finish(p)
       ELSE /\ pc' = [pc EXCEPT ![p] = IF seen[p] = "used" THEN "revoke" ELSE "issue_session"]
            /\ UNCHANGED <<cur, fam, seen, succ>>
  /\ UNCHANGED <<db, held, now, alloc, uses, exchanged, crashes>>

\* issueRefreshToken: create the session row, or extend one that is not revoked.
IssueSession(p) ==
  LET f == FamilyOf(p) IN
  /\ pc[p] = "issue_session"
  /\ session' = [session EXCEPT ![f] =
       IF ~@.exists THEN [exists |-> TRUE, revoked |-> FALSE, expires |-> now + RowTtl, revokedAt |-> 0]
       ELSE IF @.revoked THEN @ ELSE [@ EXCEPT !.expires = now + RowTtl]]
  /\ pc' = [pc EXCEPT ![p] = "issue_token"]
  /\ UNCHANGED <<row, held, now, alloc, cur, fam, seen, succ, uses, exchanged, crashes>>

\* Create the token row.  A login, and the migration of a token without a row,
\* return the new token; a rotation still has to consume the old one.
IssueToken(p) ==
  /\ pc[p] = "issue_token"
  /\ row' = [row EXCEPT ![nextToken] = [exists |-> TRUE, family |-> FamilyOf(p), revoked |-> FALSE,
                                        replaced |-> FALSE, issued |-> now, revokedAt |-> 0]]
  /\ nextToken' = nextToken + 1
  /\ IF seen[p] = "fresh"
       THEN /\ succ' = [succ EXCEPT ![p] = nextToken]
            /\ pc' = [pc EXCEPT ![p] = "consume"]
            /\ UNCHANGED <<cur, fam, seen, held, exchanged>>
       ELSE /\ held' = held \cup {nextToken}
            /\ exchanged' = IF cur[p] = 0 THEN exchanged ELSE [exchanged EXCEPT ![cur[p]] = @ + 1]
            /\ Finish(p)
  /\ UNCHANGED <<session, now, nextFamily, uses, crashes>>

\* updateMany where { id, revoked_at: null, replaced_by: null }
Consumable(t) == row[t].exists /\ ~row[t].revoked /\ ~row[t].replaced

\* The successor is returned to the client only if the old token was consumed.
Consume(p) ==
  /\ pc[p] = "consume"
  /\ IF Consumable(cur[p])
       THEN /\ row' = [row EXCEPT ![cur[p]].replaced = TRUE]
            /\ held' = held \cup {succ[p]}
            /\ exchanged' = [exchanged EXCEPT ![cur[p]] = @ + 1]
            /\ Finish(p)
       ELSE /\ pc' = [pc EXCEPT ![p] = "revoke"]
            /\ UNCHANGED <<row, held, exchanged, cur, fam, seen, succ>>
  /\ UNCHANGED <<session, now, alloc, uses, crashes>>

\* The transaction of revokeFamily, revokeSession and revokeOtherSessionsForUser:
\* the open tokens and the sessions of the families S.
Revoked(S) ==
  /\ row' = [t \in AllTokens |->
       IF row[t].exists /\ row[t].family \in S /\ ~row[t].revoked
         THEN [row[t] EXCEPT !.revoked = TRUE, !.revokedAt = now] ELSE row[t]]
  /\ session' = [f \in Families |->
       IF f \in S /\ session[f].exists /\ ~session[f].revoked
         THEN [session[f] EXCEPT !.revoked = TRUE, !.revokedAt = now] ELSE session[f]]

\* Mutant: reuse is refused but the family stays usable.
RevokeStepNothing(p) ==
  /\ pc[p] = "revoke"
  /\ Finish(p)
  /\ UNCHANGED <<db, held, now, alloc, uses, exchanged, crashes>>

RevokeStep(p) ==
  /\ pc[p] = "revoke"
  /\ Revoked(fam[p])
  /\ Finish(p)
  /\ UNCHANGED <<held, now, alloc, uses, exchanged, crashes>>

OpenSessions == {f \in Families : session[f].exists /\ ~session[f].revoked}

\* revokeSession(f), and revokeOtherSessionsForUser(keep f): the sessions are
\* read, then revoked.
RevokeStart(p, f) ==
  /\ pc[p] = "idle" /\ f \in OpenSessions
  /\ \E S \in {{f}, OpenSessions \ {f}} : S # {} /\ fam' = [fam EXCEPT ![p] = S]
  /\ pc' = [pc EXCEPT ![p] = "revoke"]
  /\ UNCHANGED <<db, held, now, alloc, cur, seen, succ, uses, exchanged, crashes>>

\* revokeAllForUser: one transaction selects by user.
RevokeAll ==
  /\ OpenSessions # {}
  /\ Revoked(Families)
  /\ UNCHANGED <<held, now, alloc, req, uses, exchanged, crashes>>

Purgeable(t) ==
  row[t].exists /\ (row[t].issued + RowTtl < now \/ (row[t].revoked /\ row[t].revokedAt + RowTtl < now))

\* The daily purge of tokens and sessions.
Purge ==
  /\ row' = [t \in AllTokens |-> IF Purgeable(t) THEN [row[t] EXCEPT !.exists = FALSE] ELSE row[t]]
  /\ session' = [f \in Families |->
       IF session[f].exists /\ (\/ session[f].expires + RowTtl < now
                                \/ session[f].revoked /\ session[f].revokedAt + RowTtl < now)
         THEN NoSession ELSE session[f]]
  /\ db' # db
  /\ UNCHANGED <<held, now, alloc, req, uses, exchanged, crashes>>

Tick ==
  /\ now < MaxTime /\ \A p \in Procs : pc[p] = "idle"
  /\ now' = now + 1
  /\ UNCHANGED <<db, held, alloc, req, uses, exchanged, crashes>>

Crash(p) ==
  /\ crashes < MaxCrashes /\ pc[p] # "idle"
  /\ crashes' = crashes + 1
  /\ Finish(p)
  /\ UNCHANGED <<db, held, now, alloc, uses, exchanged>>

TokensNext ==
  \/ \E p \in Procs : \/ Login(p) \/ \E t \in AllTokens : Present(p, t)
                      \/ CheckSession(p) \/ IssueSession(p) \/ IssueToken(p) \/ Consume(p)
                      \/ RevokeStep(p) \/ \E f \in Families : RevokeStart(p, f)
                      \/ Crash(p)
  \/ RevokeAll \/ Purge \/ Tick

-----------------------------------------------------------------------------
(* Properties *)

\* A tracked token is exchanged at most once, whoever presents it how often and
\* whatever is purged in between.
ExchangedOnce == \A t \in Tokens : exchanged[t] <= 1

\* Once a session is revoked none of its tokens is exchanged, even if the token
\* was created by a login or a rotation that overlapped the revocation.
NoExchangeAfterRevocation == [][\A t \in Tokens :
  exchanged'[t] > exchanged[t] => ~session[row[t].family].revoked]_tokensVars

\* When a token has been presented again after it was exchanged, its family is
\* revoked as soon as no request is running, so that neither holder goes on
\* (unless the request that noticed the reuse died before it could revoke).
ReuseRevokesFamily == crashes = 0 => \A t \in Tokens :
  (\A p \in Procs : pc[p] = "idle") /\ uses[t] > 1 /\ exchanged[t] > 0 /\ row[t].exists
    => session[row[t].family].revoked

\* Rotation is safe: a token buys one successor, and a token that is presented
\* again ends its family, however requests, purges and crashes interleave.
TokensSafe == TokensTypeOK /\ ExchangedOnce /\ ReuseRevokesFamily
=============================================================================
