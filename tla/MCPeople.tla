------------------------------- MODULE MCPeople -------------------------------
(* One account and the people of one organisation, one concern at a time.    *)
EXTENDS Accounts, Staffing, Onboarding, TLC

VARIABLE focus

MCSymmetry == UNION {Permutations(S) : S \in {Calls, Sessions, People}}
vars == <<accountVars, staffVars, onboardingVars, focus>>

MCInit ==
  /\ focus \in {"login", "credentials", "access", "leaver", "factor", "hiring", "roles", "templates", "tasks"}
  /\ AccountInit(focus \notin {"credentials", "leaver"})
  /\ IF focus = "roles"
       THEN LET admin == CHOOSE p \in People : TRUE
            IN  Established(admin, CHOOSE p \in People \ {admin} : TRUE)
       ELSE StaffInit
  /\ IF focus \notin {"templates", "tasks"} THEN OnboardingFrom({}, {}) ELSE OnboardingInit

\* A log-in that finds the right password.
Enter(c) == LoginRead(c) \/ LoginPasses(c) \/ Unlock(c) \/ Issue(c)

Login == LoginNext \/ ForgotPassword \/ \E c \in Calls : TokenRead(c, "reset") \/ WriteReset(c)

Credentials ==
  \/ ForgotPassword \/ ResendInvite
  \/ \E c \in Calls : \/ Enter(c) \/ ListSessions(c) \/ RevokeSessions(c) \/ ChangeRead(c) \/ WriteChange(c)
                      \/ \E op \in {"reset", "setup"} : TokenRead(c, op)
                      \/ WriteReset(c) \/ WriteSetup(c) \/ MarkSessions(c)

Access ==
  \/ \E s \in Sessions : Refresh(s) \/ \E c \in Calls : Logout(c, s)
  \/ \E c \in Calls : \/ SsoRead(c) \/ Issue(c) \/ RoleRead(c) \/ WriteRole(c)
                      \/ ListSessions(c) \/ RevokeSessions(c) \/ MarkSessions(c)

Leaver ==
  \/ Activate
  \/ \E s \in Sessions : Authenticate(s)
  \/ \E c \in Calls : \/ SsoRead(c) \/ Issue(c) \/ DeactivateRead(c) \/ Deactivate(c) \/ CallCrash(c)
                      \/ TokenRead(c, "setup") \/ WriteSetup(c)
                      \/ ListSessions(c) \/ RevokeSessions(c) \/ MarkSessions(c)

Factor ==
  \/ TotpNext \/ CodeNext
  \/ \E c \in Calls : Enter(c) \/ ListSessions(c) \/ RevokeSessions(c) \/ MarkSessions(c)

RoleChanges ==
  RolesNext({p \in People : person[p].balances}) \/ \E r \in CustomRoles : SaveRole(r)

MCNext ==
  /\ UNCHANGED focus
  /\ \/ /\ \/ focus = "login" /\ Login
           \/ focus = "credentials" /\ Credentials
           \/ focus = "access" /\ Access
           \/ focus = "leaver" /\ Leaver
           \/ focus = "factor" /\ Factor
        /\ UNCHANGED <<staffVars, onboardingVars>>
     \/ /\ \/ focus = "hiring" /\ HiringNext
           \/ focus = "roles" /\ RoleChanges
        /\ UNCHANGED <<accountVars, onboardingVars>>
     \/ /\ \/ focus = "templates" /\ TemplatesNext
           \/ focus = "tasks" /\ TasksNext
        /\ UNCHANGED <<accountVars, staffVars>>

MCSpec == MCInit /\ [][MCNext]_vars
=============================================================================
