--------------------------- MODULE AdminSessions ----------------------------
(***************************************************************************)
(* The account of an administrator and its sessions: setup, sign-in,       *)
(* password change and sign-out on one gateway.  A sign-in passes the      *)
(* guards, reads the password hash, compares, and only then stores its     *)
(* session; a password change verifies, updates the hash and revokes the   *)
(* other sessions, each by a statement of its own.                         *)
(*                                                                         *)
(* Of the accounts under other names, which a setup may create as well,    *)
(* only the existence is kept.                                             *)
(*                                                                         *)
(* A password is the number of the setup or change that chose it.  A       *)
(* session that is revoked, expired or deleted is no row.                  *)
(***************************************************************************)
EXTENDS LoginGuard

CONSTANTS SignIns,       \* sign-in requests
          Changes,       \* requests to set up an account or change the password
          OtherNames,    \* other user names that a setup may ask for
          MaxSessions,   \* bound: tokens issued
          MaxPasswords   \* bound: passwords chosen

ASSUME AdminSessionsAssumption ==
  /\ MaxSessions \in Nat /\ MaxPasswords \in Nat
  /\ IsFiniteSet(SignIns) /\ IsFiniteSet(Changes) /\ IsFiniteSet(OtherNames)

VARIABLES password,  \* admin_users: the password of the account, or None
          chosen,    \* passwords chosen so far
          others,    \* admin_users: the other names that have an account
          late,      \* history: setups that had counted no account when the first
                     \* one was created
          row,       \* admin_sessions, by token
          issued,    \* tokens issued so far
          login, change

Sessions == 1..MaxSessions
userVars == <<password, chosen, others, late>>
accountVars == <<userVars, row, issued>>
vars == <<guardVars, accountVars, login, change>>

\* excused (history): the session outlives a password change by design.
IdleLogin == [pc |-> "idle", read |-> None, excused |-> FALSE]
IdleChange == [pc |-> "idle", token |-> None]

Init ==
  /\ GuardInit
  /\ password = None /\ chosen = 0
  /\ others = {} /\ late = 0
  /\ row = [s \in Sessions |-> None] /\ issued = 0
  /\ login = [r \in SignIns |-> IdleLogin]
  /\ change = [c \in Changes |-> IdleChange]

Live == {s \in Sessions : row[s] # None}
-----------------------------------------------------------------------------
At(r, from, to) == login[r].pc = from /\ login' = [login EXCEPT ![r] = to]

\* Mutant of LoginBegins: a request that finds the account locked counts as a
\* failure.
LoginCounted(r) ==
  /\ ~Throttled
  /\ IF Locked THEN Failure /\ UNCHANGED login
     ELSE /\ At(r, "idle", [IdleLogin EXCEPT !.pc = "read"])
          /\ UNCHANGED guardVars
  /\ UNCHANGED <<accountVars, change>>

\* The throttle and the guard let the request pass.
LoginBegins(r) ==
  /\ ~Throttled /\ ~Locked
  /\ At(r, "idle", [IdleLogin EXCEPT !.pc = "read"])
  /\ UNCHANGED <<guardVars, accountVars, change>>

\* GetAdminUser, and the comparison with what it read: the request came with the
\* account's password.
LoginReads(r) ==
  /\ password # None
  /\ At(r, "read", [IdleLogin EXCEPT !.pc = "matched", !.read = password])
  /\ UNCHANGED <<guardVars, accountVars, change>>

\* Or with another one, there is no account, or the read fails: all count alike,
\* whatever happens between the read and loginFailed.
LoginFails(r) ==
  /\ At(r, "read", IdleLogin)
  /\ Failure
  /\ UNCHANGED <<accountVars, change>>

LoginSucceeds(r) ==
  /\ At(r, "matched", [login[r] EXCEPT !.pc = "insert"])
  /\ Success
  /\ UNCHANGED <<accountVars, change>>

\* CreateAdminSession, or its failure.
LoginInserts(r) ==
  /\ At(r, "insert", IdleLogin)
  /\ \/ /\ issued < MaxSessions
        /\ issued' = issued + 1
        /\ row' = [row EXCEPT ![issued'] = [by |-> login[r].read,
                                            excused |-> login[r].excused]]
     \/ UNCHANGED <<row, issued>>
  /\ UNCHANGED <<guardVars, userVars, change>>

Login(r) ==
  \/ LoginBegins(r) \/ LoginReads(r) \/ LoginFails(r) \/ LoginSucceeds(r) \/ LoginInserts(r)
-----------------------------------------------------------------------------
Moves(c, from, to) == change[c].pc = from /\ change' = [change EXCEPT ![c] = to]

Accounts == Cardinality(others) + (IF password = None THEN 0 ELSE 1)
InSetup == {c \in Changes : change[c].pc = "setup"}

\* Mutant of SetupCounts: the accounts are not counted.
SetupUncounted(c) ==
  /\ Moves(c, "idle", [IdleChange EXCEPT !.pc = "setup"])
  /\ UNCHANGED <<guardVars, accountVars, login>>

\* setup: CountAdminUsers.
SetupCounts(c) ==
  /\ Accounts = 0
  /\ Moves(c, "idle", [IdleChange EXCEPT !.pc = "setup"])
  /\ UNCHANGED <<guardVars, accountVars, login>>

\* Under the name of the account or another one that is not taken.
CreateAdminUser ==
  \/ /\ password = None /\ chosen < MaxPasswords
     /\ chosen' = chosen + 1 /\ password' = chosen'
     /\ UNCHANGED others
  \/ /\ \E name \in OtherNames \ others : others' = others \cup {name}
     /\ UNCHANGED <<password, chosen>>

\* A body that is refused, a name that is taken, or a failure, is an error.  The
\* other setups that have counted go on.
SetupCreates(c) ==
  /\ Moves(c, "setup", IdleChange)
  /\ \/ UNCHANGED userVars
     \/ /\ CreateAdminUser
        /\ late' = IF Accounts = 0 THEN Cardinality(InSetup \ {c}) ELSE late
  /\ UNCHANGED <<guardVars, row, issued, login>>

\* authenticate by the session, GetAdminUser and the comparison.
ChangeVerifies(c, s) ==
  /\ s \in Live
  /\ Moves(c, "idle", [pc |-> "verified", token |-> s])
  /\ UNCHANGED <<guardVars, accountVars, login>>

\* UpdateAdminPassword, of the row of the account.
ChangeUpdates(c, from, to) ==
  /\ password # None /\ chosen < MaxPasswords
  /\ Moves(c, from, [change[c] EXCEPT !.pc = to])
  /\ chosen' = chosen + 1 /\ password' = chosen'
  /\ UNCHANGED <<guardVars, others, late, row, issued, login>>

\* History: a sign-in that has passed its comparison stores its session later.
ExcusePending ==
  login' = [r \in SignIns |-> IF login[r].pc \in {"matched", "insert"}
                               THEN [login[r] EXCEPT !.excused = TRUE] ELSE login[r]]

\* RevokeAdminSessions.  The token of the request is kept, and a sign-in that has
\* passed its comparison is not a session yet.
ChangeRevokes(c, from, to) ==
  /\ Moves(c, from, to)
  /\ row' = [s \in Sessions |-> IF s = change[c].token /\ row[s] # None
                                THEN [row[s] EXCEPT !.excused = TRUE] ELSE None]
  /\ ExcusePending
  /\ UNCHANGED <<guardVars, userVars, issued>>

\* The second statement fails, or the request is given up: an error is answered
\* and the sessions stay.
ChangeFails(c) ==
  /\ Moves(c, "updated", IdleChange)
  /\ row' = [s \in Sessions |-> IF row[s] = None THEN None
                                ELSE [row[s] EXCEPT !.excused = TRUE]]
  /\ ExcusePending
  /\ UNCHANGED <<guardVars, userVars, issued>>

\* Mutant of Change: the sessions are revoked before the password is changed.
ChangeSwapped(c) ==
  \/ ChangeRevokes(c, "verified", [change[c] EXCEPT !.pc = "updated"])
  \/ ChangeUpdates(c, "updated", "idle")
  \/ ChangeFails(c)

Change(c) ==
  \/ ChangeUpdates(c, "verified", "updated")
  \/ ChangeRevokes(c, "updated", IdleChange)
  \/ ChangeFails(c)

\* logout, logoutAll, the expiry of a session and what the retention job deletes.
Logout(s) ==
  /\ s \in Live
  /\ row' = [row EXCEPT ![s] = None]
  /\ UNCHANGED <<guardVars, userVars, issued, login, change>>

LogoutAll(s) ==
  /\ s \in Live
  /\ row' = [t \in Sessions |-> None]
  /\ UNCHANGED <<guardVars, userVars, issued, login, change>>

TimePasses == Tick /\ UNCHANGED <<accountVars, login, change>>

Next ==
  \/ \E r \in SignIns : Login(r)
  \/ \E c \in Changes :
       \/ SetupCounts(c) \/ SetupCreates(c) \/ Change(c)
       \/ \E s \in Sessions : ChangeVerifies(c, s)
  \/ \E s \in Sessions : Logout(s) \/ LogoutAll(s)
  \/ TimePasses

Spec == Init /\ [][Next]_vars
FairSpec == Spec /\ WF_vars(TimePasses)
-----------------------------------------------------------------------------
\* "revokes every other live session so stolen cookies die with the old
\* credential" (src/internal/httpapi/admin.go:404): a session lives on a password
\* that is no longer the account's only while the change is under way, if it
\* asked for the change, or if the change failed half-way or the sign-in had
\* passed its comparison when the others were revoked.
OldPasswordEnds ==
  \A s \in Live : \/ row[s].by = password \/ row[s].excused
                  \/ \E c \in Changes : change[c].pc = "updated"

\* "admin setup already completed" (src/internal/httpapi/admin.go:305): setup counts
\* the accounts and creates one by two statements, and setups that overlap may
\* create one each, under different names.  There is never more than one account
\* for the first setup and for each one that had counted before that created its.
SetupsOverlap == Accounts <= 1 + late

\* "an account locks out after ADMIN_LOGIN_MAX_FAILURES wrong passwords"
\* (README.md:35): without a success a window sees less than two budgets of
\* failures, and those that had passed the guard when it locked.
BoundedGuesses ==
  Cardinality(Failures) <= 2 * MaxFailures - 1 + Cardinality(SignIns) - 1

\* A lockout ends, although requests that had passed the guard go on failing.
LockoutEnds == []<>~Locked
=============================================================================
