----------------------------- MODULE AuthSessions -----------------------------
(***************************************************************************)
(* Sign-in, refresh rotation, sign-out and password change of AuthService  *)
(* (backend/app/auth/service.py).  Requests run in the thread pool of one  *)
(* process; every operation opens its own SQLite connection, so what is    *)
(* atomic is one statement or one transaction, never a whole request.  The *)
(* failure buckets and lockouts live in the memory of the process.         *)
(*                                                                         *)
(* A password is represented by how many changes led to it, so that every  *)
(* change installs a new one; a guess is any of them, past or future.      *)
(* Only requests that change state are actions: presenting a revoked or    *)
(* deleted token and signing in during a lockout are refused at once.      *)
(***************************************************************************)
EXTENDS Naturals, FiniteSets

CONSTANTS
    User,           \* accounts
    Worker,         \* request threads
    MaxSessions,    \* bound: refresh sessions ever created
    MaxChanges,     \* bound: password changes per account
    MaxAttempts,    \* login_rate_limit.max_attempts
    None

ASSUME UserAssumption == None \notin User
ASSUME WorkerAssumption == IsFiniteSet(Worker)
ASSUME BoundAssumption == MaxSessions \in Nat \ {0} /\ MaxChanges \in Nat
ASSUME AttemptsAssumption == MaxAttempts \in Nat \ {0}

VARIABLES
    active,     \* users.is_active
    password,   \* users.password_hash
    session,    \* the rows of refresh_sessions, by order of creation
    failures,   \* _failures: size of the bucket of each user name
    locked,     \* _lockouts: is the user name locked out?
    req         \* what each worker is doing

vars == <<active, password, session, failures, locked, req>>

Session == 1 .. MaxSessions
Password == 0 .. MaxChanges
NoSession == 0

\* parent: the session a rotation presented; basis: the owner's password when
\* the request that created the row was checked.
SessionRow == [state : {"unused", "live", "revoked", "deleted"},
               expired : BOOLEAN, owner : User \cup {None},
               parent : Session \cup {NoSession}, basis : Password]
Unused == [state |-> "unused", expired |-> FALSE, owner |-> None,
           parent |-> NoSession, basis |-> 0]

Place == {"idle", "verify", "fail", "welcome", "user", "kill", "rotate",
          "issue", "change"}
Request == [at : Place, user : User \cup {None},
            session : Session \cup {NoSession}, basis : Password]
Idle == [at |-> "idle", user |-> None, session |-> NoSession, basis |-> 0]

TypeOK ==
    /\ active \in [User -> BOOLEAN]
    /\ password \in [User -> Password]
    /\ session \in [Session -> SessionRow]
    /\ failures \in [User -> 0 .. MaxAttempts - 1]
    /\ locked \in [User -> BOOLEAN]
    /\ req \in [Worker -> Request]
    /\ \A w \in Worker : req[w].at # "idle" => req[w].user \in User

Init ==
    /\ active = [u \in User |-> TRUE]
    /\ password = [u \in User |-> 0]
    /\ session = [s \in Session |-> Unused]
    /\ failures = [u \in User |-> 0]
    /\ locked = [u \in User |-> FALSE]
    /\ req = [w \in Worker |-> Idle]

-------------------------------------------------------------------------------
\* Helpers

At(w, place) == req[w].at = place
Goto(w, place) == req' = [req EXCEPT ![w].at = place]
Finish(w) == req' = [req EXCEPT ![w] = Idle]

Live(s) == session[s].state = "live"
IsFresh(s) == /\ session[s].state = "unused"
              /\ \A t \in Session : t < s => session[t].state # "unused"

\* Bound: a request starts only if a row is left for the session it may issue.
MayIssue == {"verify", "welcome", "user", "rotate", "issue"}
RoomInPool ==
    Cardinality({w \in Worker : req[w].at \in MayIssue})
        < Cardinality({s \in Session : session[s].state = "unused"})

\* Bound: a change starts only if MaxChanges leaves room for it.
Changing(u) == {w \in Worker : At(w, "change") /\ req[w].user = u}

\* UPDATE refresh_sessions SET revoked_at WHERE ... AND revoked_at IS NULL
Revoke(S) ==
    session' = [s \in Session |-> IF s \in S /\ Live(s)
                                  THEN [session[s] EXCEPT !.state = "revoked"]
                                  ELSE session[s]]

-------------------------------------------------------------------------------
\* POST /api/auth/login

\* Faulty variant: the lockout is not looked at.
LoginUnthrottled(w, u, guess) ==
    /\ At(w, "idle") /\ RoomInPool
    /\ req' = [req EXCEPT ![w] = [at |-> "verify", user |-> u,
                                  session |-> NoSession, basis |-> guess]]
    /\ UNCHANGED <<active, password, session, failures, locked>>

\* _throttle_login: outside a lockout the attempt goes on.
Login(w, u, guess) ==
    /\ At(w, "idle") /\ RoomInPool
    /\ ~locked[u]
    /\ req' = [req EXCEPT ![w] = [at |-> "verify", user |-> u,
                                  session |-> NoSession, basis |-> guess]]
    /\ UNCHANGED <<active, password, session, failures, locked>>

\* The row is fetched and the password verified against it.
Verify(w) ==
    /\ At(w, "verify")
    /\ LET u == req[w].user IN
       Goto(w, IF req[w].basis = password[u] /\ active[u]
               THEN "welcome" ELSE "fail")
    /\ UNCHANGED <<active, password, session, failures, locked>>

\* Faulty variant: one attempt too many fits in the bucket.
RecordFailureLate(w) ==
    /\ At(w, "fail")
    /\ LET u == req[w].user
           full == failures[u] + 1 > MaxAttempts
       IN  /\ failures' = [failures EXCEPT ![u] = IF full THEN 0 ELSE @ + 1]
           /\ locked' = [locked EXCEPT ![u] = @ \/ full]
    /\ Finish(w)
    /\ UNCHANGED <<active, password, session>>

\* _record_login_failure: the bucket that reaches the limit becomes a lockout.
RecordFailure(w) ==
    /\ At(w, "fail")
    /\ LET u == req[w].user
           full == failures[u] + 1 >= MaxAttempts
       IN  /\ failures' = [failures EXCEPT ![u] = IF full THEN 0 ELSE @ + 1]
           /\ locked' = [locked EXCEPT ![u] = @ \/ full]
    /\ Finish(w)
    /\ UNCHANGED <<active, password, session>>

\* _record_login_success ends with _clear_login_failures: bucket and lockout.
Welcome(w) ==
    /\ At(w, "welcome")
    /\ failures' = [failures EXCEPT ![req[w].user] = 0]
    /\ locked' = [locked EXCEPT ![req[w].user] = FALSE]
    /\ Goto(w, "issue")
    /\ UNCHANGED <<active, password, session>>

\* _issue_refresh_session: one INSERT; the response carries the new token.
Issue(w) ==
    /\ At(w, "issue")
    /\ \E s \in Session :
          /\ IsFresh(s)
          /\ session' = [session EXCEPT ![s] =
                [state |-> "live", expired |-> FALSE, owner |-> req[w].user,
                 parent |-> req[w].session, basis |-> req[w].basis]]
    /\ Finish(w)
    /\ UNCHANGED <<active, password, failures, locked>>

-------------------------------------------------------------------------------
\* POST /api/auth/refresh

\* Faulty variant: revoked_at is not looked at.
RefreshReadAny(w, s) ==
    /\ At(w, "idle") /\ RoomInPool
    /\ session[s].state \in {"live", "revoked"}
    /\ req' = [req EXCEPT ![w] =
                 [at |-> IF session[s].expired THEN "kill" ELSE "user",
                  user |-> session[s].owner, session |-> s,
                  basis |-> password[session[s].owner]]]
    /\ UNCHANGED <<active, password, session, failures, locked>>

\* SELECT by the token's hash: a row that is not revoked passes or, expired,
\* is revoked.
RefreshRead(w, s) ==
    /\ At(w, "idle") /\ RoomInPool
    /\ Live(s)
    /\ req' = [req EXCEPT ![w] =
                 [at |-> IF session[s].expired THEN "kill" ELSE "user",
                  user |-> session[s].owner, session |-> s,
                  basis |-> password[session[s].owner]]]
    /\ UNCHANGED <<active, password, session, failures, locked>>

\* _fetch_user_by_id: a disabled owner loses the session.
RefreshUser(w) ==
    /\ At(w, "user")
    /\ Goto(w, IF active[req[w].user] THEN "rotate" ELSE "kill")
    /\ UNCHANGED <<active, password, session, failures, locked>>

\* The expired session, or the session of a disabled owner, is revoked.
RefreshKill(w) ==
    /\ At(w, "kill")
    /\ Revoke({req[w].session})
    /\ Finish(w)
    /\ UNCHANGED <<active, password, failures, locked>>

\* Faulty variant: the presented session is left to expire.
RotateWithoutRevoke(w) ==
    /\ At(w, "rotate")
    /\ Goto(w, "issue")
    /\ UNCHANGED <<active, password, session, failures, locked>>

\* The presented session is revoked; how many rows that changed is not read.
Rotate(w) ==
    /\ At(w, "rotate")
    /\ Revoke({req[w].session})
    /\ Goto(w, "issue")
    /\ UNCHANGED <<active, password, failures, locked>>

-------------------------------------------------------------------------------
\* POST /api/auth/logout and DELETE /api/auth/sessions/{id}

\* One UPDATE, by the presented token's hash or by the session's id.
Logout(w, s) ==
    /\ At(w, "idle")
    /\ Live(s)
    /\ Revoke({s})
    /\ UNCHANGED <<active, password, failures, locked, req>>

\* Without a token: every session of the signed-in user.
LogoutEverywhere(w, u) ==
    /\ At(w, "idle")
    /\ active[u]
    /\ Revoke({s \in Session : session[s].owner = u})
    /\ UNCHANGED <<active, password, failures, locked, req>>

-------------------------------------------------------------------------------
\* POST /api/auth/me/password

\* The stored row is fetched and the current password verified against it.
ChangeVerify(w, u) ==
    /\ At(w, "idle")
    /\ active[u]
    /\ password[u] + Cardinality(Changing(u)) < MaxChanges
    /\ req' = [req EXCEPT ![w] = [at |-> "change", user |-> u,
                                  session |-> NoSession,
                                  basis |-> password[u]]]
    /\ UNCHANGED <<active, password, session, failures, locked>>

\* Faulty variant: the sessions are kept.
ChangeHashOnly(w) ==
    /\ At(w, "change")
    /\ password' = [password EXCEPT ![req[w].user] = @ + 1]
    /\ Finish(w)
    /\ UNCHANGED <<active, session, failures, locked>>

\* One transaction: the new hash, and every session of the user revoked.
ChangeCommit(w) ==
    /\ At(w, "change")
    /\ LET u == req[w].user IN
       /\ password' = [password EXCEPT ![u] = @ + 1]
       /\ Revoke({s \in Session : session[s].owner = u})
    /\ Finish(w)
    /\ UNCHANGED <<active, failures, locked>>

-------------------------------------------------------------------------------
\* What happens around the requests

\* An administrator disables or enables the account (patch_user); the user's
\* sessions are left as they are.
SetActive(u, b) ==
    /\ active[u] # b
    /\ active' = [active EXCEPT ![u] = b]
    /\ UNCHANGED <<password, session, failures, locked, req>>

\* refresh_token_ttl_seconds, capped by session_idle_ttl_seconds, runs out.
Expire(s) ==
    /\ Live(s) /\ ~session[s].expired
    /\ session' = [session EXCEPT ![s].expired = TRUE]
    /\ UNCHANGED <<active, password, failures, locked, req>>

\* Failures older than window_seconds leave the bucket.
WindowSlides(u) ==
    /\ failures[u] > 0
    /\ failures' = [failures EXCEPT ![u] = @ - 1]
    /\ UNCHANGED <<active, password, session, locked, req>>

\* lockout_seconds run out.
LockoutEnds(u) ==
    /\ locked[u]
    /\ locked' = [locked EXCEPT ![u] = FALSE]
    /\ UNCHANGED <<active, password, session, failures, req>>

\* The process restarts: requests in flight and the throttle's memory are
\* lost; _cleanup_sessions deletes dead rows that are old enough.
Restart ==
    /\ req' = [w \in Worker |-> Idle]
    /\ failures' = [u \in User |-> 0]
    /\ locked' = [u \in User |-> FALSE]
    /\ \E old \in SUBSET {s \in Session : \/ session[s].state = "revoked"
                                          \/ Live(s) /\ session[s].expired} :
          session' = [s \in Session |->
                        IF s \in old
                        THEN [Unused EXCEPT !.state = "deleted",
                                            !.parent = session[s].parent]
                        ELSE session[s]]
    /\ UNCHANGED <<active, password>>

-------------------------------------------------------------------------------
Continue(w) ==
    \/ Verify(w) \/ RecordFailure(w) \/ Welcome(w) \/ Issue(w)
    \/ RefreshUser(w) \/ RefreshKill(w) \/ Rotate(w)
    \/ ChangeCommit(w)

Arrive(w) ==
    \/ \E u \in User, guess \in Password : Login(w, u, guess)
    \/ \E s \in Session : RefreshRead(w, s) \/ Logout(w, s)
    \/ \E u \in User : LogoutEverywhere(w, u) \/ ChangeVerify(w, u)

Around ==
    \/ \E u \in User, b \in BOOLEAN : SetActive(u, b)
    \/ \E u \in User : WindowSlides(u) \/ LockoutEnds(u)
    \/ \E s \in Session : Expire(s)
    \/ Restart

Next == (\E w \in Worker : Continue(w) \/ Arrive(w)) \/ Around

Spec == Init /\ [][Next]_vars
-------------------------------------------------------------------------------
\* What holds of the sessions

\* Rotation: the session that paid for a new one is never live again, whatever
\* else runs between its UPDATE and the INSERT of its successor, and both
\* belong to the same account.
RotationRevokesParent ==
    \A s \in Session : session[s].parent # NoSession =>
        LET p == session[session[s].parent] IN
        /\ p.state \in {"revoked", "deleted"}
        /\ "deleted" \notin {p.state, session[s].state}
             => p.owner = session[s].owner

\* A refresh token buys at most one session per thread: concurrent requests
\* may all read it before the first rotation, none can read it afterwards.
Successors(s) == {t \in Session : session[t].parent = s}
Rotating(s) == {w \in Worker :
    req[w].at \in {"user", "rotate", "issue"} /\ req[w].session = s}
SuccessorsBounded ==
    \A s \in Session :
        Cardinality(Successors(s)) + Cardinality(Rotating(s))
            <= Cardinality(Worker)

\* A password change ends the user's sessions except those that requests
\* already past their check bring in after it: fewer than there are threads.
StaleSessions(u) == {s \in Session :
    Live(s) /\ session[s].owner = u /\ session[s].basis < password[u]}
StaleRequests(u) == {w \in Worker :
    /\ req[w].at \in {"welcome", "user", "rotate", "issue"}
    /\ req[w].user = u /\ req[w].basis < password[u]}
StaleIssuesBounded ==
    \A u \in User :
        StaleSessions(u) \cup StaleRequests(u) # {} =>
            Cardinality(StaleSessions(u)) + Cardinality(StaleRequests(u))
                < Cardinality(Worker)

\* During a lockout only the attempts that passed the throttle before it can
\* still be checked: fewer guesses than there are threads.
Guessing(u) == {w \in Worker :
    req[w].at \in {"verify", "fail"} /\ req[w].user = u}
GuessesPerLockout ==
    \A u \in User : locked[u] =>
        failures[u] + Cardinality(Guessing(u)) < Cardinality(Worker)
===============================================================================
