------------------------------ MODULE AuthProofs ------------------------------
(***************************************************************************)
(* Proofs about who is signed in and who administers: AuthSessions,        *)
(* WebClient, UserAdmin.                                                   *)
(*                                                                         *)
(* AuthSessions, for any number of accounts, threads and sessions and any  *)
(* limit of failed attempts: the five invariants that the run accounts     *)
(* checks.  Two facts carry them: a row only ever moves from unused to     *)
(* live to revoked to deleted and keeps its parent (RowsAge), and a        *)
(* request that rotates knows a session of its own user, which is no       *)
(* longer live when its successor is inserted (RequestsOK).                *)
(*                                                                         *)
(* WebClient, the other side of a sign-in, for any pages, sessions and     *)
(* lost answers: refreshes are shared and sign-ins stand.  SessionIsKept   *)
(* carries it: as long as nothing excuses the end of a sign-in, its        *)
(* session is live or being replaced.                                      *)
(*                                                                         *)
(* UserAdmin, for any number of threads that serve administrators: the     *)
(* last active administrator goes, and a column that was not asked for     *)
(* changes, only where one UPDATE overtakes another (PatchInv).  That the  *)
(* first does happen is the run last_admin.                                *)
(***************************************************************************)
EXTENDS AuthSessions, WebClient, UserAdmin, FiniteSetTheorems, TLAPS

USE UserAssumption, BoundAssumption, AttemptsAssumption

\* Rows belong to accounts while they exist, and have no parent before.
RowsOK ==
    \A s \in Session :
        /\ session[s].state \in {"live", "revoked"} => session[s].owner \in User
        /\ session[s].state = "unused" => session[s].parent = NoSession

\* What a request may rely on.
RequestOK(w) ==
    LET r == req[w] IN
    /\ r.at # "idle" => r.user \in User
    /\ r.at \in {"verify", "fail", "welcome", "change"} => r.session = NoSession
    /\ r.at \in {"user", "kill", "rotate"} => r.session \in Session
    /\ r.at \in {"user", "kill", "rotate", "issue"} /\ r.session \in Session
         => /\ session[r.session].owner = r.user
            /\ session[r.session].state \in {"live", "revoked"}
    /\ r.at = "issue" /\ r.session \in Session
         => session[r.session].state = "revoked"
RequestsOK == \A w \in Worker : RequestOK(w)

\* The bound on changes covers those under way.
ChangesFit ==
    \A u \in User : password[u] + Cardinality(Changing(u)) <= MaxChanges

SessionInv == TypeOK /\ ChangesFit /\ RowsOK /\ RequestsOK /\ RotationRevokesParent

-------------------------------------------------------------------------------
\* The requests' places

LEMMA Sets == /\ NoSession \notin Session
              /\ Session \subseteq Nat /\ Password \subseteq Nat
              /\ 0 \in Password
  BY DEF NoSession, Session, Password

LEMMA IdleIsRequest == Idle \in Request
  BY Sets DEF Idle, Request, Place

LEMMA GotoMoves ==
  ASSUME TypeOK, NEW w \in Worker, NEW place \in Place \ {"idle"}, Goto(w, place)
  PROVE  /\ req' \in [Worker -> Request]
         /\ \A v \in Worker : v # w => req'[v] = req[v]
         /\ req'[w].at = place
         /\ \A v \in Worker : /\ req'[v].user = req[v].user
                              /\ req'[v].session = req[v].session
                              /\ req'[v].basis = req[v].basis
<1>1. req' = [req EXCEPT ![w] = [req[w] EXCEPT !.at = place]]
  BY DEF Goto
<1>2. req[w] \in Request
  BY DEF TypeOK
<1> DEFINE r == [req[w] EXCEPT !.at = place]
<1>3. /\ r \in Request /\ r.at = place /\ r.user = req[w].user
      /\ r.session = req[w].session /\ r.basis = req[w].basis
  BY <1>2 DEF Request
<1> HIDE DEF r
<1>4. QED
  BY <1>1, <1>3 DEF TypeOK, r

LEMMA FinishMoves ==
  ASSUME TypeOK, NEW w \in Worker, Finish(w)
  PROVE  /\ req' \in [Worker -> Request]
         /\ \A v \in Worker : v # w => req'[v] = req[v]
         /\ req'[w] = Idle /\ req'[w].at = "idle"
  BY IdleIsRequest DEF Finish, TypeOK, Idle

-------------------------------------------------------------------------------
\* The rows

RowsAge ==
    /\ session' \in [Session -> SessionRow]
    /\ \A s \in Session :
         /\ session'[s].parent = session[s].parent
         /\ session'[s].state # session[s].state
              => /\ session[s].state \in {"live", "revoked"}
                 /\ session'[s].state \in {"revoked", "deleted"}
         /\ session'[s].state # "deleted"
              => /\ session'[s].owner = session[s].owner
                 /\ session'[s].basis = session[s].basis

\* Nothing is deleted while requests are in flight.
NoneDeleted == \A s \in Session : session'[s].state = "deleted"
                                    => session[s].state = "deleted"

LEMMA RowsKept == TypeOK /\ UNCHANGED session => RowsAge /\ NoneDeleted
  BY DEF TypeOK, RowsAge, NoneDeleted

LEMMA RevokeAges ==
  ASSUME TypeOK, NEW S, Revoke(S)
  PROVE  /\ RowsAge /\ NoneDeleted
         /\ \A s \in Session : s \in S => session'[s].state # "live"
<1> DEFINE row(s) == IF s \in S /\ Live(s)
                     THEN [session[s] EXCEPT !.state = "revoked"] ELSE session[s]
<1>1. ASSUME NEW s \in Session
      PROVE  /\ row(s) \in SessionRow
             /\ row(s).parent = session[s].parent
             /\ row(s).owner = session[s].owner
             /\ row(s).basis = session[s].basis
             /\ row(s).state = IF s \in S /\ session[s].state = "live"
                               THEN "revoked" ELSE session[s].state
  <2>1. session[s] \in SessionRow
    BY DEF TypeOK
  <2>2. QED
    BY <2>1 DEF Live, SessionRow
<1>2. session' = [s \in Session |-> row(s)]
  BY DEF Revoke
<1> HIDE DEF row
<1>3. QED
  BY <1>1, <1>2 DEF RowsAge, NoneDeleted

LEMMA ExpireAges ==
  ASSUME TypeOK, NEW s \in Session, Expire(s)
  PROVE  RowsAge /\ NoneDeleted
<1> DEFINE row == [session[s] EXCEPT !.expired = TRUE]
<1>1. session[s] \in SessionRow
  BY DEF TypeOK
<1>2. /\ row \in SessionRow /\ row.parent = session[s].parent
      /\ row.owner = session[s].owner /\ row.basis = session[s].basis
      /\ row.state = session[s].state
  BY <1>1 DEF SessionRow
<1>3. session' = [session EXCEPT ![s] = row]
  BY DEF Expire
<1> HIDE DEF row
<1>4. QED
  BY <1>2, <1>3 DEF RowsAge, NoneDeleted, TypeOK

LEMMA RestartAges ==
  ASSUME TypeOK, Restart
  PROVE  RowsAge
<1>1. PICK old \in SUBSET {s \in Session : \/ session[s].state = "revoked"
                                           \/ Live(s) /\ session[s].expired} :
          session' = [s \in Session |->
                        IF s \in old
                        THEN [Unused EXCEPT !.state = "deleted",
                                            !.parent = session[s].parent]
                        ELSE session[s]]
  BY DEF Restart
<1> DEFINE gone(s) == [Unused EXCEPT !.state = "deleted",
                                     !.parent = session[s].parent]
<1>2. ASSUME NEW s \in Session
      PROVE  /\ gone(s) \in SessionRow /\ gone(s).state = "deleted"
             /\ gone(s).parent = session[s].parent
  <2>1. session[s] \in SessionRow
    BY DEF TypeOK
  <2>2. QED
    BY <2>1, Sets DEF SessionRow, Unused
<1>3. session' = [s \in Session |-> IF s \in old THEN gone(s) ELSE session[s]]
  BY <1>1
<1>4. \A s \in old : s \in Session /\ session[s].state \in {"live", "revoked"}
  BY DEF Live
<1> HIDE DEF gone
<1>5. QED
  BY <1>2, <1>3, <1>4 DEF RowsAge, TypeOK

\* The row an Issue adds, and all others.
LEMMA IssueAdds ==
  ASSUME TypeOK, RequestsOK, NEW w \in Worker, Issue(w)
  PROVE  \E s \in Session :
            /\ session[s].state = "unused"
            /\ session' \in [Session -> SessionRow]
            /\ session'[s] = [state |-> "live", expired |-> FALSE,
                              owner |-> req[w].user,
                              parent |-> req[w].session,
                              basis |-> req[w].basis]
            /\ \A t \in Session : t # s => session'[t] = session[t]
<1>1. PICK s \in Session :
         /\ IsFresh(s)
         /\ session' = [session EXCEPT ![s] =
                [state |-> "live", expired |-> FALSE, owner |-> req[w].user,
                 parent |-> req[w].session, basis |-> req[w].basis]]
  BY DEF Issue
<1> DEFINE row == [state |-> "live", expired |-> FALSE, owner |-> req[w].user,
                   parent |-> req[w].session, basis |-> req[w].basis]
<1>2. row \in SessionRow
  <2>1. req[w] \in Request
    BY DEF TypeOK
  <2>2. QED
    BY <2>1 DEF Request, SessionRow
<1> HIDE DEF row
<1>3. /\ session' \in [Session -> SessionRow] /\ session'[s] = row
      /\ \A t \in Session : t # s => session'[t] = session[t]
  BY <1>1, <1>2 DEF TypeOK, row
<1>4. QED
  BY <1>1, <1>3 DEF IsFresh, row

-------------------------------------------------------------------------------
\* The steps that add no row

Issues == \E w \in Worker : Issue(w)

LEMMA StepAges ==
  ASSUME TypeOK, [Next]_vars, ~Issues
  PROVE  RowsAge /\ (NoneDeleted \/ Restart)
<1>1. CASE UNCHANGED session
  BY <1>1, RowsKept
<1>2. ASSUME NEW w \in Worker, Continue(w) PROVE RowsAge /\ NoneDeleted
  <2>1. CASE Verify(w) \/ RecordFailure(w) \/ Welcome(w) \/ RefreshUser(w)
    BY <2>1, RowsKept DEF Verify, RecordFailure, Welcome, RefreshUser
  <2>2. CASE RefreshKill(w) \/ Rotate(w)
    BY <2>2, RevokeAges DEF RefreshKill, Rotate
  <2>3. CASE ChangeCommit(w)
    BY <2>3, RevokeAges DEF ChangeCommit
  <2>4. QED
    BY <1>2, <2>1, <2>2, <2>3 DEF Continue, Issues
<1>3. ASSUME NEW w \in Worker, Arrive(w) PROVE RowsAge /\ NoneDeleted
  <2>1. ASSUME NEW u \in User, NEW guess \in Password, Login(w, u, guess)
        PROVE  UNCHANGED session
    BY <2>1 DEF Login
  <2>2. ASSUME NEW s \in Session, RefreshRead(w, s) PROVE UNCHANGED session
    BY <2>2 DEF RefreshRead
  <2>3. ASSUME NEW s \in Session, Logout(w, s) PROVE RowsAge /\ NoneDeleted
    BY <2>3, RevokeAges DEF Logout
  <2>4. ASSUME NEW u \in User, LogoutEverywhere(w, u)
        PROVE  RowsAge /\ NoneDeleted
    BY <2>4, RevokeAges DEF LogoutEverywhere
  <2>5. ASSUME NEW u \in User, ChangeVerify(w, u) PROVE UNCHANGED session
    BY <2>5 DEF ChangeVerify
  <2>6. QED
    BY <1>3, <2>1, <2>2, <2>3, <2>4, <2>5, RowsKept DEF Arrive
<1>4. ASSUME NEW s \in Session, Expire(s) PROVE RowsAge /\ NoneDeleted
  BY <1>4, ExpireAges
<1>5. CASE \E u \in User : (\E b \in BOOLEAN : SetActive(u, b))
                             \/ WindowSlides(u) \/ LockoutEnds(u)
  BY <1>5, RowsKept DEF SetActive, WindowSlides, LockoutEnds
<1>6. CASE Restart
  BY <1>6, RestartAges
<1>7. CASE UNCHANGED vars
  BY <1>7, RowsKept DEF vars
<1>8. QED
  BY <1>2, <1>3, <1>4, <1>5, <1>6, <1>7 DEF Next, Around

-------------------------------------------------------------------------------
\* Type correctness

LEMMA ZeroFailures == 0 \in 0 .. MaxAttempts - 1
  OBVIOUS

LEMMA WorkerSubset ==
  ASSUME NEW S \in SUBSET Worker
  PROVE  /\ IsFiniteSet(S) /\ Cardinality(S) \in Nat
         /\ Cardinality(S) <= Cardinality(Worker)
  BY WorkerAssumption, FS_Subset, FS_CardinalityType

LEMMA ChangingFinite ==
  \A u \in User : /\ IsFiniteSet(Changing(u))
                  /\ Cardinality(Changing(u)) \in Nat
<1>1. \A u \in User : Changing(u) \in SUBSET Worker
  BY DEF Changing
<1>2. QED
  BY <1>1, WorkerSubset

LEMMA RecordFailureType ==
  ASSUME TypeOK, RequestsOK, NEW w \in Worker, RecordFailure(w)
  PROVE  /\ failures' \in [User -> 0 .. MaxAttempts - 1]
         /\ locked' \in [User -> BOOLEAN]
<1> DEFINE u == req[w].user
           full == failures[u] + 1 >= MaxAttempts
<1>1. u \in User /\ failures[u] \in 0 .. MaxAttempts - 1
  BY DEF RequestsOK, RequestOK, RecordFailure, At, TypeOK
<1>2. (IF full THEN 0 ELSE failures[u] + 1) \in 0 .. MaxAttempts - 1
  BY <1>1
<1>3. full \in BOOLEAN /\ locked[u] \in BOOLEAN
  BY <1>1 DEF TypeOK
<1>4. /\ failures' = [failures EXCEPT ![u] = IF full THEN 0 ELSE failures[u] + 1]
      /\ locked' = [locked EXCEPT ![u] = locked[u] \/ full]
  BY DEF RecordFailure
<1> HIDE DEF full
<1>5. failures' \in [User -> 0 .. MaxAttempts - 1]
  BY <1>1, <1>2, <1>4 DEF TypeOK
<1>6. locked' \in [User -> BOOLEAN]
  BY <1>3, <1>4 DEF TypeOK
<1>7. QED
  BY <1>5, <1>6

\* A step of a request already under way.
LEMMA ContinueType ==
  ASSUME TypeOK, RequestsOK, ChangesFit, session' \in [Session -> SessionRow],
         NEW w \in Worker, Continue(w)
  PROVE  TypeOK'
<1>0. req[w].at # "idle" => req[w].user \in User
  BY DEF TypeOK
<1> DEFINE ReqOK == /\ req \in [Worker -> Request]
                    /\ \A v \in Worker : req[v].at # "idle" => req[v].user \in User
<1>a. ASSUME NEW place \in Place \ {"idle"}, Goto(w, place), req[w].at # "idle"
      PROVE  ReqOK'
  BY <1>a, <1>0, GotoMoves DEF TypeOK
<1>b. ASSUME Finish(w) PROVE ReqOK'
  BY <1>b, FinishMoves DEF TypeOK
<1>1. CASE Verify(w)
  BY <1>1, <1>a DEF Verify, At, TypeOK, Place
<1>2. CASE RecordFailure(w)
  BY <1>2, <1>b, RecordFailureType DEF RecordFailure, TypeOK
<1>3. CASE Welcome(w)
  BY <1>3, <1>a, ZeroFailures DEF Welcome, At, TypeOK, Place
<1>4. CASE Issue(w)
  BY <1>4, <1>b DEF Issue, TypeOK
<1>5. CASE RefreshUser(w)
  BY <1>5, <1>a DEF RefreshUser, At, TypeOK, Place
<1>6. CASE RefreshKill(w)
  BY <1>6, <1>b DEF RefreshKill, TypeOK
<1>7. CASE Rotate(w)
  BY <1>7, <1>a DEF Rotate, At, TypeOK, Place
<1>8. CASE ChangeCommit(w)
  <2> DEFINE u == req[w].user
  <2>1. u \in User /\ w \in Changing(u)
    BY <1>8, <1>0 DEF ChangeCommit, At, Changing
  <2>2. password[u] \in Nat /\ Cardinality(Changing(u)) \in Nat
    BY <2>1, ChangingFinite DEF TypeOK, Password
  <2>3. Cardinality(Changing(u)) # 0
    BY <2>1, ChangingFinite, FS_EmptySet
  <2>4. password[u] + 1 \in Password
    BY <2>1, <2>2, <2>3 DEF ChangesFit, Password
  <2>5. password' \in [User -> Password]
    BY <1>8, <2>1, <2>4 DEF ChangeCommit, TypeOK
  <2>6. QED
    BY <1>8, <1>b, <2>5 DEF ChangeCommit, TypeOK
<1>9. QED
  BY <1>1, <1>2, <1>3, <1>4, <1>5, <1>6, <1>7, <1>8 DEF Continue

\* A new request, or an event around the requests.
LEMMA ArriveType ==
  ASSUME TypeOK, RowsOK, session' \in [Session -> SessionRow],
         NEW w \in Worker, Arrive(w)
  PROVE  TypeOK'
<1> DEFINE ReqOK == /\ req \in [Worker -> Request]
                    /\ \A v \in Worker : req[v].at # "idle" => req[v].user \in User
<1>0. ASSUME NEW r \in Request, r.user \in User, req' = [req EXCEPT ![w] = r]
      PROVE  ReqOK'
  BY <1>0 DEF TypeOK
<1>1. ASSUME NEW u \in User, NEW guess \in Password, Login(w, u, guess)
      PROVE  TypeOK'
  <2> DEFINE r == [at |-> "verify", user |-> u, session |-> NoSession,
                   basis |-> guess]
  <2>1. r \in Request /\ r.user \in User
    BY DEF Request, Place
  <2>2. req' = [req EXCEPT ![w] = r]
    BY <1>1 DEF Login
  <2>3. QED
    BY <1>0, <1>1, <2>1, <2>2 DEF Login, TypeOK
<1>2. ASSUME NEW s \in Session, RefreshRead(w, s) PROVE TypeOK'
  <2> DEFINE r == [at |-> IF session[s].expired THEN "kill" ELSE "user",
                   user |-> session[s].owner, session |-> s,
                   basis |-> password[session[s].owner]]
  <2>1. session[s].owner \in User
    BY <1>2 DEF RefreshRead, Live, RowsOK
  <2>2. r \in Request /\ r.user \in User
    BY <2>1 DEF Request, Place, TypeOK
  <2>3. req' = [req EXCEPT ![w] = r]
    BY <1>2 DEF RefreshRead
  <2>4. QED
    BY <1>0, <1>2, <2>2, <2>3 DEF RefreshRead, TypeOK
<1>3. ASSUME NEW s \in Session, Logout(w, s) PROVE TypeOK'
  BY <1>3 DEF Logout, TypeOK
<1>4. ASSUME NEW u \in User, LogoutEverywhere(w, u) PROVE TypeOK'
  BY <1>4 DEF LogoutEverywhere, TypeOK
<1>5. ASSUME NEW u \in User, ChangeVerify(w, u) PROVE TypeOK'
  <2> DEFINE r == [at |-> "change", user |-> u, session |-> NoSession,
                   basis |-> password[u]]
  <2>1. r \in Request /\ r.user \in User
    BY DEF Request, Place, TypeOK
  <2>2. req' = [req EXCEPT ![w] = r]
    BY <1>5 DEF ChangeVerify
  <2>3. QED
    BY <1>0, <1>5, <2>1, <2>2 DEF ChangeVerify, TypeOK
<1>6. QED
  BY <1>1, <1>2, <1>3, <1>4, <1>5 DEF Arrive

LEMMA AroundType ==
  ASSUME TypeOK, session' \in [Session -> SessionRow], Around
  PROVE  TypeOK'
<1>1. ASSUME NEW u \in User, NEW b \in BOOLEAN, SetActive(u, b) PROVE TypeOK'
  BY <1>1 DEF SetActive, TypeOK
<1>2. ASSUME NEW u \in User, WindowSlides(u) PROVE TypeOK'
  <2>1. failures[u] - 1 \in 0 .. MaxAttempts - 1
    BY <1>2 DEF WindowSlides, TypeOK
  <2>2. QED
    BY <1>2, <2>1 DEF WindowSlides, TypeOK
<1>3. ASSUME NEW u \in User, LockoutEnds(u) PROVE TypeOK'
  BY <1>3 DEF LockoutEnds, TypeOK
<1>4. ASSUME NEW s \in Session, Expire(s) PROVE TypeOK'
  BY <1>4 DEF Expire, TypeOK
<1>5. CASE Restart
  BY <1>5, IdleIsRequest, ZeroFailures
     DEF Restart, TypeOK, Idle
<1>6. QED
  BY <1>1, <1>2, <1>3, <1>4, <1>5 DEF Around

LEMMA TypeStep ==
  ASSUME TypeOK, RowsOK, RequestsOK, ChangesFit, [Next]_vars
  PROVE  TypeOK'
<1>1. session' \in [Session -> SessionRow]
  BY StepAges, IssueAdds DEF RowsAge, Issues
<1>2. CASE UNCHANGED vars
  BY <1>2 DEF vars, TypeOK
<1>3. QED
  BY <1>1, <1>2, ContinueType, ArriveType, AroundType DEF Next

-------------------------------------------------------------------------------
\* What requests know of the rows stays true

\* Rows in use keep their owner, and none of them is deleted.
RowsHold ==
    \A s \in Session : session[s].state \in {"live", "revoked"} =>
        /\ session'[s].owner = session[s].owner
        /\ session'[s].state \in {"live", "revoked"}
        /\ session[s].state = "revoked" => session'[s].state = "revoked"

LEMMA StepHolds ==
  ASSUME TypeOK, RequestsOK, [Next]_vars, ~Restart
  PROVE  RowsHold
<1>1. CASE Issues
  <2>1. PICK w \in Worker : Issue(w)
    BY <1>1 DEF Issues
  <2>2. QED
    BY <2>1, IssueAdds DEF RowsHold
<1>2. CASE ~Issues
  BY <1>2, StepAges DEF RowsAge, NoneDeleted, RowsHold
<1>3. QED
  BY <1>1, <1>2

LEMMA RequestKept ==
  ASSUME NEW w \in Worker, RowsHold, RequestOK(w), req'[w] = req[w]
  PROVE  RequestOK(w)'
  BY DEF RowsHold, RequestOK

LEMMA RequestDone ==
  ASSUME NEW w \in Worker, req'[w] = Idle
  PROVE  RequestOK(w)'
  BY DEF RequestOK, Idle

\* A request that is moved forward needs only its own clause again.
LEMMA RequestMoves ==
  ASSUME TypeOK, RequestsOK, RowsHold,
         NEW w \in Worker, NEW place \in Place \ {"idle"}, Goto(w, place),
         RequestOK(w)'
  PROVE  RequestsOK'
  BY GotoMoves, RequestKept DEF RequestsOK

LEMMA RequestFinishes ==
  ASSUME TypeOK, RequestsOK, RowsHold, NEW w \in Worker, Finish(w)
  PROVE  RequestsOK'
  BY FinishMoves, RequestKept, RequestDone DEF RequestsOK

LEMMA ContinueRequests ==
  ASSUME TypeOK, RequestsOK, RowsHold, NEW w \in Worker, Continue(w)
  PROVE  RequestsOK'
<1>0. RequestOK(w)
  BY DEF RequestsOK
<1>1. CASE Verify(w)
  <2>1. PICK place \in {"welcome", "fail"} : Goto(w, place)
    BY <1>1 DEF Verify
  <2>2. /\ req'[w].at = place /\ req'[w].user = req[w].user
        /\ req'[w].session = req[w].session
    BY <2>1, GotoMoves DEF Place
  <2>3. RequestOK(w)'
    BY <1>0, <1>1, <2>2, Sets DEF RequestOK, Verify, At
  <2>4. QED
    BY <2>1, <2>3, RequestMoves DEF Place
<1>2. CASE RecordFailure(w) \/ Issue(w) \/ RefreshKill(w) \/ ChangeCommit(w)
  BY <1>2, RequestFinishes DEF RecordFailure, Issue, RefreshKill, ChangeCommit
<1>3. CASE Welcome(w)
  <2>1. Goto(w, "issue")
    BY <1>3 DEF Welcome
  <2>2. /\ req'[w].at = "issue" /\ req'[w].user = req[w].user
        /\ req'[w].session = req[w].session
    BY <2>1, GotoMoves DEF Place
  <2>3. RequestOK(w)'
    BY <1>0, <1>3, <2>2, Sets DEF RequestOK, Welcome, At
  <2>4. QED
    BY <2>1, <2>3, RequestMoves DEF Place
<1>4. CASE RefreshUser(w)
  <2>1. PICK place \in {"rotate", "kill"} : Goto(w, place)
    BY <1>4 DEF RefreshUser
  <2>2. /\ req'[w].at = place /\ req'[w].user = req[w].user
        /\ req'[w].session = req[w].session
    BY <2>1, GotoMoves DEF Place
  <2>3. RequestOK(w)'
    BY <1>0, <1>4, <2>2 DEF RequestOK, RefreshUser, At
  <2>4. QED
    BY <2>1, <2>3, RequestMoves DEF Place
<1>5. CASE Rotate(w)
  <2>1. Goto(w, "issue") /\ Revoke({req[w].session})
    BY <1>5 DEF Rotate
  <2>2. /\ req'[w].at = "issue" /\ req'[w].user = req[w].user
        /\ req'[w].session = req[w].session
    BY <2>1, GotoMoves DEF Place
  <2>3. req[w].session \in Session /\ req[w].user \in User
    BY <1>0, <1>5 DEF RequestOK, Rotate, At
  <2>4. session'[req[w].session].state # "live"
    BY <2>1, <2>3, RevokeAges
  <2>5. RequestOK(w)'
    BY <1>0, <1>5, <2>2, <2>3, <2>4 DEF RequestOK, Rotate, At, RowsHold
  <2>6. QED
    BY <2>1, <2>5, RequestMoves DEF Place
<1>6. QED
  BY <1>1, <1>2, <1>3, <1>4, <1>5 DEF Continue

LEMMA ArriveRequests ==
  ASSUME TypeOK, RequestsOK, RowsOK, RowsHold, NEW w \in Worker, Arrive(w)
  PROVE  RequestsOK'
<1>1. ASSUME NEW r, req' = [req EXCEPT ![w] = r], RequestOK(w)'
      PROVE  RequestsOK'
  BY <1>1, RequestKept DEF RequestsOK, TypeOK
<1>2. ASSUME NEW u \in User, NEW guess \in Password, Login(w, u, guess)
      PROVE  RequestsOK'
  <2>1. req'[w] = [at |-> "verify", user |-> u, session |-> NoSession,
                   basis |-> guess]
    BY <1>2 DEF Login, TypeOK
  <2>2. RequestOK(w)'
    BY <2>1 DEF RequestOK
  <2>3. QED
    BY <1>1, <1>2, <2>2 DEF Login
<1>3. ASSUME NEW s \in Session, RefreshRead(w, s) PROVE RequestsOK'
  <2>1. req'[w] = [at |-> IF session[s].expired THEN "kill" ELSE "user",
                   user |-> session[s].owner, session |-> s,
                   basis |-> password[session[s].owner]]
    BY <1>3 DEF RefreshRead, TypeOK
  <2>2. session[s].state = "live" /\ session[s].owner \in User
    BY <1>3 DEF RefreshRead, Live, RowsOK
  <2>3. RequestOK(w)'
    BY <2>1, <2>2 DEF RequestOK, RowsHold
  <2>4. QED
    BY <1>1, <1>3, <2>3 DEF RefreshRead
<1>4. ASSUME NEW u \in User, ChangeVerify(w, u) PROVE RequestsOK'
  <2>1. req'[w] = [at |-> "change", user |-> u, session |-> NoSession,
                   basis |-> password[u]]
    BY <1>4 DEF ChangeVerify, TypeOK
  <2>2. RequestOK(w)'
    BY <2>1 DEF RequestOK
  <2>3. QED
    BY <1>1, <1>4, <2>2 DEF ChangeVerify
<1>5. ASSUME UNCHANGED req PROVE RequestsOK'
  BY <1>5, RequestKept DEF RequestsOK
<1>6. QED
  BY <1>2, <1>3, <1>4, <1>5 DEF Arrive, Logout, LogoutEverywhere

LEMMA RequestsStep ==
  ASSUME TypeOK, RowsOK, RequestsOK, [Next]_vars
  PROVE  RequestsOK'
<1>1. CASE Restart
  BY <1>1, RequestDone DEF Restart, RequestsOK
<1>2. CASE ~Restart
  <2>1. RowsHold
    BY <1>2, StepHolds
  <2>2. CASE UNCHANGED req
    BY <2>1, <2>2, RequestKept DEF RequestsOK
  <2>3. QED
    BY <1>2, <2>1, <2>2, ContinueRequests, ArriveRequests
       DEF Next, Around, SetActive, WindowSlides, LockoutEnds, Expire, vars
<1>3. QED
  BY <1>1, <1>2

-------------------------------------------------------------------------------
\* The rows, and the parents among them

LEMMA RowsStep ==
  ASSUME TypeOK, RowsOK, RequestsOK, [Next]_vars
  PROVE  RowsOK'
<1>1. CASE Issues
  <2>1. PICK w \in Worker : Issue(w)
    BY <1>1 DEF Issues
  <2>2. req[w].user \in User
    BY <2>1 DEF Issue, At, RequestsOK, RequestOK
  <2>3. PICK s \in Session :
            /\ session'[s] = [state |-> "live", expired |-> FALSE,
                              owner |-> req[w].user,
                              parent |-> req[w].session,
                              basis |-> req[w].basis]
            /\ \A t \in Session : t # s => session'[t] = session[t]
    BY <2>1, IssueAdds
  <2>4. session'[s].owner \in User /\ session'[s].state = "live"
    BY <2>2, <2>3
  <2>5. QED
    BY <2>3, <2>4 DEF RowsOK
<1>2. CASE ~Issues
  BY <1>2, StepAges DEF RowsAge, RowsOK
<1>3. QED
  BY <1>1, <1>2

\* The only new child is the row of an Issue: its request saw the parent
\* revoked.  No row in use becomes a parent of itself or of older rows, since
\* parents are never unused.
LEMMA ParentsStep ==
  ASSUME SessionInv, [Next]_vars
  PROVE  RotationRevokesParent'
<1> USE DEF SessionInv
<1>0. \A s \in Session : session[s].parent \in Session \cup {NoSession}
  BY DEF TypeOK, SessionRow
<1>1. CASE Issues
  <2>1. PICK w \in Worker : Issue(w)
    BY <1>1 DEF Issues
  <2>2. PICK s \in Session :
            /\ session[s].state = "unused"
            /\ session'[s] = [state |-> "live", expired |-> FALSE,
                              owner |-> req[w].user,
                              parent |-> req[w].session,
                              basis |-> req[w].basis]
            /\ \A t \in Session : t # s => session'[t] = session[t]
    BY <2>1, IssueAdds
  <2>3. ASSUME NEW t \in Session, session'[t].parent # NoSession
        PROVE  LET p == session'[session'[t].parent] IN
               /\ p.state \in {"revoked", "deleted"}
               /\ "deleted" \notin {p.state, session'[t].state}
                    => p.owner = session'[t].owner
    <3>1. CASE t = s
      <4>1. req[w].session \in Session
        BY <2>2, <2>3, <3>1 DEF TypeOK, Request
      <4>2. /\ session[req[w].session].state = "revoked"
            /\ session[req[w].session].owner = req[w].user
        BY <2>1, <4>1 DEF Issue, At, RequestsOK, RequestOK
      <4>3. session'[req[w].session] = session[req[w].session]
        BY <2>2, <4>1, <4>2
      <4>4. QED
        BY <2>2, <3>1, <4>2, <4>3
    <3>2. CASE t # s
      <4>1. session[t].parent \in Session /\ session'[t] = session[t]
        BY <1>0, <2>2, <2>3, <3>2
      <4>2. session[session[t].parent].state # "unused"
        BY <4>1, Sets DEF RotationRevokesParent
      <4>3. session'[session[t].parent] = session[session[t].parent]
        BY <2>2, <4>1, <4>2
      <4>4. QED
        BY <4>1, <4>3, Sets DEF RotationRevokesParent
    <3>3. QED
      BY <3>1, <3>2
  <2>4. QED
    BY <2>3 DEF RotationRevokesParent
<1>2. CASE ~Issues
  <2>1. RowsAge
    BY <1>2, StepAges
  <2>2. ASSUME NEW t \in Session, session'[t].parent # NoSession
        PROVE  LET p == session'[session'[t].parent] IN
               /\ p.state \in {"revoked", "deleted"}
               /\ "deleted" \notin {p.state, session'[t].state}
                    => p.owner = session'[t].owner
    <3>1. session[t].parent \in Session /\ session'[t].parent = session[t].parent
      BY <1>0, <2>1, <2>2 DEF RowsAge
    <3> DEFINE q == session[t].parent
    <3>2. /\ session[q].state \in {"revoked", "deleted"}
          /\ "deleted" \notin {session[q].state, session[t].state}
               => session[q].owner = session[t].owner
      BY <3>1, Sets DEF RotationRevokesParent
    <3> HIDE DEF q
    <3>3. session'[q].state \in {"revoked", "deleted"}
      BY <2>1, <3>1, <3>2 DEF RowsAge, q
    <3>4. ASSUME session'[q].state # "deleted", session'[t].state # "deleted"
          PROVE  session'[q].owner = session'[t].owner
      <4>1. q \in Session
        BY <3>1 DEF q
      <4>2. /\ session'[q].owner = session[q].owner
            /\ session'[t].owner = session[t].owner
        BY <2>1, <3>4, <4>1 DEF RowsAge
      <4>3. session[q].state # "deleted" /\ session[t].state # "deleted"
        BY <2>1, <3>4, <4>1 DEF RowsAge
      <4>4. QED
        BY <3>2, <4>2, <4>3
    <3>5. QED
      BY <3>1, <3>3, <3>4 DEF q
  <2>3. QED
    BY <2>2 DEF RotationRevokesParent
<1>3. QED
  BY <1>1, <1>2

-------------------------------------------------------------------------------
\* The bound on password changes

\* Fewer changes are under way, or none is committed.
LEMMA ChangesKept ==
  ASSUME TypeOK, ChangesFit, NEW u \in User,
         Changing(u)' \subseteq Changing(u), password'[u] = password[u]
  PROVE  password'[u] + Cardinality(Changing(u)') <= MaxChanges
<1>1. IsFiniteSet(Changing(u)) /\ Cardinality(Changing(u)) \in Nat
  BY ChangingFinite
<1>2. /\ Cardinality(Changing(u)') \in Nat
      /\ Cardinality(Changing(u)') <= Cardinality(Changing(u))
  BY <1>1, FS_Subset, FS_CardinalityType
<1>3. password[u] \in Nat /\ MaxChanges \in Nat
  BY DEF TypeOK, Password
<1>4. QED
  BY <1>1, <1>2, <1>3 DEF ChangesFit

LEMMA ChangesStep ==
  ASSUME TypeOK, RequestsOK, ChangesFit, [Next]_vars
  PROVE  ChangesFit'
<1>1. ASSUME NEW w \in Worker, ChangeCommit(w) PROVE ChangesFit'
  <2>0. req'[w].at = "idle" /\ \A v \in Worker : v # w => req'[v] = req[v]
    BY <1>1, FinishMoves DEF ChangeCommit
  <2>a. PICK x \in User : x = req[w].user
    BY <1>1 DEF ChangeCommit, At, RequestsOK, RequestOK
  <2>1. w \in Changing(x)
    BY <1>1, <2>a DEF ChangeCommit, At, Changing
  <2>2. \A u \in User : Changing(u)' = Changing(u) \ {w}
    BY <2>0 DEF Changing, At
  <2>3. password' = [password EXCEPT ![x] = password[x] + 1]
    BY <1>1, <2>a DEF ChangeCommit
  <2>4. password'[x] + Cardinality(Changing(x)') <= MaxChanges
    <3>1. IsFiniteSet(Changing(x)) /\ Cardinality(Changing(x)) \in Nat
      BY <2>1, ChangingFinite
    <3>2. Cardinality(Changing(x)') = Cardinality(Changing(x)) - 1
      BY <2>1, <2>2, <3>1, FS_RemoveElement
    <3>3. password'[x] = password[x] + 1 /\ password[x] \in Nat
      BY <2>1, <2>3 DEF TypeOK, Password
    <3>4. QED
      BY <2>1, <3>1, <3>2, <3>3 DEF ChangesFit
  <2>5. ASSUME NEW u \in User, u # x
        PROVE  password'[u] + Cardinality(Changing(u)') <= MaxChanges
    BY <2>2, <2>3, <2>5, ChangesKept DEF TypeOK
  <2>6. QED
    BY <2>4, <2>5 DEF ChangesFit
<1>2. ASSUME NEW w \in Worker, NEW x \in User, ChangeVerify(w, x)
      PROVE  ChangesFit'
  <2>1. \A u \in User : Changing(u)' = IF u = x THEN Changing(u) \cup {w}
                                       ELSE Changing(u) \ {w}
    BY <1>2 DEF ChangeVerify, Changing, At, TypeOK
  <2>2. password' = password
    BY <1>2 DEF ChangeVerify
  <2>3. password'[x] + Cardinality(Changing(x)') <= MaxChanges
    <3>1. IsFiniteSet(Changing(x)) /\ Cardinality(Changing(x)) \in Nat
      BY ChangingFinite
    <3>2. /\ Cardinality(Changing(x)') \in Nat
          /\ Cardinality(Changing(x)') <= Cardinality(Changing(x)) + 1
      BY <2>1, <3>1, FS_AddElement
    <3>3. password[x] \in Nat
      BY DEF TypeOK, Password
    <3>4. password[x] + Cardinality(Changing(x)) < MaxChanges
      BY <1>2 DEF ChangeVerify
    <3>5. QED
      BY <2>2, <3>1, <3>2, <3>3, <3>4
  <2>4. ASSUME NEW u \in User, u # x
        PROVE  password'[u] + Cardinality(Changing(u)') <= MaxChanges
    BY <2>1, <2>2, <2>4, ChangesKept
  <2>5. QED
    BY <2>3, <2>4 DEF ChangesFit
<1>3. ASSUME password' = password, \A u \in User : Changing(u)' \subseteq Changing(u)
      PROVE  ChangesFit'
  BY <1>3, ChangesKept DEF ChangesFit
\* No other step makes a request a password change.
<1>4. ASSUME NEW w \in Worker, NEW place \in Place \ {"idle", "change"},
             Goto(w, place)
      PROVE  \A u \in User : Changing(u)' \subseteq Changing(u)
  BY <1>4, GotoMoves DEF Changing, At
<1>5. ASSUME NEW w \in Worker, Finish(w)
      PROVE  \A u \in User : Changing(u)' \subseteq Changing(u)
  BY <1>5, FinishMoves DEF Changing, At
<1>6. ASSUME NEW w \in Worker, Continue(w), ~ChangeCommit(w)
      PROVE  password' = password
             /\ \A u \in User : Changing(u)' \subseteq Changing(u)
  BY <1>4, <1>5, <1>6
     DEF Continue, Verify, RecordFailure, Welcome, Issue, RefreshUser,
         RefreshKill, Rotate, Place
<1>7. ASSUME NEW w \in Worker, NEW u \in User, NEW guess \in Password,
             Login(w, u, guess)
      PROVE  password' = password
             /\ \A x \in User : Changing(x)' \subseteq Changing(x)
  BY <1>7 DEF Login, Changing, At, TypeOK
<1>8. ASSUME NEW w \in Worker, NEW s \in Session, RefreshRead(w, s)
      PROVE  password' = password
             /\ \A x \in User : Changing(x)' \subseteq Changing(x)
  BY <1>8 DEF RefreshRead, Changing, At, TypeOK
<1>9. ASSUME UNCHANGED <<req, password>>
      PROVE  password' = password
             /\ \A x \in User : Changing(x)' \subseteq Changing(x)
  BY <1>9 DEF Changing, At
<1>10. CASE Restart
  BY <1>10, <1>3 DEF Restart, Changing, At, Idle
<1>11. CASE UNCHANGED vars
  BY <1>11, <1>9, <1>3 DEF vars
<1>12. ASSUME NEW w \in Worker, Arrive(w) PROVE ChangesFit'
  BY <1>12, <1>2, <1>3, <1>7, <1>8, <1>9 DEF Arrive, Logout, LogoutEverywhere
<1>13. CASE Around
  BY <1>13, <1>3, <1>9, <1>10
     DEF Around, SetActive, WindowSlides, LockoutEnds, Expire
<1>14. QED
  BY <1>1, <1>3, <1>6, <1>11, <1>12, <1>13 DEF Next

-------------------------------------------------------------------------------
LEMMA SessionInit == Init => SessionInv
<1> SUFFICES ASSUME Init PROVE SessionInv
  OBVIOUS
<1>1. TypeOK
  BY Sets, IdleIsRequest, ZeroFailures
     DEF Init, TypeOK, SessionRow, Unused, Idle
<1>2. ChangesFit
  <2>1. \A u \in User : Changing(u) = {} /\ password[u] = 0
    BY DEF Init, Changing, At, Idle
  <2>2. QED
    BY <2>1, FS_EmptySet DEF ChangesFit
<1>3. RowsOK /\ RequestsOK /\ RotationRevokesParent
  BY DEF Init, RowsOK, RequestsOK, RequestOK, RotationRevokesParent, Idle, Unused
<1>4. QED
  BY <1>1, <1>2, <1>3 DEF SessionInv

LEMMA SessionStep == SessionInv /\ [Next]_vars => SessionInv'
  BY TypeStep, RowsStep, RequestsStep, ParentsStep, ChangesStep DEF SessionInv

\* The inductive invariant, TypeOK and its strengthenings, holds in every state
\* that sign-ins, rotations, password changes, lockouts and restarts reach.
THEOREM SessionInvariant == Spec => []SessionInv
  BY SessionInit, SessionStep, PTL DEF Spec

\* AuthService's rows, counters and requests always have the types declared
\* for them; in particular a bucket of failures never reaches the limit.
THEOREM TypeCorrect == Spec => []TypeOK
<1>1. SessionInv => TypeOK
  BY DEF SessionInv
<1>2. QED
  BY <1>1, SessionInvariant, PTL

\* AuthService.refresh: whatever requests interleave, the session that paid for
\* a successor stays dead and belonged to the same account.
THEOREM RotationRevokesParentHolds == Spec => []RotationRevokesParent
<1>1. SessionInv => RotationRevokesParent
  BY DEF SessionInv
<1>2. QED
  BY <1>1, SessionInvariant, PTL

-------------------------------------------------------------------------------
\* Counting.  Each bound below adds the requests that will bring something in
\* to what was brought in already; a step that finishes such a request adds at
\* most one element to the second set and takes the request from the first.

LEMMA SetsShrink ==
  ASSUME NEW A, NEW B, NEW C \in SUBSET A, NEW D \in SUBSET B,
         IsFiniteSet(A), IsFiniteSet(B)
  PROVE  /\ Cardinality(A) \in Nat /\ Cardinality(B) \in Nat
         /\ Cardinality(C) \in Nat /\ Cardinality(D) \in Nat
         /\ Cardinality(C) + Cardinality(D) <= Cardinality(A) + Cardinality(B)
<1>1. IsFiniteSet(C) /\ Cardinality(C) <= Cardinality(A)
  BY FS_Subset
<1>2. IsFiniteSet(D) /\ Cardinality(D) <= Cardinality(B)
  BY FS_Subset
<1>3. /\ Cardinality(A) \in Nat /\ Cardinality(B) \in Nat
      /\ Cardinality(C) \in Nat /\ Cardinality(D) \in Nat
  BY <1>1, <1>2, FS_CardinalityType
<1>4. QED
  BY <1>1, <1>2, <1>3

LEMMA ElementMoves ==
  ASSUME NEW A, NEW B, NEW x, NEW w \in B,
         NEW C \in SUBSET (A \cup {x}), NEW D \in SUBSET (B \ {w}),
         IsFiniteSet(A), IsFiniteSet(B)
  PROVE  Cardinality(C) + Cardinality(D) <= Cardinality(A) + Cardinality(B)
<1>0. /\ IsFiniteSet(A \cup {x})
      /\ Cardinality(A \cup {x}) =
           IF x \in A THEN Cardinality(A) ELSE Cardinality(A) + 1
  BY FS_AddElement
<1>1. /\ IsFiniteSet(A \cup {x}) /\ Cardinality(A \cup {x}) \in Nat
      /\ Cardinality(A) \in Nat
      /\ Cardinality(A \cup {x}) <= Cardinality(A) + 1
  BY <1>0, FS_CardinalityType
<1>2. /\ IsFiniteSet(B \ {w}) /\ Cardinality(B) \in Nat
      /\ Cardinality(B \ {w}) = Cardinality(B) - 1
  BY FS_RemoveElement, FS_CardinalityType
<1>3. /\ Cardinality(C) \in Nat /\ Cardinality(D) \in Nat
      /\ Cardinality(C) + Cardinality(D)
           <= Cardinality(A \cup {x}) + Cardinality(B \ {w})
  BY <1>1, <1>2, SetsShrink
<1>4. QED
  BY <1>1, <1>2, <1>3

\* Without one of the threads, fewer than all.
LEMMA AllButOne ==
  ASSUME NEW w \in Worker, NEW D \in SUBSET (Worker \ {w})
  PROVE  Cardinality(D) \in Nat /\ Cardinality(D) < Cardinality(Worker)
<1>1. /\ IsFiniteSet(Worker \ {w}) /\ Cardinality(Worker) \in Nat
      /\ Cardinality(Worker \ {w}) = Cardinality(Worker) - 1
  BY WorkerAssumption, FS_RemoveElement, FS_CardinalityType
<1>2. Cardinality(D) \in Nat /\ Cardinality(D) <= Cardinality(Worker \ {w})
  BY <1>1, FS_Subset, FS_CardinalityType
<1>3. QED
  BY <1>1, <1>2

LEMMA SessionSubset == \A S \in SUBSET Session : IsFiniteSet(S)
<1>1. IsFiniteSet(Session)
  BY FS_Interval DEF Session
<1>2. QED
  BY <1>1, FS_Subset

-------------------------------------------------------------------------------
\* One refresh token, at most one session per thread

LEMMA RotatingStep ==
  ASSUME SessionInv, [Next]_vars, NEW s \in Session,
         ~\E w \in Worker : RefreshRead(w, s)
  PROVE  Rotating(s)' \subseteq Rotating(s)
<1> USE DEF SessionInv
<1>1. ASSUME NEW w \in Worker, NEW place \in Place \ {"idle"}, Goto(w, place),
             place \in {"user", "rotate", "issue"} /\ req[w].session = s
               => w \in Rotating(s)
      PROVE  Rotating(s)' \subseteq Rotating(s)
  BY <1>1, GotoMoves DEF Rotating
<1>2. ASSUME NEW w \in Worker, Finish(w) PROVE Rotating(s)' \subseteq Rotating(s)
  BY <1>2, FinishMoves DEF Rotating
<1>3. ASSUME NEW w \in Worker, Continue(w) PROVE Rotating(s)' \subseteq Rotating(s)
  <2>1. CASE RecordFailure(w) \/ Issue(w) \/ RefreshKill(w) \/ ChangeCommit(w)
    BY <1>2, <2>1 DEF RecordFailure, Issue, RefreshKill, ChangeCommit
  <2>2. CASE Verify(w)
    BY <1>1, <2>2 DEF Verify, Place
  <2>3. CASE Welcome(w)
    <3>1. req[w].session # s
      BY <2>3, Sets DEF Welcome, At, RequestsOK, RequestOK
    <3>2. QED
      BY <1>1, <2>3, <3>1 DEF Welcome, Place
  <2>4. CASE RefreshUser(w)
    BY <1>1, <2>4 DEF RefreshUser, Place, At, Rotating
  <2>5. CASE Rotate(w)
    BY <1>1, <2>5 DEF Rotate, Place, At, Rotating
  <2>6. QED
    BY <1>3, <2>1, <2>2, <2>3, <2>4, <2>5 DEF Continue
<1>4. ASSUME NEW w \in Worker, NEW u \in User, NEW guess \in Password,
             Login(w, u, guess)
      PROVE  Rotating(s)' \subseteq Rotating(s)
  BY <1>4 DEF Login, Rotating, TypeOK
<1>5. ASSUME NEW w \in Worker, NEW t \in Session, RefreshRead(w, t)
      PROVE  Rotating(s)' \subseteq Rotating(s)
  <2>1. t # s
    BY <1>5
  <2>2. QED
    BY <1>5, <2>1 DEF RefreshRead, Rotating, TypeOK
<1>6. ASSUME NEW w \in Worker, NEW u \in User, ChangeVerify(w, u)
      PROVE  Rotating(s)' \subseteq Rotating(s)
  BY <1>6 DEF ChangeVerify, Rotating, TypeOK
<1>7. CASE Restart
  BY <1>7 DEF Restart, Rotating, Idle
<1>8. CASE UNCHANGED req
  BY <1>8 DEF Rotating
<1>9. QED
  BY <1>3, <1>4, <1>5, <1>6, <1>7, <1>8
     DEF Next, Arrive, Logout, LogoutEverywhere, Around, SetActive,
         WindowSlides, LockoutEnds, Expire, vars

LEMMA SuccessorsStep ==
  ASSUME SessionInv, SuccessorsBounded, [Next]_vars
  PROVE  SuccessorsBounded'
<1> SUFFICES ASSUME NEW s \in Session
             PROVE  Cardinality(Successors(s)') + Cardinality(Rotating(s)')
                      <= Cardinality(Worker)
  BY DEF SuccessorsBounded
<1>1. /\ IsFiniteSet(Successors(s)) /\ IsFiniteSet(Rotating(s))
      /\ Rotating(s)' \subseteq Worker
      /\ Cardinality(Successors(s)) + Cardinality(Rotating(s))
           <= Cardinality(Worker)
  <2>1. Successors(s) \in SUBSET Session /\ Rotating(s) \in SUBSET Worker
    BY DEF Successors, Rotating
  <2>2. QED
    BY <2>1, SessionSubset, WorkerSubset DEF SuccessorsBounded, Rotating
<1>2. Cardinality(Worker) \in Nat
  BY WorkerAssumption, FS_CardinalityType
<1>3. ASSUME NEW w \in Worker, Issue(w)
      PROVE  Cardinality(Successors(s)') + Cardinality(Rotating(s)')
               <= Cardinality(Worker)
  <2>0. PICK t \in Session :
          /\ session'[t] = [state |-> "live", expired |-> FALSE,
                            owner |-> req[w].user, parent |-> req[w].session,
                            basis |-> req[w].basis]
          /\ \A x \in Session : x # t => session'[x] = session[x]
    BY <1>3, IssueAdds DEF SessionInv
  <2>1. /\ session'[t].parent = req[w].session
        /\ \A x \in Session : x # t => session'[x] = session[x]
    BY <2>0
  <2>2. req'[w].at = "idle" /\ \A v \in Worker : v # w => req'[v] = req[v]
    BY <1>3, FinishMoves DEF Issue, SessionInv
  <2>3. CASE req[w].session = s
    <3>1. w \in Rotating(s)
      BY <1>3, <2>3 DEF Issue, At, Rotating
    <3>2. /\ Rotating(s)' \subseteq Rotating(s) \ {w}
          /\ Successors(s)' \subseteq Successors(s) \cup {t}
      BY <2>1, <2>2 DEF Rotating, Successors
    <3>3. Cardinality(Successors(s)') + Cardinality(Rotating(s)')
            <= Cardinality(Successors(s)) + Cardinality(Rotating(s))
      BY <1>1, <3>1, <3>2, ElementMoves
    <3>4. IsFiniteSet(Successors(s)') /\ IsFiniteSet(Rotating(s)')
      <4>1. Successors(s)' \in SUBSET Session
        BY DEF Successors
      <4>2. QED
        BY <1>1, <4>1, SessionSubset, WorkerSubset
    <3>5. QED
      BY <1>1, <1>2, <3>3, <3>4, FS_CardinalityType
  <2>4. CASE req[w].session # s
    <3>1. /\ Rotating(s)' \subseteq Rotating(s)
          /\ Successors(s)' \subseteq Successors(s)
      BY <2>1, <2>2, <2>4 DEF Rotating, Successors
    <3>2. QED
      BY <1>1, <1>2, <3>1, SetsShrink
  <2>5. QED
    BY <2>3, <2>4
<1>4. CASE ~Issues
  <2>1. RowsAge
    BY <1>4, StepAges DEF SessionInv
  <2>2. Successors(s)' = Successors(s)
    BY <2>1 DEF RowsAge, Successors
  <2>3. ASSUME NEW w \in Worker, RefreshRead(w, s)
        PROVE  Cardinality(Successors(s)') + Cardinality(Rotating(s)')
                 <= Cardinality(Worker)
    <3>1. Successors(s) = {}
      BY <2>3, Sets DEF RefreshRead, Live, SessionInv, RotationRevokesParent,
                        Successors
    <3>2. /\ Cardinality(Rotating(s)') \in Nat
          /\ Cardinality(Rotating(s)') <= Cardinality(Worker)
      BY <1>1, WorkerSubset
    <3>3. QED
      BY <2>2, <3>1, <3>2, FS_EmptySet
  <2>4. CASE ~\E w \in Worker : RefreshRead(w, s)
    <3>1. Rotating(s)' \subseteq Rotating(s)
      BY <2>4, RotatingStep
    <3>2. Successors(s)' \in SUBSET Successors(s)
      BY <2>2
    <3>3. QED
      BY <1>1, <1>2, <3>1, <3>2, SetsShrink
  <2>5. QED
    BY <2>3, <2>4
<1>5. QED
  BY <1>3, <1>4 DEF Issues

-------------------------------------------------------------------------------
\* What survives a password change

Stale(u) == Cardinality(StaleSessions(u)) + Cardinality(StaleRequests(u))

\* A request becomes stale only by a password change; entering "welcome" and
\* "user" is checked against the current password.
LEMMA StaleRequestsStep ==
  ASSUME SessionInv, [Next]_vars, NEW u \in User, password'[u] = password[u]
  PROVE  StaleRequests(u)' \subseteq StaleRequests(u)
<1> USE DEF SessionInv
<1>1. ASSUME NEW w \in Worker, NEW place \in Place \ {"idle"}, Goto(w, place),
             (/\ place \in {"welcome", "user", "rotate", "issue"}
              /\ req[w].user = u /\ req[w].basis < password[u])
             => w \in StaleRequests(u)
      PROVE  StaleRequests(u)' \subseteq StaleRequests(u)
  BY <1>1, GotoMoves DEF StaleRequests
<1>2. ASSUME NEW w \in Worker, Finish(w)
      PROVE  StaleRequests(u)' \subseteq StaleRequests(u)
  BY <1>2, FinishMoves DEF StaleRequests
<1>3. ASSUME NEW w \in Worker, Continue(w)
      PROVE  StaleRequests(u)' \subseteq StaleRequests(u)
  <2>1. CASE RecordFailure(w) \/ Issue(w) \/ RefreshKill(w) \/ ChangeCommit(w)
    BY <1>2, <2>1 DEF RecordFailure, Issue, RefreshKill, ChangeCommit
  <2>2. CASE Verify(w)
    <3>1. password[u] \in Nat
      BY DEF TypeOK, Password
    <3>2. PICK place \in {"welcome", "fail"} :
            /\ Goto(w, place)
            /\ place = "welcome" => req[w].basis = password[req[w].user]
      BY <2>2 DEF Verify
    <3>3. place \in Place \ {"idle"} /\ place \notin {"user", "rotate", "issue"}
      BY <3>2 DEF Place
    <3>4. ~(/\ place = "welcome" /\ req[w].user = u
            /\ req[w].basis < password[u])
      BY <3>1, <3>2
    <3>5. QED
      BY <1>1, <3>2, <3>3, <3>4
  <2>3. CASE Welcome(w)
    BY <1>1, <2>3 DEF Welcome, Place, At, StaleRequests
  <2>4. CASE RefreshUser(w)
    <3>1. PICK place \in {"rotate", "kill"} : Goto(w, place)
      BY <2>4 DEF RefreshUser
    <3>2. place \in Place \ {"idle"} /\ req[w].at = "user"
      BY <2>4 DEF Place, RefreshUser, At
    <3>3. req[w].user = u /\ req[w].basis < password[u]
            => w \in StaleRequests(u)
      BY <3>2 DEF StaleRequests
    <3>4. QED
      BY <1>1, <3>1, <3>2, <3>3
  <2>5. CASE Rotate(w)
    BY <1>1, <2>5 DEF Rotate, Place, At, StaleRequests
  <2>6. QED
    BY <1>3, <2>1, <2>2, <2>3, <2>4, <2>5 DEF Continue
<1>4. ASSUME NEW w \in Worker, NEW x \in User, NEW guess \in Password,
             Login(w, x, guess)
      PROVE  StaleRequests(u)' \subseteq StaleRequests(u)
  BY <1>4 DEF Login, StaleRequests, TypeOK
<1>5. ASSUME NEW w \in Worker, NEW s \in Session, RefreshRead(w, s)
      PROVE  StaleRequests(u)' \subseteq StaleRequests(u)
  <2>1. req'[w].user = u => req'[w].basis = password[u]
    BY <1>5 DEF RefreshRead, TypeOK
  <2>2. password[u] \in Nat
    BY DEF TypeOK, Password
  <2>3. \A v \in Worker : v # w => req'[v] = req[v]
    BY <1>5 DEF RefreshRead, TypeOK
  <2>4. QED
    BY <2>1, <2>2, <2>3 DEF StaleRequests
<1>6. ASSUME NEW w \in Worker, NEW x \in User, ChangeVerify(w, x)
      PROVE  StaleRequests(u)' \subseteq StaleRequests(u)
  BY <1>6 DEF ChangeVerify, StaleRequests, TypeOK
<1>7. CASE Restart
  BY <1>7 DEF Restart, StaleRequests, Idle
<1>8. CASE UNCHANGED req
  BY <1>8 DEF StaleRequests
<1>9. QED
  BY <1>3, <1>4, <1>5, <1>6, <1>7, <1>8
     DEF Next, Arrive, Logout, LogoutEverywhere, Around, SetActive,
         WindowSlides, LockoutEnds, Expire, vars

\* Only ChangeCommit writes a password, that of its user.
LEMMA PasswordKept ==
  ASSUME SessionInv, [Next]_vars, NEW u \in User,
         ~\E w \in Worker : ChangeCommit(w) /\ req[w].user = u
  PROVE  password'[u] = password[u]
<1>1. CASE \E w \in Worker : ChangeCommit(w)
  BY <1>1 DEF ChangeCommit, SessionInv, TypeOK
<1>2. CASE ~\E w \in Worker : ChangeCommit(w)
  BY <1>2 DEF Next, Continue, Arrive, Around, Verify, RecordFailure, Welcome,
              Issue, RefreshUser, RefreshKill, Rotate, Login, RefreshRead,
              Logout, LogoutEverywhere, ChangeVerify, SetActive, WindowSlides,
              LockoutEnds, Expire, Restart, vars
<1>3. QED
  BY <1>1, <1>2

LEMMA StaleStep ==
  ASSUME SessionInv, StaleIssuesBounded, [Next]_vars
  PROVE  StaleIssuesBounded'
<1> DEFINE Bounded(u) == StaleSessions(u) \cup StaleRequests(u) # {}
                           => Stale(u) < Cardinality(Worker)
<1> SUFFICES ASSUME NEW u \in User PROVE Bounded(u)'
  BY DEF StaleIssuesBounded, Stale
<1>0. Bounded(u)
  BY DEF StaleIssuesBounded, Stale
<1>1. /\ IsFiniteSet(StaleSessions(u)) /\ IsFiniteSet(StaleRequests(u))
      /\ IsFiniteSet(StaleSessions(u)') /\ IsFiniteSet(StaleRequests(u)')
  <2>1. /\ StaleSessions(u) \in SUBSET Session
        /\ StaleRequests(u) \in SUBSET Worker
        /\ StaleSessions(u)' \in SUBSET Session
        /\ StaleRequests(u)' \in SUBSET Worker
    BY DEF StaleSessions, StaleRequests
  <2>2. QED
    BY <2>1, SessionSubset, WorkerSubset
<1>2. /\ Cardinality(Worker) \in Nat /\ Stale(u) \in Nat /\ Stale(u)' \in Nat
  BY <1>1, WorkerAssumption, FS_CardinalityType DEF Stale
\* The user's sessions are revoked with the new password, and the request that
\* installs it is none of those that will issue one.
<1>3. ASSUME NEW w \in Worker, ChangeCommit(w), req[w].user = u
      PROVE  Bounded(u)'
  <2>1. req'[w].at = "idle"
    BY <1>3, FinishMoves DEF ChangeCommit, SessionInv
  <2>2. StaleRequests(u)' \subseteq Worker \ {w}
    BY <2>1 DEF StaleRequests
  <2>3. /\ RowsAge
        /\ \A s \in Session : session[s].owner = u => session'[s].state # "live"
    BY <1>3, RevokeAges DEF ChangeCommit, SessionInv
  <2>4. StaleSessions(u)' = {}
    BY <2>3 DEF StaleSessions, Live, RowsAge
  <2>5. /\ Cardinality(StaleRequests(u)') \in Nat
        /\ Cardinality(StaleRequests(u)') < Cardinality(Worker)
    BY <2>2, AllButOne
  <2>6. Stale(u)' = Cardinality(StaleRequests(u)')
    BY <2>4, <2>5, FS_EmptySet DEF Stale
  <2>7. QED
    BY <2>5, <2>6
<1>4. CASE ~\E w \in Worker : ChangeCommit(w) /\ req[w].user = u
  <2>1. password'[u] = password[u]
    BY <1>4, PasswordKept
  <2>2. StaleRequests(u)' \subseteq StaleRequests(u)
    BY <2>1, StaleRequestsStep
  <2>3. CASE StaleSessions(u)' \subseteq StaleSessions(u)
    <3>1. Stale(u)' <= Stale(u)
      BY <1>1, <2>2, <2>3, SetsShrink DEF Stale
    <3>2. QED
      BY <1>0, <1>2, <2>2, <2>3, <3>1
  <2>4. CASE ~Issues
    <3>1. RowsAge
      BY <2>4, StepAges DEF SessionInv
    <3>2. StaleSessions(u)' \subseteq StaleSessions(u)
      BY <2>1, <3>1 DEF RowsAge, StaleSessions, Live
    <3>3. QED
      BY <2>3, <3>2
  <2>5. ASSUME NEW w \in Worker, Issue(w) PROVE Bounded(u)'
    <3>1. PICK t \in Session :
            /\ session'[t] = [state |-> "live", expired |-> FALSE,
                              owner |-> req[w].user, parent |-> req[w].session,
                              basis |-> req[w].basis]
            /\ \A x \in Session : x # t => session'[x] = session[x]
      BY <2>5, IssueAdds DEF SessionInv
    <3>2. session'[t].owner = req[w].user /\ session'[t].basis = req[w].basis
      BY <3>1
    <3>3. CASE w \in StaleRequests(u)
      <4>1. /\ StaleSessions(u)' \subseteq StaleSessions(u) \cup {t}
        BY <2>1, <3>1 DEF StaleSessions, Live
      <4>2. req'[w].at = "idle"
        BY <2>5, FinishMoves DEF Issue, SessionInv
      <4>3. StaleRequests(u)' \subseteq StaleRequests(u) \ {w}
        BY <2>2, <4>2 DEF StaleRequests
      <4>4. Stale(u)' <= Stale(u)
        BY <1>1, <3>3, <4>1, <4>3, ElementMoves DEF Stale
      <4>5. StaleSessions(u) \cup StaleRequests(u) # {}
        BY <3>3
      <4>6. QED
        BY <1>0, <1>2, <4>4, <4>5
    <3>4. CASE w \notin StaleRequests(u)
      <4>1. ~(req[w].user = u /\ req[w].basis < password[u])
        BY <2>5, <3>4 DEF StaleRequests, Issue, At
      <4>2. StaleSessions(u)' \subseteq StaleSessions(u)
        BY <2>1, <3>1, <3>2, <4>1 DEF StaleSessions, Live
      <4>3. QED
        BY <2>3, <4>2
    <3>5. QED
      BY <3>3, <3>4
  <2>6. QED
    BY <2>4, <2>5 DEF Issues
<1>5. QED
  BY <1>3, <1>4

-------------------------------------------------------------------------------
\* What is guessed during a lockout

\* Only outside a lockout does a request start to guess.
LEMMA GuessingStep ==
  ASSUME SessionInv, [Next]_vars, NEW u \in User, locked[u]
  PROVE  Guessing(u)' \subseteq Guessing(u)
<1> USE DEF SessionInv
<1>1. ASSUME NEW w \in Worker, NEW place \in Place \ {"idle"}, Goto(w, place),
             place = "fail" => req[w].at = "verify", place # "verify"
      PROVE  Guessing(u)' \subseteq Guessing(u)
  BY <1>1, GotoMoves DEF Guessing
<1>2. ASSUME NEW w \in Worker, Finish(w) PROVE Guessing(u)' \subseteq Guessing(u)
  BY <1>2, FinishMoves DEF Guessing
<1>3. ASSUME NEW w \in Worker, Continue(w) PROVE Guessing(u)' \subseteq Guessing(u)
  BY <1>1, <1>2, <1>3
     DEF Continue, Verify, RecordFailure, Welcome, Issue, RefreshUser,
         RefreshKill, Rotate, ChangeCommit, Place, At
<1>4. ASSUME NEW w \in Worker, NEW x \in User, NEW guess \in Password,
             Login(w, x, guess)
      PROVE  Guessing(u)' \subseteq Guessing(u)
  <2>1. x # u
    BY <1>4 DEF Login
  <2>2. QED
    BY <1>4, <2>1 DEF Login, Guessing, TypeOK
<1>5. ASSUME NEW w \in Worker, NEW s \in Session, RefreshRead(w, s)
      PROVE  Guessing(u)' \subseteq Guessing(u)
  BY <1>5 DEF RefreshRead, Guessing, TypeOK
<1>6. ASSUME NEW w \in Worker, NEW x \in User, ChangeVerify(w, x)
      PROVE  Guessing(u)' \subseteq Guessing(u)
  BY <1>6 DEF ChangeVerify, Guessing, TypeOK
<1>7. CASE Restart
  BY <1>7 DEF Restart, Guessing, Idle
<1>8. CASE UNCHANGED req
  BY <1>8 DEF Guessing
<1>9. QED
  BY <1>3, <1>4, <1>5, <1>6, <1>7, <1>8
     DEF Next, Arrive, Logout, LogoutEverywhere, Around, SetActive,
         WindowSlides, LockoutEnds, Expire, vars

\* Only a recorded failure fills the bucket or locks the account.
LEMMA LockoutKept ==
  ASSUME SessionInv, [Next]_vars, NEW u \in User,
         ~\E w \in Worker : RecordFailure(w) /\ req[w].user = u
  PROVE  /\ failures'[u] <= failures[u]
         /\ locked'[u] => locked[u]
<1>0. /\ failures \in [User -> 0 .. MaxAttempts - 1] /\ locked \in [User -> BOOLEAN]
      /\ failures[u] \in Nat
  BY DEF SessionInv, TypeOK
<1>1. ASSUME NEW w \in Worker, RecordFailure(w)
      PROVE  failures'[u] = failures[u] /\ locked'[u] = locked[u]
  BY <1>0, <1>1 DEF RecordFailure
<1>2. ASSUME NEW w \in Worker, Welcome(w)
      PROVE  failures'[u] <= failures[u] /\ (locked'[u] => locked[u])
  BY <1>0, <1>2 DEF Welcome
<1>3. ASSUME NEW x \in User, WindowSlides(x)
      PROVE  failures'[u] <= failures[u] /\ (locked'[u] => locked[u])
  BY <1>0, <1>3 DEF WindowSlides
<1>4. ASSUME NEW x \in User, LockoutEnds(x)
      PROVE  failures'[u] <= failures[u] /\ (locked'[u] => locked[u])
  BY <1>0, <1>4 DEF LockoutEnds
<1>5. ASSUME Restart
      PROVE  failures'[u] <= failures[u] /\ (locked'[u] => locked[u])
  <2>1. /\ failures' = [x \in User |-> 0]
        /\ locked' = [x \in User |-> FALSE]
    BY <1>5, Zenon DEF Restart
  <2>2. QED
    BY <1>0, <2>1
<1>6. ASSUME UNCHANGED <<failures, locked>>
      PROVE  failures'[u] <= failures[u] /\ (locked'[u] => locked[u])
  BY <1>0, <1>6
<1>7. ASSUME NEW w \in Worker, Continue(w)
      PROVE  failures'[u] <= failures[u] /\ (locked'[u] => locked[u])
  <2>1. CASE RecordFailure(w)
    BY <1>0, <1>1, <2>1
  <2>2. QED
    BY <1>2, <1>6, <1>7, <2>1
       DEF Continue, Verify, Issue, RefreshUser, RefreshKill, Rotate,
           ChangeCommit
<1>8. ASSUME NEW w \in Worker, Arrive(w)
      PROVE  failures'[u] <= failures[u] /\ (locked'[u] => locked[u])
  BY <1>6, <1>8
     DEF Arrive, Login, RefreshRead, Logout, LogoutEverywhere, ChangeVerify
<1>9. ASSUME Around
      PROVE  failures'[u] <= failures[u] /\ (locked'[u] => locked[u])
  BY <1>3, <1>4, <1>5, <1>6, <1>9 DEF Around, SetActive, Expire
<1>10. QED
  BY <1>6, <1>7, <1>8, <1>9 DEF Next, vars

LEMMA GuessesStep ==
  ASSUME SessionInv, GuessesPerLockout, [Next]_vars
  PROVE  GuessesPerLockout'
<1> SUFFICES ASSUME NEW u \in User, locked'[u]
             PROVE  failures'[u] + Cardinality(Guessing(u)')
                      < Cardinality(Worker)
  BY DEF GuessesPerLockout
<1>0. /\ failures[u] \in Nat /\ failures'[u] \in Nat
      /\ Cardinality(Worker) \in Nat
  BY TypeStep, WorkerAssumption, FS_CardinalityType DEF SessionInv, TypeOK
<1>1. /\ IsFiniteSet(Guessing(u)) /\ Cardinality(Guessing(u)) \in Nat
      /\ Cardinality(Guessing(u)') \in Nat
  <2>1. Guessing(u) \in SUBSET Worker /\ Guessing(u)' \in SUBSET Worker
    BY DEF Guessing
  <2>2. QED
    BY <2>1, WorkerSubset
<1>2. ASSUME NEW w \in Worker, RecordFailure(w), req[w].user = u
      PROVE  failures'[u] + Cardinality(Guessing(u)') < Cardinality(Worker)
  <2>1. req'[w].at = "idle" /\ \A v \in Worker : v # w => req'[v] = req[v]
    BY <1>2, FinishMoves DEF RecordFailure, SessionInv
  <2>2. w \in Guessing(u) /\ Guessing(u)' = Guessing(u) \ {w}
    BY <1>2, <2>1 DEF RecordFailure, At, Guessing
  <2>3. CASE failures[u] + 1 >= MaxAttempts
    <3>1. failures'[u] = 0
      BY <1>2, <2>3 DEF RecordFailure, SessionInv, TypeOK
    <3>2. Guessing(u)' \subseteq Worker \ {w}
      BY <2>2 DEF Guessing
    <3>3. QED
      BY <1>1, <3>1, <3>2, AllButOne
  <2>4. CASE ~(failures[u] + 1 >= MaxAttempts)
    <3>1. failures'[u] = failures[u] + 1 /\ locked[u]
      BY <1>2, <2>4 DEF RecordFailure, SessionInv, TypeOK
    <3>2. Cardinality(Guessing(u)') = Cardinality(Guessing(u)) - 1
      BY <1>1, <2>2, FS_RemoveElement
    <3>3. failures[u] + Cardinality(Guessing(u)) < Cardinality(Worker)
      BY <3>1 DEF GuessesPerLockout
    <3>4. QED
      BY <1>0, <1>1, <3>1, <3>2, <3>3
  <2>5. QED
    BY <2>3, <2>4
<1>3. CASE ~\E w \in Worker : RecordFailure(w) /\ req[w].user = u
  <2>1. failures'[u] <= failures[u] /\ locked[u]
    BY <1>3, LockoutKept
  <2>2. Cardinality(Guessing(u)') <= Cardinality(Guessing(u))
    BY <1>1, <2>1, GuessingStep, FS_Subset
  <2>3. failures[u] + Cardinality(Guessing(u)) < Cardinality(Worker)
    BY <2>1 DEF GuessesPerLockout
  <2>4. QED
    BY <1>0, <1>1, <2>1, <2>2, <2>3
<1>4. QED
  BY <1>2, <1>3

-------------------------------------------------------------------------------
LEMMA BoundsInit ==
  Init => SuccessorsBounded /\ StaleIssuesBounded /\ GuessesPerLockout
<1> SUFFICES ASSUME Init
             PROVE  SuccessorsBounded /\ StaleIssuesBounded /\ GuessesPerLockout
  OBVIOUS
<1>1. SuccessorsBounded
  <2>1. \A s \in Session : Successors(s) = {} /\ Rotating(s) = {}
    BY Sets DEF Init, Successors, Rotating, Unused, Idle
  <2>2. Cardinality(Worker) \in Nat
    BY WorkerAssumption, FS_CardinalityType
  <2>3. QED
    BY <2>1, <2>2, FS_EmptySet DEF SuccessorsBounded
<1>2. StaleIssuesBounded
  <2>1. \A u \in User : StaleSessions(u) = {} /\ StaleRequests(u) = {}
    BY DEF Init, StaleSessions, StaleRequests, Live, Unused, Idle
  <2>2. QED
    BY <2>1 DEF StaleIssuesBounded
<1>3. GuessesPerLockout
  BY DEF Init, GuessesPerLockout
<1>4. QED
  BY <1>1, <1>2, <1>3

\* AuthService.refresh: a refresh token buys at most one session per thread,
\* however many requests present it together.
THEOREM SuccessorsBoundedHolds == Spec => []SuccessorsBounded
<1>1. SuccessorsBounded /\ SessionInv /\ [Next]_vars => SuccessorsBounded'
  BY SuccessorsStep
<1>2. QED
  BY <1>1, BoundsInit, SessionInvariant, PTL DEF Spec

\* AuthService.change_password: fewer than one session per thread outlives a
\* password change or is brought in by a request checked before it.
THEOREM StaleIssuesBoundedHolds == Spec => []StaleIssuesBounded
<1>1. StaleIssuesBounded /\ SessionInv /\ [Next]_vars => StaleIssuesBounded'
  BY StaleStep
<1>2. QED
  BY <1>1, BoundsInit, SessionInvariant, PTL DEF Spec

\* AuthService.login: during a lockout fewer guesses than there are threads are
\* still checked or counted.
THEOREM GuessesPerLockoutHolds == Spec => []GuessesPerLockout
<1>1. GuessesPerLockout /\ SessionInv /\ [Next]_vars => GuessesPerLockout'
  BY GuessesStep
<1>2. QED
  BY <1>1, BoundsInit, SessionInvariant, PTL DEF Spec

-------------------------------------------------------------------------------
(* The browser: what its sign-in rests on *)

\* A user is signed in, or about to be: /auth/me is under way.
SignedIn == status = "authed" \/ call[Account].kind = "me"

\* /auth/me, login and logout are the one call of signIn and signOut.
PagesOnlyFetch == \A r \in Page : call[r].kind \in {"none", "page"}

\* Only signOut asks for a logout, and says so.
LogoutIsExcused == call[Account].kind = "logout" => "signout" \in excuse

\* While nothing excuses the loss of a sign-in, the cookie's session is live, or
\* the refresh that everybody shares will bring one that is: it presents the
\* cookie's, or has its successor.
SessionIsKept ==
    SignedIn /\ excuse = {} =>
        /\ refresh[Boot].pc = "none"
        /\ refreshPromise = Nil => cookie \in live
        /\ refreshPromise # Nil =>
               \/ /\ refresh[refreshPromise].pc = "sent"
                  /\ refresh[refreshPromise].cookie = cookie
                  /\ cookie \in live
               \/ /\ refresh[refreshPromise].pc = "ok"
                  /\ refresh[refreshPromise].new \in live

ClientInv ==
    /\ ClientTypeOK
    /\ OneSharedRefresh
    /\ PagesOnlyFetch
    /\ LogoutIsExcused
    /\ SessionIsKept

-------------------------------------------------------------------------------
(* Types *)

LEMMA ClientTypeInit == ClientInit => ClientTypeOK
<1> SUFFICES ASSUME ClientInit PROVE ClientTypeOK
  OBVIOUS
<1> USE LossesAssumption DEF ClientInit, ClientTypeOK, NoCall, NoRefresh,
        RefreshSent, Starter, Call
<1>1. /\ status \in {"booting", "authed", "anon"}
      /\ token \in {Nil, "good", "expired"}
      /\ cookie \in BrowserSession \cup {Nil}
      /\ refreshPromise \in Call \cup {Nil}
  OBVIOUS
<1>2. /\ live \subseteq BrowserSession
      /\ losses \in 0 .. MaxLosses
      /\ excuse \subseteq {"signout", "ended", "lost", "overlap"}
  OBVIOUS
<1>3. refresh \in [Starter -> [pc : {"none", "sent", "ok", "refused"},
                              cookie : BrowserSession \cup {Nil},
                              new : BrowserSession \cup {Nil}]]
  OBVIOUS
<1>4. call \in [Call -> [kind : {"none", "page", "login", "me", "logout"},
                        pc : {"idle", "sent", "waiting", "resent"},
                        with : {Nil, "good", "expired"},
                        on : Call \cup {Nil}]]
  OBVIOUS
<1>5. QED
  BY <1>1, <1>2, <1>3, <1>4

LEMMA ClientTypeStep ==
    ASSUME ClientTypeOK, [ClientNext]_client_vars
    PROVE  ClientTypeOK'
<1> USE LossesAssumption, ClientNames DEF ClientTypeOK
<1>1. ASSUME NEW r \in Page, Fetch(r)
      PROVE  ClientTypeOK'
  BY <1>1 DEF Fetch, Starter, Call, NoCall, Sent
<1>2. ASSUME NEW r \in Call, Answered(r)
      PROVE  ClientTypeOK'
  BY <1>2 DEF Answered, Starter, Call, NoCall, UnderWay
<1>3. ASSUME NEW r \in Call, Refused(r)
      PROVE  ClientTypeOK'
  BY <1>3 DEF Refused, Refreshable, Starter, Call, NoCall, RefreshSent, Waiting, UnderWay
<1>4. ASSUME NEW r \in Call, RefusedForGood(r)
      PROVE  ClientTypeOK'
  BY <1>4 DEF RefusedForGood, Starter, Call, NoCall, UnderWay
<1>5. ASSUME NEW p \in Starter, RefreshServed(p)
      PROVE  ClientTypeOK'
  BY <1>5 DEF RefreshServed, Starter, Call, NoCall, Unknown
<1>6. ASSUME NEW p \in Starter, RefreshAnswered(p)
      PROVE  ClientTypeOK'
  BY <1>6
  DEF RefreshAnswered, Starter, Call, NoCall, NoRefresh, BecomeAnon, Settle,
      Resumed
<1>7. ASSUME NEW p \in Starter, RefreshLost(p)
      PROVE  ClientTypeOK'
  BY <1>7
  DEF RefreshLost, Starter, Call, NoCall, NoRefresh, BecomeAnon, Settle,
      Resumed
<1>8. ASSUME BootAnswered
      PROVE  ClientTypeOK'
  BY <1>8 DEF BootAnswered, Starter, Call, NoCall, NoRefresh, BecomeAnon, Settle
<1>9. ASSUME SignIn
      PROVE  ClientTypeOK'
  BY <1>9 DEF SignIn, Starter, Call, NoCall, Sent
<1>10. ASSUME LoginAnswered
      PROVE  ClientTypeOK'
  BY <1>10 DEF LoginAnswered, Starter, Call, NoCall, Sent, Unknown
<1>11. ASSUME LoginFailed
      PROVE  ClientTypeOK'
  BY <1>11 DEF LoginFailed, Starter, Call, NoCall
<1>12. ASSUME SignOut
      PROVE  ClientTypeOK'
  BY <1>12 DEF SignOut, Starter, Call, NoCall, Sent
<1>13. ASSUME LogoutServed
      PROVE  ClientTypeOK'
  BY <1>13 DEF LogoutServed, Starter, Call, NoCall
<1>14. ASSUME LogoutEnds
      PROVE  ClientTypeOK'
  BY <1>14 DEF LogoutEnds, Starter, Call, NoCall, BecomeAnon
<1>15. ASSUME TokenExpires
      PROVE  ClientTypeOK'
  BY <1>15 DEF TokenExpires, Starter, Call, NoCall
<1>16. ASSUME SessionEnds
      PROVE  ClientTypeOK'
  BY <1>16 DEF SessionEnds, client
<1>17. CASE UNCHANGED client_vars
  BY <1>17 DEF client_vars, client, ClientTypeOK
<1>18. QED
  BY <1>1, <1>2, <1>3, <1>4, <1>5, <1>6, <1>7, <1>8, <1>9, <1>10, <1>11,
     <1>12, <1>13, <1>14, <1>15, <1>16, <1>17
  DEF ClientNext

-------------------------------------------------------------------------------
(* One refresh *)

LEMMA SharedInit == ClientInit => OneSharedRefresh
BY ClientNames DEF ClientInit, OneSharedRefresh, InFlight,
   NoCall, NoRefresh, RefreshSent, Starter

LEMMA SharedStep ==
    ASSUME ClientTypeOK, OneSharedRefresh, [ClientNext]_client_vars
    PROVE  OneSharedRefresh'
<1> USE ClientNames DEF ClientTypeOK, OneSharedRefresh, InFlight
<1>1. ASSUME NEW r \in Page, Fetch(r)
      PROVE  OneSharedRefresh'
  BY <1>1 DEF Fetch, NoCall, Sent, Starter, Call
<1>2. ASSUME NEW r \in Call, Answered(r)
      PROVE  OneSharedRefresh'
  BY <1>2 DEF Answered, NoCall, Starter, Call
<1>3. ASSUME NEW r \in Call, Refused(r)
      PROVE  OneSharedRefresh'
  BY <1>3 DEF Refused, Refreshable, NoCall, RefreshSent, Waiting, Starter, Call
<1>4. ASSUME NEW r \in Call, RefusedForGood(r)
      PROVE  OneSharedRefresh'
  BY <1>4 DEF RefusedForGood, NoCall, Starter, Call
<1>5. ASSUME NEW p \in Starter, RefreshServed(p)
      PROVE  OneSharedRefresh'
  BY <1>5 DEF RefreshServed, NoCall, Starter, Call
<1>6. ASSUME NEW p \in Starter, RefreshAnswered(p)
      PROVE  OneSharedRefresh'
  BY <1>6
  DEF RefreshAnswered, NoCall, NoRefresh, BecomeAnon, Settle, Resumed, Starter,
      Call
<1>7. ASSUME NEW p \in Starter, RefreshLost(p)
      PROVE  OneSharedRefresh'
  BY <1>7
  DEF RefreshLost, NoCall, NoRefresh, BecomeAnon, Settle, Resumed, Starter,
      Call
<1>8. ASSUME BootAnswered
      PROVE  OneSharedRefresh'
  BY <1>8 DEF BootAnswered, NoCall, NoRefresh, BecomeAnon, Settle, Starter, Call
<1>9. ASSUME SignIn
      PROVE  OneSharedRefresh'
  BY <1>9 DEF SignIn, NoCall, Sent, Starter, Call
<1>10. ASSUME LoginAnswered
      PROVE  OneSharedRefresh'
  BY <1>10 DEF LoginAnswered, NoCall, Sent, Starter, Call
<1>11. ASSUME LoginFailed
      PROVE  OneSharedRefresh'
  BY <1>11 DEF LoginFailed, NoCall, Starter, Call
<1>12. ASSUME SignOut
      PROVE  OneSharedRefresh'
  BY <1>12 DEF SignOut, NoCall, Sent, Starter, Call
<1>13. ASSUME LogoutServed
      PROVE  OneSharedRefresh'
  BY <1>13 DEF LogoutServed, NoCall, Starter, Call
<1>14. ASSUME LogoutEnds
      PROVE  OneSharedRefresh'
  BY <1>14 DEF LogoutEnds, NoCall, BecomeAnon, Starter, Call
<1>15. ASSUME TokenExpires
      PROVE  OneSharedRefresh'
  BY <1>15 DEF TokenExpires, NoCall, Starter, Call
<1>16. ASSUME SessionEnds
      PROVE  OneSharedRefresh'
  BY <1>16 DEF SessionEnds, client
<1>17. CASE UNCHANGED client_vars
  BY <1>17 DEF client_vars, client, NoCall
<1>18. QED
  BY <1>1, <1>2, <1>3, <1>4, <1>5, <1>6, <1>7, <1>8, <1>9, <1>10, <1>11,
     <1>12, <1>13, <1>14, <1>15, <1>16, <1>17
  DEF ClientNext

-------------------------------------------------------------------------------
(* Signing out *)

LEMMA PagesOnlyFetchStep ==
    ASSUME ClientTypeOK, PagesOnlyFetch, [ClientNext]_client_vars
    PROVE  PagesOnlyFetch'
<1> USE ClientNames DEF ClientTypeOK, PagesOnlyFetch, Call
<1>1. ASSUME NEW r \in Page, Fetch(r)
      PROVE  PagesOnlyFetch'
  BY <1>1 DEF Fetch, NoCall, Sent
<1>2. ASSUME NEW r \in Call, Answered(r)
      PROVE  PagesOnlyFetch'
  BY <1>2 DEF Answered, NoCall
<1>3. ASSUME NEW r \in Call, Refused(r)
      PROVE  PagesOnlyFetch'
  BY <1>3 DEF Refused, Refreshable, NoCall, Waiting
<1>4. ASSUME NEW r \in Call, RefusedForGood(r)
      PROVE  PagesOnlyFetch'
  BY <1>4 DEF RefusedForGood, NoCall
<1>5. ASSUME NEW p \in Starter, RefreshServed(p)
      PROVE  PagesOnlyFetch'
  BY <1>5 DEF RefreshServed, NoCall
<1>6. ASSUME NEW p \in Starter, RefreshAnswered(p)
      PROVE  PagesOnlyFetch'
  BY <1>6 DEF RefreshAnswered, NoCall, Resumed
<1>7. ASSUME NEW p \in Starter, RefreshLost(p)
      PROVE  PagesOnlyFetch'
  BY <1>7 DEF RefreshLost, NoCall, Resumed
<1>8. ASSUME BootAnswered
      PROVE  PagesOnlyFetch'
  BY <1>8 DEF BootAnswered, NoCall
<1>9. ASSUME SignIn
      PROVE  PagesOnlyFetch'
  BY <1>9 DEF SignIn, NoCall, Sent
<1>10. ASSUME LoginAnswered
      PROVE  PagesOnlyFetch'
  BY <1>10 DEF LoginAnswered, NoCall, Sent
<1>11. ASSUME LoginFailed
      PROVE  PagesOnlyFetch'
  BY <1>11 DEF LoginFailed, NoCall
<1>12. ASSUME SignOut
      PROVE  PagesOnlyFetch'
  BY <1>12 DEF SignOut, NoCall, Sent
<1>13. ASSUME LogoutServed
      PROVE  PagesOnlyFetch'
  BY <1>13 DEF LogoutServed, NoCall
<1>14. ASSUME LogoutEnds
      PROVE  PagesOnlyFetch'
  BY <1>14 DEF LogoutEnds, NoCall
<1>15. ASSUME TokenExpires
      PROVE  PagesOnlyFetch'
  BY <1>15 DEF TokenExpires, NoCall
<1>16. ASSUME SessionEnds
      PROVE  PagesOnlyFetch'
  BY <1>16 DEF SessionEnds, client
<1>17. CASE UNCHANGED client_vars
  BY <1>17 DEF client_vars, client, NoCall
<1>18. QED
  BY <1>1, <1>2, <1>3, <1>4, <1>5, <1>6, <1>7, <1>8, <1>9, <1>10, <1>11,
     <1>12, <1>13, <1>14, <1>15, <1>16, <1>17
  DEF ClientNext

LEMMA LogoutIsExcusedStep ==
    ASSUME ClientTypeOK, LogoutIsExcused, [ClientNext]_client_vars
    PROVE  LogoutIsExcused'
<1> USE ClientNames DEF ClientTypeOK, LogoutIsExcused, Call
<1>1. ASSUME NEW r \in Page, Fetch(r)
      PROVE  LogoutIsExcused'
  BY <1>1 DEF Fetch, NoCall, Sent
<1>2. ASSUME NEW r \in Call, Answered(r)
      PROVE  LogoutIsExcused'
  BY <1>2 DEF Answered, NoCall
<1>3. ASSUME NEW r \in Call, Refused(r)
      PROVE  LogoutIsExcused'
  BY <1>3 DEF Refused, Refreshable, NoCall, Waiting
<1>4. ASSUME NEW r \in Call, RefusedForGood(r)
      PROVE  LogoutIsExcused'
  BY <1>4 DEF RefusedForGood, NoCall
<1>5. ASSUME NEW p \in Starter, RefreshServed(p)
      PROVE  LogoutIsExcused'
  BY <1>5 DEF RefreshServed, NoCall
<1>6. ASSUME NEW p \in Starter, RefreshAnswered(p)
      PROVE  LogoutIsExcused'
  BY <1>6 DEF RefreshAnswered, NoCall, Resumed
<1>7. ASSUME NEW p \in Starter, RefreshLost(p)
      PROVE  LogoutIsExcused'
  BY <1>7 DEF RefreshLost, NoCall, Resumed
<1>8. ASSUME BootAnswered
      PROVE  LogoutIsExcused'
  BY <1>8 DEF BootAnswered, NoCall
<1>9. ASSUME SignIn
      PROVE  LogoutIsExcused'
  BY <1>9 DEF SignIn, NoCall, Sent
<1>10. ASSUME LoginAnswered
      PROVE  LogoutIsExcused'
  BY <1>10 DEF LoginAnswered, NoCall, Sent
<1>11. ASSUME LoginFailed
      PROVE  LogoutIsExcused'
  BY <1>11 DEF LoginFailed, NoCall
<1>12. ASSUME SignOut
      PROVE  LogoutIsExcused'
  BY <1>12 DEF SignOut, NoCall, Sent
<1>13. ASSUME LogoutServed
      PROVE  LogoutIsExcused'
  BY <1>13 DEF LogoutServed, NoCall
<1>14. ASSUME LogoutEnds
      PROVE  LogoutIsExcused'
  BY <1>14 DEF LogoutEnds, NoCall
<1>15. ASSUME TokenExpires
      PROVE  LogoutIsExcused'
  BY <1>15 DEF TokenExpires, NoCall
<1>16. ASSUME SessionEnds
      PROVE  LogoutIsExcused'
  BY <1>16 DEF SessionEnds, client
<1>17. CASE UNCHANGED client_vars
  BY <1>17 DEF client_vars, client, NoCall
<1>18. QED
  BY <1>1, <1>2, <1>3, <1>4, <1>5, <1>6, <1>7, <1>8, <1>9, <1>10, <1>11,
     <1>12, <1>13, <1>14, <1>15, <1>16, <1>17
  DEF ClientNext

-------------------------------------------------------------------------------
(* The session *)

LEMMA SessionIsKeptStep ==
    ASSUME ClientInv, [ClientNext]_client_vars
    PROVE  SessionIsKept'
<1> USE ClientNames DEF ClientInv, ClientTypeOK, OneSharedRefresh, InFlight,
        PagesOnlyFetch, LogoutIsExcused, SessionIsKept, SignedIn, Starter, Call
<1>1. ASSUME NEW r \in Page, Fetch(r)
      PROVE  SessionIsKept'
  BY <1>1 DEF Fetch, NoCall, Sent
<1>2. ASSUME NEW r \in Call, Answered(r)
      PROVE  SessionIsKept'
  BY <1>2 DEF Answered, NoCall, UnderWay
<1>3. ASSUME NEW r \in Call, Refused(r)
      PROVE  SessionIsKept'
  BY <1>3 DEF Refused, Refreshable, NoCall, RefreshSent, Waiting, UnderWay
<1>4. ASSUME NEW r \in Call, RefusedForGood(r)
      PROVE  SessionIsKept'
  BY <1>4 DEF RefusedForGood, NoCall, UnderWay
<1>5. ASSUME NEW p \in Starter, RefreshServed(p)
      PROVE  SessionIsKept'
  BY <1>5 DEF RefreshServed, NoCall, Held, Unknown
<1>6. ASSUME NEW p \in Starter, RefreshAnswered(p)
      PROVE  SessionIsKept'
  BY <1>6
  DEF RefreshAnswered, NoCall, NoRefresh, BecomeAnon, Settle, Resumed, Held
<1>7. ASSUME NEW p \in Starter, RefreshLost(p)
      PROVE  SessionIsKept'
  BY <1>7 DEF RefreshLost, NoCall, NoRefresh, BecomeAnon, Settle, Resumed, Held
<1>8. ASSUME BootAnswered
      PROVE  SessionIsKept'
  BY <1>8 DEF BootAnswered, NoCall, NoRefresh, BecomeAnon, Settle, Held
<1>9. ASSUME SignIn
      PROVE  SessionIsKept'
  BY <1>9 DEF SignIn, NoCall, Sent
<1>10. ASSUME LoginAnswered
      PROVE  SessionIsKept'
  BY <1>10 DEF LoginAnswered, NoCall, Sent, Held, Unknown
<1>11. ASSUME LoginFailed
      PROVE  SessionIsKept'
  BY <1>11 DEF LoginFailed, NoCall
<1>12. ASSUME SignOut
      PROVE  SessionIsKept'
  BY <1>12 DEF SignOut, NoCall, Sent
<1>13. ASSUME LogoutServed
      PROVE  SessionIsKept'
  BY <1>13 DEF LogoutServed, NoCall
<1>14. ASSUME LogoutEnds
      PROVE  SessionIsKept'
  BY <1>14 DEF LogoutEnds, NoCall, BecomeAnon
<1>15. ASSUME TokenExpires
      PROVE  SessionIsKept'
  BY <1>15 DEF TokenExpires, NoCall
<1>16. ASSUME SessionEnds
      PROVE  SessionIsKept'
  BY <1>16 DEF SessionEnds, client
<1>17. CASE UNCHANGED client_vars
  BY <1>17 DEF client_vars, client, NoCall
<1>18. QED
  BY <1>1, <1>2, <1>3, <1>4, <1>5, <1>6, <1>7, <1>8, <1>9, <1>10, <1>11,
     <1>12, <1>13, <1>14, <1>15, <1>16, <1>17
  DEF ClientNext

-------------------------------------------------------------------------------

\* What holds in every state of the client.
THEOREM ClientInvHolds == ClientSpec => []ClientInv
<1>1. ClientInit => ClientInv
  <2> SUFFICES ASSUME ClientInit PROVE ClientInv
    OBVIOUS
  <2>1. PagesOnlyFetch /\ LogoutIsExcused /\ SessionIsKept
    BY ClientNames
    DEF ClientInit, PagesOnlyFetch, LogoutIsExcused, SessionIsKept, SignedIn,
        NoCall, Call
  <2>2. QED
    BY <2>1, ClientTypeInit, SharedInit DEF ClientInv
<1>2. ClientInv /\ [ClientNext]_client_vars => ClientInv'
  BY ClientTypeStep, SharedStep, PagesOnlyFetchStep, LogoutIsExcusedStep,
     SessionIsKeptStep
  DEF ClientInv
<1>3. QED
  BY <1>1, <1>2, PTL DEF ClientSpec

\* api.js, authFetch: one refresh at a time for all calls, and nobody waits for
\* one that is over.
THEOREM RefreshesAreShared == ClientSpec => []OneSharedRefresh
<1>1. ClientInv => OneSharedRefresh
  BY DEF ClientInv
<1>2. QED
  BY <1>1, ClientInvHolds, PTL

\* The steps that end a sign-in.
LEMMA SignInIsLostWithExcuse ==
    ASSUME ClientInv, ClientNext, status = "authed", status' = "anon"
    PROVE  excuse' # {}
<1> USE ClientNames DEF ClientInv, ClientTypeOK, OneSharedRefresh, InFlight,
        PagesOnlyFetch, LogoutIsExcused, SessionIsKept, SignedIn, Starter, Call
<1>1. ASSUME NEW r \in Page, Fetch(r)
      PROVE  excuse' # {}
  BY <1>1 DEF Fetch, NoCall, Sent
<1>2. ASSUME NEW r \in Call, Answered(r)
      PROVE  excuse' # {}
  BY <1>2 DEF Answered, NoCall, UnderWay
<1>3. ASSUME NEW r \in Call, Refused(r)
      PROVE  excuse' # {}
  BY <1>3 DEF Refused, Refreshable, NoCall, RefreshSent, Waiting, UnderWay
<1>4. ASSUME NEW r \in Call, RefusedForGood(r)
      PROVE  excuse' # {}
  BY <1>4 DEF RefusedForGood, NoCall, UnderWay
<1>5. ASSUME NEW p \in Starter, RefreshServed(p)
      PROVE  excuse' # {}
  BY <1>5 DEF RefreshServed, NoCall
<1>6. ASSUME NEW p \in Starter, RefreshAnswered(p)
      PROVE  excuse' # {}
  BY <1>6 DEF RefreshAnswered, NoCall, NoRefresh, BecomeAnon, Settle
<1>7. ASSUME NEW p \in Starter, RefreshLost(p)
      PROVE  excuse' # {}
  BY <1>7 DEF RefreshLost, NoCall, NoRefresh, BecomeAnon, Settle
<1>8. ASSUME BootAnswered
      PROVE  excuse' # {}
  BY <1>8 DEF BootAnswered, NoCall, NoRefresh, BecomeAnon, Settle
<1>9. ASSUME SignIn
      PROVE  excuse' # {}
  BY <1>9 DEF SignIn, NoCall, Sent
<1>10. ASSUME LoginAnswered
      PROVE  excuse' # {}
  BY <1>10 DEF LoginAnswered, NoCall, Sent
<1>11. ASSUME LoginFailed
      PROVE  excuse' # {}
  BY <1>11 DEF LoginFailed, NoCall
<1>12. ASSUME SignOut
      PROVE  excuse' # {}
  BY <1>12 DEF SignOut, NoCall, Sent
<1>13. ASSUME LogoutServed
      PROVE  excuse' # {}
  BY <1>13 DEF LogoutServed, NoCall
<1>14. ASSUME LogoutEnds
      PROVE  excuse' # {}
  BY <1>14 DEF LogoutEnds, NoCall, BecomeAnon
<1>15. ASSUME TokenExpires
      PROVE  excuse' # {}
  BY <1>15 DEF TokenExpires, NoCall
<1>16. ASSUME SessionEnds
      PROVE  excuse' # {}
  BY <1>16 DEF SessionEnds, client
<1>17. CASE UNCHANGED client_vars
  BY <1>17 DEF client_vars, client, NoCall
<1>18. QED
  BY <1>1, <1>2, <1>3, <1>4, <1>5, <1>6, <1>7, <1>8, <1>9, <1>10, <1>11,
     <1>12, <1>13, <1>14, <1>15, <1>16, <1>17
  DEF ClientNext

\* api.js, auth.jsx: a sign-in ends by sign-out or at the backend, or after a
\* lost or an overlapping refresh, never by the order in which calls find their
\* token expired.
THEOREM SignInsStand == ClientSpec => StaysSignedIn
<1>1. ClientInv /\ [ClientNext]_client_vars =>
        [status = "authed" /\ status' = "anon" => excuse' # {}]_client_vars
  BY SignInIsLostWithExcuse
<1>2. QED
  BY <1>1, ClientInvHolds, PTL DEF ClientSpec, StaysSignedIn

-------------------------------------------------------------------------------
(* Accounts: the last administrator *)

USE BootstrapAssumption, NameAssumption, AdminThreadAssumption, NullAssumption

LEMMA FreeIsInquiry == Free \in Inquiry
  BY DEF Free, Inquiry, Phase, Keep, Wish, UserRow, NoAccount

LEMMA MovedInquiry ==
  ASSUME NEW r \in Inquiry, NEW place \in Phase
  PROVE  [r EXCEPT !.at = place] \in Inquiry
  BY DEF Inquiry

\* Whether a worker moves on or is done, req keeps its type.
LEMMA MoveType ==
  ASSUME AdminTypeOK, NEW w \in Thread, NEW place \in Phase, Move(w, place)
  PROVE  /\ ask' \in [Thread -> Inquiry]
         /\ \A v \in Thread : /\ v # w => ask'[v] = ask[v]
                              /\ ask'[v].target = ask[v].target
         /\ ask'[w].at = place
<1>1. ask' = [ask EXCEPT ![w] = [ask[w] EXCEPT !.at = place]]
  BY DEF Move
<1>2. ask[w] \in Inquiry /\ [ask[w] EXCEPT !.at = place] \in Inquiry
  BY MovedInquiry DEF AdminTypeOK
<1>3. [ask[w] EXCEPT !.at = place].target = ask[w].target
  BY <1>2 DEF Inquiry
<1>4. [ask[w] EXCEPT !.at = place].at = place
  BY <1>2 DEF Inquiry
<1>5. QED
  BY <1>1, <1>2, <1>3, <1>4 DEF AdminTypeOK

LEMMA AnswerType ==
  ASSUME AdminTypeOK, NEW w \in Thread, Answer(w)
  PROVE  /\ ask' \in [Thread -> Inquiry]
         /\ \A v \in Thread : v # w => ask'[v] = ask[v]
         /\ ask'[w] = Free /\ ask'[w].at = "idle"
  BY FreeIsInquiry DEF Answer, AdminTypeOK, Free

\* The type invariant is preserved by every step.
LEMMA AdminTypeStep == AdminTypeOK /\ [AdminNext]_admin_vars => AdminTypeOK'
<1> SUFFICES ASSUME AdminTypeOK, [AdminNext]_admin_vars PROVE AdminTypeOK'
  OBVIOUS
<1> DEFINE Targeted == {"insert", "target", "count", "write"}
           ReqOK == /\ ask \in [Thread -> Inquiry]
                    /\ \A w \in Thread :
                         ask[w].at \in Targeted => ask[w].target \in Name
                    /\ \A w \in Thread :
                         ask[w].at = "insert root" => root # Null
<1>0. ASSUME NEW w \in Thread, Answer(w), UNCHANGED root PROVE ReqOK'
  BY <1>0, AnswerType DEF AdminTypeOK
<1>1. ASSUME NEW w \in Thread, Build(w) PROVE AdminTypeOK'
  BY <1>1, MoveType DEF Build, AdminTypeOK, Phase
<1>2. ASSUME NEW w \in Thread, CountUsers(w) PROVE AdminTypeOK'
  BY <1>0, <1>2, MoveType DEF CountUsers, AdminTypeOK, Phase
<1>3. ASSUME NEW w \in Thread, InsertRoot(w) PROVE AdminTypeOK'
  <2>1. account' \in [Name -> UserRow]
    BY <1>3 DEF InsertRoot, In, AdminTypeOK, UserRow, Role
  <2>2. QED
    BY <1>0, <1>3, <2>1 DEF InsertRoot, AdminTypeOK
<1>4. ASSUME NEW w \in Thread, NEW u \in Name, Register(w, u) PROVE AdminTypeOK'
  <2> DEFINE r == [Free EXCEPT !.at = "insert", !.target = u]
  <2>1. r \in Inquiry /\ r.target = u /\ r.at = "insert"
    BY DEF Free, Inquiry, Phase, Keep, Wish, UserRow, NoAccount
  <2>2. ask' = [ask EXCEPT ![w] = r]
    BY <1>4 DEF Register
  <2>3. QED
    BY <1>4, <2>1, <2>2 DEF Register, AdminTypeOK
<1>5. ASSUME NEW w \in Thread, InsertUser(w) PROVE AdminTypeOK'
  <2>1. account' \in [Name -> UserRow]
    BY <1>5 DEF InsertUser, AdminTypeOK, UserRow, Role
  <2>2. QED
    BY <1>0, <1>5, <2>1 DEF InsertUser, AdminTypeOK
<1>6. ASSUME NEW w \in AdminThread, NEW a \in Name, NEW t \in Name,
             NEW role \in Role \cup {Keep}, NEW enable \in Wish,
             Patch(w, a, t, role, enable)
      PROVE  AdminTypeOK'
  <2> DEFINE r == [at |-> "target", actor |-> a, target |-> t, role |-> role,
                   active |-> enable, row |-> NoAccount]
  <2>1. r \in Inquiry /\ r.target = t /\ r.at = "target"
    BY DEF Inquiry, Phase, UserRow, NoAccount
  <2>2. QED
    BY <1>6, <2>1 DEF Patch, AdminTypeOK
<1>7. ASSUME NEW w \in Thread, ReadTarget(w) PROVE AdminTypeOK'
  <2>1. CASE Exists(ask[w].target)
    <3> DEFINE r == [ask[w] EXCEPT !.at = "count",
                                   !.row = account[ask[w].target]]
    <3>1. /\ ask[w].target \in Name /\ ask[w] \in Inquiry
          /\ account[ask[w].target] \in UserRow
      BY <1>7 DEF ReadTarget, In, AdminTypeOK
    <3>2. r \in Inquiry /\ r.target = ask[w].target /\ r.at = "count"
      BY <3>1 DEF Inquiry, Phase
    <3>3. ask' = [ask EXCEPT ![w] = r]
      BY <1>7, <2>1 DEF ReadTarget
    <3>4. QED
      BY <1>7, <3>1, <3>2, <3>3 DEF ReadTarget, AdminTypeOK
  <2>2. CASE ~Exists(ask[w].target)
    BY <1>0, <1>7, <2>2 DEF ReadTarget, AdminTypeOK
  <2>3. QED
    BY <2>1, <2>2
<1>8. ASSUME NEW w \in Thread, CountAdmins(w) PROVE AdminTypeOK'
  <2>1. changed' \in [Thread -> SUBSET Name]
    BY <1>8 DEF CountAdmins, AdminTypeOK
  <2>2. QED
    BY <1>0, <1>8, <2>1, MoveType DEF CountAdmins, AdminTypeOK, Phase, In
<1>9. ASSUME NEW w \in Thread, WriteAccount(w) PROVE AdminTypeOK'
  <2>1. ask[w] \in Inquiry
    BY DEF AdminTypeOK
  <2>2. account' \in [Name -> UserRow]
    BY <1>9, <2>1
    DEF WriteAccount, AdminTypeOK, UserRow, Role, Inquiry, Wish, Keep
  <2>3. ask[w].target \in Name
    BY <1>9 DEF WriteAccount, In, AdminTypeOK
  <2>4. changed' \in [Thread -> SUBSET Name]
    BY <1>9, <2>3 DEF WriteAccount, Overtakes, AdminTypeOK
  <2>5. QED
    BY <1>0, <1>9, <2>2, <2>4 DEF WriteAccount, AdminTypeOK
<1>10. ASSUME ServerRestart PROVE AdminTypeOK'
  <2>1. ReqOK'
    BY <1>10, FreeIsInquiry DEF ServerRestart, Free
  <2>2. QED
    BY <1>10, <2>1 DEF ServerRestart, AdminTypeOK
<1>11. CASE UNCHANGED admin_vars
  BY <1>11 DEF admin_vars, AdminTypeOK
<1>12. QED
  BY <1>1, <1>2, <1>3, <1>4, <1>5, <1>6, <1>7, <1>8, <1>9, <1>10, <1>11
  DEF AdminNext, Serve

LEMMA AdminTypeInit == AdminInit => AdminTypeOK
<1>1. NoAccount \in UserRow /\ Free.at = "idle"
  BY DEF NoAccount, UserRow, Free
<1>2. QED
  BY <1>1, FreeIsInquiry DEF AdminInit, AdminTypeOK

-------------------------------------------------------------------------------
(***************************************************************************)
(* The inductive invariant, for any number of threads: an account that was *)
(* there stays, and what a PATCH has seen is still so if no other UPDATE   *)
(* overtook it.  The row it read is then the row it will overwrite, and    *)
(* the UPDATE it is about to make leaves an active administrator behind.   *)
(***************************************************************************)
Patching(w) == ask[w].at \in {"target", "count", "write"}
HasRow(w) == ask[w].at \in {"count", "write"}

\* The request leaves its target what it is, if that is an active admin.
Harmless(r) == r.role \in {Keep, "admin"} /\ r.active # "disable"

\* Somebody is left to administer the service once w has written.
LeavesAnAdmin(w) ==
    ActiveAdmins # {}
      => \E u \in Name : IsActiveAdmin(u) /\ (u # ask[w].target \/ Harmless(ask[w]))

SeenRow(w) ==
    HasRow(w) => /\ Exists(ask[w].target) /\ ask[w].row.role # "none"
                 /\ \/ ask[w].target \in changed[w]
                    \/ ask[w].row = account[ask[w].target]

SeenCount(w) == In(w, "write") /\ changed[w] = {} => LeavesAnAdmin(w)

PatchInv ==
    \A w \in Thread :
        /\ Patching(w) => w \in AdminThread
        /\ SeenRow(w)
        /\ SeenCount(w)

AdminInv == AdminTypeOK /\ PatchInv

\* What a step other than WriteAccount leaves as it is.
Grows == \A u \in Name : Exists(u) => account'[u] = account[u]

LEMMA GrowsKeepsAdmins ==
  ASSUME Grows, ActiveAdmins # {}
  PROVE  ActiveAdmins' # {}
<1>1. PICK u \in Name : IsActiveAdmin(u)
  BY DEF ActiveAdmins
<1>2. IsActiveAdmin(u)'
  BY <1>1 DEF IsActiveAdmin, Grows, Exists
<1>3. QED
  BY <1>2 DEF ActiveAdmins

\* What a request that is not touched knows survives a step that only adds
\* accounts: the account it is about was there before.
LEMMA GrowsKeepsSeen ==
  ASSUME AdminInv, Grows, NEW w \in Thread,
         Patching(w)' => ask'[w] = ask[w] /\ changed'[w] = changed[w]
  PROVE  (Patching(w) => w \in AdminThread)' /\ SeenRow(w)' /\ SeenCount(w)'
<1> USE DEF AdminInv
<1> SUFFICES ASSUME Patching(w)'
             PROVE  w \in AdminThread /\ SeenRow(w)' /\ SeenCount(w)'
  BY DEF SeenRow, SeenCount, HasRow, Patching, In
<1>1. ask'[w] = ask[w] /\ changed'[w] = changed[w] /\ Patching(w)
  BY DEF Patching
<1>2. ask[w].target \in Name /\ SeenRow(w) /\ SeenCount(w)
  BY <1>1 DEF AdminTypeOK, Patching, PatchInv
<1>3. SeenRow(w)'
  BY <1>1, <1>2 DEF SeenRow, HasRow, Grows, Exists
<1>4. ASSUME In(w, "write"), changed[w] = {}, ActiveAdmins' # {}
      PROVE  \E u \in Name : /\ IsActiveAdmin(u)'
                             /\ u # ask[w].target \/ Harmless(ask[w])
  <2>1. CASE ActiveAdmins # {}
    <3>1. PICK u \in Name : /\ IsActiveAdmin(u)
                            /\ u # ask[w].target \/ Harmless(ask[w])
      BY <1>2, <1>4, <2>1 DEF SeenCount, LeavesAnAdmin
    <3>2. IsActiveAdmin(u)'
      BY <3>1 DEF IsActiveAdmin, Grows, Exists
    <3>3. QED
      BY <3>1, <3>2
  <2>2. CASE ActiveAdmins = {}
    <3>1. PICK u \in Name : IsActiveAdmin(u)'
      BY <1>4 DEF ActiveAdmins
    <3>2. ~IsActiveAdmin(u) /\ Exists(ask[w].target)
      BY <1>2, <1>4, <2>2 DEF ActiveAdmins, SeenRow, HasRow, In
    <3>3. u # ask[w].target
      BY <3>1, <3>2 DEF Grows, IsActiveAdmin, Exists
    <3>4. QED
      BY <3>1, <3>3
  <2>3. QED
    BY <2>1, <2>2
<1>5. SeenCount(w)'
  BY <1>1, <1>4 DEF SeenCount, LeavesAnAdmin, In, Harmless
<1>6. QED
  BY <1>1, <1>3, <1>5 DEF PatchInv

LEMMA GrowsKeepsPatchInv ==
  ASSUME AdminInv, Grows,
         \A w \in Thread :
            Patching(w)' => ask'[w] = ask[w] /\ changed'[w] = changed[w]
  PROVE  PatchInv'
<1>1. ASSUME NEW w \in Thread
      PROVE  (Patching(w) => w \in AdminThread)' /\ SeenRow(w)' /\ SeenCount(w)'
  BY GrowsKeepsSeen
<1>2. QED
  BY <1>1 DEF PatchInv

\* An administrator beside the target, once the safety rules let a dangerous
\* request pass: it rests on counting the active administrators.
LEMMA NotRefusedIsSafe ==
  ASSUME AdminTypeOK, NEW r \in Inquiry, r.target \in Name,
         r.row = account[r.target], ActiveAdmins # {}, ~PatchRefused(r)
  PROVE  \E u \in Name : IsActiveAdmin(u) /\ (u # r.target \/ Harmless(r))
<1> SUFFICES ASSUME \A u \in Name : IsActiveAdmin(u) =>
                       u = r.target /\ ~Harmless(r)
             PROVE  FALSE
  OBVIOUS
<1>1. ActiveAdmins = {r.target} /\ ~Harmless(r)
  BY DEF ActiveAdmins
<1>2. Cardinality(ActiveAdmins) = 1
  BY <1>1, FS_Singleton
<1>3. r.row.role = "admin"
  BY <1>1 DEF ActiveAdmins, IsActiveAdmin
<1>4. r.role \notin {Keep, "admin"} \/ r.active = "disable"
  BY <1>1 DEF Harmless
<1>5. QED
  BY <1>2, <1>3, <1>4 DEF PatchRefused

\* The UPDATE of a request that nobody overtook, and that its count let pass,
\* leaves an active administrator.
LEMMA FreshWriteLeavesAnAdmin ==
  ASSUME AdminInv, NEW w \in Thread, WriteAccount(w), changed[w] = {},
         ActiveAdmins # {}
  PROVE  ActiveAdmins' # {}
<1> USE DEF AdminInv
<1> DEFINE r == ask[w]
<1>1. r \in Inquiry /\ r.target \in Name /\ r.row = account[r.target]
  BY DEF WriteAccount, In, AdminTypeOK, PatchInv, SeenRow, HasRow
<1>2. PICK u \in Name : IsActiveAdmin(u) /\ (u # r.target \/ Harmless(r))
  BY DEF WriteAccount, PatchInv, SeenCount, LeavesAnAdmin
<1>3. IsActiveAdmin(u)'
  <2>1. CASE u # r.target
    BY <1>2, <2>1 DEF WriteAccount, IsActiveAdmin, AdminTypeOK
  <2>2. CASE u = r.target /\ Harmless(r)
    <3>1. r.active \in {"enable", Keep}
      BY <1>1, <2>2 DEF Harmless, Inquiry, Wish
    <3>2. account'[u].role = "admin"
      BY <1>1, <1>2, <2>2 DEF WriteAccount, IsActiveAdmin, AdminTypeOK, Harmless
    <3>3. account'[u].active
      BY <1>1, <1>2, <2>2, <3>1
      DEF WriteAccount, IsActiveAdmin, AdminTypeOK, Keep
    <3>4. QED
      BY <3>2, <3>3 DEF IsActiveAdmin
  <2>3. QED
    BY <1>2, <2>1, <2>2
<1>4. QED
  BY <1>3 DEF ActiveAdmins

LEMMA AdminInvInit == AdminInit => AdminInv
  BY AdminTypeInit
  DEF AdminInit, AdminInv, PatchInv, Patching, SeenRow, SeenCount, HasRow, In,
      Free

LEMMA AdminStep ==
  ASSUME AdminInv, [AdminNext]_admin_vars
  PROVE  PatchInv'
<1> USE DEF AdminInv
<1>1. ASSUME NEW w \in Thread,
             Build(w) \/ CountUsers(w) \/ InsertRoot(w) \/ InsertUser(w)
      PROVE  PatchInv'
  <2>1. Grows
    BY <1>1
    DEF Build, CountUsers, InsertRoot, InsertUser, Grows, Exists, AdminTypeOK
  <2>2. \A v \in Thread : Patching(v)' => ask'[v] = ask[v]
    BY <1>1, MoveType, AnswerType
    DEF Build, CountUsers, InsertRoot, InsertUser, Patching, Phase
  <2>3. UNCHANGED changed
    BY <1>1 DEF Build, CountUsers, InsertRoot, InsertUser
  <2>4. QED
    BY <2>1, <2>2, <2>3, GrowsKeepsPatchInv
<1>2. ASSUME NEW w \in Thread, NEW u \in Name, Register(w, u)
      PROVE  PatchInv'
  <2>1. Grows /\ UNCHANGED changed
    BY <1>2 DEF Register, Grows
  <2>2. ask'[w].at = "insert" /\ \A v \in Thread : v # w => ask'[v] = ask[v]
    BY <1>2 DEF Register, AdminTypeOK, Free
  <2>3. \A v \in Thread : Patching(v)' => ask'[v] = ask[v]
    BY <2>2 DEF Patching
  <2>4. QED
    BY <2>1, <2>3, GrowsKeepsPatchInv
<1>3. ASSUME NEW w \in AdminThread, NEW a \in Name, NEW t \in Name,
             NEW role \in Role \cup {Keep}, NEW enable \in Wish,
             Patch(w, a, t, role, enable)
      PROVE  PatchInv'
  <2>1. ask'[w].at = "target" /\ \A v \in Thread : v # w => ask'[v] = ask[v]
    BY <1>3 DEF Patch, AdminTypeOK
  <2>2. Grows /\ UNCHANGED changed
    BY <1>3 DEF Patch, Grows
  <2>3. ASSUME NEW v \in Thread, v # w
        PROVE  (Patching(v) => v \in AdminThread)' /\ SeenRow(v)' /\ SeenCount(v)'
    BY <2>1, <2>2, <2>3, GrowsKeepsSeen
  <2>4. (Patching(w) => w \in AdminThread)' /\ SeenRow(w)' /\ SeenCount(w)'
    BY <2>1 DEF SeenRow, SeenCount, HasRow, In
  <2>5. QED
    BY <2>3, <2>4 DEF PatchInv
<1>4. ASSUME NEW w \in Thread, ReadTarget(w) PROVE PatchInv'
  <2>1. Grows /\ UNCHANGED changed /\ w \in AdminThread
    BY <1>4 DEF ReadTarget, Grows, PatchInv, Patching, In
  <2>2. CASE ~Exists(ask[w].target)
    <3>1. \A v \in Thread : Patching(v)' => ask'[v] = ask[v]
      BY <1>4, <2>2, AnswerType DEF ReadTarget, Patching
    <3>2. QED
      BY <2>1, <3>1, GrowsKeepsPatchInv
  <2>3. CASE Exists(ask[w].target)
    <3> DEFINE t == ask[w].target
               r == [ask[w] EXCEPT !.at = "count", !.row = account[t]]
    <3>1. t \in Name /\ ask[w] \in Inquiry
      BY <1>4 DEF ReadTarget, In, AdminTypeOK
    <3>2. r.at = "count" /\ r.target = t /\ r.row = account[t]
      BY <3>1 DEF Inquiry
    <3>3. ask' = [ask EXCEPT ![w] = r]
      BY <1>4, <2>3 DEF ReadTarget
    <3>4. ask'[w] = r /\ \A v \in Thread : v # w => ask'[v] = ask[v]
      BY <3>3 DEF AdminTypeOK
    <3>5. UNCHANGED account
      BY <1>4 DEF ReadTarget
    <3> HIDE DEF r
    <3>6. ASSUME NEW v \in Thread, v # w
          PROVE  /\ (Patching(v) => v \in AdminThread)'
                 /\ SeenRow(v)' /\ SeenCount(v)'
      BY <2>1, <3>4, <3>6, GrowsKeepsSeen
    <3>7. (Patching(w) => w \in AdminThread)' /\ SeenRow(w)' /\ SeenCount(w)'
      BY <2>1, <2>3, <3>2, <3>4, <3>5
      DEF SeenRow, SeenCount, HasRow, In, Exists
    <3>8. QED
      BY <3>6, <3>7 DEF PatchInv
  <2>4. QED
    BY <2>2, <2>3
<1>5. ASSUME NEW w \in Thread, CountAdmins(w) PROVE PatchInv'
  <2>1. /\ Grows /\ UNCHANGED account
        /\ \A v \in Thread : v # w => changed'[v] = changed[v]
    BY <1>5 DEF CountAdmins, Grows, AdminTypeOK
  <2>2. CASE PatchRefused(ask[w])
    <3>1. \A v \in Thread :
             Patching(v)' => ask'[v] = ask[v] /\ changed'[v] = changed[v]
      BY <1>5, <2>1, <2>2, AnswerType DEF CountAdmins, Patching
    <3>2. QED
      BY <2>1, <3>1, GrowsKeepsPatchInv
  <2>3. CASE ~PatchRefused(ask[w])
    <3> DEFINE r == ask[w]
    <3>1. r \in Inquiry /\ r.target \in Name /\ SeenRow(w) /\ w \in AdminThread
      BY <1>5 DEF CountAdmins, In, AdminTypeOK, PatchInv, Patching
    <3>2. ask' = [ask EXCEPT ![w] = [r EXCEPT !.at = "write"]]
      BY <1>5, <2>3 DEF CountAdmins, Move
    <3>3. /\ \A v \in Thread : v # w => ask'[v] = ask[v]
          /\ ask'[w] = [r EXCEPT !.at = "write"]
      BY <3>2 DEF AdminTypeOK
    <3>4. /\ ask'[w].at = "write" /\ ask'[w].target = r.target
          /\ ask'[w].row = r.row /\ ask'[w].role = r.role
          /\ ask'[w].active = r.active
      BY <3>1, <3>3 DEF Inquiry
    <3>5. changed'[w] = changed[w] \cap {r.target}
      BY <1>5, <2>3 DEF CountAdmins, AdminTypeOK
    <3>6. SeenRow(w)'
      BY <1>5, <2>1, <3>1, <3>4, <3>5
      DEF CountAdmins, In, SeenRow, HasRow, Exists
    <3>7. ASSUME changed'[w] = {}, ActiveAdmins' # {}
          PROVE  \E u \in Name : IsActiveAdmin(u) /\ (u # r.target \/ Harmless(r))
      <4>1. r.row = account[r.target]
        BY <1>5, <3>1, <3>5, <3>7 DEF CountAdmins, In, SeenRow, HasRow
      <4>2. ActiveAdmins # {}
        BY <2>1, <3>7 DEF ActiveAdmins, IsActiveAdmin
      <4>3. QED
        BY <2>3, <3>1, <4>1, <4>2, NotRefusedIsSafe
    <3>8. SeenCount(w)'
      BY <2>1, <3>4, <3>7
      DEF SeenCount, LeavesAnAdmin, Harmless, IsActiveAdmin
    <3>9. ASSUME NEW v \in Thread, v # w
          PROVE  /\ (Patching(v) => v \in AdminThread)'
                 /\ SeenRow(v)' /\ SeenCount(v)'
      BY <2>1, <3>3, <3>9, GrowsKeepsSeen
    <3>10. QED
      BY <3>1, <3>6, <3>8, <3>9 DEF PatchInv
  <2>4. QED
    BY <2>2, <2>3
<1>6. ASSUME NEW w \in Thread, WriteAccount(w) PROVE PatchInv'
  <2> DEFINE t == ask[w].target
  <2>1. ask[w] \in Inquiry /\ t \in Name /\ ask[w].row.role # "none"
    BY <1>6 DEF WriteAccount, In, AdminTypeOK, PatchInv, SeenRow, HasRow
  <2>2. ask'[w].at = "idle" /\ \A v \in Thread : v # w => ask'[v] = ask[v]
    BY <1>6, AnswerType DEF WriteAccount
  <2>3. /\ \A u \in Name : u # t => account'[u] = account[u]
        /\ account'[t].role # "none"
    BY <1>6, <2>1 DEF WriteAccount, AdminTypeOK, Inquiry, Role, Keep
  <2>4. ASSUME NEW v \in Thread, v # w
        PROVE  (Patching(v) => v \in AdminThread)' /\ SeenRow(v)' /\ SeenCount(v)'
    <3>1. CASE ~HasRow(v)
      BY <2>2, <2>4, <3>1
      DEF SeenRow, SeenCount, HasRow, In, Patching, PatchInv
    <3>2. CASE HasRow(v) /\ UNCHANGED account
      <4>1. changed'[v] = changed[v]
        BY <1>6, <2>4, <3>2 DEF WriteAccount, Overtakes
      <4>2. Grows
        BY <3>2 DEF Grows
      <4>3. QED
        BY <2>2, <2>4, <4>1, <4>2, GrowsKeepsSeen
    <3>3. CASE HasRow(v) /\ account' # account
      <4>1. changed'[v] = changed[v] \cup {t}
        BY <1>6, <2>4, <3>3 DEF WriteAccount, Overtakes, HasRow
      <4>2. ask[v].target \in Name /\ SeenRow(v) /\ Patching(v)
        BY <3>3 DEF HasRow, Patching, AdminTypeOK, PatchInv
      <4>3. SeenRow(v)'
        BY <2>2, <2>3, <2>4, <3>3, <4>1, <4>2 DEF SeenRow, HasRow, Exists
      <4>4. SeenCount(v)'
        BY <4>1 DEF SeenCount
      <4>5. QED
        BY <2>2, <2>4, <4>2, <4>3, <4>4 DEF PatchInv, Patching
    <3>4. QED
      BY <3>1, <3>2, <3>3
  <2>5. (Patching(w) => w \in AdminThread)' /\ SeenRow(w)' /\ SeenCount(w)'
    BY <2>2 DEF Patching, SeenRow, SeenCount, HasRow, In
  <2>6. QED
    BY <2>4, <2>5 DEF PatchInv
<1>7. ASSUME ServerRestart PROVE PatchInv'
  BY <1>7
  DEF ServerRestart, Free, PatchInv, Patching, SeenRow, SeenCount, HasRow, In
<1>8. CASE UNCHANGED admin_vars
  <2>1. Grows
    BY <1>8 DEF admin_vars, Grows
  <2>2. QED
    BY <1>8, <2>1, GrowsKeepsPatchInv DEF admin_vars
<1>9. QED
  BY <1>1, <1>2, <1>3, <1>4, <1>5, <1>6, <1>7, <1>8 DEF AdminNext, Serve

LEMMA AdminInvStep == AdminInv /\ [AdminNext]_admin_vars => AdminInv'
  BY AdminTypeStep, AdminStep DEF AdminInv

\* patch_user's safety rules, for any number of threads: the last active
\* administrator goes only by an UPDATE that another one has overtaken.
THEOREM LastAdminGoesOnlyByARace == AdminSpec => LastAdminGoesByARace
<1> DEFINE Raced == \E w \in AdminThread : In(w, "write") /\ ask'[w].at = "idle"
                                             /\ changed[w] # {}
           Step == ActiveAdmins # {} /\ ActiveAdmins' = {} => Raced
<1>1. ASSUME AdminInv, [AdminNext]_admin_vars PROVE [Step]_admin_vars
  <2> USE <1>1 DEF AdminInv
  <2> SUFFICES ASSUME ActiveAdmins # {}, ActiveAdmins' = {} PROVE Raced
    OBVIOUS
  <2>1. ASSUME NEW w \in Thread, WriteAccount(w) PROVE Raced
    <3>1. In(w, "write") /\ w \in AdminThread
      BY <2>1 DEF WriteAccount, In, PatchInv, Patching
    <3>2. changed[w] # {}
      BY <2>1, FreshWriteLeavesAnAdmin
    <3>3. ask'[w].at = "idle"
      BY <2>1, AnswerType DEF WriteAccount
    <3>4. QED
      BY <3>1, <3>2, <3>3
  <2>2. ~Grows
    BY GrowsKeepsAdmins
  <2>3. ASSUME NEW w \in Thread, InsertRoot(w) \/ InsertUser(w) PROVE FALSE
    BY <2>2, <2>3 DEF InsertRoot, InsertUser, Grows, Exists, AdminTypeOK
  <2>4. account' # account
    BY <2>2 DEF Grows
  <2>5. QED
    BY <2>1, <2>3, <2>4
    DEF AdminNext, Serve, admin_vars, Build, CountUsers, Register, Patch,
        ReadTarget, CountAdmins, ServerRestart
<1>2. QED
  BY <1>1, AdminInvInit, AdminInvStep, PTL DEF AdminSpec, LastAdminGoesByARace

\* ... and its UPDATE changes nothing but the columns the request names, unless
\* another one has changed that account since it was read.
THEOREM WritesOnlyWhatItWasAskedHolds == AdminSpec => WritesOnlyWhatItWasAsked
<1> DEFINE Kept(w, r) ==
             /\ r.role = Keep => account'[r.target].role = account[r.target].role
             /\ r.active = Keep =>
                  account'[r.target].active = account[r.target].active
           Step == \A w \in AdminThread : LET r == ask[w] IN
             /\ r.at = "write" /\ ask'[w].at = "idle" /\ UNCHANGED built
             /\ r.target \notin changed[w]
             => Kept(w, r)
<1>1. ASSUME AdminInv, [AdminNext]_admin_vars PROVE [Step]_admin_vars
  <2> SUFFICES ASSUME NEW w \in AdminThread, ask[w].at = "write",
                      ask'[w].at = "idle", ask[w].target \notin changed[w]
               PROVE  Kept(w, ask[w])
    OBVIOUS
  <2>1. CASE UNCHANGED account
    BY <2>1
  <2>2. CASE WriteAccount(w)
    <3>1. /\ ask[w].target \in Name
          /\ ask[w].row = account[ask[w].target]
      BY <1>1 DEF AdminInv, AdminTypeOK, PatchInv, SeenRow, HasRow
    <3>2. QED
      BY <1>1, <2>2, <3>1 DEF WriteAccount, AdminInv, AdminTypeOK
  <2>3. ASSUME NEW v \in Thread, v # w, Answer(v) PROVE FALSE
    BY <1>1, <2>3, AnswerType DEF AdminInv
  <2>4. ASSUME NEW v \in Thread,
               InsertRoot(v) \/ InsertUser(v) \/ WriteAccount(v), v # w
        PROVE  FALSE
    BY <2>3, <2>4 DEF InsertRoot, InsertUser, WriteAccount
  <2>5. ~InsertRoot(w) /\ ~InsertUser(w)
    BY DEF InsertRoot, InsertUser, In
  <2>6. QED
    BY <1>1, <2>1, <2>2, <2>4, <2>5
    DEF AdminNext, Serve, admin_vars, Build, CountUsers, Register, Patch,
        ReadTarget, CountAdmins, ServerRestart
<1>2. QED
  BY <1>1, AdminInvInit, AdminInvStep, PTL DEF AdminSpec, WritesOnlyWhatItWasAsked

-------------------------------------------------------------------------------
\* The table and the requests always have the types declared for them.
THEOREM AdminTypeCorrect == AdminSpec => []AdminTypeOK
  BY AdminTypeInit, AdminTypeStep, PTL DEF AdminSpec

\* Only the threads that serve administrators get to the UPDATE.
WritersAreAdmins ==
    \A w \in Thread :
        ask[w].at \in {"target", "count", "write"} => w \in AdminThread

LEMMA WritersInit == AdminInit => WritersAreAdmins
  BY DEF AdminInit, WritersAreAdmins, Free

LEMMA WritersStep ==
  ASSUME AdminTypeOK, WritersAreAdmins, [AdminNext]_admin_vars
  PROVE  WritersAreAdmins'
<1>1. ASSUME NEW w \in Thread, NEW place \in Phase, Move(w, place),
             place \in {"target", "count", "write"} => w \in AdminThread
      PROVE  WritersAreAdmins'
  BY <1>1, MoveType DEF WritersAreAdmins
<1>2. ASSUME NEW w \in Thread, Answer(w) PROVE WritersAreAdmins'
  BY <1>2, AnswerType DEF WritersAreAdmins
<1>3. ASSUME NEW w \in Thread, Serve(w) PROVE WritersAreAdmins'
  <2>1. CASE Build(w) \/ CountUsers(w) \/ InsertRoot(w) \/ InsertUser(w)
    BY <1>1, <1>2, <2>1 DEF Build, CountUsers, InsertRoot, InsertUser, Phase
  <2>2. ASSUME NEW u \in Name, Register(w, u) PROVE WritersAreAdmins'
    BY <2>2 DEF Register, Free, WritersAreAdmins, AdminTypeOK
  <2>3. CASE ReadTarget(w)
    BY <1>2, <2>3 DEF ReadTarget, In, WritersAreAdmins, AdminTypeOK, Inquiry
  <2>4. CASE CountAdmins(w) \/ WriteAccount(w)
    BY <1>1, <1>2, <2>4
    DEF CountAdmins, WriteAccount, In, Phase, WritersAreAdmins
  <2>5. QED
    BY <1>3, <2>1, <2>2, <2>3, <2>4 DEF Serve
<1>4. ASSUME NEW w \in AdminThread, NEW a \in Name, NEW t \in Name,
             NEW role \in Role \cup {Keep}, NEW enable \in Wish,
             Patch(w, a, t, role, enable)
      PROVE  WritersAreAdmins'
  BY <1>4 DEF Patch, WritersAreAdmins, AdminTypeOK
<1>5. CASE ServerRestart
  BY <1>5 DEF ServerRestart, WritersAreAdmins, Free
<1>6. CASE UNCHANGED admin_vars
  BY <1>6 DEF admin_vars, WritersAreAdmins
<1>7. QED
  BY <1>3, <1>4, <1>5, <1>6 DEF AdminNext

\* AuthService.register and _bootstrap_admin: an existing account changes only
\* by an administrator's UPDATE of it, however look-ups and INSERTs interleave.
THEOREM RegistrationKeepsAccountsHolds == AdminSpec => RegistrationKeepsAccounts
<1> DEFINE Step == \A u \in Name : Exists(u) /\ account'[u] # account[u] =>
                     \E w \in AdminThread :
                        ask[w].at = "write" /\ ask[w].target = u
<1>1. ASSUME AdminTypeOK, WritersAreAdmins, [AdminNext]_admin_vars
      PROVE  [Step]_admin_vars
  <2> SUFFICES ASSUME NEW u \in Name, Exists(u), account'[u] # account[u]
               PROVE  \E w \in AdminThread :
                        ask[w].at = "write" /\ ask[w].target = u
    OBVIOUS
  <2>1. ASSUME NEW w \in Thread, WriteAccount(w)
        PROVE  \E v \in AdminThread :
                 ask[v].at = "write" /\ ask[v].target = u
    <3>1. ask[w].at = "write" /\ w \in AdminThread
      BY <1>1, <2>1 DEF WriteAccount, In, WritersAreAdmins
    <3>2. ask[w].target = u
      BY <1>1, <2>1 DEF WriteAccount, AdminTypeOK
    <3>3. QED
      BY <3>1, <3>2
  <2>2. ASSUME NEW w \in Thread, InsertRoot(w) \/ InsertUser(w) PROVE FALSE
    BY <1>1, <2>2 DEF InsertRoot, InsertUser, AdminTypeOK, Exists
  <2>3. account' # account
    OBVIOUS
  <2>4. QED
    BY <1>1, <2>1, <2>2, <2>3
    DEF AdminNext, Serve, admin_vars, Build, CountUsers, Register, Patch,
        ReadTarget,
        CountAdmins, ServerRestart
<1>2. AdminTypeOK /\ WritersAreAdmins /\ [AdminNext]_admin_vars
        => AdminTypeOK' /\ WritersAreAdmins'
  BY AdminTypeStep, WritersStep
<1>3. QED
  BY <1>1, <1>2, AdminTypeInit, WritersInit, PTL
  DEF AdminSpec, RegistrationKeepsAccounts
===============================================================================
