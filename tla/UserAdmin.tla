------------------------------ MODULE UserAdmin ------------------------------
(***************************************************************************)
(* The account table of AuthService (backend/app/auth/service.py): the     *)
(* bootstrap administrator, self-registration, and patch_user, by which an *)
(* administrator changes a role or disables an account.                    *)
(*                                                                         *)
(* AppState.auth builds the service on first use, without a lock, so       *)
(* several workers may build it at once.  patch_user reads the target,     *)
(* counts the active administrators and writes role and is_active back in  *)
(* one UPDATE: three statements on three connections, hence three steps,   *)
(* which the threads of FastAPI's pool take in any order.                  *)
(***************************************************************************)
EXTENDS Naturals, FiniteSets

CONSTANTS
    Name,           \* user names
    Bootstrap,      \* the bootstrap administrators the settings may name; Null:
                    \* the user name or the password is blank
    Thread,         \* request threads
    AdminThread,    \* bound: the threads that serve administrators' requests
    Null

ASSUME BootstrapAssumption == Bootstrap \subseteq Name \cup {Null}
ASSUME NameAssumption == IsFiniteSet(Name)
ASSUME AdminThreadAssumption == AdminThread \subseteq Thread
ASSUME NullAssumption == Null \notin Name

VARIABLES
    account,    \* the rows of users; role "none": no such row
    root,       \* the bootstrap administrator in this process's settings
    built,      \* AppState._auth is set
    ask,        \* what each worker is doing
    changed     \* history: what another request has written to, of the accounts
                \* a worker at its UPDATE has read or counted

admin_vars == <<account, root, built, ask, changed>>

Role == {"viewer", "analyst", "admin"}
UserRow == [role : Role \cup {"none"}, active : BOOLEAN]
NoAccount == [role |-> "none", active |-> FALSE]

Keep == "keep"      \* a field the PATCH body leaves out
Wish == {"enable", "disable", Keep}
Phase == {"idle", "count users", "insert root", "insert", "target", "count",
          "write"}
Inquiry == [at : Phase, actor : Name \cup {Null}, target : Name \cup {Null},
            role : Role \cup {Keep}, active : Wish,
            row : UserRow]
Free == [at |-> "idle", actor |-> Null, target |-> Null, role |-> Keep,
         active |-> Keep, row |-> NoAccount]

AdminTypeOK ==
    /\ account \in [Name -> UserRow]
    /\ root \in Bootstrap
    /\ built \in BOOLEAN
    /\ ask \in [Thread -> Inquiry]
    /\ changed \in [Thread -> SUBSET Name]
    /\ \A w \in Thread : ask[w].at \in {"insert", "target", "count", "write"}
                           => ask[w].target \in Name
    /\ \A w \in Thread : ask[w].at = "insert root" => root # Null

AdminInit ==
    /\ account = [u \in Name |-> NoAccount]
    /\ root \in Bootstrap
    /\ built = FALSE
    /\ ask = [w \in Thread |-> Free]
    /\ changed = [w \in Thread |-> {}]

-------------------------------------------------------------------------------
\* Helpers

In(w, place) == ask[w].at = place
Move(w, place) == ask' = [ask EXCEPT ![w].at = place]
Answer(w) == ask' = [ask EXCEPT ![w] = Free]

Exists(u) == account[u].role # "none"
IsActiveAdmin(u) == account[u].role = "admin" /\ account[u].active
ActiveAdmins == {u \in Name : IsActiveAdmin(u)}

-------------------------------------------------------------------------------
\* AppState.auth and _bootstrap_admin

\* The service is still missing when the worker looks.
Build(w) ==
    /\ In(w, "idle") /\ ~built
    /\ Move(w, "count users")
    /\ UNCHANGED <<account, root, built, changed>>

\* Nothing to do if the settings name nobody; else SELECT COUNT(*) FROM users:
\* only an empty table gets an administrator.
CountUsers(w) ==
    /\ In(w, "count users")
    /\ IF root = Null \/ \E u \in Name : Exists(u)
       THEN Answer(w) /\ built' = TRUE
       ELSE Move(w, "insert root") /\ UNCHANGED built
    /\ UNCHANGED <<account, root, changed>>

\* The INSERT; an IntegrityError (somebody else inserted it) is ignored.
InsertRoot(w) ==
    /\ In(w, "insert root")
    /\ account' = [account EXCEPT ![root] =
                     IF Exists(root) THEN @
                     ELSE [role |-> "admin", active |-> TRUE]]
    /\ built' = TRUE
    /\ Answer(w)
    /\ UNCHANGED <<root, changed>>

-------------------------------------------------------------------------------
\* POST /api/auth/register

\* The user name is free when it is looked up.
Register(w, u) ==
    /\ In(w, "idle") /\ built
    /\ ~Exists(u)
    /\ ask' = [ask EXCEPT ![w] = [Free EXCEPT !.at = "insert", !.target = u]]
    /\ UNCHANGED <<account, root, built, changed>>

\* Faulty variant: INSERT OR REPLACE.
InsertOrReplace(w) ==
    /\ In(w, "insert")
    /\ account' = [account EXCEPT ![ask[w].target] =
                     [role |-> "viewer", active |-> TRUE]]
    /\ Answer(w)
    /\ UNCHANGED <<root, built, changed>>

\* The INSERT, refused by the UNIQUE constraint if the name is taken by now.
InsertUser(w) ==
    /\ In(w, "insert")
    /\ account' = [account EXCEPT ![ask[w].target] =
                     IF Exists(ask[w].target) THEN @
                     ELSE [role |-> "viewer", active |-> TRUE]]
    /\ Answer(w)
    /\ UNCHANGED <<root, built, changed>>

-------------------------------------------------------------------------------
\* PATCH /api/auth/users/{id}

\* require_admin_dep reads the caller's row; the body asks for something.
Patch(w, actor, target, role, active) ==
    /\ In(w, "idle") /\ built
    /\ IsActiveAdmin(actor)
    /\ role # Keep \/ active # Keep
    /\ ask' = [ask EXCEPT ![w] = [at |-> "target", actor |-> actor,
                                  target |-> target, role |-> role,
                                  active |-> active, row |-> NoAccount]]
    /\ UNCHANGED <<account, root, built, changed>>

\* _fetch_user_by_id: the row the rest of the request works with.
ReadTarget(w) ==
    /\ In(w, "target")
    /\ IF Exists(ask[w].target)
       THEN ask' = [ask EXCEPT ![w].at = "count",
                               ![w].row = account[ask[w].target]]
       ELSE Answer(w)
    /\ UNCHANGED <<account, root, built, changed>>

\* Faulty variant: "the last" is compared off by one.
RefusedTooLate(r) ==
    \/ /\ r.row.role = "admin" /\ r.role \notin {Keep, "admin"}
       /\ Cardinality(ActiveAdmins) < 1
    \/ /\ r.active = "disable"
       /\ \/ r.row.role = "admin" /\ Cardinality(ActiveAdmins) < 1
          \/ r.target = r.actor

\* The safety rules, on the row read before and the count read now.  (No
\* administrator can elevate their own role: there is no higher one.)
PatchRefused(r) ==
    \/ /\ r.row.role = "admin" /\ r.role \notin {Keep, "admin"}
       /\ Cardinality(ActiveAdmins) <= 1
    \/ /\ r.active = "disable"
       /\ \/ r.row.role = "admin" /\ Cardinality(ActiveAdmins) <= 1
          \/ r.target = r.actor

CountAdmins(w) ==
    /\ In(w, "count")
    /\ IF PatchRefused(ask[w])
       THEN Answer(w) /\ changed' = [changed EXCEPT ![w] = {}]
       ELSE /\ Move(w, "write")
            /\ changed' = [changed EXCEPT ![w] = @ \cap {ask[w].target}]
    /\ UNCHANGED <<account, root, built>>

\* What the UPDATE of w overtakes: requests that have read their target.
Overtakes(w) ==
    changed' = [v \in Thread |->
        CASE v = w -> {}
          [] v # w /\ ask[v].at \in {"count", "write"} /\ account' # account ->
               changed[v] \cup {ask[w].target}
          [] OTHER -> changed[v]]

\* Faulty variant: a role change enables the account.
WriteEnabled(w) ==
    /\ In(w, "write")
    /\ LET r == ask[w] IN
       account' = [account EXCEPT ![r.target] =
                     [role |-> IF r.role = Keep THEN r.row.role ELSE r.role,
                      active |-> r.active # "disable"]]
    /\ Overtakes(w)
    /\ Answer(w)
    /\ UNCHANGED <<root, built>>

\* UPDATE users SET role, is_active: both columns, from the body or the row
\* that was read.
WriteAccount(w) ==
    /\ In(w, "write")
    /\ LET r == ask[w] IN
       account' = [account EXCEPT ![r.target] =
                     [role |-> IF r.role = Keep THEN r.row.role ELSE r.role,
                      active |-> IF r.active = Keep THEN r.row.active
                                 ELSE r.active = "enable"]]
    /\ Overtakes(w)
    /\ Answer(w)
    /\ UNCHANGED <<root, built>>

-------------------------------------------------------------------------------
\* The process restarts: requests in flight are lost, the settings are read
\* again, the service is rebuilt.
ServerRestart ==
    /\ root' \in Bootstrap
    /\ built' = FALSE
    /\ ask' = [w \in Thread |-> Free]
    /\ changed' = [w \in Thread |-> {}]
    /\ UNCHANGED account

Serve(w) ==
    \/ Build(w) \/ CountUsers(w) \/ InsertRoot(w)
    \/ (\E u \in Name : Register(w, u)) \/ InsertUser(w)
    \/ ReadTarget(w) \/ CountAdmins(w) \/ WriteAccount(w)

AdminNext ==
    \/ \E w \in Thread : Serve(w)
    \/ \E w \in AdminThread, actor, target \in Name, role \in Role \cup {Keep},
          active \in Wish : Patch(w, actor, target, role, active)
    \/ ServerRestart

AdminSpec == AdminInit /\ [][AdminNext]_admin_vars

-------------------------------------------------------------------------------
\* What holds of the accounts

\* patch_user: "the last active administrator can never be demoted or disabled
\* (self included)": with a bootstrap administrator configured, once the service
\* is up somebody can administer it.  Two PATCHes that have both counted break it.
LastActiveAdmin == Null \notin Bootstrap /\ built => ActiveAdmins # {}

\* What the safety rules do give, however many threads serve PATCHes: the last
\* active administrator goes only by an UPDATE overtaken by another one, made
\* after its own request counted, or of its own target after that was read.
LastAdminGoesByARace ==
    [][ActiveAdmins # {} /\ ActiveAdmins' = {} =>
         \E w \in AdminThread : In(w, "write") /\ ask'[w].at = "idle"
                                /\ changed[w] # {}
      ]_admin_vars

\* A request changes the column it was asked to change and no other, unless a
\* request that wrote to the same account after this one read it overtook it:
\* only then is the row it writes back a stale one.
WritesOnlyWhatItWasAsked ==
    [][\A w \in AdminThread : LET r == ask[w] IN
         /\ r.at = "write" /\ ask'[w].at = "idle" /\ UNCHANGED built
         /\ r.target \notin changed[w]
         => /\ r.role = Keep => account'[r.target].role = account[r.target].role
            /\ r.active = Keep =>
                 account'[r.target].active = account[r.target].active
      ]_admin_vars

\* Registration never touches an account that exists: between its look-up and
\* its INSERT another registration, or the bootstrap, may take the name.
RegistrationKeepsAccounts ==
    [][\A u \in Name : Exists(u) /\ account'[u] # account[u] =>
         \E w \in AdminThread : ask[w].at = "write" /\ ask[w].target = u
      ]_admin_vars
===============================================================================
