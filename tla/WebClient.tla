------------------------------- MODULE WebClient ------------------------------
(***************************************************************************)
(* The browser's side of a sign-in (frontend/src/api.js, auth.jsx): an     *)
(* access token in memory, a refresh cookie the browser keeps, calls that  *)
(* answer 401 once the token has expired, one shared refresh for all of    *)
(* them, and the application's view of it: booting, authed or anon.        *)
(*                                                                         *)
(* The script runs one callback at a time; a step is one answer, click or  *)
(* timeout with everything that follows before the next.  The backend is   *)
(* what AuthSessions models, as far as a browser sees it: a set of live    *)
(* refresh sessions, a refresh that replaces the one it is given, and      *)
(* access tokens that expire by themselves.                                *)
(***************************************************************************)
EXTENDS Integers, FiniteSets

CONSTANTS
    Page,       \* calls the pages make at a time
    Account,    \* the call of signIn and signOut
    Boot,       \* the refresh of the bootstrap effect
    BrowserSession,    \* refresh sessions, used again once nobody knows them
    Nil,
    MaxLosses   \* refreshes that get no answer, or an error for one

Call == Page \cup {Account}
Starter == Call \cup {Boot}

ASSUME ClientNames ==
    /\ Boot \notin Call /\ Account \notin Page
    /\ Nil \notin BrowserSession \cup Starter
ASSUME LossesAssumption == MaxLosses \in Nat
ASSUME SessionAssumption == IsFiniteSet(BrowserSession)

VARIABLES
    status,         \* what AuthProvider shows
    token,          \* accessToken: Nil, "good" or "expired"
    cookie,         \* the browser's refresh session, or Nil
    refreshPromise, \* who started the shared refresh, or Nil
    refresh,        \* the refresh each of them has started
    call,           \* the calls under way
    live,           \* those of the browser's sessions the backend accepts
    losses,
    excuse          \* why a sign-in may be lost, since it was made

client == <<status, token, cookie, refreshPromise, refresh, call>>
client_vars ==
    <<status, token, cookie, refreshPromise, refresh, call, live, losses, excuse>>

NoCall == [kind |-> "none", pc |-> "idle", with |-> Nil, on |-> Nil]
NoRefresh == [pc |-> "none", cookie |-> Nil, new |-> Nil]
\* refreshSession: the browser adds the cookie.
RefreshSent == [pc |-> "sent", cookie |-> cookie, new |-> Nil]

ClientTypeOK ==
    /\ status \in {"booting", "authed", "anon"}
    /\ token \in {Nil, "good", "expired"}
    /\ cookie \in BrowserSession \cup {Nil}
    /\ refreshPromise \in Call \cup {Nil}
    /\ refresh \in [Starter -> [pc : {"none", "sent", "ok", "refused"},
                                cookie : BrowserSession \cup {Nil},
                                new : BrowserSession \cup {Nil}]]
    /\ call \in [Call -> [kind : {"none", "page", "login", "me", "logout"},
                          pc : {"idle", "sent", "waiting", "resent"},
                          with : {Nil, "good", "expired"},
                          on : Call \cup {Nil}]]
    /\ live \subseteq BrowserSession
    /\ losses \in 0 .. MaxLosses
    /\ excuse \subseteq {"signout", "ended", "lost", "overlap"}

\* The page has been loaded, with or without a cookie from earlier, and asks
\* for a refresh at once.
ClientInit ==
    /\ status = "booting" /\ token = Nil
    /\ cookie \in BrowserSession \cup {Nil}
    /\ live \in SUBSET ({cookie} \ {Nil})
    /\ refreshPromise = Nil
    /\ refresh = [p \in Starter |-> IF p = Boot THEN RefreshSent ELSE NoRefresh]
    /\ call = [r \in Call |-> NoCall]
    /\ losses = 0 /\ excuse = {}

\* The sessions the browser holds, or has asked about.  No other matters.
Held ==
    {cookie} \cup {refresh[p].cookie : p \in Starter}
             \cup {refresh[p].new : p \in Starter}
Unknown == BrowserSession \ Held
ANew(n) == n = CHOOSE m \in Unknown : TRUE

InFlight == {p \in Starter : refresh[p].pc # "none"}

-------------------------------------------------------------------------------
(* Calls *)

\* attempt(): the token that is there goes with the request.
Sent(kind) == [kind |-> kind, pc |-> "sent", with |-> token, on |-> Nil]

Fetch(r) ==
    /\ status = "authed" /\ call[r] = NoCall
    /\ call' = [call EXCEPT ![r] = Sent("page")]
    /\ UNCHANGED <<status, token, cookie, refreshPromise, refresh, live, losses,
                   excuse>>

UnderWay(r, pcs) == call[r].pc \in pcs /\ call[r].kind \in {"page", "me"}

\* becomeAnon: the token goes with the view.
BecomeAnon == token' = Nil /\ status' = "anon"

\* The token was good when the backend looked, or the call failed for another
\* reason than the token: its caller gets the body or the error.  signIn is
\* done when /auth/me answers.
Answered(r) ==
    /\ UnderWay(r, {"sent", "resent"})
    /\ call' = [call EXCEPT ![r] = NoCall]
    /\ \/ call[r].kind = "me" /\ status' = "authed"
       \/ UNCHANGED status
    /\ UNCHANGED <<token, cookie, refreshPromise, refresh, live, losses, excuse>>

\* 401: the token has expired since it was obtained, or the user was disabled.
Unwelcome(r) == call[r].with = "expired" \/ "ended" \in excuse

\* A 401 to the first attempt while a token is there: of the token, or of the
\* password, which authFetch does not tell apart.
Refreshable(r) ==
    /\ call[r].pc = "sent" /\ token # Nil
    /\ call[r].kind \in {"page", "me"} => Unwelcome(r)
    /\ call[r].kind # "logout"

Waiting(r, p) ==
    [kind |-> call[r].kind, pc |-> "waiting", with |-> call[r].with, on |-> p]

\* Faulty variant: every call that finds the token expired refreshes itself.
RefusedAlone(r) ==
    /\ Refreshable(r)
    /\ call' = [call EXCEPT ![r] = Waiting(r, r)]
    /\ refresh' = [refresh EXCEPT ![r] = RefreshSent]
    /\ refreshPromise' = r
    /\ UNCHANGED <<status, token, cookie, live, losses, excuse>>

\* Wait for the refresh, starting it if need be.
Refused(r) ==
    /\ Refreshable(r)
    /\ LET shared == IF refreshPromise = Nil THEN r ELSE refreshPromise
       IN  /\ refreshPromise' = shared
           /\ call' = [call EXCEPT ![r] = Waiting(r, shared)]
    /\ IF refreshPromise = Nil
       THEN refresh' = [refresh EXCEPT ![r] = RefreshSent]
       ELSE UNCHANGED refresh
    /\ UNCHANGED <<status, token, cookie, live, losses, excuse>>

\* 401 without a token, or of the replay: the caller gets the error.
RefusedForGood(r) ==
    /\ UnderWay(r, {"sent", "resent"}) /\ Unwelcome(r)
    /\ call[r].pc = "sent" => token = Nil
    /\ call' = [call EXCEPT ![r] = NoCall]
    /\ UNCHANGED <<status, token, cookie, refreshPromise, refresh, live, losses,
                   excuse>>

-------------------------------------------------------------------------------
(* The refresh *)

\* The backend: the session it is given is replaced, if it is live.
RefreshServed(p) ==
    /\ refresh[p].pc = "sent" /\ Unknown # {}
    /\ IF refresh[p].cookie \in live
       THEN \E n \in Unknown :
                /\ ANew(n)
                /\ live' = ((live \cap Held) \ {refresh[p].cookie}) \cup {n}
                /\ refresh' = [refresh EXCEPT ![p].pc = "ok", ![p].new = n]
       ELSE /\ refresh' = [refresh EXCEPT ![p].pc = "refused"]
            /\ UNCHANGED live
    /\ UNCHANGED <<status, token, cookie, refreshPromise, call, losses, excuse>>

\* Faulty variant: the replay is a call like the first one.
ResumedAsNew(p, new) ==
    [r \in Call |->
        IF call[r].pc # "waiting" \/ call[r].on # p THEN call[r]
        ELSE IF new = Nil THEN NoCall
        ELSE [kind |-> call[r].kind, pc |-> "sent", with |-> new, on |-> Nil]]

\* The calls that wait for the refresh, once it has left the token new.
Resumed(p, new) ==
    [r \in Call |->
        IF call[r].pc # "waiting" \/ call[r].on # p THEN call[r]
        ELSE IF new = Nil THEN NoCall
        ELSE [kind |-> call[r].kind, pc |-> "resent", with |-> new, on |-> Nil]]

\* Faulty variant: without the finally, the promise of a refresh that is over
\* stays.
SettledForEver(p) ==
    /\ refresh' = [refresh EXCEPT ![p] = NoRefresh]
    /\ UNCHANGED refreshPromise
    /\ live' = live \cap Held'

Settle(p) ==
    /\ refresh' = [refresh EXCEPT ![p] = NoRefresh]
    /\ refreshPromise' = IF refreshPromise = p THEN Nil ELSE refreshPromise
    /\ live' = live \cap Held'

\* The answer of a call's refresh: a new token and the replays, or no token
\* and emitAuthLost from every call that waited.
RefreshAnswered(p) ==
    /\ p # Boot /\ refresh[p].pc \in {"ok", "refused"}
    /\ IF refresh[p].pc = "ok"
       THEN /\ token' = "good" /\ cookie' = refresh[p].new
            /\ call' = Resumed(p, "good")
            /\ UNCHANGED status
       ELSE BecomeAnon /\ call' = Resumed(p, Nil) /\ UNCHANGED cookie
    /\ Settle(p)
    /\ UNCHANGED <<losses, excuse>>

\* The bootstrap: refreshSession returns the token itself, the effect looks
\* for an access_token in it and finds none.
BootAnswered ==
    /\ refresh[Boot].pc \in {"ok", "refused"}
    /\ cookie' = IF refresh[Boot].pc = "ok" THEN refresh[Boot].new ELSE cookie
    /\ BecomeAnon
    /\ Settle(Boot)
    /\ UNCHANGED <<call, losses, excuse>>

\* No answer: the promise is rejected and the callers get the error; the
\* token stays.  An error for an answer counts as no for an answer.
RefreshLost(p) ==
    /\ refresh[p].pc # "none" /\ losses < MaxLosses
    /\ losses' = losses + 1
    /\ excuse' = excuse \cup {"lost"}
    /\ UNCHANGED cookie
    /\ \/ /\ p # Boot
          /\ call' = Resumed(p, Nil)
          /\ UNCHANGED <<status, token>>
       \/ /\ BecomeAnon
          /\ call' = Resumed(p, Nil)
    /\ Settle(p)

-------------------------------------------------------------------------------
(* Signing in and out *)

SignIn ==
    /\ status = "anon" /\ call[Account] = NoCall
    /\ call' = [call EXCEPT ![Account] = Sent("login")]
    /\ UNCHANGED <<status, token, cookie, refreshPromise, refresh, live, losses,
                   excuse>>

\* A new session and token, then /auth/me with it.
LoginAnswered ==
    /\ call[Account].kind = "login" /\ call[Account].pc \in {"sent", "resent"}
    /\ Unknown # {}
    /\ \E n \in Unknown :
           /\ ANew(n)
           /\ live' = (live \cap Held) \cup {n}
           /\ cookie' = n
    /\ token' = "good"
    /\ call' = [call EXCEPT ![Account] =
                   [Sent("me") EXCEPT !.with = "good"]]
    /\ excuse' = IF InFlight = {} THEN {} ELSE {"overlap"}
    /\ UNCHANGED <<status, refreshPromise, refresh, losses>>

\* Refused without a token or again, or failed for another reason.
LoginFailed ==
    /\ call[Account].kind = "login" /\ call[Account].pc \in {"sent", "resent"}
    /\ call' = [call EXCEPT ![Account] = NoCall]
    /\ UNCHANGED <<status, token, cookie, refreshPromise, refresh, live, losses,
                   excuse>>

SignOut ==
    /\ status = "authed" /\ call[Account] = NoCall
    /\ call' = [call EXCEPT ![Account] = Sent("logout")]
    /\ excuse' = excuse \cup {"signout"}
    /\ UNCHANGED <<status, token, cookie, refreshPromise, refresh, live, losses>>

\* The backend revokes the cookie's session, or without a cookie all of the
\* token's user, and takes the cookie away.
LogoutServed ==
    /\ call[Account].kind = "logout" /\ call[Account].pc = "sent"
    /\ live' = IF cookie # Nil THEN live \ {cookie}
               ELSE IF call[Account].with = "good" THEN {} ELSE live
    /\ cookie' = Nil
    /\ call' = [call EXCEPT ![Account].pc = "resent"]
    /\ UNCHANGED <<status, token, refreshPromise, refresh, losses, excuse>>

\* Answered or failed, the application forgets the sign-in.
LogoutEnds ==
    /\ call[Account].kind = "logout"
    /\ BecomeAnon
    /\ call' = [call EXCEPT ![Account] = NoCall]
    /\ UNCHANGED <<cookie, refreshPromise, refresh, live, losses, excuse>>

-------------------------------------------------------------------------------
(* Time *)

TokenExpires ==
    /\ token = "good"
    /\ token' = "expired"
    /\ call' = [r \in Call |-> IF call[r].with = "good"
                               THEN [call[r] EXCEPT !.with = "expired"]
                               ELSE call[r]]
    /\ UNCHANGED <<status, cookie, refreshPromise, refresh, live, losses,
                   excuse>>

\* A session's time is over, or its user is disabled.
SessionEnds ==
    /\ live # {}
    /\ live' = {}
    /\ excuse' = excuse \cup {"ended"}
    /\ UNCHANGED <<client, losses>>

ClientNext ==
    \/ \E r \in Page : Fetch(r)
    \/ \E r \in Call : Answered(r) \/ Refused(r) \/ RefusedForGood(r)
    \/ \E p \in Starter :
           RefreshServed(p) \/ RefreshAnswered(p) \/ RefreshLost(p)
    \/ BootAnswered
    \/ SignIn \/ LoginAnswered \/ LoginFailed
    \/ SignOut \/ LogoutServed \/ LogoutEnds
    \/ TokenExpires \/ SessionEnds

\* Every request is answered or given up after its 60 seconds; a refresh has
\* no such limit, its answer is the backend's to give.
Fairness ==
    /\ \A r \in Call :
           WF_client_vars(Answered(r) \/ Refused(r) \/ RefusedForGood(r))
    /\ \A p \in Starter :
           WF_client_vars(RefreshServed(p)) /\ WF_client_vars(RefreshAnswered(p))
    /\ WF_client_vars(BootAnswered)
    /\ WF_client_vars(LoginAnswered \/ LoginFailed) /\ WF_client_vars(LogoutEnds)

ClientSpec == ClientInit /\ [][ClientNext]_client_vars /\ Fairness

-------------------------------------------------------------------------------
(* Properties *)

\* api.js: with several calls finding the token expired at once, in any order
\* of answers and refreshes, a user who is signed in stays so until they sign
\* out or the session ends at the backend; unless a refresh got no answer, or
\* one from before this sign-in was still under way.
StaysSignedIn ==
    [][status = "authed" /\ status' = "anon" => excuse' # {}]_client_vars

\* api.js: "single refresh": beside that of the bootstrap at most one refresh
\* is under way, the one that refreshPromise stands for; and who waits, waits
\* for that one, never for a refresh that is over.
OneSharedRefresh ==
    /\ InFlight \ {Boot} = {refreshPromise} \ {Nil}
    /\ \A r \in Call : call[r].pc = "waiting" =>
           call[r].on = refreshPromise /\ refreshPromise # Nil

\* authFetch, signIn and signOut: every call comes to an end, "single refresh
\* + single replay - never loops", as long as the backend answers refreshes.
EveryCallEnds == \A r \in Call : call[r].pc # "idle" ~> call[r].pc = "idle"

===============================================================================
