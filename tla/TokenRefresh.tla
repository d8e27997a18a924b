---------------------------- MODULE TokenRefresh ----------------------------
(***************************************************************************)
(* The session of one browser tab.  A response interceptor (api.js)        *)
(* answers a 401 by refreshing the access token and sending the request    *)
(* again; requests refused meanwhile wait for that refresh.  AuthContext   *)
(* decides from the profile request which page is shown.  JavaScript runs  *)
(* one callback at a time, so an action is one answer of the network, with *)
(* the promise callbacks it sets off.  The two tokens are stored and       *)
(* removed together: `stored` stands for both.                             *)
(***************************************************************************)
EXTENDS Integers

CONSTANTS
    Pages,      \* requests of the pages; each is sent once per load of the app
    Boots,      \* refreshUser() when the app loads and after a login
    Saves,      \* refreshUser() after the profile page has saved
    Logins,     \* POST /auth/login/
    Logouts     \* logout()

Requests == Pages \cup Boots \cup Saves \cup Logins \cup Logouts

ASSUME SessionConstants ==
    /\ Boots # {}
    /\ Pages \cap (Boots \cup Saves \cup Logins \cup Logouts) = {}
    /\ Boots \cap (Saves \cup Logins \cup Logouts) = {}
    /\ Saves \cap (Logins \cup Logouts) = {}
    /\ Logins \cap Logouts = {}

VARIABLES
    stored,         \* localStorage has the tokens
    loading,        \* AuthContext.loading
    authenticated,  \* AuthContext.isAuthenticated
    isRefreshing,
    refreshPromise, \* "null", or "pending"
    refreshes,      \* refresh requests in flight
    pc,             \* what each request is doing
    retried,        \* requests with _retry set
    leaving         \* window.location.replace() has been called

session == <<stored, loading, authenticated, leaving>>
refresh == <<isRefreshing, refreshPromise, refreshes, retried>>
vars == <<session, refresh, pc>>

TypeOK ==
    /\ stored \in BOOLEAN /\ loading \in BOOLEAN
    /\ authenticated \in BOOLEAN /\ leaving \in BOOLEAN
    /\ isRefreshing \in BOOLEAN
    /\ refreshPromise \in {"null", "pending"}
    /\ refreshes \in Nat
    \* "bare": sent without an Authorization header
    /\ pc \in [Requests -> {"new", "bare", "sent", "waiting", "settled"}]
    /\ retried \subseteq Requests

\* What the routes render: a spinner, the pages, or the login form.
Page == IF loading THEN "spinner" ELSE IF authenticated THEN "app" ELSE "login"

InFlight(r) == pc[r] \in {"bare", "sent"}
Sent(tokens) == IF tokens THEN "sent" ELSE "bare"

\* A load of the application asks for the profile only if tokens are stored.
Loaded(boot, tokens) ==
    [r \in Requests |-> IF tokens /\ r = boot THEN "sent" ELSE "new"]

Init ==
    /\ stored \in BOOLEAN
    /\ loading = stored /\ authenticated = FALSE /\ leaving = FALSE
    /\ isRefreshing = FALSE /\ refreshPromise = "null" /\ refreshes = 0
    /\ retried = {}
    /\ \E boot \in Boots : pc = Loaded(boot, stored)

-----------------------------------------------------------------------------
(* How a request ends                                                      *)

\* A failed profile request ends the session, and a logout ends it anyhow.
EndsSession == Boots \cup Saves \cup Logouts

\* Mutant: the finally block that ends the loading state is lost.
FailKeepsSpinner(r) ==
    /\ pc' = [pc EXCEPT ![r] = "settled"]
    /\ stored' = (stored /\ r \notin EndsSession)
    /\ authenticated' = (authenticated /\ r \notin EndsSession)
    /\ leaving' = (leaving \/ r \in Logouts)
    /\ UNCHANGED <<loading, refresh>>

\* The promise of r settles, and its caller's catch and finally blocks run.
Fail(r) ==
    /\ pc' = [pc EXCEPT ![r] = "settled"]
    /\ stored' = (stored /\ r \notin EndsSession)
    /\ authenticated' = (authenticated /\ r \notin EndsSession)
    /\ loading' = (loading /\ r \notin Boots \cup Logins \cup Logouts)
    /\ leaving' = (leaving \/ r \in Logouts)
    /\ UNCHANGED refresh

\* Mutant: auth:logout is not dispatched.
LogOutQuietly(rs) ==
    /\ stored' = FALSE
    /\ leaving' = (leaving \/ rs \cap Logouts # {})
    /\ pc' = [r \in Requests |-> IF r \in rs THEN "settled" ELSE pc[r]]
    /\ UNCHANGED <<loading, authenticated>>

\* Tokens removed, auth:logout dispatched, the requests rs rejected.
LogOut(rs) ==
    /\ stored' = FALSE /\ authenticated' = FALSE /\ loading' = FALSE
    /\ leaving' = (leaving \/ rs \cap Logouts # {})
    /\ pc' = [r \in Requests |-> IF r \in rs THEN "settled" ELSE pc[r]]

\* An answer that is not a 401, or none (a network error).
Failed(r) == InFlight(r) /\ Fail(r)

\* A page's request is answered.  Its handler may send another one, even if
\* the page has gone, and the profile page asks for the profile.
PageAnswered(r) ==
    /\ pc[r] = "sent"
    /\ \/ pc' = [pc EXCEPT ![r] = "settled"]
       \/ \E next \in Pages \cup Saves :
            /\ pc[next] = "new"
            /\ pc' = [pc EXCEPT ![r] = "settled", ![next] = Sent(stored)]
    /\ UNCHANGED <<session, refresh>>

ProfileAnswered(r) ==
    /\ pc[r] = "sent"
    /\ pc' = [pc EXCEPT ![r] = "settled"]
    /\ authenticated' = TRUE
    /\ loading' = (loading /\ r \notin Boots)
    /\ UNCHANGED <<stored, leaving, refresh>>

LoginAnswered(r) ==
    /\ InFlight(r)
    /\ stored' = TRUE
    /\ \E boot \in Boots :
         /\ pc[boot] = "new"
         /\ pc' = [pc EXCEPT ![r] = "settled", ![boot] = "sent"]
    /\ UNCHANGED <<loading, authenticated, leaving, refresh>>

LogoutAnswered(r) == pc[r] = "sent" /\ Fail(r)

-----------------------------------------------------------------------------
(* The interceptor: a 401                                                  *)

\* Not handled: a second 401, the login itself, or `refreshPromise.then` of
\* null, which throws.
RefusedForGood(r) ==
    /\ InFlight(r)
    /\ \/ r \in retried \cup Logins
       \/ isRefreshing /\ refreshPromise = "null"
    /\ Fail(r)

JoinRefresh(r) ==
    /\ InFlight(r) /\ r \notin retried \cup Logins
    /\ isRefreshing /\ refreshPromise = "pending"
    /\ pc' = [pc EXCEPT ![r] = "waiting"]
    /\ UNCHANGED <<session, refresh>>

\* Mutant: every 401 starts a refresh of its own.
StartOwnRefresh(r) ==
    /\ InFlight(r) /\ r \notin retried \cup Logins
    /\ stored
    /\ isRefreshing' = TRUE /\ refreshPromise' = "pending"
    /\ refreshes' = refreshes + 1
    /\ retried' = retried \cup {r}
    /\ pc' = [pc EXCEPT ![r] = "waiting"]
    /\ UNCHANGED session

\* Mutant: _retry is not set.
StartRefreshUnmarked(r) ==
    /\ InFlight(r) /\ r \notin retried \cup Logins
    /\ ~isRefreshing /\ stored
    /\ isRefreshing' = TRUE /\ refreshPromise' = "pending"
    /\ refreshes' = refreshes + 1
    /\ pc' = [pc EXCEPT ![r] = "waiting"]
    /\ UNCHANGED <<session, retried>>

StartRefresh(r) ==
    /\ InFlight(r) /\ r \notin retried \cup Logins
    /\ ~isRefreshing /\ stored
    /\ isRefreshing' = TRUE /\ refreshPromise' = "pending"
    /\ refreshes' = refreshes + 1
    /\ retried' = retried \cup {r}
    /\ pc' = [pc EXCEPT ![r] = "waiting"]
    /\ UNCHANGED session

\* isRefreshing stays TRUE: the finally block belongs to the refresh.
NothingToRefresh(r) ==
    /\ InFlight(r) /\ r \notin retried \cup Logins
    /\ ~isRefreshing /\ ~stored
    /\ isRefreshing' = TRUE
    /\ retried' = retried \cup {r}
    /\ LogOut({r})
    /\ UNCHANGED <<refreshPromise, refreshes>>

Refused(r) == \/ RefusedForGood(r) \/ JoinRefresh(r)
              \/ StartRefresh(r) \/ NothingToRefresh(r)

Waiting == {r \in Requests : pc[r] = "waiting"}

\* Mutant: isRefreshing is not reset.
RefreshDoneKeepsFlag ==
    /\ refreshPromise' = "null"
    /\ refreshes' = refreshes - 1
    /\ UNCHANGED <<isRefreshing, retried>>

\* Mutant: the promise that has settled is kept.
RefreshDoneKeepsPromise ==
    /\ isRefreshing' = FALSE /\ refreshPromise' = "settled"
    /\ refreshes' = refreshes - 1
    /\ UNCHANGED retried

\* The finally block.
RefreshDone ==
    /\ isRefreshing' = FALSE /\ refreshPromise' = "null"
    /\ refreshes' = refreshes - 1
    /\ UNCHANGED retried

\* Every waiting request is sent again.
Refreshed ==
    /\ refreshes > 0
    /\ stored' = TRUE
    /\ pc' = [r \in Requests |-> IF r \in Waiting THEN "sent" ELSE pc[r]]
    /\ RefreshDone
    /\ UNCHANGED <<loading, authenticated, leaving>>

\* A refusal, an error, or an answer without a token.
RefreshFailed == refreshes > 0 /\ LogOut(Waiting) /\ RefreshDone

-----------------------------------------------------------------------------
(* The user                                                                *)

OpenPage(r) ==
    /\ Page = "app" /\ pc[r] = "new"
    /\ pc' = [pc EXCEPT ![r] = Sent(stored)]
    /\ UNCHANGED <<session, refresh>>

\* The form stays busy until login() has ended.
SubmitLogin(r) ==
    /\ Page = "login" /\ pc[r] = "new"
    /\ \A other \in Logins \cup Boots : pc[other] \in {"new", "settled"}
    /\ \E boot \in Boots : pc[boot] = "new"
    /\ pc' = [pc EXCEPT ![r] = "bare"]
    /\ loading' = TRUE
    /\ UNCHANGED <<stored, authenticated, leaving, refresh>>

ClickLogout(r) ==
    /\ Page = "app" /\ pc[r] = "new"
    /\ \/ /\ stored
          /\ pc' = [pc EXCEPT ![r] = "sent"]
          /\ UNCHANGED <<session, refresh>>
       \/ ~stored /\ Fail(r)

\* The navigation after a logout, or the user's reload of a quiet page.  (A
\* reload at another time leads to an initial state.)
Reload ==
    /\ leaving \/ \A r \in Requests : pc[r] \in {"new", "settled"}
    /\ stored' = stored
    /\ loading' = stored /\ authenticated' = FALSE /\ leaving' = FALSE
    /\ isRefreshing' = FALSE /\ refreshPromise' = "null" /\ refreshes' = 0
    /\ retried' = {}
    /\ \E boot \in Boots : pc' = Loaded(boot, stored)

-----------------------------------------------------------------------------

Answered(r) ==
    \/ r \in Pages /\ PageAnswered(r)
    \/ r \in Boots \cup Saves /\ ProfileAnswered(r)
    \/ r \in Logins /\ LoginAnswered(r)
    \/ r \in Logouts /\ LogoutAnswered(r)

Settle(r) == Answered(r) \/ Failed(r) \/ Refused(r)

User == \/ \E r \in Pages : OpenPage(r)
        \/ \E r \in Logins : SubmitLogin(r)
        \/ \E r \in Logouts : ClickLogout(r)

Next == \/ \E r \in Requests : Settle(r)
        \/ Refreshed \/ RefreshFailed
        \/ User
        \/ Reload

\* The browser ends every exchange, with an answer or with an error, and
\* carries out a navigation.  The user owes nothing.
Fairness == /\ \A r \in Requests : WF_vars(Settle(r))
            /\ WF_vars(Refreshed \/ RefreshFailed)
            /\ WF_vars(leaving /\ Reload)

Spec == Init /\ [][Next]_vars /\ Fairness

-----------------------------------------------------------------------------
(* Properties                                                              *)

\* Requests refused at the same time share one refresh, and none waits for a
\* refresh that is not in flight (the interceptor's use of refreshPromise).
WaitersShareOneRefresh ==
    /\ refreshes <= 1
    /\ \A r \in Requests : pc[r] = "waiting" => refreshes = 1

\* Every request of a load of the application is answered or rejected: no 401
\* is retried for ever, and nobody waits for ever on a refresh.
EverySettles ==
    \A r \in Requests :
        (pc[r] \in {"bare", "sent", "waiting"}) ~> (pc[r] \in {"new", "settled"})

\* The authentication bootstrap and a login leave the spinner, whatever the
\* server answers (AuthContext's loading).
InitializationSettles == loading ~> ~loading

\* Whenever tokens are stored, the interceptor will answer a 401 by a refresh:
\* one can be started, or one is pending.
RefreshesOn401 == stored => ~isRefreshing \/ refreshPromise = "pending"

\* A session whose tokens are gone does not show the application.
FailsClosed == authenticated => stored

\* A returning user: in this load of the application nobody has logged in or
\* saved a profile.
Returning == \A r \in Logins \cup Saves : pc[r] = "new"

\* Until a login or a saved profile, a 401 finds a refresh to start or to join.
ReturningRefreshes == Returning => RefreshesOn401

\* Until then, the application is not shown without tokens.
ReturningFailsClosed == Returning => FailsClosed
=============================================================================
