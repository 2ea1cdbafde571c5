--------------------------- MODULE FrontendSession ---------------------------
(***************************************************************************)
(* The browser's session: the token pair in localStorage, the calls that   *)
(* use it (lib/api.ts), the pages that start and end it (login, register,  *)
(* Shell), and the tokens the API issues and accepts.  JavaScript runs     *)
(* each handler to its next await, so an action is the code between two    *)
(* awaits; every await is a place where another call, a sign-out or a      *)
(* sign-in may come first.  Legacy sessionStorage keys, the error texts    *)
(* and the payloads are left out.                                          *)
(***************************************************************************)
EXTENDS Naturals

CONSTANTS Users,      \* people who sign in on this browser
          NoUser,     \* nobody
          Calls,      \* the api() calls of a behaviour
          MaxPairs    \* bound: token pairs the API issues

ASSUME SessionAssumption == NoUser \notin Users /\ MaxPairs \in Nat

VARIABLES store,      \* the token pair in localStorage
          screen,     \* who is signed in, as the pages see it
          calls,      \* the calls and how far each has come
          issued,     \* number of token pairs issued so far
          age,        \* how old each issued pair is
          outage,     \* the API, or the proxy before it, answers 5xx
          applied     \* how often the API has carried out each call

sessionVars == <<store, screen, calls, issued, age, outage, applied>>

\* An access token and the refresh token issued with it.
Pair == [user : Users \cup {NoUser}, id : 0 .. MaxPairs]
NoPair == [user |-> NoUser, id |-> 0]

\* "fresh": more than REFRESH_BUFFER_SEC to live.  "stale": the access token is close
\* to its end or past it.  "dead": the refresh token has expired as well.
Ages == {"fresh", "stale", "dead"}
\* "data" is any request of a page, an image or a report included.
Kinds == {"data", "boot", "login"}
Phases == {"idle", "ensuring", "sent", "answered", "refused", "refreshing", "done"}
\* owner is who signs in with a login, token what a request in flight is sent with.
Call == [phase : Phases, kind : Kinds, owner : Users \cup {NoUser}, token : Pair,
         again : BOOLEAN]
Unasked == [phase |-> "idle", kind |-> "data", owner |-> NoUser, token |-> NoPair, again |-> FALSE]
Finished == [Unasked EXCEPT !.phase = "done"]

SessionTypeOK ==
    /\ store \in Pair
    /\ screen \in Users \cup {NoUser}
    /\ calls \in [Calls -> Call]
    /\ issued \in 0 .. MaxPairs
    /\ age \in [0 .. MaxPairs -> Ages]
    /\ outage \in BOOLEAN
    /\ applied \in [Calls -> Nat]

SessionInit ==
    /\ store = NoPair /\ screen = NoUser
    /\ calls = [c \in Calls |-> Unasked]
    /\ issued = 0
    /\ age = [n \in 0 .. MaxPairs |-> "fresh"]
    /\ outage = FALSE
    /\ applied = [c \in Calls |-> 0]

-----------------------------------------------------------------------------
(* The API.  Its tokens are signed and stateless: a refresh token stays    *)
(* good until it expires, however often it is used.                        *)

AcceptsAccess(p) == p # NoPair /\ age[p.id] # "dead"
RejectsAccess(p) == p = NoPair \/ age[p.id] # "fresh"
\* Mutant: refresh tokens are rotated, an earlier one is refused.
AcceptsLatestRefresh(p) == p.id = issued /\ age[p.id] # "dead"
AcceptsRefresh(p) == age[p.id] # "dead"
NewPair(u) == [user |-> u, id |-> issued + 1]

\* setSession: both tokens and the user, in one step.
SetSession(u) ==
    /\ issued < MaxPairs
    /\ issued' = issued + 1
    /\ store' = NewPair(u)
ClearSession == store' = NoPair /\ UNCHANGED issued

Goes(c, phase) == calls' = [calls EXCEPT ![c].phase = phase]
GoesWith(c, phase, p) == calls' = [calls EXCEPT ![c].phase = phase, ![c].token = p]
Finish(c) == calls' = [calls EXCEPT ![c] = Finished]
Quiet == UNCHANGED <<age, outage, applied>>

-----------------------------------------------------------------------------
(* Pages                                                                   *)

\* api() is called for the page of `screen`: ensureFreshAccessToken returns at once for a
\* fresh token or without a session, and starts a refresh otherwise.
Begin(c, kind) ==
    /\ calls[c].phase = "idle"
    /\ screen # NoUser
    /\ LET waits == store # NoPair /\ age[store.id] # "fresh"
       IN calls' = [calls EXCEPT ![c] =
            [phase |-> IF waits THEN "ensuring" ELSE "sent", kind |-> kind, owner |-> NoUser,
             token |-> store, again |-> FALSE]]
    /\ UNCHANGED <<store, screen, issued>> /\ Quiet

\* The login and register pages post the credentials of u; this path is never refreshed
\* beforehand.
SignIn(c, u) ==
    /\ calls[c].phase = "idle"
    /\ calls' = [calls EXCEPT ![c] = [phase |-> "sent", kind |-> "login", owner |-> u,
                                      token |-> NoPair, again |-> FALSE]]
    /\ UNCHANGED <<store, screen, issued>> /\ Quiet

\* Shell's "Sign out": clearSession and the login page.  Calls in flight go on.
SignOut ==
    /\ screen # NoUser
    /\ ClearSession
    /\ screen' = NoUser
    /\ UNCHANGED calls /\ Quiet

-----------------------------------------------------------------------------
(* A call                                                                  *)

\* The API carries the call out, for whoever the token or the credentials name.
Serve(c) ==
    /\ calls[c].phase = "sent"
    /\ ~outage
    /\ IF calls[c].kind = "login" THEN ~calls[c].again ELSE AcceptsAccess(calls[c].token)
    /\ applied' = [applied EXCEPT ![c] = @ + 1]
    /\ GoesWith(c, "answered", NoPair)
    /\ UNCHANGED <<store, screen, issued, age, outage>>

\* The API answers 401: no token, an expired one, or a wrong password.
Refuse(c) ==
    /\ calls[c].phase = "sent"
    /\ ~outage
    /\ calls[c].kind = "login" \/ RejectsAccess(calls[c].token)
    /\ GoesWith(c, "refused", NoPair)
    /\ UNCHANGED <<store, screen, issued>> /\ Quiet

\* The answer arrives.  A login stores its tokens and opens the workspace.
Settle(c) ==
    /\ calls[c].phase = "answered"
    /\ Finish(c)
    /\ IF calls[c].kind = "login"
       THEN SetSession(calls[c].owner) /\ screen' = calls[c].owner
       ELSE UNCHANGED <<store, screen, issued>>
    /\ Quiet

\* A call that ends in an authentication failure ends the session when it is the
\* workspace's boot; any other page only shows the error.
Fails(c) ==
    /\ Finish(c)
    /\ IF calls[c].kind = "boot" THEN ClearSession /\ screen' = NoUser
       ELSE UNCHANGED <<store, screen, issued>>

\* The 401 arrives: refresh once with the refresh token of the moment, or give up.
SeeRefusal(c) ==
    /\ calls[c].phase = "refused"
    /\ IF store # NoPair /\ ~calls[c].again
       THEN GoesWith(c, "refreshing", store) /\ UNCHANGED <<store, screen, issued>>
       ELSE Fails(c)
    /\ Quiet

\* Mutant: a call whose answer is lost is sent again.
LoseAndRepeat(c) ==
    /\ calls[c].phase \in {"sent", "answered", "refused", "ensuring", "refreshing"}
    /\ Goes(c, "sent")
    /\ UNCHANGED <<store, screen, issued>> /\ Quiet

\* The network fails before or after the API has done its work, or the 30 s of a media
\* load run out: the call ends with an error and is not repeated.
Lose(c) ==
    /\ calls[c].phase \in {"sent", "answered", "refused", "ensuring", "refreshing"}
    /\ Finish(c)
    /\ UNCHANGED <<store, screen, issued>> /\ Quiet

-----------------------------------------------------------------------------
(* refreshAccessToken                                                      *)

\* The new pair is stored over whatever the store holds by now, and the call is sent
\* with it, the second time if a 401 had started the refresh.
Refreshed(c) ==
    /\ calls[c].phase \in {"ensuring", "refreshing"}
    /\ ~outage /\ AcceptsRefresh(calls[c].token)
    /\ SetSession(calls[c].token.user)
    /\ calls' = [calls EXCEPT ![c].phase = "sent", ![c].token = store',
                              ![c].again = (calls[c].phase = "refreshing")]
    /\ UNCHANGED screen /\ Quiet

\* Any answer but 2xx, a refusal or a server error, clears the session.  Before the
\* first attempt api() then sends the call without a token; the workspace's boot and a
\* retry give up.
RefreshFails(c) ==
    /\ calls[c].phase \in {"ensuring", "refreshing"}
    /\ outage \/ ~AcceptsRefresh(calls[c].token)
    /\ ClearSession
    /\ IF calls[c].phase = "ensuring" /\ calls[c].kind # "boot"
       THEN GoesWith(c, "sent", NoPair) /\ UNCHANGED screen
       ELSE /\ Finish(c)
            /\ screen' = IF calls[c].kind = "boot" THEN NoUser ELSE screen
    /\ Quiet

-----------------------------------------------------------------------------
(* Surroundings                                                            *)

Outage ==
    /\ outage' = ~outage
    /\ UNCHANGED <<store, screen, calls, issued, age, applied>>

\* Tokens grow old.
Expire(n) ==
    /\ n <= issued /\ n # 0
    /\ age[n] # "dead"
    /\ age' = [age EXCEPT ![n] = IF @ = "fresh" THEN "stale" ELSE "dead"]
    /\ UNCHANGED <<store, screen, calls, issued, outage, applied>>

SessionNext ==
    \/ SignOut \/ Outage
    \/ \E n \in 1 .. MaxPairs : Expire(n)
    \/ \E c \in Calls :
         \/ \E kind \in Kinds \ {"login"} : Begin(c, kind)
         \/ \E u \in Users : SignIn(c, u)
         \/ Serve(c) \/ Refuse(c) \/ Settle(c) \/ SeeRefusal(c) \/ Lose(c)
         \/ Refreshed(c) \/ RefreshFails(c)

SessionSpec == SessionInit /\ [][SessionNext]_sessionVars

-----------------------------------------------------------------------------
(* Properties                                                              *)

\* A call is carried out at most once: a lost answer is reported, never repeated, and
\* the one repetition follows a 401, which carried nothing out.  A trade submitted once
\* is recorded once (api, fetchMediaBlob).
CallAppliedOnce == \A c \in Calls : applied[c] <= 1

\* Requests that are refused together refresh with the same token, and none of them
\* signs the user out: the session ends only when the user signs out, the refresh token
\* has expired, the workspace's boot is refused, or the API fails.
SessionEndsForAReason ==
    [][store # NoPair /\ store' = NoPair =>
         \/ SignOut
         \/ \E c \in Calls : calls[c].phase \in {"ensuring", "refreshing"} /\ RefreshFails(c)
                            /\ (outage \/ age[calls[c].token.id] = "dead")
         \/ \E c \in Calls : calls[c].kind = "boot" /\ SeeRefusal(c)]_sessionVars
==============================================================================
