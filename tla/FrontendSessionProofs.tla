------------------------ MODULE FrontendSessionProofs ------------------------
(***************************************************************************)
(* Theorems about FrontendSession for every set of users and of calls and  *)
(* every number of token pairs, and their proofs.                          *)
(***************************************************************************)
EXTENDS FrontendSession, TLAPS

USE SessionAssumption

-----------------------------------------------------------------------------
(* Type correctness                                                        *)

LEMMA NoPairType == NoPair \in Pair /\ Unasked \in Call /\ Finished \in Call
<1>1. NoPair \in Pair
  BY DEF NoPair, Pair
<1> QED
  BY <1>1 DEF Unasked, Finished, Call, Phases, Kinds

LEMMA SessionInitType == SessionInit => SessionTypeOK
<1> SUFFICES ASSUME SessionInit PROVE SessionTypeOK
  OBVIOUS
<1>1. calls \in [Calls -> Call] /\ store \in Pair
  BY NoPairType DEF SessionInit
<1>2. age \in [0 .. MaxPairs -> Ages]
  BY DEF SessionInit, Ages
<1>3. issued \in 0 .. MaxPairs /\ applied \in [Calls -> Nat]
  BY DEF SessionInit
<1>4. screen \in Users \cup {NoUser} /\ outage \in BOOLEAN
  BY DEF SessionInit
<1> QED
  BY <1>1, <1>2, <1>3, <1>4 DEF SessionTypeOK

\* Storing a session and clearing it keep the pair well formed.
LEMMA StoreType ==
    ASSUME SessionTypeOK, NEW u \in Users \cup {NoUser}, SetSession(u) \/ ClearSession
    PROVE  store' \in Pair /\ issued' \in 0 .. MaxPairs
<1>1. CASE SetSession(u)
  BY <1>1 DEF SetSession, SessionTypeOK, NewPair, Pair
<1>2. CASE ClearSession
  BY <1>2, NoPairType DEF ClearSession, SessionTypeOK
<1> QED
  BY <1>1, <1>2

\* Moving a call on, with another token or without, or ending it keeps the calls well
\* formed.
LEMMA GoesType ==
    ASSUME SessionTypeOK, NEW c \in Calls, NEW phase \in Phases, NEW p \in Pair,
           Goes(c, phase) \/ GoesWith(c, phase, p) \/ Finish(c)
    PROVE  calls' \in [Calls -> Call]
<1>1. calls[c] \in Call
  BY DEF SessionTypeOK
<1>2. [calls[c] EXCEPT !.phase = phase] \in Call
  BY <1>1 DEF Call
<1>3. [calls[c] EXCEPT !.phase = phase, !.token = p] \in Call
  BY <1>1 DEF Call
<1> QED
  BY <1>2, <1>3, NoPairType DEF Goes, GoesWith, Finish, SessionTypeOK

LEMMA PageType ==
    ASSUME SessionTypeOK,
           \/ SignOut \/ Outage
           \/ \E n \in 1 .. MaxPairs : Expire(n)
           \/ \E c \in Calls : \/ \E kind \in Kinds \ {"login"} : Begin(c, kind)
                               \/ \E u \in Users : SignIn(c, u)
    PROVE  SessionTypeOK'
<1>1. CASE SignOut
  BY <1>1, NoPairType DEF SignOut, ClearSession, Quiet, SessionTypeOK
<1>2. CASE Outage
  BY <1>2 DEF Outage, SessionTypeOK
<1>3. ASSUME NEW n \in 1 .. MaxPairs, Expire(n) PROVE SessionTypeOK'
  <2>1. age' \in [0 .. MaxPairs -> Ages]
    BY <1>3 DEF Expire, SessionTypeOK, Ages
  <2> QED
    BY <1>3, <2>1 DEF Expire, SessionTypeOK
<1>4. ASSUME NEW c \in Calls, NEW kind \in Kinds \ {"login"}, Begin(c, kind)
      PROVE  SessionTypeOK'
  <2>1. calls' \in [Calls -> Call]
    BY <1>4, NoPairType DEF Begin, SessionTypeOK, Call, Phases
  <2> QED
    BY <1>4, <2>1 DEF Begin, Quiet, SessionTypeOK
<1>5. ASSUME NEW c \in Calls, NEW u \in Users, SignIn(c, u) PROVE SessionTypeOK'
  <2>1. calls' \in [Calls -> Call]
    BY <1>5, NoPairType DEF SignIn, SessionTypeOK, Call, Phases, Kinds
  <2> QED
    BY <1>5, <2>1 DEF SignIn, Quiet, SessionTypeOK
<1> QED
  BY <1>1, <1>2, <1>3, <1>4, <1>5

LEMMA CallType ==
    ASSUME SessionTypeOK, NEW c \in Calls,
           \/ Serve(c) \/ Refuse(c) \/ Settle(c) \/ SeeRefusal(c) \/ Lose(c)
           \/ Refreshed(c) \/ RefreshFails(c)
    PROVE  SessionTypeOK'
<1>0. /\ calls[c] \in Call /\ calls[c].owner \in Users \cup {NoUser}
      /\ calls[c].token \in Pair /\ calls[c].token.user \in Users \cup {NoUser}
  BY DEF SessionTypeOK, Call, Pair
<1>1. CASE Serve(c)
  <2>1. calls' \in [Calls -> Call]
    BY <1>0, <1>1, GoesType, NoPairType DEF Serve, Phases
  <2>2. applied' \in [Calls -> Nat]
    BY <1>1 DEF Serve, SessionTypeOK
  <2> QED
    BY <1>1, <2>1, <2>2 DEF Serve, SessionTypeOK
<1>2. CASE Refuse(c) \/ Lose(c)
  <2>1. calls' \in [Calls -> Call]
    BY <1>0, <1>2, GoesType, NoPairType DEF Refuse, Lose, Phases
  <2> QED
    BY <1>2, <2>1 DEF Refuse, Lose, Quiet, SessionTypeOK
<1>3. CASE Settle(c)
  <2>1. calls' \in [Calls -> Call]
    BY <1>0, <1>3, GoesType DEF Settle, Phases
  <2>2. store' \in Pair /\ issued' \in 0 .. MaxPairs /\ screen' \in Users \cup {NoUser}
    BY <1>0, <1>3, StoreType DEF Settle, SessionTypeOK
  <2> QED
    BY <1>3, <2>1, <2>2 DEF Settle, Quiet, SessionTypeOK
<1>4. CASE SeeRefusal(c)
  <2>1. calls' \in [Calls -> Call]
    BY <1>0, <1>4, GoesType DEF SeeRefusal, Fails, Phases, SessionTypeOK
  <2>2. store' \in Pair /\ issued' \in 0 .. MaxPairs /\ screen' \in Users \cup {NoUser}
    BY <1>4, NoPairType DEF SeeRefusal, Fails, ClearSession, SessionTypeOK
  <2> QED
    BY <1>4, <2>1, <2>2 DEF SeeRefusal, Quiet, SessionTypeOK
<1>5. CASE Refreshed(c)
  <2>1. store' \in Pair /\ issued' \in 0 .. MaxPairs
    BY <1>0, <1>5, StoreType DEF Refreshed
  <2>2. [calls[c] EXCEPT !.phase = "sent", !.token = store',
                         !.again = (calls[c].phase = "refreshing")] \in Call
    BY <1>0, <2>1 DEF Call, Phases
  <2>3. calls' \in [Calls -> Call]
    BY <1>5, <2>2 DEF Refreshed, SessionTypeOK
  <2> QED
    BY <1>5, <2>1, <2>3 DEF Refreshed, Quiet, SessionTypeOK
<1>6. CASE RefreshFails(c)
  <2>1. calls' \in [Calls -> Call]
    BY <1>0, <1>6, GoesType, NoPairType DEF RefreshFails, Phases
  <2>2. store' \in Pair /\ issued' \in 0 .. MaxPairs /\ screen' \in Users \cup {NoUser}
    BY <1>6, NoPairType DEF RefreshFails, ClearSession, SessionTypeOK
  <2> QED
    BY <1>6, <2>1, <2>2 DEF RefreshFails, Quiet, SessionTypeOK
<1> QED
  BY <1>1, <1>2, <1>3, <1>4, <1>5, <1>6

LEMMA SessionNextType == SessionTypeOK /\ [SessionNext]_sessionVars => SessionTypeOK'
<1> SUFFICES ASSUME SessionTypeOK, [SessionNext]_sessionVars PROVE SessionTypeOK'
  OBVIOUS
<1>1. CASE SessionNext
  BY <1>1, PageType, CallType DEF SessionNext
<1>2. CASE UNCHANGED sessionVars
  BY <1>2 DEF sessionVars, SessionTypeOK
<1> QED
  BY <1>1, <1>2

\* Every variable of the session keeps its type (lib/api.ts, Shell.tsx).
THEOREM SessionTypeCorrect == SessionSpec => []SessionTypeOK
<1> QED
  BY SessionInitType, SessionNextType, PTL DEF SessionSpec

-----------------------------------------------------------------------------
(* A call is carried out at most once                                      *)

Served == {"answered", "done"}

\* The strengthening: a call that can still reach the API has not been carried out.  The
\* one repetition of a call starts from a 401 (phase "refused"), and only Serve, which
\* ends in "answered", carries a call out.
OnceInvariant ==
    \A c \in Calls : applied[c] \in {0, 1} /\ (applied[c] = 1 => calls[c].phase \in Served)

\* What keeps the invariant: a call either stays as it is, or moves on from a phase before
\* the answer without being carried out, or is carried out as it is answered.
LEMMA OnceStep ==
    ASSUME SessionTypeOK, OnceInvariant, NEW c \in Calls, NEW k \in Calls,
           calls'[k].phase = calls[k].phase \/ k = c,
           applied'[k] = applied[k] \/ (k = c /\ applied'[k] = applied[k] + 1),
           \/ calls'[c].phase = calls[c].phase /\ applied'[c] = applied[c]
           \/ calls[c].phase \notin Served /\ applied'[c] = applied[c]
           \/ calls'[c].phase \in Served /\ applied'[c] = applied[c]
           \/ calls[c].phase \notin Served /\ calls'[c].phase \in Served
    PROVE  applied'[k] \in {0, 1} /\ (applied'[k] = 1 => calls'[k].phase \in Served)
<1>1. applied[k] \in {0, 1} /\ applied[c] \in {0, 1}
  BY DEF OnceInvariant
<1>2. applied[k] = 1 => calls[k].phase \in Served
  BY DEF OnceInvariant
<1> QED
  BY <1>1, <1>2

LEMMA OnceNext == SessionTypeOK /\ OnceInvariant /\ [SessionNext]_sessionVars => OnceInvariant'
<1> SUFFICES ASSUME SessionTypeOK, OnceInvariant, [SessionNext]_sessionVars,
                    NEW k \in Calls
             PROVE  applied'[k] \in {0, 1} /\ (applied'[k] = 1 => calls'[k].phase \in Served)
  BY DEF OnceInvariant
<1>0. /\ calls \in [Calls -> Call] /\ applied \in [Calls -> Nat]
      /\ \A c \in Calls : calls[c] \in Call
  BY DEF SessionTypeOK
<1>1. CASE SignOut \/ Outage \/ \E n \in 1 .. MaxPairs : Expire(n)
  BY <1>1 DEF SignOut, Outage, Expire, Quiet, OnceInvariant
<1>2. CASE UNCHANGED sessionVars
  BY <1>2 DEF sessionVars, OnceInvariant
<1>3. ASSUME NEW c \in Calls, NEW kind \in Kinds \ {"login"}, Begin(c, kind)
      PROVE  applied'[k] \in {0, 1} /\ (applied'[k] = 1 => calls'[k].phase \in Served)
  <2>1. calls[c].phase \notin Served /\ applied' = applied
    BY <1>3 DEF Begin, Served, Quiet
  <2>2. calls'[k].phase = calls[k].phase \/ k = c
    BY <1>0, <1>3 DEF Begin
  <2> QED
    BY <2>1, <2>2, OnceStep
<1>4. ASSUME NEW c \in Calls, NEW u \in Users, SignIn(c, u)
      PROVE  applied'[k] \in {0, 1} /\ (applied'[k] = 1 => calls'[k].phase \in Served)
  <2>1. calls[c].phase \notin Served /\ applied' = applied
    BY <1>4 DEF SignIn, Served, Quiet
  <2>2. calls'[k].phase = calls[k].phase \/ k = c
    BY <1>0, <1>4 DEF SignIn
  <2> QED
    BY <2>1, <2>2, OnceStep
<1>5. ASSUME NEW c \in Calls, Serve(c)
      PROVE  applied'[k] \in {0, 1} /\ (applied'[k] = 1 => calls'[k].phase \in Served)
  <2>1. calls[c].phase \notin Served /\ calls'[c].phase \in Served
    BY <1>0, <1>5 DEF Serve, GoesWith, Served, Call
  <2>2. calls'[k].phase = calls[k].phase \/ k = c
    BY <1>0, <1>5 DEF Serve, GoesWith
  <2>3. applied'[k] = applied[k] \/ (k = c /\ applied'[k] = applied[k] + 1)
    BY <1>0, <1>5 DEF Serve
  <2> QED
    BY <2>1, <2>2, <2>3, OnceStep
<1>6. ASSUME NEW c \in Calls, Refuse(c) \/ Settle(c) \/ SeeRefusal(c) \/ Lose(c)
      PROVE  applied'[k] \in {0, 1} /\ (applied'[k] = 1 => calls'[k].phase \in Served)
  <2>1. applied' = applied
    BY <1>6 DEF Refuse, Settle, SeeRefusal, Lose, Quiet
  <2>2. calls'[k].phase = calls[k].phase \/ k = c
    BY <1>0, <1>6 DEF Refuse, Settle, SeeRefusal, Lose, Fails, GoesWith, Finish
  <2>3. calls[c].phase \notin Served \/ calls'[c].phase \in Served
    BY <1>0, <1>6 DEF Refuse, Settle, SeeRefusal, Lose, Fails, GoesWith, Finish, Finished, Unasked,
                        Served, Call
  <2> QED
    BY <2>1, <2>2, <2>3, OnceStep
<1>7. ASSUME NEW c \in Calls, Refreshed(c) \/ RefreshFails(c)
      PROVE  applied'[k] \in {0, 1} /\ (applied'[k] = 1 => calls'[k].phase \in Served)
  <2>1. applied' = applied /\ calls[c].phase \notin Served
    BY <1>7 DEF Refreshed, RefreshFails, Quiet, Served
  <2>2. calls'[k].phase = calls[k].phase \/ k = c
    BY <1>0, <1>7 DEF Refreshed, RefreshFails, GoesWith, Finish
  <2> QED
    BY <2>1, <2>2, OnceStep
<1> QED
  BY <1>1, <1>2, <1>3, <1>4, <1>5, <1>6, <1>7 DEF SessionNext

\* However refreshes, sign-outs, outages and lost answers interleave, the API carries a
\* call out at most once.
THEOREM CallsAppliedOnce == SessionSpec => []CallAppliedOnce
<1>1. SessionInit => OnceInvariant
  BY DEF SessionInit, OnceInvariant
<1>2. OnceInvariant => CallAppliedOnce
  BY DEF OnceInvariant, CallAppliedOnce
<1> QED
  BY <1>1, <1>2, OnceNext, SessionTypeCorrect, PTL DEF SessionSpec

-----------------------------------------------------------------------------
(* The session ends for a reason                                           *)

\* A new pair is never the empty one.
LEMMA NewPairStored ==
    ASSUME SessionTypeOK, NEW u, SetSession(u) PROVE store' # NoPair
<1>1. store'.id = issued + 1 /\ issued \in Nat
  BY DEF SetSession, NewPair, SessionTypeOK
<1>2. NoPair.id = 0
  BY DEF NoPair
<1> QED
  BY <1>1, <1>2

Ends == store # NoPair /\ store' = NoPair

EndsForAReason ==
    \/ SignOut
    \/ \E c \in Calls : calls[c].phase \in {"ensuring", "refreshing"} /\ RefreshFails(c)
                       /\ (outage \/ age[calls[c].token.id] = "dead")
    \/ \E c \in Calls : calls[c].kind = "boot" /\ SeeRefusal(c)

LEMMA EndsStep ==
    ASSUME SessionTypeOK, [SessionNext]_sessionVars, Ends
    PROVE  EndsForAReason
<1>1. CASE UNCHANGED sessionVars \/ Outage \/ \E n \in 1 .. MaxPairs : Expire(n)
  BY <1>1 DEF Ends, sessionVars, Outage, Expire
<1>2. CASE SignOut
  BY <1>2 DEF EndsForAReason
<1>3. ASSUME NEW c \in Calls,
             \/ \E kind \in Kinds \ {"login"} : Begin(c, kind)
             \/ \E u \in Users : SignIn(c, u)
             \/ Serve(c) \/ Refuse(c) \/ Lose(c)
      PROVE  EndsForAReason
  BY <1>3 DEF Ends, Begin, SignIn, Serve, Refuse, Lose
<1>4. ASSUME NEW c \in Calls, Settle(c) \/ Refreshed(c) PROVE EndsForAReason
  BY <1>4, NewPairStored DEF Ends, Settle, Refreshed
<1>5. ASSUME NEW c \in Calls, SeeRefusal(c) PROVE EndsForAReason
  <2>1. calls[c].kind = "boot"
    BY <1>5 DEF Ends, SeeRefusal, Fails
  <2> QED
    BY <1>5, <2>1 DEF EndsForAReason
<1>6. ASSUME NEW c \in Calls, RefreshFails(c) PROVE EndsForAReason
  <2>1. outage \/ age[calls[c].token.id] = "dead"
    BY <1>6 DEF RefreshFails, AcceptsRefresh
  <2>2. calls[c].phase \in {"ensuring", "refreshing"}
    BY <1>6 DEF RefreshFails
  <2> QED
    BY <1>6, <2>1, <2>2 DEF EndsForAReason
<1> QED
  BY <1>1, <1>2, <1>3, <1>4, <1>5, <1>6 DEF SessionNext

\* Calls that are refused together refresh with one token and none of them ends the
\* session, for any number of calls: it ends by a sign-out, an expired refresh token, a
\* failing API or a refused boot only.
THEOREM SessionEndsOnlyForAReason == SessionSpec => SessionEndsForAReason
<1>1. SessionTypeOK /\ [SessionNext]_sessionVars =>
        [store # NoPair /\ store' = NoPair =>
         \/ SignOut
         \/ \E c \in Calls : calls[c].phase \in {"ensuring", "refreshing"} /\ RefreshFails(c)
                            /\ (outage \/ age[calls[c].token.id] = "dead")
         \/ \E c \in Calls : calls[c].kind = "boot" /\ SeeRefusal(c)]_sessionVars
  BY EndsStep DEF Ends, EndsForAReason
<1> QED
  BY <1>1, SessionTypeCorrect, PTL DEF SessionSpec, SessionEndsForAReason
==============================================================================
