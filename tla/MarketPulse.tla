------------------------------ MODULE MarketPulse ------------------------------
(***************************************************************************)
(* The prices of the Market Pulse strip: get_ticker on the server, with    *)
(* its process-wide cache and the lock that lets one request at a time     *)
(* refresh it, and the strips of the browser tabs that poll it.  Quotes    *)
(* are abstracted to the time they were put together; the providers        *)
(* answer after any delay, or not, or the refresh fails.                   *)
(***************************************************************************)
EXTENDS Naturals

CONSTANTS Tabs,       \* browser tabs with a strip
          Threads,    \* threads of the server's pool
          NoTab, NoThread, NoPayload,
          TTL,        \* market_ticker_cache_ttl_seconds
          MaxTime     \* bound: the clock

ASSUME PulseAssumption ==
    /\ NoTab \notin Tabs /\ NoThread \notin Threads
    /\ TTL \in Nat /\ MaxTime \in Nat /\ NoPayload \notin Nat

VARIABLES now,        \* utcnow()
          cacheAt,    \* _cache_at, and so the payload of that time; NoPayload at first
          holder,     \* the thread that holds _refresh_lock
          threads,    \* requests being served
          inFlight,   \* the inFlight flag of each tab
          strip       \* the payload each tab shows

pulseVars == <<now, cacheAt, holder, threads, inFlight, strip>>

Times == 0 .. MaxTime
Payloads == Times \cup {NoPayload}
Stages == {"idle", "look", "try", "stale", "wait", "again", "refresh", "release", "done",
           "failed"}
TickerRequest == [stage : Stages, tab : Tabs \cup {NoTab}, began : Times, result : Payloads]
IdleThread == [stage |-> "idle", tab |-> NoTab, began |-> 0, result |-> NoPayload]

PulseTypeOK ==
    /\ now \in Times /\ cacheAt \in Payloads
    /\ holder \in Threads \cup {NoThread}
    /\ threads \in [Threads -> TickerRequest]
    /\ inFlight \in [Tabs -> BOOLEAN]
    /\ strip \in [Tabs -> Payloads]

PulseInit ==
    /\ now = 0 /\ cacheAt = NoPayload /\ holder = NoThread
    /\ threads = [h \in Threads |-> IdleThread]
    /\ inFlight = [t \in Tabs |-> FALSE]
    /\ strip = [t \in Tabs |-> NoPayload]

Advance == now < MaxTime /\ now' = now + 1
           /\ UNCHANGED <<cacheAt, holder, threads, inFlight, strip>>

-----------------------------------------------------------------------------
(* A tab                                                                   *)

\* load: on mount, by the timer, or when the tab becomes visible; a thread of the pool
\* takes the request, and reads the clock first.
PollTicker(t, h) ==
    /\ ~inFlight[t]
    /\ threads[h].stage = "idle"
    /\ inFlight' = [inFlight EXCEPT ![t] = TRUE]
    /\ threads' = [threads EXCEPT ![h] = [stage |-> "look", tab |-> t, began |-> now,
                                          result |-> NoPayload]]
    /\ UNCHANGED <<now, cacheAt, holder, strip>>

\* The answer of the request: setData, or an error that keeps the data.
Receive(h) ==
    LET t == threads[h].tab
    IN  /\ threads[h].stage \in {"done", "failed"}
        /\ threads' = [threads EXCEPT ![h] = IdleThread]
        /\ IF t = NoTab
           THEN UNCHANGED <<inFlight, strip>>
           ELSE /\ inFlight' = [inFlight EXCEPT ![t] = FALSE]
                /\ strip' = IF threads[h].stage = "failed" THEN strip
                            ELSE [strip EXCEPT ![t] = threads[h].result]
        /\ UNCHANGED <<now, cacheAt, holder>>

Abandoned(t) == [h \in Threads |-> IF threads[h].tab = t THEN [threads[h] EXCEPT !.tab = NoTab]
                                                       ELSE threads[h]]

\* The connection breaks: the tab has an error; the server goes on for nobody.
Disconnect(t) ==
    /\ inFlight[t]
    /\ inFlight' = [inFlight EXCEPT ![t] = FALSE]
    /\ threads' = Abandoned(t)
    /\ UNCHANGED <<now, cacheAt, holder, strip>>

\* The shell is mounted anew, with an empty strip and a flag of its own.
Remount(t) ==
    /\ strip' = [strip EXCEPT ![t] = NoPayload]
    /\ inFlight' = [inFlight EXCEPT ![t] = FALSE]
    /\ threads' = Abandoned(t)
    /\ UNCHANGED <<now, cacheAt, holder>>

-----------------------------------------------------------------------------
(* get_ticker: a step per critical section                                 *)

Fresh(time) == cacheAt # NoPayload /\ time <= cacheAt + TTL

Goto(h, stage) == threads' = [threads EXCEPT ![h].stage = stage]
Return(h, stage, payload) ==
    threads' = [threads EXCEPT ![h].stage = stage, ![h].result = payload]

\* Mutant: a request that finds the cache too old refreshes it at once, without the lock.
LookAndRefresh(h) ==
    /\ threads[h].stage = "look"
    /\ IF Fresh(threads[h].began) THEN Return(h, "done", cacheAt) ELSE Goto(h, "refresh")
    /\ UNCHANGED <<now, cacheAt, holder, inFlight, strip>>

\* The cache is young enough for the time read at the start.
Look(h) ==
    /\ threads[h].stage = "look"
    /\ IF Fresh(threads[h].began) THEN Return(h, "done", cacheAt) ELSE Goto(h, "try")
    /\ UNCHANGED <<now, cacheAt, holder, inFlight, strip>>

TryLock(h) ==
    /\ threads[h].stage = "try"
    /\ IF holder = NoThread
       THEN holder' = h /\ Goto(h, "again")
       ELSE UNCHANGED holder /\ Goto(h, "stale")
    /\ UNCHANGED <<now, cacheAt, inFlight, strip>>

\* Another request is refreshing: serve what there is, of whatever age.
ServeStale(h) ==
    /\ threads[h].stage = "stale"
    /\ IF cacheAt # NoPayload THEN Return(h, "done", cacheAt) ELSE Goto(h, "wait")
    /\ UNCHANGED <<now, cacheAt, holder, inFlight, strip>>

\* With nothing to serve, wait for the lock.
Acquire(h) ==
    /\ threads[h].stage = "wait" /\ holder = NoThread
    /\ holder' = h /\ Goto(h, "again")
    /\ UNCHANGED <<now, cacheAt, inFlight, strip>>

\* Having the lock, look again.
LookAgain(h) ==
    /\ threads[h].stage = "again"
    /\ IF Fresh(now) THEN Return(h, "release", cacheAt) ELSE Goto(h, "refresh")
    /\ UNCHANGED <<now, cacheAt, holder, inFlight, strip>>

\* _refresh ends, and the payload becomes the cached one.
Refresh(h) ==
    /\ threads[h].stage = "refresh"
    /\ cacheAt' = now /\ Return(h, "release", now)
    /\ UNCHANGED <<now, holder, inFlight, strip>>

Release(h) ==
    /\ threads[h].stage = "release"
    /\ holder' = NoThread /\ Goto(h, "done")
    /\ UNCHANGED <<now, cacheAt, inFlight, strip>>

\* Mutant: the lock is released on the way out of a refresh that worked only.
FailHolding(h) ==
    /\ threads[h].stage = "refresh"
    /\ Goto(h, "failed")
    /\ UNCHANGED <<now, cacheAt, holder, inFlight, strip>>

\* _refresh raises (a provider's failure only marks its quote, the database's does not):
\* the finally clause releases.
RefreshRaises(h) ==
    /\ threads[h].stage = "refresh"
    /\ holder' = NoThread /\ Goto(h, "failed")
    /\ UNCHANGED <<now, cacheAt, inFlight, strip>>

PulseNext ==
    \/ Advance
    \/ \E t \in Tabs, h \in Threads : PollTicker(t, h)
    \/ \E t \in Tabs : Disconnect(t) \/ Remount(t)
    \/ \E h \in Threads :
          \/ Look(h) \/ TryLock(h) \/ ServeStale(h) \/ Acquire(h) \/ LookAgain(h)
          \/ Refresh(h) \/ Release(h) \/ RefreshRaises(h) \/ Receive(h)

PulseSpec == PulseInit /\ [][PulseNext]_pulseVars

-----------------------------------------------------------------------------
(* Properties                                                              *)

\* The refresh lock is held exactly by the thread that is between acquiring and releasing
\* it, so at most one thread calls the providers, and the lock is free whenever a refresh
\* has ended or failed: a request that waits for it waits for a thread at work
\* ("single-flight refresh").
RefreshLockIsAtWork ==
    \A h \in Threads : threads[h].stage \in {"again", "refresh", "release"} <=> holder = h

\* However requests queue, overtake each other, fail and are given up: the cache is
\* replaced only when it has outlived its TTL, and no tab goes back from a newer payload
\* to an older one (the double check in get_ticker, inFlight in useMarketQuotes).
PricesMoveForward ==
    [][/\ cacheAt' # cacheAt => cacheAt = NoPayload \/ cacheAt' > cacheAt + TTL
       /\ \A t \in Tabs : strip'[t] # NoPayload /\ strip[t] # NoPayload => strip'[t] >= strip[t]
      ]_pulseVars

-----------------------------------------------------------------------------
(* Why they hold: the inductive invariant                                  *)

\* An answer on its way is no younger than the cache and no older than the strip it is for.
AnswerFits(r) ==
    /\ r.result # NoPayload => cacheAt # NoPayload /\ r.result <= cacheAt
    /\ r.stage \in {"release", "done"} =>
          /\ r.result # NoPayload
          /\ r.tab # NoTab /\ strip[r.tab] # NoPayload => strip[r.tab] <= r.result

\* Who refreshes has found the cache too old, and nobody else can have renewed it.
RefreshIsDue(r) == r.stage = "refresh" => cacheAt = NoPayload \/ cacheAt + TTL < now

OneRequestPerTab ==
    /\ \A h \in Threads : threads[h].tab # NoTab => inFlight[threads[h].tab]
    /\ \A g, h \in Threads : threads[g].tab # NoTab /\ threads[g].tab = threads[h].tab => g = h

CacheIsAhead ==
    /\ cacheAt # NoPayload => cacheAt <= now
    /\ \A t \in Tabs : strip[t] # NoPayload => cacheAt # NoPayload /\ strip[t] <= cacheAt

PulseInvariant ==
    /\ RefreshLockIsAtWork
    /\ \A h \in Threads : AnswerFits(threads[h]) /\ RefreshIsDue(threads[h])
    /\ OneRequestPerTab
    /\ CacheIsAhead
================================================================================
