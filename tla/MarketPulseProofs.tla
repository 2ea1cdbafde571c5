-------------------------- MODULE MarketPulseProofs ---------------------------
(***************************************************************************)
(* Theorems about MarketPulse for any number of tabs and threads, any time *)
(* to live and any clock, and their proofs.                                *)
(***************************************************************************)
EXTENDS MarketPulse, TLAPS

USE PulseAssumption

-----------------------------------------------------------------------------
(* What the two ways of writing a request do                               *)

LEMMA GotoShape ==
    ASSUME PulseTypeOK, NEW h \in Threads, NEW stage \in Stages, Goto(h, stage)
    PROVE  /\ threads' \in [Threads -> TickerRequest]
           /\ \A g \in Threads \ {h} : threads'[g] = threads[g]
           /\ threads'[h].stage = stage
           /\ threads'[h].tab = threads[h].tab
           /\ threads'[h].result = threads[h].result
<1>1. threads \in [Threads -> TickerRequest]
  BY DEF PulseTypeOK
<1>2. threads' = [threads EXCEPT ![h] = [threads[h] EXCEPT !.stage = stage]]
  BY DEF Goto
<1>3. threads[h] \in TickerRequest
  BY <1>1
<1>4. /\ [threads[h] EXCEPT !.stage = stage] \in TickerRequest
      /\ [threads[h] EXCEPT !.stage = stage].stage = stage
      /\ [threads[h] EXCEPT !.stage = stage].tab = threads[h].tab
      /\ [threads[h] EXCEPT !.stage = stage].result = threads[h].result
  BY <1>3 DEF TickerRequest
<1>5. threads'[h] = [threads[h] EXCEPT !.stage = stage]
  BY <1>1, <1>2
<1> QED
  BY <1>1, <1>2, <1>4, <1>5

LEMMA ReturnShape ==
    ASSUME PulseTypeOK, NEW h \in Threads, NEW stage \in Stages, NEW payload \in Payloads,
           Return(h, stage, payload)
    PROVE  /\ threads' \in [Threads -> TickerRequest]
           /\ \A g \in Threads \ {h} : threads'[g] = threads[g]
           /\ threads'[h].stage = stage
           /\ threads'[h].tab = threads[h].tab
           /\ threads'[h].result = payload
<1> DEFINE new == [[threads[h] EXCEPT !.stage = stage] EXCEPT !.result = payload]
<1>1. threads \in [Threads -> TickerRequest]
  BY DEF PulseTypeOK
<1>2. threads' = [threads EXCEPT ![h] = new]
  BY <1>1 DEF Return
<1>3. threads[h] \in TickerRequest
  BY <1>1
<1>4. /\ new \in TickerRequest
      /\ new.stage = stage
      /\ new.tab = threads[h].tab
      /\ new.result = payload
  BY <1>3 DEF TickerRequest
<1>5. threads'[h] = new
  BY <1>1, <1>2
<1> HIDE DEF new
<1> QED
  BY <1>1, <1>2, <1>4, <1>5

-----------------------------------------------------------------------------
(* Types                                                                   *)

LEMMA TimesAreNumbers ==
    /\ \A x \in Times : x \in Nat /\ x # NoPayload
    /\ \A x \in Payloads : x # NoPayload => x \in Times
BY DEF Times, Payloads

LEMMA IdleType == IdleThread \in TickerRequest
BY DEF IdleThread, TickerRequest, Stages, Times, Payloads

LEMMA AbandonedShape ==
    ASSUME PulseTypeOK, NEW t \in Tabs
    PROVE  /\ Abandoned(t) \in [Threads -> TickerRequest]
           /\ \A h \in Threads :
                 /\ Abandoned(t)[h].stage = threads[h].stage
                 /\ Abandoned(t)[h].result = threads[h].result
                 /\ Abandoned(t)[h].tab = IF threads[h].tab = t THEN NoTab ELSE threads[h].tab
<1>1. ASSUME NEW h \in Threads
      PROVE  LET r == threads[h]
                 new == [r EXCEPT !.tab = NoTab]
             IN  /\ r \in TickerRequest
                 /\ new \in TickerRequest /\ new.stage = r.stage /\ new.result = r.result
                 /\ new.tab = NoTab
  <2>1. threads[h] \in TickerRequest
    BY DEF PulseTypeOK
  <2> QED
    BY <2>1 DEF TickerRequest
<1>2. Abandoned(t) = [h \in Threads |-> IF threads[h].tab = t
                                      THEN [threads[h] EXCEPT !.tab = NoTab] ELSE threads[h]]
  BY DEF Abandoned
<1> QED
  BY <1>1, <1>2

\* A step that rewrites the request of one thread.
LEMMA WriteType ==
    ASSUME PulseTypeOK, now' \in Times, cacheAt' \in Payloads,
           holder' \in Threads \cup {NoThread}, threads' \in [Threads -> TickerRequest],
           inFlight' \in [Tabs -> BOOLEAN], strip' \in [Tabs -> Payloads]
    PROVE  PulseTypeOK'
BY DEF PulseTypeOK

LEMMA InitType == PulseInit => PulseTypeOK
<1> SUFFICES ASSUME PulseInit PROVE PulseTypeOK
  OBVIOUS
<1>1. 0 \in Times /\ NoPayload \in Payloads
  BY DEF Times, Payloads
<1> QED
  BY <1>1, IdleType DEF PulseInit, PulseTypeOK

\* The steps of get_ticker, each as what it writes.
LEMMA ThreadType ==
    ASSUME PulseTypeOK, NEW h \in Threads,
           \/ Look(h) \/ TryLock(h) \/ ServeStale(h) \/ Acquire(h) \/ LookAgain(h)
           \/ Refresh(h) \/ Release(h) \/ RefreshRaises(h)
    PROVE  PulseTypeOK'
<1> USE DEF Stages
<1>0. /\ now \in Times /\ cacheAt \in Payloads /\ now \in Payloads
      /\ holder \in Threads \cup {NoThread}
      /\ inFlight \in [Tabs -> BOOLEAN] /\ strip \in [Tabs -> Payloads]
  BY DEF PulseTypeOK, Payloads
<1>1. CASE Look(h)
  BY <1>0, <1>1, GotoShape, ReturnShape, WriteType DEF Look
<1>2. CASE TryLock(h)
  BY <1>0, <1>2, GotoShape, WriteType DEF TryLock
<1>3. CASE ServeStale(h)
  BY <1>0, <1>3, GotoShape, ReturnShape, WriteType DEF ServeStale
<1>4. CASE Acquire(h)
  BY <1>0, <1>4, GotoShape, WriteType DEF Acquire
<1>5. CASE LookAgain(h)
  BY <1>0, <1>5, GotoShape, ReturnShape, WriteType DEF LookAgain
<1>6. CASE Refresh(h)
  BY <1>0, <1>6, ReturnShape, WriteType DEF Refresh
<1>7. CASE Release(h)
  BY <1>0, <1>7, GotoShape, WriteType DEF Release
<1>8. CASE RefreshRaises(h)
  BY <1>0, <1>8, GotoShape, WriteType DEF RefreshRaises
<1> QED
  BY <1>1, <1>2, <1>3, <1>4, <1>5, <1>6, <1>7, <1>8

LEMMA TabType ==
    ASSUME PulseTypeOK,
           \/ Advance
           \/ \E t \in Tabs, h \in Threads : PollTicker(t, h)
           \/ \E t \in Tabs : Disconnect(t) \/ Remount(t)
           \/ \E h \in Threads : Receive(h)
    PROVE  PulseTypeOK'
<1>0. NoPayload \in Payloads /\ now \in Times
  BY DEF Payloads, PulseTypeOK
<1>1. CASE Advance
  <2>1. now' \in Times
    BY <1>1 DEF Advance, PulseTypeOK, Times
  <2> QED
    BY <1>1, <2>1 DEF Advance, PulseTypeOK
<1>2. ASSUME NEW t \in Tabs, NEW h \in Threads, PollTicker(t, h) PROVE PulseTypeOK'
  <2>1. [stage |-> "look", tab |-> t, began |-> now, result |-> NoPayload] \in TickerRequest
    BY <1>0 DEF TickerRequest, Stages
  <2>2. threads' \in [Threads -> TickerRequest]
    BY <1>2, <2>1 DEF PollTicker, PulseTypeOK
  <2> QED
    BY <1>2, <2>2 DEF PollTicker, PulseTypeOK
<1>3. ASSUME NEW t \in Tabs, Disconnect(t) \/ Remount(t) PROVE PulseTypeOK'
  <2>1. threads' \in [Threads -> TickerRequest]
    BY <1>3, AbandonedShape DEF Disconnect, Remount
  <2>2. inFlight' \in [Tabs -> BOOLEAN] /\ strip' \in [Tabs -> Payloads]
    BY <1>0, <1>3 DEF Disconnect, Remount, PulseTypeOK
  <2>3. now' = now /\ cacheAt' = cacheAt /\ holder' = holder
    BY <1>3 DEF Disconnect, Remount
  <2> QED
    BY <2>1, <2>2, <2>3 DEF PulseTypeOK
<1>4. ASSUME NEW h \in Threads, Receive(h) PROVE PulseTypeOK'
  <2>1. threads' \in [Threads -> TickerRequest]
    BY <1>4, IdleType DEF Receive, PulseTypeOK
  <2>2. threads[h].result \in Payloads
    BY DEF PulseTypeOK, TickerRequest
  <2>3. inFlight' \in [Tabs -> BOOLEAN] /\ strip' \in [Tabs -> Payloads]
    BY <1>4, <2>2 DEF Receive, PulseTypeOK
  <2> QED
    BY <1>4, <2>1, <2>3 DEF Receive, PulseTypeOK
<1> QED
  BY <1>1, <1>2, <1>3, <1>4

\* Every variable keeps its type.
THEOREM PulseTypeCorrect == PulseSpec => []PulseTypeOK
<1>1. PulseTypeOK /\ UNCHANGED pulseVars => PulseTypeOK'
  BY DEF PulseTypeOK, pulseVars
<1>2. PulseTypeOK /\ [PulseNext]_pulseVars => PulseTypeOK'
  BY <1>1, ThreadType, TabType DEF PulseNext
<1> QED
  BY InitType, <1>2, PTL DEF PulseSpec

-----------------------------------------------------------------------------
(* The inductive invariant                                                 *)

Holding == {"again", "refresh", "release"}

LEMMA InitInvariant == PulseInit => PulseInvariant
BY DEF PulseInit, PulseInvariant, RefreshLockIsAtWork, AnswerFits, RefreshIsDue,
       OneRequestPerTab, CacheIsAhead, IdleThread

\* What is to be shown of a step that moves one thread on and leaves clock, cache and tabs
\* alone: where it has an answer now, it is the cached payload; where it refreshes now, the
\* cache is too old; and it has the lock or not.
LEMMA MoveInvariant ==
    ASSUME PulseTypeOK, PulseInvariant, NEW h \in Threads,
           UNCHANGED <<now, cacheAt, inFlight, strip>>,
           \A g \in Threads \ {h} : threads'[g] = threads[g],
           threads'[h].tab = threads[h].tab,
           \/ threads'[h].result = cacheAt /\ cacheAt # NoPayload
           \/ /\ threads'[h].result = threads[h].result
              /\ threads'[h].stage \in {"release", "done"} => threads[h].stage \in {"release", "done"},
           threads'[h].stage = "refresh" => cacheAt = NoPayload \/ cacheAt + TTL < now,
           \A g \in Threads : threads'[g].stage \in Holding <=> holder' = g
    PROVE  PulseInvariant'
<1>0. /\ \A g \in Threads : threads[g].tab \in Tabs \cup {NoTab}
      /\ \A t \in Tabs : strip[t] \in Payloads
      /\ cacheAt \in Payloads
  BY DEF PulseTypeOK, TickerRequest
<1>1. RefreshLockIsAtWork'
  BY DEF RefreshLockIsAtWork, Holding
<1>2. ASSUME NEW g \in Threads \ {h} PROVE AnswerFits(threads[g])' /\ RefreshIsDue(threads[g])'
  BY DEF PulseInvariant, AnswerFits, RefreshIsDue
<1>3. AnswerFits(threads[h])'
  <2>1. AnswerFits(threads[h]) /\ CacheIsAhead
    BY DEF PulseInvariant
  <2>2. CASE threads'[h].result = cacheAt /\ cacheAt # NoPayload
    <3>1. cacheAt <= cacheAt
      BY <1>0, <2>2, TimesAreNumbers
    <3> QED
      BY <1>0, <2>1, <2>2, <3>1 DEF AnswerFits, CacheIsAhead
  <2>3. CASE /\ threads'[h].result = threads[h].result
             /\ threads'[h].stage \in {"release", "done"} => threads[h].stage \in {"release", "done"}
    BY <2>1, <2>3 DEF AnswerFits
  <2> QED
    BY <2>2, <2>3
<1>4. RefreshIsDue(threads[h])'
  BY DEF RefreshIsDue
<1>5. OneRequestPerTab'
  <2>1. \A g \in Threads : threads'[g].tab = threads[g].tab
    OBVIOUS
  <2> QED
    BY <2>1 DEF PulseInvariant, OneRequestPerTab
<1>6. CacheIsAhead'
  BY DEF PulseInvariant, CacheIsAhead
<1> QED
  BY <1>1, <1>2, <1>3, <1>4, <1>5, <1>6 DEF PulseInvariant

\* The steps of get_ticker but the one that writes the cache.
LEMMA ThreadInvariant ==
    ASSUME PulseTypeOK, PulseInvariant, NEW h \in Threads,
           \/ Look(h) \/ TryLock(h) \/ ServeStale(h) \/ Acquire(h) \/ LookAgain(h)
           \/ Release(h) \/ RefreshRaises(h)
    PROVE  PulseInvariant'
<1> USE DEF Stages, Holding
<1>0. /\ cacheAt \in Payloads /\ now \in Nat
      /\ cacheAt # NoPayload => cacheAt \in Nat
      /\ NoThread \notin Threads
      /\ \A g \in Threads : threads[g].stage \in Holding <=> holder = g
  BY TimesAreNumbers DEF PulseTypeOK, PulseInvariant, RefreshLockIsAtWork
<1>1. CASE Look(h)
  <2>1. CASE Fresh(threads[h].began)
    <3>1. Return(h, "done", cacheAt) /\ cacheAt # NoPayload
      BY <1>1, <2>1 DEF Look, Fresh
    <3> QED
      BY <1>0, <1>1, <3>1, ReturnShape, MoveInvariant DEF Look
  <2>2. CASE ~Fresh(threads[h].began)
    BY <1>0, <1>1, <2>2, GotoShape, MoveInvariant DEF Look
  <2> QED
    BY <2>1, <2>2
<1>2. CASE TryLock(h)
  BY <1>0, <1>2, GotoShape, MoveInvariant DEF TryLock
<1>3. CASE ServeStale(h)
  <2>1. CASE cacheAt # NoPayload
    BY <1>0, <1>3, <2>1, ReturnShape, MoveInvariant DEF ServeStale
  <2>2. CASE cacheAt = NoPayload
    BY <1>0, <1>3, <2>2, GotoShape, MoveInvariant DEF ServeStale
  <2> QED
    BY <2>1, <2>2
<1>4. CASE Acquire(h)
  BY <1>0, <1>4, GotoShape, MoveInvariant DEF Acquire
<1>5. CASE LookAgain(h)
  <2>1. CASE Fresh(now)
    <3>1. Return(h, "release", cacheAt) /\ cacheAt # NoPayload
      BY <1>5, <2>1 DEF LookAgain, Fresh
    <3> QED
      BY <1>0, <1>5, <3>1, ReturnShape, MoveInvariant DEF LookAgain
  <2>2. CASE ~Fresh(now)
    <3>1. cacheAt = NoPayload \/ cacheAt + TTL < now
      BY <1>0, <2>2 DEF Fresh
    <3> QED
      BY <1>0, <1>5, <2>2, <3>1, GotoShape, MoveInvariant DEF LookAgain
  <2> QED
    BY <2>1, <2>2
<1>6. CASE Release(h)
  BY <1>0, <1>6, GotoShape, MoveInvariant DEF Release
<1>7. CASE RefreshRaises(h)
  BY <1>0, <1>7, GotoShape, MoveInvariant DEF RefreshRaises
<1> QED
  BY <1>1, <1>2, <1>3, <1>4, <1>5, <1>6, <1>7

\* _refresh writes the cache: nobody else is refreshing, and all answers are of the old one.
LEMMA RefreshInvariant ==
    ASSUME PulseTypeOK, PulseInvariant, NEW h \in Threads, Refresh(h)
    PROVE  PulseInvariant'
<1>0. /\ now \in Nat /\ now # NoPayload /\ now \in Payloads /\ "release" \in Stages
      /\ cacheAt # NoPayload => cacheAt \in Nat /\ cacheAt <= now
      /\ \A g \in Threads : /\ threads[g].tab \in Tabs \cup {NoTab}
                            /\ threads[g].result # NoPayload => threads[g].result \in Nat
      /\ \A t \in Tabs : strip[t] # NoPayload => strip[t] \in Nat
  BY TimesAreNumbers DEF PulseTypeOK, PulseInvariant, CacheIsAhead, TickerRequest, Stages,
                         Payloads
<1>1. /\ \A g \in Threads \ {h} : threads'[g] = threads[g]
      /\ threads'[h].stage = "release" /\ threads'[h].tab = threads[h].tab
      /\ threads'[h].result = now
  BY <1>0, ReturnShape DEF Refresh
<1>2. holder = h /\ holder' = h /\ cacheAt' = now
      /\ now' = now /\ inFlight' = inFlight /\ strip' = strip
  BY DEF Refresh, PulseInvariant, RefreshLockIsAtWork
<1>3. RefreshLockIsAtWork'
  BY <1>1, <1>2 DEF PulseInvariant, RefreshLockIsAtWork
<1>4. \A t \in Tabs : strip[t] # NoPayload => strip[t] <= now
  BY <1>0 DEF PulseInvariant, CacheIsAhead
<1>5. ASSUME NEW g \in Threads \ {h} PROVE AnswerFits(threads[g])' /\ RefreshIsDue(threads[g])'
  <2>1. AnswerFits(threads[g]) /\ threads[g].stage # "refresh"
    BY <1>2 DEF PulseInvariant, RefreshLockIsAtWork
  <2>2. threads[g].result # NoPayload => threads[g].result <= now
    BY <1>0, <2>1 DEF AnswerFits
  <2> QED
    BY <1>0, <1>1, <1>2, <2>1, <2>2 DEF AnswerFits, RefreshIsDue
<1>6. AnswerFits(threads[h])' /\ RefreshIsDue(threads[h])'
  BY <1>0, <1>1, <1>2, <1>4 DEF AnswerFits, RefreshIsDue
<1>7. OneRequestPerTab'
  <2>1. \A g \in Threads : threads'[g].tab = threads[g].tab
    BY <1>1
  <2> QED
    BY <1>2, <2>1 DEF PulseInvariant, OneRequestPerTab
<1>8. CacheIsAhead'
  BY <1>0, <1>2, <1>4 DEF CacheIsAhead
<1> QED
  BY <1>3, <1>5, <1>6, <1>7, <1>8 DEF PulseInvariant

LEMMA AdvanceInvariant == PulseTypeOK /\ PulseInvariant /\ Advance => PulseInvariant'
<1> SUFFICES ASSUME PulseTypeOK, PulseInvariant, Advance PROVE PulseInvariant'
  OBVIOUS
<1>1. now' = now + 1 /\ now \in Nat /\ (cacheAt # NoPayload => cacheAt \in Nat)
  BY TimesAreNumbers DEF Advance, PulseTypeOK
<1>2. UNCHANGED <<cacheAt, holder, threads, inFlight, strip>>
  BY DEF Advance
<1>3. ASSUME NEW h \in Threads PROVE AnswerFits(threads[h])' /\ RefreshIsDue(threads[h])'
  BY <1>1, <1>2 DEF PulseInvariant, AnswerFits, RefreshIsDue
<1>4. RefreshLockIsAtWork' /\ OneRequestPerTab'
  BY <1>2 DEF PulseInvariant, RefreshLockIsAtWork, OneRequestPerTab
<1>5. CacheIsAhead'
  BY <1>1, <1>2 DEF PulseInvariant, CacheIsAhead
<1> QED
  BY <1>3, <1>4, <1>5 DEF PulseInvariant

\* A load takes a thread that is idle, for a tab that has no other.
LEMMA PollInvariant ==
    ASSUME PulseTypeOK, PulseInvariant, NEW t \in Tabs, NEW h \in Threads, PollTicker(t, h)
    PROVE  PulseInvariant'
<1>1. /\ \A g \in Threads \ {h} : threads'[g] = threads[g]
      /\ threads'[h].stage = "look" /\ threads'[h].tab = t /\ threads'[h].result = NoPayload
  BY DEF PollTicker, PulseTypeOK
<1>2. UNCHANGED <<now, cacheAt, holder, strip>>
  BY DEF PollTicker
<1>3. /\ inFlight'[t] /\ ~inFlight[t]
      /\ \A u \in Tabs \ {t} : inFlight'[u] = inFlight[u]
  BY DEF PollTicker, PulseTypeOK
<1>4. RefreshLockIsAtWork'
  BY <1>1, <1>2 DEF PollTicker, PulseInvariant, RefreshLockIsAtWork
<1>5. ASSUME NEW g \in Threads \ {h} PROVE AnswerFits(threads[g])' /\ RefreshIsDue(threads[g])'
  BY <1>1, <1>2 DEF PulseInvariant, AnswerFits, RefreshIsDue
<1>6. AnswerFits(threads[h])' /\ RefreshIsDue(threads[h])'
  BY <1>1, <1>2 DEF AnswerFits, RefreshIsDue
<1>7. OneRequestPerTab'
  <2>1. \A g \in Threads : threads[g].tab # t
    BY <1>3 DEF PulseInvariant, OneRequestPerTab
  <2>2. \A g \in Threads : threads[g].tab \in Tabs \cup {NoTab}
    BY DEF PulseTypeOK, TickerRequest
  <2> QED
    BY <1>1, <1>3, <2>1, <2>2 DEF PulseInvariant, OneRequestPerTab
<1>8. CacheIsAhead'
  BY <1>2 DEF PulseInvariant, CacheIsAhead
<1> QED
  BY <1>4, <1>5, <1>6, <1>7, <1>8 DEF PulseInvariant

\* A tab that gives up leaves its thread to work for nobody.
LEMMA GiveUpInvariant ==
    ASSUME PulseTypeOK, PulseInvariant, NEW t \in Tabs, Disconnect(t) \/ Remount(t)
    PROVE  PulseInvariant'
<1>1. \A h \in Threads :
         /\ threads'[h].stage = threads[h].stage
         /\ threads'[h].result = threads[h].result
         /\ threads'[h].tab = IF threads[h].tab = t THEN NoTab ELSE threads[h].tab
         /\ threads[h].tab \in Tabs \cup {NoTab}
  BY AbandonedShape DEF Disconnect, Remount, PulseTypeOK, TickerRequest
<1>2. UNCHANGED <<now, cacheAt, holder>>
  BY DEF Disconnect, Remount
<1>3. \A u \in Tabs \ {t} : inFlight'[u] = inFlight[u] /\ strip'[u] = strip[u]
  BY DEF Disconnect, Remount, PulseTypeOK
<1>4. strip'[t] = strip[t] \/ strip'[t] = NoPayload
  BY DEF Disconnect, Remount, PulseTypeOK
<1>5. RefreshLockIsAtWork'
  BY <1>1, <1>2 DEF PulseInvariant, RefreshLockIsAtWork
<1>6. ASSUME NEW h \in Threads PROVE AnswerFits(threads[h])' /\ RefreshIsDue(threads[h])'
  <2>1. AnswerFits(threads[h]) /\ RefreshIsDue(threads[h])
    BY DEF PulseInvariant
  <2>2. threads'[h].tab # NoTab => threads'[h].tab = threads[h].tab /\ threads'[h].tab \in Tabs \ {t}
    BY <1>1
  <2> QED
    BY <1>1, <1>2, <1>3, <2>1, <2>2 DEF AnswerFits, RefreshIsDue
<1>7. OneRequestPerTab'
  BY <1>1, <1>3 DEF PulseInvariant, OneRequestPerTab
<1>8. CacheIsAhead'
  BY <1>2, <1>3, <1>4 DEF PulseInvariant, CacheIsAhead
<1> QED
  BY <1>5, <1>6, <1>7, <1>8 DEF PulseInvariant

\* What a tab receives is no older than what it shows.
LEMMA ReceiveFits ==
    ASSUME PulseTypeOK, PulseInvariant, NEW h \in Threads, Receive(h)
    PROVE  /\ \A g \in Threads \ {h} : threads'[g] = threads[g]
           /\ threads'[h] = IdleThread
           /\ UNCHANGED <<now, cacheAt, holder>>
           /\ \A u \in Tabs \ {threads[h].tab} : inFlight'[u] = inFlight[u] /\ strip'[u] = strip[u]
           /\ \A u \in Tabs :
                 \/ strip'[u] = strip[u]
                 \/ /\ strip'[u] # NoPayload /\ cacheAt # NoPayload /\ strip'[u] <= cacheAt
                    /\ strip[u] # NoPayload => strip[u] <= strip'[u]
<1>1. /\ \A g \in Threads \ {h} : threads'[g] = threads[g]
      /\ threads'[h] = IdleThread
      /\ UNCHANGED <<now, cacheAt, holder>>
  BY DEF Receive, PulseTypeOK
<1>2. \A u \in Tabs \ {threads[h].tab} : inFlight'[u] = inFlight[u] /\ strip'[u] = strip[u]
  BY DEF Receive, PulseTypeOK
<1>3. ASSUME NEW u \in Tabs, strip'[u] # strip[u]
      PROVE  u = threads[h].tab /\ u # NoTab /\ threads[h].stage = "done" /\ strip'[u] = threads[h].result
  BY <1>3 DEF Receive, PulseTypeOK
<1>4. AnswerFits(threads[h])
  BY DEF PulseInvariant
<1> QED
  BY <1>1, <1>2, <1>3, <1>4 DEF AnswerFits

LEMMA ReceiveInvariant ==
    ASSUME PulseTypeOK, PulseInvariant, NEW h \in Threads, Receive(h)
    PROVE  PulseInvariant'
<1>1. /\ \A g \in Threads \ {h} : threads'[g] = threads[g]
      /\ threads'[h].stage = "idle" /\ threads'[h].tab = NoTab
      /\ threads'[h].result = NoPayload
      /\ UNCHANGED <<now, cacheAt, holder>>
  BY ReceiveFits DEF IdleThread
<1>2. \A g \in Threads : threads[g].tab \in Tabs \cup {NoTab}
  BY DEF PulseTypeOK, TickerRequest
<1>3. RefreshLockIsAtWork'
  <2>1. threads[h].stage \in {"done", "failed"}
    BY DEF Receive
  <2> QED
    BY <1>1, <2>1 DEF PulseInvariant, RefreshLockIsAtWork
<1>4. ASSUME NEW g \in Threads \ {h} PROVE AnswerFits(threads[g])' /\ RefreshIsDue(threads[g])'
  <2>1. AnswerFits(threads[g]) /\ RefreshIsDue(threads[g])
    BY DEF PulseInvariant
  <2>2. threads[g].tab # NoTab => strip'[threads[g].tab] = strip[threads[g].tab]
    BY <1>2, ReceiveFits DEF PulseInvariant, OneRequestPerTab
  <2> QED
    BY <1>1, <2>1, <2>2 DEF AnswerFits, RefreshIsDue
<1>5. AnswerFits(threads[h])' /\ RefreshIsDue(threads[h])'
  BY <1>1 DEF AnswerFits, RefreshIsDue
<1>6. OneRequestPerTab'
  <2>1. ASSUME NEW g \in Threads, threads'[g].tab # NoTab PROVE inFlight'[threads'[g].tab]
    <3>1. g # h /\ threads'[g] = threads[g]
      BY <1>1, <2>1
    <3>2. threads[g].tab \in Tabs \ {threads[h].tab} /\ inFlight[threads[g].tab]
      BY <1>2, <2>1, <3>1 DEF PulseInvariant, OneRequestPerTab
    <3> QED
      BY <3>1, <3>2, ReceiveFits
  <2> QED
    BY <1>1, <2>1 DEF PulseInvariant, OneRequestPerTab
<1>7. CacheIsAhead'
  BY <1>1, ReceiveFits DEF PulseInvariant, CacheIsAhead
<1> QED
  BY <1>3, <1>4, <1>5, <1>6, <1>7 DEF PulseInvariant

-----------------------------------------------------------------------------
(* What tabs and providers see                                             *)

\* Whatever get_ticker's threads and the polling tabs interleave, the lock belongs to the
\* thread at work and no answer is out of the order of the cache and of its tab's strip.
THEOREM PulseInvariantHolds == PulseSpec => []PulseInvariant
<1>1. PulseInvariant /\ UNCHANGED pulseVars => PulseInvariant'
  BY DEF PulseInvariant, RefreshLockIsAtWork, AnswerFits, RefreshIsDue, OneRequestPerTab,
         CacheIsAhead, pulseVars
<1>2. PulseTypeOK /\ PulseInvariant /\ [PulseNext]_pulseVars => PulseInvariant'
  BY <1>1, ThreadInvariant, RefreshInvariant, AdvanceInvariant, PollInvariant,
     GiveUpInvariant, ReceiveInvariant DEF PulseNext
<1> QED
  BY InitInvariant, <1>2, PulseTypeCorrect, PTL DEF PulseSpec

\* The lock is with the one thread between acquiring and releasing it, or free.
THEOREM OneRefreshAtATime == PulseSpec => []RefreshLockIsAtWork
<1>1. PulseInvariant => RefreshLockIsAtWork
  BY DEF PulseInvariant
<1> QED
  BY <1>1, PulseInvariantHolds, PTL

\* The cache is renewed only when it is too old, and no tab goes back in time.
THEOREM PricesOnlyMoveForward == PulseSpec => PricesMoveForward
<1> DEFINE Step ==
             /\ cacheAt' # cacheAt => cacheAt = NoPayload \/ cacheAt' > cacheAt + TTL
             /\ \A t \in Tabs :
                   strip'[t] # NoPayload /\ strip[t] # NoPayload => strip'[t] >= strip[t]
<1>1. ASSUME PulseTypeOK, PulseInvariant, PulseNext PROVE Step
  <2>0. /\ now \in Nat /\ (cacheAt # NoPayload => cacheAt \in Nat)
        /\ \A t \in Tabs : strip[t] # NoPayload => strip[t] \in Nat /\ strip[t] >= strip[t]
    BY <1>1, TimesAreNumbers DEF PulseTypeOK
  <2>1. UNCHANGED <<cacheAt, strip>> => Step
    BY <2>0
  <2>2. ASSUME NEW h \in Threads, Refresh(h) PROVE Step
    <3>1. cacheAt = NoPayload \/ cacheAt + TTL < now
      BY <1>1, <2>2 DEF Refresh, PulseInvariant, RefreshIsDue
    <3>2. cacheAt' = now /\ strip' = strip
      BY <2>2 DEF Refresh
    <3> QED
      BY <2>0, <3>1, <3>2
  <2>3. ASSUME NEW h \in Threads, Receive(h) PROVE Step
    <3>1. cacheAt' = cacheAt
      BY <2>3 DEF Receive
    <3>2. PulseTypeOK'
      BY <1>1, <2>3, TabType
    <3>3. \A t \in Tabs : strip'[t] # NoPayload => strip'[t] \in Nat
      BY <3>2, TimesAreNumbers DEF PulseTypeOK
    <3>4. ASSUME NEW t \in Tabs, strip'[t] # NoPayload, strip[t] # NoPayload
          PROVE  strip'[t] >= strip[t]
      BY <1>1, <2>0, <2>3, <3>3, <3>4, ReceiveFits
    <3> QED
      BY <3>1, <3>4
  <2>4. ASSUME NEW t \in Tabs, Disconnect(t) \/ Remount(t) PROVE Step
    <3>1. cacheAt' = cacheAt
      BY <2>4 DEF Disconnect, Remount
    <3>2. \A u \in Tabs : strip'[u] = strip[u] \/ strip'[u] = NoPayload
      BY <1>1, <2>4 DEF Disconnect, Remount, PulseTypeOK
    <3> QED
      BY <2>0, <3>1, <3>2
  <2>5. ASSUME NEW h \in Threads,
               \/ Look(h) \/ TryLock(h) \/ ServeStale(h) \/ Acquire(h) \/ LookAgain(h)
               \/ Release(h) \/ RefreshRaises(h)
        PROVE  UNCHANGED <<cacheAt, strip>>
    BY <2>5 DEF Look, TryLock, ServeStale, Acquire, LookAgain, Release, RefreshRaises
  <2>6. Advance \/ (\E t \in Tabs, h \in Threads : PollTicker(t, h)) => UNCHANGED <<cacheAt, strip>>
    BY DEF Advance, PollTicker
  <2> HIDE DEF Step
  <2> QED
    BY <1>1, <2>1, <2>2, <2>3, <2>4, <2>5, <2>6 DEF PulseNext
<1>2. PulseTypeOK /\ UNCHANGED pulseVars => Step
  <2> SUFFICES ASSUME PulseTypeOK, UNCHANGED pulseVars PROVE Step
    OBVIOUS
  <2>1. \A t \in Tabs : strip[t] # NoPayload => strip[t] \in Nat
    BY TimesAreNumbers DEF PulseTypeOK
  <2> QED
    BY <2>1 DEF pulseVars
<1>3. PulseTypeOK /\ PulseInvariant /\ [PulseNext]_pulseVars => [Step]_pulseVars
  BY <1>1, <1>2
<1>4. [][Step]_pulseVars => PricesMoveForward
  BY PTL DEF PricesMoveForward
<1> QED
  BY <1>3, <1>4, PulseTypeCorrect, PulseInvariantHolds, PTL DEF PulseSpec
===============================================================================
