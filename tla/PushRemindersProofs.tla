------------------------ MODULE PushRemindersProofs ------------------------
(***************************************************************************)
(* Theorems about PushReminders for every set of users, endpoints and runs *)
(* and every bound, and their proofs.                                      *)
(***************************************************************************)
EXTENDS PushReminders, TLAPS

USE BoundAssumption

-----------------------------------------------------------------------------
(* Type correctness                                                        *)

LEMMA IdleType == Idle \in Run
BY DEF Idle, Run, Subscription

LEMMA InitType == Init => TypeOK
<1> SUFFICES ASSUME Init PROVE TypeOK
  OBVIOUS
<1>1. day \in Days
  BY DEF Init, Days
<1>0. hour \in BOOLEAN
  BY DEF Init
<1>2. enabled \in [Users -> BOOLEAN]
  BY DEF Init
<1>3. reminded \in [Users -> 0..MaxDay] /\ rows \in 0..MaxRows
  BY DEF Init
<1>4. subs \in SUBSET Subscription /\ journal \in SUBSET (Users \X Days)
  BY DEF Init
<1>5. run \in [Runs -> Run]
  BY IdleType DEF Init
<1>6. pushes \in [Endpoints \X Users \X Days -> Often] /\ disturbed \in SUBSET (0..MaxDay)
  BY DEF Init, Often
<1> QED
  BY <1>0, <1>1, <1>2, <1>3, <1>4, <1>5, <1>6 DEF TypeOK

LEMMA SubscribeType ==
    ASSUME TypeOK, NEW u \in Users, NEW e \in Endpoints, Subscribe(u, e)
    PROVE  TypeOK'
<1>1. rows < MaxRows => [id |-> rows + 1, user |-> u, endpoint |-> e] \in Subscription
  BY DEF TypeOK, Subscription
<1>2. subs' \in SUBSET Subscription /\ rows' \in 0..MaxRows
  BY <1>1 DEF Subscribe, TypeOK
<1>3. enabled' \in [Users -> BOOLEAN]
  BY DEF Subscribe, TypeOK
<1> QED
  BY <1>2, <1>3 DEF Subscribe, TypeOK

LEMMA RunType ==
    ASSUME TypeOK, NEW r \in Runs,
           \/ Start(r)
           \/ \E u \in Users : Consider(r, u)
           \/ \E s \in run[r].todo : Deliver(r, s) \/ DropGone(r, s) \/ Fail(r, s)
           \/ Commit(r)
           \/ Crash(r)
    PROVE  TypeOK'
<1>0. run[r] \in Run
  BY DEF TypeOK
<1>1. CASE Start(r)
  <2>1. [Idle EXCEPT !.pc = "users", !.day = day, !.left = Candidates,
                     !.subs = {s \in subs : s.user \in Candidates}] \in Run
    <3>1. Candidates \in SUBSET Users /\ day \in 0..MaxDay
      BY DEF Candidates, TypeOK, Days
    <3>2. {s \in subs : s.user \in Candidates} \in SUBSET Subscription
      BY DEF TypeOK
    <3> QED
      BY <3>1, <3>2 DEF Idle, Run
  <2> QED
    <3>1. run' \in [Runs -> Run]
      BY <1>1, <2>1 DEF Start, TypeOK
    <3>2. disturbed' \in SUBSET (0..MaxDay)
      BY <1>1 DEF Start, TypeOK, Days
    <3> QED
      BY <1>1, <3>1, <3>2 DEF Start, TypeOK
<1>2. ASSUME NEW u \in Users, Consider(r, u) PROVE TypeOK'
  <2>1. {s \in run[r].subs : s.user = u} \in SUBSET Subscription
    BY <1>0 DEF Run
  <2>2. [run[r] EXCEPT !.left = @ \ {u},
                       !.todo = IF <<u, run[r].day>> \in journal
                                THEN {}
                                ELSE {s \in run[r].subs : s.user = u}] \in Run
    BY <1>0, <2>1 DEF Run
  <2>3. run' \in [Runs -> Run]
    BY <1>2, <2>2 DEF Consider, TypeOK
  <2> QED
    BY <1>2, <2>3 DEF Consider, TypeOK
<1>3. ASSUME NEW s \in run[r].todo, Deliver(r, s) PROVE TypeOK'
  <2>0. s.user \in Users
    BY <1>0 DEF Run, Subscription
  <2>1. run' \in [Runs -> Run]
    <3>1. [run[r] EXCEPT !.todo = @ \ {s}, !.marks = @ \cup {s.user}] \in Run
      BY <1>0, <2>0 DEF Run
    <3> QED
      BY <1>3, <3>1 DEF Deliver, TypeOK
  <2>2. pushes' \in [Endpoints \X Users \X Days -> Often]
    <3>1. \A n \in Often : (IF n = 2 THEN 2 ELSE n + 1) \in Often
      BY DEF Often
    <3> QED
      BY <1>3, <3>1 DEF Deliver, TypeOK
  <2> QED
    BY <1>3, <2>1, <2>2 DEF Deliver, TypeOK
<1>4. ASSUME NEW s \in run[r].todo, DropGone(r, s) \/ Fail(r, s) PROVE TypeOK'
  <2>1. run' \in [Runs -> Run]
    <3>1. /\ [run[r] EXCEPT !.todo = @ \ {s}, !.gone = @ \cup {s}] \in Run
          /\ [run[r] EXCEPT !.todo = @ \ {s}] \in Run
      BY <1>0 DEF Run
    <3> QED
      BY <1>4, <3>1 DEF DropGone, Fail, TypeOK
  <2> QED
    BY <1>4, <2>1 DEF DropGone, Fail, TypeOK
<1>5. CASE Commit(r)
  <2>1. reminded' \in [Users -> 0..MaxDay]
    BY <1>0, <1>5 DEF Commit, TypeOK, Run
  <2> QED
    BY <1>5, <2>1, IdleType DEF Commit, TypeOK
<1>6. CASE Crash(r)
  <2>1. disturbed' \in SUBSET (0..MaxDay)
    BY <1>0, <1>6 DEF Crash, TypeOK, Run
  <2> QED
    BY <1>6, <2>1, IdleType DEF Crash, TypeOK
<1> QED
  BY <1>1, <1>2, <1>3, <1>4, <1>5, <1>6

\* Every step keeps the variables in their types.
THEOREM TypeCorrect == Spec => []TypeOK
<1>1. TypeOK /\ [Next]_vars => TypeOK'
  <2> SUFFICES ASSUME TypeOK, [Next]_vars PROVE TypeOK'
    OBVIOUS
  <2>1. CASE Pass
    <3>1. day' \in Days
      BY <2>1 DEF Pass, TypeOK, Days
    <3>2. hour' \in BOOLEAN
      BY <2>1 DEF Pass
    <3> QED
      BY <2>1, <3>1, <3>2 DEF Pass, TypeOK
  <2>2. CASE UNCHANGED vars
    BY <2>2 DEF vars, TypeOK
  <2>3. ASSUME NEW u \in Users, Disable(u) PROVE TypeOK'
    <3>1. enabled' \in [Users -> BOOLEAN]
      BY <2>3 DEF Disable, TypeOK
    <3> QED
      BY <2>3, <3>1 DEF Disable, TypeOK
  <2>4. ASSUME NEW u \in Users, Journal(u) PROVE TypeOK'
    BY <2>4 DEF Journal, TypeOK
  <2> QED
    BY <2>1, <2>2, <2>3, <2>4, SubscribeType, RunType DEF Next
<1> QED
  BY <1>1, InitType, PTL DEF Spec

-----------------------------------------------------------------------------
(* The inductive invariant                                                 *)

LEMMA InitInvariant == Init => ReminderInvariant
<1> SUFFICES ASSUME Init PROVE ReminderInvariant
  OBVIOUS
<1>1. OneRowPerEndpoint(subs)
  BY DEF Init, OneRowPerEndpoint
<1>2. ASSUME NEW r \in Runs PROVE RunIsSound(r) /\ ~Active(r)
  BY DEF Init, RunIsSound, Active, Idle, OneRowPerEndpoint
<1>3. OverlapsAreSeen
  BY <1>2 DEF OverlapsAreSeen
<1>4. RecordedReminderWasSent
  BY DEF Init, RecordedReminderWasSent
<1>5. PushesAreSettled
  BY DEF Init, PushesAreSettled
<1> QED
  BY <1>1, <1>2, <1>3, <1>4, <1>5 DEF ReminderInvariant

\* A run that does not move stays sound while time passes and pushes are added.
LEMMA StaysSound ==
    ASSUME TypeOK, NEW r \in Runs, RunIsSound(r),
           run'[r] = run[r],
           day' \in Days, day <= day',
           \A k \in Endpoints \X Users \X Days : pushes[k] > 0 => pushes'[k] > 0
    PROVE  RunIsSound(r)'
<1>0. run[r] \in Run /\ day \in Days
  BY DEF TypeOK
<1>1. Active(r)' <=> Active(r)
  BY DEF Active
<1>2. Active(r) => run[r].day \in 1..day' /\ run[r].day \in Days
  BY <1>0 DEF RunIsSound, Days, Run
<1>3. ASSUME NEW u \in run[r].marks
      PROVE  \E e \in Endpoints : pushes'[<<e, u, run[r].day>>] > 0
  <2>1. Active(r) /\ u \in Users
    BY <1>0, <1>3 DEF RunIsSound, Idle, Run
  <2>2. PICK e \in Endpoints : pushes[<<e, u, run[r].day>>] > 0
    BY <1>3 DEF RunIsSound
  <2>3. <<e, u, run[r].day>> \in Endpoints \X Users \X Days
    BY <2>1, <1>2
  <2> QED
    BY <2>2, <2>3
<1> QED
  BY <1>1, <1>2, <1>3 DEF RunIsSound, OneRowPerEndpoint

\* Time, users and the journal: no run moves and nothing is pushed.
LEMMA UserInvariant ==
    ASSUME TypeOK, ReminderInvariant,
           \/ Pass
           \/ \E u \in Users : Disable(u) \/ Journal(u) \/ \E e \in Endpoints : Subscribe(u, e)
    PROVE  ReminderInvariant'
<1>0. /\ run' = run /\ pushes' = pushes /\ disturbed' = disturbed /\ reminded' = reminded
      /\ day \in Days /\ day' \in Days /\ day <= day'
  BY DEF Pass, Disable, Journal, Subscribe, TypeOK, Days
<1>1. OneRowPerEndpoint(subs)'
  BY DEF ReminderInvariant, OneRowPerEndpoint, Pass, Disable, Journal, Subscribe
<1>2. ASSUME NEW r \in Runs PROVE RunIsSound(r)'
  BY <1>0, StaysSound DEF ReminderInvariant
<1>3. OverlapsAreSeen'
  BY <1>0 DEF ReminderInvariant, OverlapsAreSeen, Active
<1>4. RecordedReminderWasSent'
  BY <1>0 DEF ReminderInvariant, RecordedReminderWasSent
<1>5. PushesAreSettled'
  <2> SUFFICES ASSUME NEW e \in Endpoints, NEW u \in Users, NEW d \in Days,
                      pushes[<<e, u, d>>] > 0, d \notin disturbed
               PROVE  pushes[<<e, u, d>>] = 1 /\ SentOnce(e, u, d)'
    BY <1>0 DEF PushesAreSettled
  <2>1. pushes[<<e, u, d>>] = 1 /\ SentOnce(e, u, d)
    BY DEF ReminderInvariant, PushesAreSettled
  <2>2. d <= day' /\ (d < day => d < day')
    BY <1>0, <2>1 DEF SentOnce, Days
  <2> QED
    BY <1>0, <2>1, <2>2 DEF SentOnce, Active
<1> QED
  BY <1>1, <1>2, <1>3, <1>4, <1>5 DEF ReminderInvariant

\* A run begins: no run under way, or the day is disturbed from now on.
LEMMA StartInvariant ==
    ASSUME TypeOK, ReminderInvariant, NEW r \in Runs, Start(r)
    PROVE  ReminderInvariant'
<1>0. /\ run \in [Runs -> Run] /\ day \in Days
      /\ subs' = subs /\ pushes' = pushes /\ reminded' = reminded /\ day' = day
      /\ disturbed \subseteq disturbed'
      /\ \A q \in Runs : Active(q) => day \in disturbed'
  BY DEF TypeOK, Start
<1>1. /\ run'[r].pc = "users" /\ run'[r].day = day /\ run'[r].left = Candidates
      /\ run'[r].subs = {s \in subs : s.user \in Candidates}
      /\ run'[r].todo = {} /\ run'[r].marks = {}
      /\ ~Active(r) /\ Active(r)'
  BY <1>0 DEF Start, Idle, Active
<1>2. \A q \in Runs : q # r => run'[q] = run[q] /\ (Active(q)' <=> Active(q))
  BY <1>0 DEF Start, Active
<1>3. ASSUME NEW q \in Runs, Active(q) PROVE run[q].day \in 1..day
  BY <1>3 DEF ReminderInvariant, RunIsSound
<1>4. RunIsSound(r)'
  <2>1. OneRowPerEndpoint(run'[r].subs)
    BY <1>1 DEF ReminderInvariant, OneRowPerEndpoint
  <2> QED
    BY <1>0, <1>1, <2>1 DEF RunIsSound, OneRowPerEndpoint, Days
<1>5. ASSUME NEW q \in Runs PROVE RunIsSound(q)'
  BY <1>0, <1>2, <1>4, StaysSound DEF ReminderInvariant, Days
<1>6. OverlapsAreSeen'
  <2> SUFFICES ASSUME NEW p \in Runs, NEW q \in Runs, p # q, Active(p)', Active(q)',
                      run'[p].day <= run'[q].day
               PROVE  run'[q].day \in disturbed'
    BY DEF OverlapsAreSeen
  <2>1. CASE q = r
    BY <1>0, <1>1, <1>2, <2>1
  <2>2. CASE p = r
    BY <1>0, <1>1, <1>2, <1>3, <2>2 DEF Days
  <2>3. CASE p # r /\ q # r
    BY <1>0, <1>2, <2>3 DEF ReminderInvariant, OverlapsAreSeen
  <2> QED
    BY <2>1, <2>2, <2>3
<1>7. PushesAreSettled'
  <2> SUFFICES ASSUME NEW e \in Endpoints, NEW u \in Users, NEW d \in Days,
                      pushes[<<e, u, d>>] > 0, d \notin disturbed'
               PROVE  pushes[<<e, u, d>>] = 1 /\ SentOnce(e, u, d)'
    BY <1>0 DEF PushesAreSettled
  <2>1. pushes[<<e, u, d>>] = 1 /\ SentOnce(e, u, d)
    BY <1>0 DEF ReminderInvariant, PushesAreSettled
  <2>2. d = day => u \notin Candidates
    BY <1>0, <2>1 DEF SentOnce, Candidates, Days
  <2> QED
    BY <1>0, <1>1, <1>2, <2>1, <2>2 DEF SentOnce
<1> QED
  BY <1>0, <1>5, <1>6, <1>7 DEF ReminderInvariant, OneRowPerEndpoint, RecordedReminderWasSent

\* A run goes on to its next user, or an endpoint does not take the push.
LEMMA LoopInvariant ==
    ASSUME TypeOK, ReminderInvariant, NEW r \in Runs,
           \/ \E u \in Users : Consider(r, u)
           \/ \E s \in run[r].todo : DropGone(r, s) \/ Fail(r, s)
    PROVE  ReminderInvariant'
<1>0. /\ run \in [Runs -> Run] /\ day \in Days
      /\ subs' = subs /\ pushes' = pushes /\ reminded' = reminded /\ day' = day
      /\ disturbed' = disturbed
  BY DEF TypeOK, Consider, DropGone, Fail
<1> DEFINE Turns == {s \in run[r].subs : s.user \in run[r].left \ run'[r].left}
<1>1. /\ run'[r].pc = run[r].pc /\ run'[r].day = run[r].day
      /\ run'[r].subs = run[r].subs /\ run'[r].marks = run[r].marks
      /\ run'[r].left \subseteq run[r].left
      /\ run'[r].todo \subseteq run[r].todo \cup Turns
      /\ \A q \in Runs : q # r => run'[q] = run[q]
  <2>0. run[r] \in Run
    BY <1>0
  <2>1. ASSUME NEW u \in Users, Consider(r, u) PROVE <1>1!:
    <3>1. run'[r] = [run[r] EXCEPT !.left = @ \ {u},
                                   !.todo = IF <<u, run[r].day>> \in journal
                                            THEN {}
                                            ELSE {s \in run[r].subs : s.user = u}]
      BY <1>0, <2>1 DEF Consider
    <3>2. u \in run[r].left /\ \A q \in Runs : q # r => run'[q] = run[q]
      BY <1>0, <2>1 DEF Consider
    <3> QED
      BY <2>0, <3>1, <3>2 DEF Run
  <2>2. ASSUME NEW s \in run[r].todo, DropGone(r, s) \/ Fail(r, s) PROVE <1>1!:
    <3>1. \/ run'[r] = [run[r] EXCEPT !.todo = @ \ {s}, !.gone = @ \cup {s}]
          \/ run'[r] = [run[r] EXCEPT !.todo = @ \ {s}]
      BY <1>0, <2>2 DEF DropGone, Fail
    <3>2. \A q \in Runs : q # r => run'[q] = run[q]
      BY <1>0, <2>2 DEF DropGone, Fail
    <3> QED
      BY <2>0, <3>1, <3>2 DEF Run
  <2> QED
    BY <2>1, <2>2
<1>2. /\ Active(r)
      /\ \A q \in Runs : Active(q)' <=> Active(q)
  <2>0. run[r].left # {} \/ run[r].todo # {}
    BY DEF Consider
  <2>1. run[r] # Idle
    BY <2>0 DEF Idle
  <2>2. Active(r)
    BY <2>1 DEF ReminderInvariant, RunIsSound
  <2> QED
    BY <1>1, <2>2 DEF Active
<1>3. RunIsSound(r)'
  <2>1. RunIsSound(r)
    BY DEF ReminderInvariant
  <2>2. run'[r].todo \subseteq {s \in run'[r].subs : s.user \notin run'[r].left}
    BY <1>1, <2>1 DEF RunIsSound
  <2> QED
    BY <1>0, <1>1, <1>2, <2>1, <2>2 DEF RunIsSound, OneRowPerEndpoint
<1>4. ASSUME NEW q \in Runs PROVE RunIsSound(q)'
  BY <1>0, <1>1, <1>3, StaysSound DEF ReminderInvariant, Days
<1>5. OverlapsAreSeen'
  BY <1>0, <1>1, <1>2 DEF ReminderInvariant, OverlapsAreSeen
<1>6. PushesAreSettled'
  <2> SUFFICES ASSUME NEW e \in Endpoints, NEW u \in Users, NEW d \in Days,
                      pushes[<<e, u, d>>] > 0, d \notin disturbed
               PROVE  pushes[<<e, u, d>>] = 1 /\ SentOnce(e, u, d)'
    BY <1>0 DEF PushesAreSettled
  <2>1. pushes[<<e, u, d>>] = 1 /\ SentOnce(e, u, d)
    BY DEF ReminderInvariant, PushesAreSettled
  <2> QED
    BY <1>0, <1>1, <1>2, <2>1 DEF SentOnce
<1> QED
  BY <1>0, <1>4, <1>5, <1>6 DEF ReminderInvariant, OneRowPerEndpoint, RecordedReminderWasSent

\* An endpoint takes the push: on an undisturbed day it is its first.
LEMMA DeliverInvariant ==
    ASSUME TypeOK, ReminderInvariant, NEW r \in Runs, NEW s \in run[r].todo, Deliver(r, s)
    PROVE  ReminderInvariant'
<1> DEFINE D == run[r].day
           K == <<s.endpoint, s.user, D>>
           Keys == Endpoints \X Users \X Days
<1>0. /\ run \in [Runs -> Run] /\ run[r] \in Run /\ day \in Days
      /\ subs' = subs /\ reminded' = reminded /\ day' = day /\ disturbed' = disturbed
  BY DEF TypeOK, Deliver
<1>1. /\ run'[r] = [run[r] EXCEPT !.todo = @ \ {s}, !.marks = @ \cup {s.user}]
      /\ \A q \in Runs : q # r => run'[q] = run[q]
  BY <1>0 DEF Deliver
<1>2. /\ run'[r].pc = run[r].pc /\ run'[r].day = D
      /\ run'[r].subs = run[r].subs /\ run'[r].left = run[r].left
      /\ run'[r].marks = run[r].marks \cup {s.user} /\ run'[r].todo = run[r].todo \ {s}
  BY <1>0, <1>1 DEF Run
<1>3. /\ RunIsSound(r)
      /\ \A q \in Runs : Active(q)' <=> Active(q)
  BY <1>1, <1>2 DEF ReminderInvariant, Active
<1>4. Active(r) /\ D \in 1..day /\ s \in run[r].subs /\ s.user \notin run[r].left
  <2>1. run[r] # Idle
    BY DEF Idle
  <2> QED
    BY <1>3, <2>1 DEF RunIsSound
<1>5. K \in Keys
  BY <1>0, <1>4 DEF Run, Subscription, Days
<1>6. /\ pushes \in [Keys -> Often]
      /\ \A k \in Keys : pushes'[k] = IF k = K
                                     THEN IF pushes[k] = 2 THEN 2 ELSE pushes[k] + 1
                                     ELSE pushes[k]
  BY <1>5 DEF TypeOK, Deliver
<1>7. /\ \A k \in Keys : pushes[k] > 0 => pushes'[k] > 0
      /\ pushes'[K] > 0
  BY <1>5, <1>6 DEF Often
<1>8. RunIsSound(r)'
  <2>1. ASSUME NEW u \in run[r].marks \cup {s.user}
        PROVE  \E e \in Endpoints : pushes'[<<e, u, D>>] > 0
    <3>1. CASE u = s.user
      BY <1>0, <1>7, <3>1 DEF Run, Subscription
    <3>2. CASE u \in run[r].marks
      <4>1. PICK e \in Endpoints : pushes[<<e, u, D>>] > 0
        BY <1>3, <3>2 DEF RunIsSound
      <4>2. <<e, u, D>> \in Keys
        BY <1>0, <1>4, <3>2 DEF Run, Days
      <4> QED
        BY <1>7, <4>1, <4>2
    <3> QED
      BY <2>1, <3>1, <3>2
  <2> QED
    BY <1>0, <1>2, <1>3, <1>4, <2>1 DEF RunIsSound, OneRowPerEndpoint
<1>9. ASSUME NEW q \in Runs PROVE RunIsSound(q)'
  BY <1>0, <1>1, <1>7, <1>8, StaysSound DEF ReminderInvariant, Days
<1>10. OverlapsAreSeen'
  BY <1>0, <1>1, <1>2, <1>3 DEF ReminderInvariant, OverlapsAreSeen
<1>11. RecordedReminderWasSent'
  <2> SUFFICES ASSUME NEW u \in Users, reminded[u] # 0
               PROVE  \E e \in Endpoints : pushes'[<<e, u, reminded[u]>>] > 0
    BY <1>0 DEF RecordedReminderWasSent
  <2>1. PICK e \in Endpoints : pushes[<<e, u, reminded[u]>>] > 0
    BY DEF ReminderInvariant, RecordedReminderWasSent
  <2>2. reminded[u] \in Days
    BY DEF TypeOK, Days
  <2> QED
    BY <1>7, <2>1, <2>2
<1>12. PushesAreSettled'
  <2> SUFFICES ASSUME NEW e \in Endpoints, NEW u \in Users, NEW d \in Days,
                      pushes'[<<e, u, d>>] > 0, d \notin disturbed
               PROVE  pushes'[<<e, u, d>>] = 1 /\ SentOnce(e, u, d)'
    BY <1>0 DEF PushesAreSettled
  <2>1. CASE <<e, u, d>> # K
    <3>1. pushes'[<<e, u, d>>] = pushes[<<e, u, d>>]
      BY <1>6, <2>1
    <3>2. pushes[<<e, u, d>>] = 1 /\ SentOnce(e, u, d)
      BY <3>1 DEF ReminderInvariant, PushesAreSettled
    <3> QED
      BY <1>0, <1>1, <1>2, <1>3, <3>1, <3>2 DEF SentOnce
  <2>2. CASE <<e, u, d>> = K
    <3>0. e = s.endpoint /\ u = s.user /\ d = D
      BY <2>2
    <3>1. ~SentOnce(e, u, d)
      BY <1>4, <3>0 DEF SentOnce
    <3>2. ~(pushes[<<e, u, d>>] > 0)
      BY <3>1 DEF ReminderInvariant, PushesAreSettled
    <3>3. pushes'[<<e, u, d>>] = 1
      BY <1>5, <1>6, <2>2, <3>2 DEF Often
    <3>4. ASSUME NEW q \in Runs, q # r, Active(q) PROVE d < run[q].day
      <4>1. run[q].day \in Nat /\ D \in Nat
        BY <1>0 DEF Run
      <4>2. ~(run[q].day <= D)
        BY <1>4, <3>0, <3>4 DEF ReminderInvariant, OverlapsAreSeen
      <4> QED
        BY <3>0, <4>1, <4>2
    <3>5. \A t \in run[r].todo \ {s} : t.endpoint = e => t.user # u
      BY <1>3, <1>4, <3>0 DEF RunIsSound, OneRowPerEndpoint
    <3>6. \A q \in Runs : Active(q)' =>
             /\ d <= run'[q].day
             /\ run'[q].day = d => /\ u \notin run'[q].left
                                  /\ \A t \in run'[q].todo : t.endpoint = e => t.user # u
      <4>1. ASSUME NEW q \in Runs, q # r, Active(q)
            PROVE  d <= run[q].day /\ run[q].day # d
        BY <1>0, <3>4, <4>1 DEF Run, Days
      <4>2. /\ d <= run'[r].day /\ u \notin run'[r].left
            /\ \A t \in run'[r].todo : t.endpoint = e => t.user # u
        BY <1>2, <1>4, <3>0, <3>5 DEF Days
      <4> QED
        BY <1>1, <1>3, <4>1, <4>2
    <3>7. d <= day
      BY <1>4, <3>0
    <3> QED
      BY <1>0, <1>2, <1>3, <1>4, <3>0, <3>3, <3>6, <3>7 DEF SentOnce
  <2> QED
    BY <2>1, <2>2
<1> QED
  BY <1>0, <1>9, <1>10, <1>11, <1>12 DEF ReminderInvariant, OneRowPerEndpoint

\* A run ends, recording the day for the users it has counted.
LEMMA CommitInvariant ==
    ASSUME TypeOK, ReminderInvariant, NEW r \in Runs, Commit(r)
    PROVE  ReminderInvariant'
<1>0. /\ run \in [Runs -> Run] /\ day \in Days /\ reminded \in [Users -> 0..MaxDay]
      /\ pushes' = pushes /\ day' = day /\ disturbed' = disturbed /\ subs' \subseteq subs
      /\ Active(r) /\ RunIsSound(r)
  BY DEF TypeOK, Commit, ReminderInvariant
<1>1. /\ run'[r] = Idle /\ ~Active(r)'
      /\ \A q \in Runs : q # r => run'[q] = run[q] /\ (Active(q)' <=> Active(q))
  BY <1>0 DEF Commit, Idle, Active
<1>2. \A u \in Users : reminded'[u] = IF u \in run[r].marks THEN run[r].day ELSE reminded[u]
  BY DEF Commit
<1>3. RunIsSound(r)'
  BY <1>1 DEF RunIsSound, Idle, OneRowPerEndpoint
<1>4. ASSUME NEW q \in Runs PROVE RunIsSound(q)'
  BY <1>0, <1>1, <1>3, StaysSound DEF ReminderInvariant, Days
<1>5. OverlapsAreSeen'
  BY <1>0, <1>1 DEF ReminderInvariant, OverlapsAreSeen
<1>6. RecordedReminderWasSent'
  BY <1>0, <1>2 DEF ReminderInvariant, RecordedReminderWasSent, RunIsSound
<1>7. PushesAreSettled'
  <2> SUFFICES ASSUME NEW e \in Endpoints, NEW u \in Users, NEW d \in Days,
                      pushes[<<e, u, d>>] > 0, d \notin disturbed
               PROVE  pushes[<<e, u, d>>] = 1 /\ SentOnce(e, u, d)'
    BY <1>0 DEF PushesAreSettled
  <2>1. pushes[<<e, u, d>>] = 1 /\ SentOnce(e, u, d)
    BY DEF ReminderInvariant, PushesAreSettled
  <2>2. d <= run[r].day /\ run[r].day <= day /\ run[r].day \in Nat
    BY <1>0, <2>1 DEF SentOnce, RunIsSound
  <2>3. \/ d < day
        \/ reminded'[u] = d
        \/ \E q \in Runs : Active(q)' /\ run'[q].day = d /\ u \in run'[q].marks
    <3>1. CASE u \in run[r].marks
      BY <1>0, <1>2, <2>2, <3>1 DEF Days
    <3>2. CASE u \notin run[r].marks
      BY <1>1, <1>2, <2>1, <3>2 DEF SentOnce
    <3> QED
      BY <3>1, <3>2
  <2> QED
    BY <1>0, <1>1, <2>1, <2>3 DEF SentOnce
<1> QED
  BY <1>0, <1>4, <1>5, <1>6, <1>7 DEF ReminderInvariant, OneRowPerEndpoint

\* A run dies: its day is disturbed.
LEMMA CrashInvariant ==
    ASSUME TypeOK, ReminderInvariant, NEW r \in Runs, Crash(r)
    PROVE  ReminderInvariant'
<1>0. /\ run \in [Runs -> Run] /\ day \in Days
      /\ pushes' = pushes /\ day' = day /\ subs' = subs /\ reminded' = reminded
      /\ disturbed' = disturbed \cup {run[r].day}
  BY DEF TypeOK, Crash
<1>1. /\ run'[r] = Idle /\ ~Active(r)'
      /\ \A q \in Runs : q # r => run'[q] = run[q] /\ (Active(q)' <=> Active(q))
  BY <1>0 DEF Crash, Idle, Active
<1>2. RunIsSound(r)'
  BY <1>1 DEF RunIsSound, Idle, OneRowPerEndpoint
<1>3. ASSUME NEW q \in Runs PROVE RunIsSound(q)'
  BY <1>0, <1>1, <1>2, StaysSound DEF ReminderInvariant, Days
<1>4. OverlapsAreSeen'
  BY <1>0, <1>1 DEF ReminderInvariant, OverlapsAreSeen
<1>5. PushesAreSettled'
  BY <1>0, <1>1 DEF ReminderInvariant, PushesAreSettled, SentOnce
<1> QED
  BY <1>0, <1>3, <1>4, <1>5
     DEF ReminderInvariant, OneRowPerEndpoint, RecordedReminderWasSent

\* Every push on an undisturbed day is settled, whatever runs and users do.
THEOREM ReminderInvariantHolds == Spec => []ReminderInvariant
<1>1. TypeOK /\ ReminderInvariant /\ [Next]_vars => ReminderInvariant'
  <2> SUFFICES ASSUME TypeOK, ReminderInvariant, [Next]_vars PROVE ReminderInvariant'
    OBVIOUS
  <2>1. CASE UNCHANGED vars
    BY <2>1 DEF vars, ReminderInvariant, OneRowPerEndpoint, RunIsSound, Active,
                OverlapsAreSeen, RecordedReminderWasSent, PushesAreSettled, SentOnce
  <2> QED
    BY <2>1, UserInvariant, StartInvariant, LoopInvariant, DeliverInvariant,
       CommitInvariant, CrashInvariant DEF Next
<1> QED
  BY <1>1, InitInvariant, TypeCorrect, PTL DEF Spec

\* Types and runs together, as TLC checks them.
THEOREM RemindersStaySound == Spec => []RemindersAreSound
BY TypeCorrect, ReminderInvariantHolds, PTL DEF RemindersAreSound

-----------------------------------------------------------------------------
(* What users see                                                          *)

\* On a day with neither overlapping nor dying runs nobody is reminded twice.
THEOREM RemindersAreSentOnce == Spec => []OnePushUnlessDisturbed
<1>1. TypeOK /\ ReminderInvariant => OnePushUnlessDisturbed
  <2> SUFFICES ASSUME TypeOK, ReminderInvariant,
                      NEW e \in Endpoints, NEW u \in Users, NEW d \in Days,
                      pushes[<<e, u, d>>] > 1, d \notin disturbed
               PROVE  FALSE
    BY DEF OnePushUnlessDisturbed
  <2>1. pushes[<<e, u, d>>] = 1
    BY DEF TypeOK, Often, ReminderInvariant, PushesAreSettled
  <2> QED
    BY <2>1
<1> QED
  BY <1>1, TypeCorrect, ReminderInvariantHolds, PTL

\* A recorded reminder was pushed to some endpoint of the user that day.
THEOREM RecordedRemindersWereSent == Spec => []RecordedReminderWasSent
<1>1. ReminderInvariant => RecordedReminderWasSent
  BY DEF ReminderInvariant
<1> QED
  BY <1>1, ReminderInvariantHolds, PTL

============================================================================
