--------------------------- MODULE PushReminders ---------------------------
(***************************************************************************)
(* The daily journal reminder (push_service.py).                           *)
(*                                                                         *)
(* An hourly job and POST /api/push/dispatch both run dispatch_due.  A run *)
(* takes its time and reads the users who opted in, with their             *)
(* subscriptions, once at its start; it then goes from user to user,       *)
(* pushes to each of the user's endpoints and commits at the very end,     *)
(* when it also records the local day of the reminder.  Meanwhile users    *)
(* subscribe, opt out and journal trades, and other runs may be under way. *)
(*                                                                         *)
(* Abstractions.  All users live in one time zone: a moment is a day and   *)
(* whether it is the reminder hour.  The users a run skips because of what *)
(* it has loaded at its start are left out when it starts.  What the push service answers is      *)
(* nondeterministic: delivered, gone (404 or 410) or failed.               *)
(***************************************************************************)
EXTENDS Naturals, FiniteSets

CONSTANTS
    Users,
    Endpoints,  \* browsers; an endpoint has at most one subscription row
    Runs,       \* runs of dispatch_due that may be under way at the same time
    MaxDay,     \* bound: days
    MaxRows     \* bound: subscription rows ever inserted

ASSUME BoundAssumption == MaxDay \in Nat \ {0} /\ MaxRows \in Nat

VARIABLES
    day,        \* the current local day
    hour,       \* TRUE from the reminder hour on, until it is over
    enabled,    \* users.reminders_enabled
    reminded,   \* users.last_journal_reminder_on; 0 when it is null
    subs,       \* push_subscriptions
    rows,       \* how many rows were ever inserted (their ids)
    journal,    \* <<user, day>>: the user has a trade dated that day
    run,        \* the state of every run
    pushes,     \* history: how often an endpoint got the reminder of a user's day
    disturbed   \* history: days on which runs overlapped or a run died

vars == <<day, hour, enabled, reminded, subs, rows, journal, run, pushes, disturbed>>

Days == 1..MaxDay
Often == 0..2                          \* never, once, more than once
Subscription == [id : 1..MaxRows, user : Users, endpoint : Endpoints]

Run ==
    [pc     : {"idle", "users"},
     day    : 0..MaxDay,               \* stamp
      left   : SUBSET Users,            \* users the loop has not reached
      subs   : SUBSET Subscription,     \* push_subscriptions as loaded
     todo   : SUBSET Subscription,     \* rows of the current user still to push to
     marks  : SUBSET Users,            \* delivered: users whose day is to be recorded
     gone   : SUBSET Subscription]     \* rows to be deleted

Idle ==
    [pc |-> "idle", day |-> 0, left |-> {}, subs |-> {}, todo |-> {}, marks |-> {}, gone |-> {}]

Active(r) == run[r].pc = "users"

TypeOK ==
    /\ day \in Days
    /\ hour \in BOOLEAN
    /\ enabled \in [Users -> BOOLEAN]
    /\ reminded \in [Users -> 0..MaxDay]
    /\ subs \in SUBSET Subscription
    /\ rows \in 0..MaxRows
    /\ journal \in SUBSET (Users \X Days)
    /\ run \in [Runs -> Run]
    /\ pushes \in [Endpoints \X Users \X Days -> Often]
    /\ disturbed \in SUBSET (0..MaxDay)

Init ==
    /\ day = 1
    /\ hour = FALSE
    /\ enabled = [u \in Users |-> FALSE]
    /\ reminded = [u \in Users |-> 0]
    /\ subs = {}
    /\ rows = 0
    /\ journal = {}
    /\ run = [r \in Runs |-> Idle]
    /\ pushes = [k \in Endpoints \X Users \X Days |-> 0]
    /\ disturbed = {}

-----------------------------------------------------------------------------
(* Users and time                                                          *)

\* The reminder hour begins, or it ends and the next day comes; a run may still
\* be under way then.
Pass ==
    /\ \/ ~hour /\ hour' = TRUE /\ day' = day
       \/ hour /\ hour' = FALSE /\ day < MaxDay /\ day' = day + 1
    /\ UNCHANGED <<enabled, reminded, subs, rows, journal, run, pushes, disturbed>>

\* subscribe: the endpoint's row is refreshed, or replaced when it was another
\* user's, who stays opted in.
Subscribe(u, e) ==
    /\ enabled' = [enabled EXCEPT ![u] = TRUE]
    /\ \/ /\ \E s \in subs : s.endpoint = e /\ s.user = u
          /\ UNCHANGED <<subs, rows>>
       \/ /\ ~\E s \in subs : s.endpoint = e /\ s.user = u
          /\ rows < MaxRows
          /\ rows' = rows + 1
          /\ subs' = {s \in subs : s.endpoint # e}
                         \cup {[id |-> rows + 1, user |-> u, endpoint |-> e]}
    /\ UNCHANGED <<day, hour, reminded, journal, run, pushes, disturbed>>

Disable(u) ==
    /\ enabled' = [enabled EXCEPT ![u] = FALSE]
    /\ subs' = {s \in subs : s.user # u}
    /\ UNCHANGED <<day, hour, reminded, rows, journal, run, pushes, disturbed>>

\* A trade dated today enters the journal.
Journal(u) ==
    /\ journal' = journal \cup {<<u, day>>}
    /\ UNCHANGED <<day, hour, enabled, reminded, subs, rows, run, pushes, disturbed>>

-----------------------------------------------------------------------------
(* dispatch_due                                                            *)

\* Mutant: the users reminded today are not left out.
CandidatesAgain ==
    {u \in Users : /\ hour
                   /\ enabled[u]
                   /\ \E s \in subs : s.user = u}

\* The users a run goes through, by what it loads at its start: in the reminder
\* hour those who opted in, have a subscription and were not reminded today.
Candidates ==
    {u \in Users : /\ hour
                   /\ enabled[u]
                   /\ reminded[u] # day
                   /\ \E s \in subs : s.user = u}

\* The time, the users and their subscriptions are read once.
Start(r) ==
    /\ ~Active(r)
    /\ run' = [run EXCEPT ![r] =
                  [Idle EXCEPT !.pc = "users", !.day = day, !.left = Candidates,
                               !.subs = {s \in subs : s.user \in Candidates}]]
    /\ disturbed' = IF \E q \in Runs : Active(q)
                    THEN disturbed \cup {day}
                    ELSE disturbed
    /\ UNCHANGED <<day, hour, enabled, reminded, subs, rows, journal, pushes>>

\* The next user: skipped if a trade dated that day is in the journal by now,
\* else the loop over the endpoints begins.
Consider(r, u) ==
    /\ run[r].todo = {}
    /\ u \in run[r].left
    /\ run' = [run EXCEPT
          ![r].left = @ \ {u},
          ![r].todo = IF <<u, run[r].day>> \in journal
                      THEN {}
                      ELSE {s \in run[r].subs : s.user = u}]
    /\ UNCHANGED <<day, hour, enabled, reminded, subs, rows, journal, pushes, disturbed>>

Deliver(r, s) ==
    /\ s \in run[r].todo
    /\ pushes' = [pushes EXCEPT ![<<s.endpoint, s.user, run[r].day>>]
                                     = IF @ = 2 THEN 2 ELSE @ + 1]
    /\ run' = [run EXCEPT ![r].todo = @ \ {s}, ![r].marks = @ \cup {s.user}]
    /\ UNCHANGED <<day, hour, enabled, reminded, subs, rows, journal, disturbed>>

DropGone(r, s) ==
    /\ s \in run[r].todo
    /\ run' = [run EXCEPT ![r].todo = @ \ {s}, ![r].gone = @ \cup {s}]
    /\ UNCHANGED <<day, hour, enabled, reminded, subs, rows, journal, pushes, disturbed>>

\* Mutant: a push that failed counts as delivered.
FailDelivered(r, s) ==
    /\ s \in run[r].todo
    /\ run' = [run EXCEPT ![r].todo = @ \ {s}, ![r].marks = @ \cup {s.user}]
    /\ UNCHANGED <<day, hour, enabled, reminded, subs, rows, journal, pushes, disturbed>>

Fail(r, s) ==
    /\ s \in run[r].todo
    /\ run' = [run EXCEPT ![r].todo = @ \ {s}]
    /\ UNCHANGED <<day, hour, enabled, reminded, subs, rows, journal, pushes, disturbed>>

\* Mutant: the day recorded is the next one (the date of another time zone).
CommitNextDay(r) ==
    /\ Active(r) /\ run[r].left = {} /\ run[r].todo = {}
    /\ reminded' = [u \in Users |-> IF u \in run[r].marks
                                    THEN run[r].day + 1
                                    ELSE reminded[u]]
    /\ subs' = subs \ run[r].gone
    /\ run' = [run EXCEPT ![r] = Idle]
    /\ UNCHANGED <<day, hour, enabled, rows, journal, pushes, disturbed>>

\* Mutant: the run forgets to record the day.
CommitNoMarks(r) ==
    /\ Active(r) /\ run[r].left = {} /\ run[r].todo = {}
    /\ subs' = subs \ run[r].gone
    /\ run' = [run EXCEPT ![r] = Idle]
    /\ UNCHANGED <<day, hour, enabled, reminded, rows, journal, pushes, disturbed>>

Commit(r) ==
    /\ Active(r) /\ run[r].left = {} /\ run[r].todo = {}
    /\ reminded' = [u \in Users |-> IF u \in run[r].marks THEN run[r].day ELSE reminded[u]]
    /\ subs' = subs \ run[r].gone
    /\ run' = [run EXCEPT ![r] = Idle]
    /\ UNCHANGED <<day, hour, enabled, rows, journal, pushes, disturbed>>

\* The process dies or the commit fails: what was pushed stays pushed.
Crash(r) ==
    /\ Active(r)
    /\ run' = [run EXCEPT ![r] = Idle]
    /\ disturbed' = disturbed \cup {run[r].day}
    /\ UNCHANGED <<day, hour, enabled, reminded, subs, rows, journal, pushes>>

-----------------------------------------------------------------------------
Next ==
    \/ Pass
    \/ \E u \in Users : Disable(u) \/ Journal(u) \/ \E e \in Endpoints : Subscribe(u, e)
    \/ \E r \in Runs :
          \/ Start(r)
          \/ \E u \in Users : Consider(r, u)
          \/ \E s \in run[r].todo : Deliver(r, s) \/ DropGone(r, s) \/ Fail(r, s)
          \/ Commit(r)
          \/ Crash(r)

Spec == Init /\ [][Next]_vars

-----------------------------------------------------------------------------
(* Properties                                                              *)

\* "Send at most one push per opted-in user per local day": no endpoint gets the
\* reminder of a user's day twice.
AtMostOnePushPerDay == \A k \in Endpoints \X Users \X Days : pushes[k] <= 1

\* The recorded day is a day on which the user did get a push: a reminder is never
\* written off for a user whose endpoints were all dead or failing.
RecordedReminderWasSent ==
    \A u \in Users : reminded[u] # 0 => \E e \in Endpoints : pushes[<<e, u, reminded[u]>>] > 0

\* Twice on a day only when two runs overlapped on it or one died between its
\* pushes and its commit: one undisturbed run after the other never repeats a
\* reminder, whatever users do meanwhile.
OnePushUnlessDisturbed ==
    \A k \in Endpoints \X Users \X Days : pushes[k] > 1 => k[3] \in disturbed

-----------------------------------------------------------------------------
(* Why they hold                                                           *)

OneRowPerEndpoint(rs) == \A s, t \in rs : s.endpoint = t.endpoint => s = t

\* What a run holds: the rows left to push to are rows it loaded, none of a user
\* whose turn has not come, and it has counted a user only after a push.
RunIsSound(r) ==
    /\ ~Active(r) => run[r] = Idle
    /\ Active(r) => run[r].day \in 1..day
    /\ OneRowPerEndpoint(run[r].subs)
    /\ run[r].todo \subseteq {s \in run[r].subs : s.user \notin run[r].left}
    /\ \A u \in run[r].marks : \E e \in Endpoints : pushes[<<e, u, run[r].day>>] > 0

\* Of two runs under way the younger one has seen that it is not alone.
OverlapsAreSeen ==
    \A q, r \in Runs : /\ q # r /\ Active(q) /\ Active(r)
                       /\ run[q].day <= run[r].day
                       => run[r].day \in disturbed

\* A reminder sent on an undisturbed day: no run will send it again, and it is
\* recorded or will be.
SentOnce(e, u, d) ==
    /\ d <= day
    /\ \A r \in Runs : Active(r) =>
          /\ d <= run[r].day
          /\ run[r].day = d => /\ u \notin run[r].left
                               /\ \A s \in run[r].todo : s.endpoint = e => s.user # u
    /\ \/ d < day
       \/ reminded[u] = d
       \/ \E r \in Runs : Active(r) /\ run[r].day = d /\ u \in run[r].marks

PushesAreSettled ==
    \A e \in Endpoints, u \in Users, d \in Days :
       /\ pushes[<<e, u, d>>] > 0
       /\ d \notin disturbed
       => pushes[<<e, u, d>>] = 1 /\ SentOnce(e, u, d)

\* Every push on an undisturbed day is settled, which
\* rests on what the runs under way hold.
ReminderInvariant ==
    /\ OneRowPerEndpoint(subs)
    /\ \A r \in Runs : RunIsSound(r)
    /\ OverlapsAreSeen
    /\ RecordedReminderWasSent
    /\ PushesAreSettled

\* The inductive invariant of the proofs, with the types it rests on.
RemindersAreSound == TypeOK /\ ReminderInvariant

============================================================================
