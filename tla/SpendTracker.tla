---------------------------- MODULE SpendTracker ----------------------------
(***************************************************************************)
(* The spend ledger and the monthly budget.  A background loop lists the   *)
(* rentals and folds them into the ledger; when the budget is spent it     *)
(* schedules one job per running rental, which backs the rental up and     *)
(* pauses it.  Commands of the window pause and destroy rentals, change    *)
(* the budget and the provider key.  Time is counted in ticks; a tick      *)
(* costs RunRate while the rental runs and StoreRate while it is stopped.  *)
(***************************************************************************)
EXTENDS Naturals, FiniteSets, FiniteSetsExt

CONSTANTS Instances,
          Keys,
          Home,          \* the key of the account that holds the rentals
          Settings,      \* budget settings the user may choose
          RunRate, StoreRate,
          MonthLen,      \* ticks in a month
          MaxTime,       \* bound: ticks in a behaviour
          MaxChanges,    \* bound: actions of the user
          Slots,         \* spend_stop_slots
          Worlds         \* which of AllBehaviours may happen besides the normal course

AllBehaviours ==
    {"saveFails",     \* saving the state fails
     "stopFails",     \* a backup or a provider request fails
     "switch"}        \* the user enters another provider key

VARIABLES
    clock,
    real,        \* the rentals at the provider
    key, settings,
    cursors,     \* where accrual left off, per rental observed
    ledger,      \* ticks running and stopped, per rental and month
    alerts,      \* BudgetAlertState
    tracker,     \* run_spend_tracking
    job,         \* the stop job of each rental (BudgetStopJobs::in_flight)
    cooling,     \* rentals whose retry_after lies ahead
    action,      \* LIFECYCLE_ACTIONS: what holds each rental's lock, and how far it is
    billed,      \* ticks accrued for each rental (history)
    stoppedIn,   \* month in which a budget stop of the rental was recorded (history)
    changes,
    world

spend == <<settings, cursors, ledger, alerts>>
stopping == <<job, cooling, action>>
history == <<billed, stoppedIn>>
app == <<clock, real, key, spend, tracker, stopping, history, changes>>
vars == <<app, world>>

May(b) == b \in world
month_key(t) == t \div MonthLen
Months == 0..month_key(MaxTime)
Never == MaxTime + 1

DefaultSettings == [budget |-> 0, warn |-> 80, auto |-> FALSE]
NoCursor == [on |-> FALSE, at |-> 0, running |-> FALSE]
NoLedger == [i \in Instances |-> [m \in Months |-> [running |-> 0, stopped |-> 0]]]
NoAlerts == [warned |-> Never, exceeded |-> Never, month |-> Never, stopped |-> {}]
IdleTracker == [pc |-> "idle"]
NoJob == [pc |-> "none"]
Free == [who |-> "none"]

Init ==
    /\ world \in Worlds
    /\ clock = 0
    /\ real \in [Instances -> {"running", "stopped"}]
    /\ key = Home
    /\ settings \in {DefaultSettings} \cup Settings
    /\ cursors = [i \in Instances |-> NoCursor]
    /\ ledger = NoLedger
    /\ alerts = NoAlerts
    /\ tracker = IdleTracker
    /\ job = [i \in Instances |-> NoJob]
    /\ cooling = {}
    /\ action = [i \in Instances |-> Free]
    /\ billed = [i \in Instances |-> {}]
    /\ stoppedIn = [i \in Instances |-> Never]
    /\ changes = 0

Tick ==
    /\ clock < MaxTime
    /\ clock' = clock + 1
    /\ UNCHANGED <<real, key, spend, tracker, stopping, history, changes>>

-----------------------------------------------------------------------------
\* models/spend.rs: the ledger as a function of what was observed.

\* accrue_interval splits from..to at the month boundaries.
Segment(m, from, to) ==
    LET lo == Max({from, m * MonthLen})
        hi == Min({to, (m + 1) * MonthLen})
    IN  IF hi > lo THEN hi - lo ELSE 0

\* Mutant: the interval is not split at the end of the month.
SegmentUnsplit(m, from, to) == IF m = month_key(from) THEN to - from ELSE 0
accrue_intervalUnsplit(entry, running, from, to) ==
    [m \in Months |->
        IF running THEN [entry[m] EXCEPT !.running = @ + SegmentUnsplit(m, from, to)]
                   ELSE [entry[m] EXCEPT !.stopped = @ + SegmentUnsplit(m, from, to)]]

accrue_interval(entry, running, from, to) ==
    [m \in Months |->
        IF running THEN [entry[m] EXCEPT !.running = @ + Segment(m, from, to)]
                   ELSE [entry[m] EXCEPT !.stopped = @ + Segment(m, from, to)]]

\* The interval since the previous observation, at the rate recorded then; an
\* observation older than the cursor accrues nothing.
Accrues(i, seen, now) == cursors[i].on /\ seen[i] # "gone" /\ now > cursors[i].at

\* record_observations: what is not observed loses its cursor.
record_observations(seen, now) ==
    /\ ledger' = [i \in Instances |->
          IF Accrues(i, seen, now)
          THEN accrue_interval(ledger[i], cursors[i].running, cursors[i].at, now)
          ELSE ledger[i]]
    /\ billed' = [i \in Instances |->
          billed[i] \cup (IF Accrues(i, seen, now) THEN cursors[i].at .. (now - 1) ELSE {})]
    /\ cursors' = [i \in Instances |->
          IF seen[i] = "gone" THEN NoCursor
          ELSE [on |-> TRUE,
                at |-> IF cursors[i].on THEN Max({now, cursors[i].at}) ELSE now,
                running |-> seen[i] = "running"]]

\* record_instance_transition and record_instance_destroyed: the other cursors
\* are observed as they stand.
Known(i) == IF ~cursors[i].on THEN "gone" ELSE IF cursors[i].running THEN "running" ELSE "stopped"
Transition(i) ==
    [j \in Instances |-> IF j = i /\ cursors[i].on THEN "stopped" ELSE Known(j)]
record_instance_transition(i, now) == record_observations(Transition(i), now)
record_instance_destroyed(i, now) ==
    /\ ledger' = [ledger EXCEPT ![i] =
          IF cursors[i].on /\ now > cursors[i].at
          THEN accrue_interval(@, cursors[i].running, cursors[i].at, now) ELSE @]
    /\ billed' = [billed EXCEPT ![i] =
          @ \cup (IF cursors[i].on /\ now > cursors[i].at THEN cursors[i].at .. (now - 1) ELSE {})]
    /\ cursors' = [cursors EXCEPT ![i] = NoCursor]

month_total(l, m) ==
    MapThenSumSet(LAMBDA i : l[i][m].running * RunRate + l[i][m].stopped * StoreRate, Instances)
budget_level(l, now) ==
    LET spent == month_total(l, month_key(now))
    IN  CASE settings.budget = 0 -> "disabled"
          [] spent >= settings.budget /\ settings.budget # 0 -> "exceeded"
          [] spent < settings.budget /\ spent * 100 >= settings.budget * settings.warn -> "warning"
          [] OTHER -> "ok"

\* instances_to_auto_stop clears the list of another month, then picks.
CurrentAlerts(a, m) == IF a.month = m THEN a ELSE [a EXCEPT !.month = m, !.stopped = {}]
instances_to_auto_stop(cs, l, a, now) ==
    IF ~settings.auto \/ budget_level(l, now) # "exceeded" THEN {}
    ELSE {i \in Instances : cs[i].on /\ cs[i].running /\ i \notin a.stopped}

\* The alert of a level is raised once in a month.
Alerted(a, level, m) ==
    CASE level = "exceeded" /\ a.exceeded # m -> [a EXCEPT !.exceeded = m, !.warned = m]
      [] level = "warning" /\ a.warned # m -> [a EXCEPT !.warned = m]
      [] OTHER -> a

-----------------------------------------------------------------------------
\* The tracker's loop.

\* tick lists the account of the key; a failed listing skips the tick.
TrackerList ==
    /\ tracker.pc = "idle"
    /\ tracker' = [pc |-> "listed", key |-> key,
                   seen |-> [i \in Instances |-> IF key = Home THEN real[i] ELSE "gone"]]
    /\ UNCHANGED <<clock, real, key, spend, stopping, history, changes>>
\* record_and_enforce takes the time and then waits for the state's lock.
TrackerNow ==
    /\ tracker.pc = "listed"
    /\ tracker' = [pc |-> "record", key |-> tracker.key, seen |-> tracker.seen, now |-> clock]
    /\ UNCHANGED <<clock, real, key, spend, stopping, history, changes>>

\* Stop jobs for the targets that have none and are not cooling down.
Policy(now) == [pc |-> "queued", key |-> tracker.key, settings |-> settings,
                month |-> month_key(now)]
Scheduled(targets, now) ==
    [i \in Instances |-> IF i \in targets /\ job[i].pc = "none" /\ i \notin cooling
                         THEN Policy(now) ELSE job[i]]
record_and_enforce ==
    /\ tracker.pc = "record"
    /\ tracker' = IdleTracker
    /\ \/ /\ key = tracker.key
          /\ record_observations(tracker.seen, tracker.now)
          /\ LET m == month_key(tracker.now)
                 level == budget_level(ledger', tracker.now)
                 a == CurrentAlerts(Alerted(alerts, level, m), m)
             IN  /\ alerts' = a
                 /\ job' = Scheduled(
                       instances_to_auto_stop(cursors', ledger', a, tracker.now), tracker.now)
          /\ UNCHANGED <<settings, stoppedIn>>
       \/ /\ key # tracker.key \/ May("saveFails")
          /\ UNCHANGED <<spend, job, history>>
    /\ UNCHANGED <<clock, real, key, cooling, action, changes>>

-----------------------------------------------------------------------------
\* Lifecycle actions: pause_instance (by the user or by a stop job) and
\* destroy_instance, one at a time per rental.

\* BudgetStopPolicy::authorized.
authorized(p, i) ==
    /\ key = p.key
    /\ settings = p.settings
    /\ month_key(clock) = p.month
    /\ settings.auto
    /\ budget_level(ledger, clock) = "exceeded"
    /\ cursors[i].on /\ cursors[i].running
    /\ i \notin alerts.stopped

Started(who) == [who |-> who, at |-> "backup", key |-> key]
UserBegins(i) ==
    /\ changes < MaxChanges
    /\ changes' = changes + 1
    /\ action[i].who = "none"
    /\ real[i] # "gone"
    /\ \E who \in {"pause", "destroy"} : action' = [action EXCEPT ![i] = Started(who)]
    /\ UNCHANGED <<clock, real, key, spend, tracker, job, cooling, history>>

\* A job waits for a slot; it fails if the rental's lock is taken, and ends
\* quietly if its policy no longer holds.
Busy == {i \in Instances : job[i].pc \in {"running", "report"}}
\* Mutant: a job whose policy no longer holds stays in flight.
JobBeginsStaysInFlight(i) ==
    /\ job[i].pc = "queued"
    /\ Cardinality(Busy) < Slots
    /\ IF action[i].who # "none"
       THEN /\ cooling' = cooling \cup {i}
            /\ job' = [job EXCEPT ![i] = NoJob]
            /\ UNCHANGED action
       ELSE IF ~authorized(job[i], i)
       THEN UNCHANGED stopping
       ELSE /\ job' = [job EXCEPT ![i].pc = "running"]
            /\ action' = [action EXCEPT ![i] = Started("budget")]
            /\ UNCHANGED cooling
    /\ UNCHANGED <<clock, real, key, spend, tracker, history, changes>>
JobBegins(i) ==
    /\ job[i].pc = "queued"
    /\ Cardinality(Busy) < Slots
    /\ IF action[i].who # "none"
       THEN /\ cooling' = cooling \cup {i}
            /\ job' = [job EXCEPT ![i] = NoJob]
            /\ UNCHANGED action
       ELSE IF ~authorized(job[i], i)
       THEN /\ job' = [job EXCEPT ![i] = NoJob]
            /\ UNCHANGED <<action, cooling>>
       ELSE /\ job' = [job EXCEPT ![i].pc = "running"]
            /\ action' = [action EXCEPT ![i] = Started("budget")]
            /\ UNCHANGED cooling
    /\ UNCHANGED <<clock, real, key, spend, tracker, history, changes>>

\* The action ends: the lock is released; a job that failed cools down, one
\* that succeeded has its result to report.
ActionEnds(i, how) ==
    /\ action' = [action EXCEPT ![i] = Free]
    /\ job' = IF action[i].who # "budget" THEN job
              ELSE IF how = "ok" THEN [job EXCEPT ![i].pc = "report"]
              ELSE [job EXCEPT ![i] = NoJob]
    /\ cooling' = IF action[i].who = "budget" /\ how = "failed" THEN cooling \cup {i}
                  ELSE cooling
ActionAt(i, at) == action[i].who # "none" /\ action[i].at = at
ActionGoes(i, at) ==
    /\ action' = [action EXCEPT ![i].at = at]
    /\ UNCHANGED <<job, cooling>>

maybe_run_backup_first(i) ==
    /\ ActionAt(i, "backup")
    /\ \/ ActionGoes(i, "recheck")
       \/ May("stopFails") /\ ActionEnds(i, "failed")
    /\ UNCHANGED <<clock, real, key, spend, tracker, history, changes>>
\* The authorization and the key are checked again after the backup, which may
\* take minutes; destroy takes the key only now.
Recheck(i) ==
    /\ ActionAt(i, "recheck")
    /\ CASE action[i].who = "budget" /\ ~authorized(job[i], i) -> ActionEnds(i, "off")
         [] action[i].who = "pause" /\ key # action[i].key -> ActionEnds(i, "failed")
         [] action[i].who = "destroy" ->
               /\ action' = [action EXCEPT ![i].at = "send", ![i].key = key]
               /\ UNCHANGED <<job, cooling>>
         [] OTHER -> ActionGoes(i, "send")
    /\ UNCHANGED <<clock, real, key, spend, tracker, history, changes>>

\* A request that fails may have taken effect: its answer, or the lookup that
\* follows a pause, is lost.
Taken(i) == [real EXCEPT ![i] = IF action[i].who = "destroy" THEN "gone" ELSE "stopped"]
Request(i) ==
    /\ ActionAt(i, "send")
    /\ \/ /\ action[i].key = Home /\ real[i] # "gone"
          /\ real' = Taken(i)
          /\ ActionGoes(i, "confirm")
       \/ /\ action[i].key = Home /\ real[i] # "gone" /\ May("stopFails")
          /\ ActionEnds(i, "failed")
          /\ real' \in {real, Taken(i)}
       \/ /\ action[i].key # Home \/ real[i] = "gone"
          /\ ActionEnds(i, "failed")
          /\ UNCHANGED real
    /\ UNCHANGED <<clock, key, spend, tracker, history, changes>>

\* The confirmed pause closes the interval; only the budget's own pause of the
\* same month earns the override.
Marked(i) == action[i].who = "budget" /\ month_key(clock) = job[i].month
Confirm(i) ==
    /\ ActionAt(i, "confirm")
    /\ \/ /\ key = action[i].key
          /\ IF action[i].who = "destroy" THEN record_instance_destroyed(i, clock)
             ELSE record_instance_transition(i, clock)
          /\ IF Marked(i)
             THEN /\ alerts' = [alerts EXCEPT !.stopped = @ \cup {i}]
                  /\ stoppedIn' = [stoppedIn EXCEPT ![i] = month_key(clock)]
             ELSE UNCHANGED <<alerts, stoppedIn>>
          /\ ActionEnds(i, "ok")
          /\ UNCHANGED settings
       \/ /\ key # action[i].key
          /\ ActionEnds(i, "ok")
          /\ UNCHANGED <<spend, history>>
       \/ /\ May("saveFails")
          /\ ActionEnds(i, "failed")
          /\ UNCHANGED <<spend, history>>
    /\ UNCHANGED <<clock, real, key, tracker, changes>>

\* The job records the stop once more with its alert and gives up its slot.
JobReports(i) ==
    /\ job[i].pc = "report"
    /\ job' = [job EXCEPT ![i] = NoJob]
    /\ \/ /\ key = job[i].key /\ month_key(clock) = job[i].month
          /\ alerts' = [alerts EXCEPT !.stopped = @ \cup {i}]
          /\ stoppedIn' = [stoppedIn EXCEPT ![i] = month_key(clock)]
       \/ /\ key # job[i].key \/ month_key(clock) # job[i].month \/ May("saveFails")
          /\ UNCHANGED <<alerts, stoppedIn>>
    /\ UNCHANGED <<clock, real, key, settings, cursors, ledger, tracker, cooling, action,
                   billed, changes>>

CoolDown(i) ==
    /\ i \in cooling
    /\ cooling' = cooling \ {i}
    /\ UNCHANGED <<clock, real, key, spend, tracker, job, action, history, changes>>

-----------------------------------------------------------------------------
\* The user.

\* update_budget_settings: raising the budget or the warning level re-arms the
\* month's alerts.
Rearmed(a, s) ==
    IF s.budget > settings.budget \/ s.warn > settings.warn
    THEN [a EXCEPT !.warned = Never, !.exceeded = Never] ELSE a
update_budget_settings ==
    /\ changes < MaxChanges
    /\ changes' = changes + 1
    /\ \E s \in Settings \ {settings} :
          /\ settings' = s
          /\ alerts' = Rearmed(alerts, s)
    /\ UNCHANGED <<clock, real, key, cursors, ledger, tracker, stopping, billed, stoppedIn>>

\* replace_vast_api_key: another key is a new authorization scope, whose budget
\* must be set again.
replace_vast_api_key ==
    /\ May("switch")
    /\ changes < MaxChanges
    /\ changes' = changes + 1
    /\ key' \in Keys \ {key}
    /\ settings' = DefaultSettings
    /\ cursors' = [i \in Instances |-> NoCursor]
    /\ ledger' = NoLedger
    /\ alerts' = NoAlerts
    /\ billed' = [i \in Instances |-> {}]
    /\ stoppedIn' = [i \in Instances |-> Never]
    /\ UNCHANGED <<clock, real, tracker, stopping>>

\* The user starts the rental again.
StartAgain(i) ==
    /\ changes < MaxChanges
    /\ changes' = changes + 1
    /\ real[i] = "stopped"
    /\ real' = [real EXCEPT ![i] = "running"]
    /\ UNCHANGED <<clock, key, spend, tracker, stopping, history>>

TrackerStep == TrackerList \/ TrackerNow \/ record_and_enforce
ActionStep(i) == maybe_run_backup_first(i) \/ Recheck(i) \/ Request(i) \/ Confirm(i)
UserStep ==
    \/ update_budget_settings \/ replace_vast_api_key
    \/ \E i \in Instances : UserBegins(i) \/ StartAgain(i)

Next ==
    /\ \/ Tick \/ TrackerStep \/ UserStep
       \/ \E i \in Instances : JobBegins(i) \/ ActionStep(i) \/ JobReports(i)
                               \/ CoolDown(i)
    /\ UNCHANGED world

Spec == Init /\ [][Next]_vars

\* The tracker polls for ever, tasks are scheduled, retry times pass.
FairSpec ==
    /\ Spec
    /\ WF_app(TrackerStep)
    /\ \A i \in Instances :
          WF_app(JobBegins(i)) /\ WF_app(ActionStep(i)) /\ WF_app(JobReports(i)) /\ WF_app(CoolDown(i))

-----------------------------------------------------------------------------
\* accrue_interval and record_observations, with a tracker whose time is stale
\* when it gets the lock and pauses confirmed in between: every tick of a
\* rental is billed at most once, and in the month it belongs to.
BilledOnce ==
    \A i \in Instances, m \in Months :
        ledger[i][m].running + ledger[i][m].stopped
            = Cardinality({t \in billed[i] : month_key(t) = m})

\* A step property: "If the user starts one again it is treated as a deliberate override": once
\* a budget stop of a rental is recorded, no stop job of that month pauses it.
OverrideRespected ==
    \A i \in Instances :
        real[i] = "running" /\ real'[i] = "stopped" /\ action[i].who = "budget"
            => stoppedIn[i] # job[i].month

\* A rental that runs while the budget is spent and auto-stop is on, which is
\* stopped in the end unless the user intervenes.
Due(i) ==
    /\ world = {} /\ settings.auto /\ budget_level(ledger, clock) = "exceeded"
    /\ key = Home /\ real[i] = "running" /\ i \notin alerts.stopped
=============================================================================
