----------------------------- MODULE UsageChecks -----------------------------
(***************************************************************************)
(* How bxb notices that a subscription's usage crosses a threshold or an   *)
(* alert: routers/events.py stores the events and enqueues checks,         *)
(* worker.py runs them, services/usage_threshold_service.py and            *)
(* usage_alert_service.py record what was crossed and announce it.         *)
(*                                                                         *)
(* One subscription, whose usage in a billing period is the number of the  *)
(* customer's events in it, each priced at one.  Handlers of the API       *)
(* processes and jobs of the workers interleave, one commit or queue       *)
(* operation a step.                                                       *)
(***************************************************************************)
EXTENDS Naturals, FiniteSets

CONSTANTS
    Servers,     \* request handlers that run at a time
    Workers,     \* arq workers
    Txns,        \* transaction ids of events
    Thresholds,  \* usage thresholds of the subscription and its plan
    Amount,      \* what a threshold is crossed at
    Alerts,      \* usage alerts of the subscription
    Value,       \* what an alert goes off at
    Recurring,   \* the alerts that go off at every multiple
    Dual,        \* usage is counted in ClickHouse
    MaxPeriod,   \* bound: the last billing period
    MaxBatch,    \* bound: the events of a request
    MaxJobs,     \* bound: with this many jobs queued nothing is reprocessed
    MaxFaults    \* bound: crashes of a process, failures of ClickHouse, Redis or a job

Periods == 0..MaxPeriod

ASSUME ConstantsAssumption ==
    /\ MaxPeriod \in Nat /\ MaxBatch \in Nat /\ MaxJobs \in Nat
    /\ MaxFaults \in Nat
    /\ IsFiniteSet(Txns) /\ IsFiniteSet(Workers)
    /\ Amount \in [Thresholds -> Nat \ {0}] /\ Value \in [Alerts -> Nat \ {0}]
    /\ Recurring \subseteq Alerts /\ Dual \in BOOLEAN

VARIABLES
    stamp,     \* the period that an event's timestamp is in
    now,       \* the billing period of today
    active,    \* the subscription is active
    threshold, \* the rows of the thresholds
    events,    \* the events stored in PostgreSQL
    copied,    \* those also stored in ClickHouse
    proc,      \* what each handler is doing
    jobs,      \* how many checks of each kind are queued
    run,       \* what each worker is doing
    crossed,   \* how often each threshold was recorded in each period
    told,      \* how often its crossing was announced
    alert,     \* the alerts' times_triggered, trigger rows, announcements
    unheard,   \* history: kinds whose last check was lost, or is not due
    faults     \* history: how many crashes and failures there were

ingestion == <<events, copied>>
findings  == <<crossed, told, alert>>
vars == <<stamp, now, active, threshold, ingestion, proc, jobs, run, findings, unheard, faults>>

Kinds == {"thresholds", "alerts"}

Handler == [pc : {"idle", "insert", "copy", "enqueue"},
            new : SUBSET Txns, checks : SUBSET Kinds]
Free == [pc |-> "idle", new |-> {}, checks |-> {}]

\* per: the period the check is for; at: when it was computed; usage: what it
\* found; todo: the thresholds or alerts to go; on: the one it is at.
Job == [pc : {"idle", "measure", "check", "insert", "record", "announce"},
        kind : Kinds, per : Periods, at : Periods, usage : Nat,
        todo : SUBSET (Thresholds \cup Alerts)]
Resting == [pc |-> "idle", kind |-> "alerts", per |-> 0, at |-> 0, usage |-> 0,
            todo |-> {}]

Stored == IF Dual THEN copied ELSE events
Used(S, p) == Cardinality({x \in S : stamp[x] = p})

Listed == {t \in Thresholds : threshold[t] = "listed"}
RecordedWrong(t, per) == \E p \in (per + 1)..MaxPeriod : crossed[t][p] > 0
Recorded(t, per) == \E p \in per..MaxPeriod : crossed[t][p] > 0
ReachedWrong(t, usage) == usage > Amount[t]
Reached(t, usage) == usage >= Amount[t]
Expected(a, usage) ==
    IF a \in Recurring THEN usage \div Value[a]
    ELSE IF usage >= Value[a] THEN 1 ELSE 0

First(S, size) == CHOOSE x \in S : \A y \in S : size[x] <= size[y]

-----------------------------------------------------------------------------
(* The API.                                                                *)

\* The body of a request names events, some twice; those that are stored are
\* answered, the others are new.
Ingest(s) ==
    /\ proc[s].pc = "idle"
    /\ \E T \in SUBSET Txns :
         /\ Cardinality(T) <= MaxBatch /\ T \ events # {}
         /\ proc' = [proc EXCEPT ![s] = [Free EXCEPT
                        !.pc = "insert", !.new = T \ events]]
    /\ UNCHANGED <<stamp, now, active, threshold, ingestion, jobs, run, findings, unheard, faults>>

\* The unique transaction_id: a request that names a new event twice, or one
\* that another request has stored meanwhile, fails as a whole.
Insert(s) ==
    /\ proc[s].pc = "insert"
    /\ \/ /\ proc' = [proc EXCEPT ![s] = Free]
          /\ UNCHANGED events
       \/ /\ proc[s].new \cap events = {}
          /\ proc' = [proc EXCEPT ![s].pc = "copy"]
          /\ events' = events \cup proc[s].new
    /\ UNCHANGED <<stamp, now, active, threshold, copied, jobs, run, findings, unheard, faults>>

Fail == faults < MaxFaults /\ faults' = faults + 1

\* _get_active_subscription_ids: only active subscriptions are checked.
CheckActive(s) ==
    IF active
    THEN /\ proc' = [proc EXCEPT ![s] = [Free EXCEPT !.pc = "enqueue", !.checks = Kinds]]
         /\ UNCHANGED unheard
    ELSE proc' = [proc EXCEPT ![s] = Free] /\ unheard' = Kinds

\* ClickHouse gets a copy; when it fails that is logged and not repeated.
Copy(s) ==
    /\ proc[s].pc = "copy"
    /\ \/ /\ copied' = IF Dual THEN copied \cup proc[s].new ELSE copied
          /\ UNCHANGED faults
       \/ Dual /\ Fail /\ UNCHANGED copied
    /\ CheckActive(s)
    /\ UNCHANGED <<stamp, now, active, threshold, events, jobs, run, findings>>

Reprocess(s) ==
    /\ proc[s].pc = "idle" /\ events # {} /\ active
    /\ \A k \in Kinds : jobs[k] < MaxJobs
    /\ proc' = [proc EXCEPT ![s] = [Free EXCEPT !.pc = "enqueue", !.checks = Kinds]]
    /\ UNCHANGED <<stamp, now, active, threshold, ingestion, jobs, run, findings, unheard, faults>>

\* After the response, the checks of thresholds and then those of alerts are
\* enqueued; when Redis fails that is logged and not repeated.
Enqueue(s) ==
    /\ proc[s].pc = "enqueue"
    /\ LET k == IF "thresholds" \in proc[s].checks THEN "thresholds" ELSE "alerts"
       IN  /\ \/ /\ jobs[k] < MaxJobs
                 /\ jobs' = [jobs EXCEPT ![k] = @ + 1]
                 /\ unheard' = unheard \ {k}
                 /\ UNCHANGED faults
              \/ Fail /\ unheard' = unheard \cup {k} /\ UNCHANGED jobs
           /\ proc' = [proc EXCEPT ![s] =
                          IF proc[s].checks = {k} THEN Free
                          ELSE [proc[s] EXCEPT !.checks = proc[s].checks \ {k}]]
    /\ UNCHANGED <<stamp, now, active, threshold, ingestion, run, findings>>

\* The subscription is paused and resumed, thresholds are added and deleted,
\* unless a record refers to them.  Nothing is checked on that account.
Toggle ==
    /\ active' = ~active
    /\ UNCHANGED <<stamp, now, threshold, ingestion, proc, jobs, run, findings, unheard, faults>>

CreateThreshold ==
    /\ \E t \in Thresholds :
         threshold[t] = "none" /\ threshold' = [threshold EXCEPT ![t] = "listed"]
    /\ unheard' = unheard \cup {"thresholds"}
    /\ UNCHANGED <<stamp, now, active, ingestion, proc, jobs, run, findings, faults>>

DeleteThreshold ==
    /\ \E t \in Listed :
         ~Recorded(t, 0) /\ threshold' = [threshold EXCEPT ![t] = "deleted"]
    /\ UNCHANGED <<stamp, now, active, ingestion, proc, jobs, run, findings, unheard, faults>>

-----------------------------------------------------------------------------
(* The worker.                                                             *)

\* The period is determined when the job starts; a subscription that is not
\* active any more is not checked.
Start(w, k) ==
    /\ run[w].pc = "idle" /\ jobs[k] > 0
    /\ jobs' = [jobs EXCEPT ![k] = @ - 1]
    /\ IF active
       THEN /\ run' = [run EXCEPT ![w] = [Resting EXCEPT
                          !.pc = IF k = "thresholds" THEN "measure" ELSE "check",
                          !.kind = k, !.per = now, !.at = now,
                          !.todo = IF k = "thresholds" THEN Listed ELSE Alerts]]
            /\ UNCHANGED unheard
       ELSE unheard' = unheard \cup {k} /\ UNCHANGED run
    /\ UNCHANGED <<stamp, now, active, threshold, ingestion, proc, findings, faults>>

\* The usage of the period, for the thresholds; crossings are dated after that.
Measure(w) ==
    /\ run[w].pc = "measure"
    /\ run' = [run EXCEPT ![w].pc = "check", ![w].at = now,
                          ![w].usage = Used(Stored, run[w].per)]
    /\ UNCHANGED <<stamp, now, active, threshold, ingestion, proc, jobs, findings, unheard, faults>>

\* The lowest first.  Alerts do not touch each other: any order will do.
On(w) == First(run[w].todo, IF run[w].kind = "thresholds" THEN Amount ELSE Value)
Done(w) == [run[w] EXCEPT !.pc = "check", !.todo = @ \ {On(w)}]

\* A threshold that was recorded in the period, or that is not reached, is
\* passed over.
CheckThreshold(w) ==
    /\ run[w].pc = "check" /\ run[w].kind = "thresholds" /\ run[w].todo # {}
    /\ run' = [run EXCEPT ![w] =
                  IF ~Recorded(On(w), run[w].per) /\ Reached(On(w), run[w].usage)
                    THEN [@ EXCEPT !.pc = "insert"] ELSE Done(w)]
    /\ UNCHANGED <<stamp, now, active, threshold, ingestion, proc, jobs, findings, unheard, faults>>

\* The record without its webhook.
InsertCrossingWrong(w) ==
    /\ run[w].pc = "insert"
    /\ crossed' = [crossed EXCEPT ![On(w)][run[w].at] = @ + 1]
    /\ run' = [run EXCEPT ![w] = Done(w)]
    /\ UNCHANGED <<stamp, now, active, threshold, ingestion, proc, jobs, told, alert, unheard, faults>>

\* The foreign key: a threshold deleted meanwhile ends the job.
InsertCrossing(w) ==
    /\ run[w].pc = "insert"
    /\ IF On(w) \in Listed
       THEN /\ crossed' = [crossed EXCEPT ![On(w)][run[w].at] = @ + 1]
            /\ run' = [run EXCEPT ![w].pc = "announce"]
            /\ UNCHANGED unheard
       ELSE /\ run' = [run EXCEPT ![w] = Resting]
            /\ unheard' = unheard \cup {"thresholds"}
            /\ UNCHANGED crossed
    /\ UNCHANGED <<stamp, now, active, threshold, ingestion, proc, jobs, told, alert, faults>>

\* The alerts, each with the usage of its metric: times_triggered is committed,
\* then the trigger row.
CheckAlert(w) ==
    /\ run[w].pc = "check" /\ run[w].kind = "alerts" /\ run[w].todo # {}
    /\ LET a == On(w)  expected == Expected(a, Used(Stored, run[w].per))
       IN  IF expected > alert[a].times
           THEN /\ alert' = [alert EXCEPT ![a].times = expected, ![a].fired = @ + 1]
                /\ run' = [run EXCEPT ![w].pc = "record"]
           ELSE /\ run' = [run EXCEPT ![w] = Done(w)]
                /\ UNCHANGED alert
    /\ UNCHANGED <<stamp, now, active, threshold, ingestion, proc, jobs, crossed, told, unheard, faults>>

RecordTrigger(w) ==
    /\ run[w].pc = "record"
    /\ alert' = [alert EXCEPT ![On(w)].rows = @ + 1]
    /\ run' = [run EXCEPT ![w].pc = "announce"]
    /\ UNCHANGED <<stamp, now, active, threshold, ingestion, proc, jobs, crossed, told, unheard, faults>>

\* A webhook row for every endpoint.
Announce(w) ==
    /\ run[w].pc = "announce"
    /\ IF run[w].kind = "thresholds"
       THEN told' = [told EXCEPT ![On(w)][run[w].at] = @ + 1] /\ UNCHANGED alert
       ELSE alert' = [alert EXCEPT ![On(w)].told = @ + 1] /\ UNCHANGED told
    /\ run' = [run EXCEPT ![w] = Done(w)]
    /\ UNCHANGED <<stamp, now, active, threshold, ingestion, proc, jobs, crossed, unheard, faults>>

Finish(w) ==
    /\ run[w].pc = "check" /\ run[w].todo = {}
    /\ run' = [run EXCEPT ![w] = Resting]
    /\ UNCHANGED <<stamp, now, active, threshold, ingestion, proc, jobs, findings, unheard, faults>>

\* An exception ends a job for good.
Abort(w) ==
    /\ run[w].pc # "idle" /\ Fail
    /\ run' = [run EXCEPT ![w] = Resting]
    /\ unheard' = unheard \cup {run[w].kind}
    /\ UNCHANGED <<stamp, now, active, threshold, ingestion, proc, jobs, findings>>

-----------------------------------------------------------------------------

\* What a handler had not enqueued is never enqueued: a client that sends the
\* events again is told that they exist.  arq runs an interrupted job again.
CrashHandler(s) ==
    /\ proc[s].pc # "idle" /\ Fail
    /\ proc' = [proc EXCEPT ![s] = Free]
    /\ unheard' = unheard \cup
         CASE proc[s].pc = "insert"  -> {}
           [] proc[s].pc = "enqueue" -> proc[s].checks
           [] OTHER                  -> Kinds
    /\ UNCHANGED <<stamp, now, active, threshold, ingestion, jobs, run, findings>>

CrashWorker(w) ==
    /\ run[w].pc # "idle" /\ Fail
    /\ run' = [run EXCEPT ![w] = Resting]
    /\ jobs' = [jobs EXCEPT ![run[w].kind] = @ + 1]
    /\ UNCHANGED <<stamp, now, active, threshold, ingestion, proc, findings, unheard>>

\* A new period begins.  Events dated in it that are already stored count from
\* now on, and nothing checks them on that account.
Tick ==
    /\ now < MaxPeriod
    /\ now' = now + 1
    /\ unheard' = IF Used(events, now + 1) > 0 THEN Kinds ELSE {}
    /\ UNCHANGED <<stamp, active, threshold, ingestion, proc, jobs, run, findings, faults>>

Init ==
    /\ stamp \in [Txns -> Periods]
    /\ now = 0 /\ active = TRUE
    /\ threshold \in [Thresholds -> {"none", "listed"}]
    /\ events = {} /\ copied = {}
    /\ proc = [s \in Servers |-> Free]
    /\ jobs = [k \in Kinds |-> 0]
    /\ run = [w \in Workers |-> Resting]
    /\ crossed = [t \in Thresholds |-> [p \in Periods |-> 0]]
    /\ told = [t \in Thresholds |-> [p \in Periods |-> 0]]
    /\ alert = [a \in Alerts |-> [times |-> 0, fired |-> 0, rows |-> 0, told |-> 0]]
    /\ unheard = {}
    /\ faults = 0

Handle(s) == Ingest(s) \/ Insert(s) \/ Copy(s) \/ Reprocess(s) \/ Enqueue(s)

Work(w) ==
    \/ \E k \in Kinds : Start(w, k)
    \/ Measure(w) \/ CheckThreshold(w) \/ InsertCrossing(w)
    \/ CheckAlert(w) \/ RecordTrigger(w) \/ Announce(w) \/ Finish(w)

Next ==
    \/ \E s \in Servers : Handle(s) \/ CrashHandler(s)
    \/ \E w \in Workers : Work(w) \/ Abort(w) \/ CrashWorker(w)
    \/ Toggle \/ CreateThreshold \/ DeleteThreshold \/ Tick

Spec == Init /\ [][Next]_vars

-----------------------------------------------------------------------------
(* Properties *)

\* Every variable has its type.
TypeOK ==
    /\ stamp \in [Txns -> Periods] /\ now \in Periods /\ active \in BOOLEAN
    /\ threshold \in [Thresholds -> {"none", "listed", "deleted"}]
    /\ events \in SUBSET Txns /\ copied \in SUBSET Txns
    /\ proc \in [Servers -> Handler] /\ jobs \in [Kinds -> Nat]
    /\ run \in [Workers -> Job]
    /\ crossed \in [Thresholds -> [Periods -> Nat]]
    /\ told \in [Thresholds -> [Periods -> Nat]]
    /\ alert \in [Alerts -> [times : Nat, fired : Nat, rows : Nat, told : Nat]]
    /\ unheard \in SUBSET Kinds /\ faults \in Nat

Quiet ==
    /\ \A s \in Servers : proc[s].pc = "idle"
    /\ \A w \in Workers : run[w].pc = "idle"
    /\ \A k \in Kinds : jobs[k] = 0
Faultless == faults = 0

\* With one worker, a threshold is recorded at most once in a period, however
\* many requests enqueue the check, though workers crash and arq runs their jobs
\* again, and when the period ends during a check.
CrossedOnce == \A t \in Thresholds, p \in Periods : crossed[t][p] <= 1

\* When nothing is under way and the last check was not lost, everything that
\* the usage of the period has reached is on record, also by events of requests
\* that race each other or come while a check runs.
Noticed == Quiet =>
    LET usage == Used(IF Faultless THEN events ELSE Stored, now)
    IN  /\ "thresholds" \notin unheard =>
             \A t \in Listed : usage >= Amount[t] => \E p \in now..MaxPeriod : crossed[t][p] > 0
        /\ "alerts" \notin unheard =>
             \A a \in Alerts : Expected(a, usage) <= alert[a].times

\* A crossing is announced at most once and never without its record, though
\* jobs run again after a crash; without crashes and failures, once.
ToldOnce ==
    /\ \A t \in Thresholds, p \in Periods :
         /\ told[t][p] <= crossed[t][p]
         /\ Quiet /\ Faultless => told[t][p] = crossed[t][p]
    /\ \A a \in Alerts :
         /\ alert[a].told <= alert[a].rows /\ alert[a].rows <= alert[a].fired
         /\ Quiet /\ Faultless => alert[a].told = alert[a].fired

(* The inductive invariants behind the last two.  What jobs have recorded   *)
(* and not yet announced:                                                   *)
IsAt(w, kind, step, x) == run[w].kind = kind /\ run[w].pc = step /\ On(w) = x
Owing(t, p) == {w \in Workers : IsAt(w, "thresholds", "announce", t) /\ run[w].at = p}
OwingRow(a) == {w \in Workers : IsAt(w, "alerts", "record", a)}
OwingWord(a) == {w \in Workers : IsAt(w, "alerts", "announce", a)}
Owed(t, p) == Cardinality(Owing(t, p))
OwedRow(a) == Cardinality(OwingRow(a))
OwedWord(a) == Cardinality(OwingWord(a))

TellInv ==
    /\ \A w \in Workers : /\ run[w].pc = "insert" => run[w].kind = "thresholds"
                          /\ run[w].pc = "record" => run[w].kind = "alerts"
    /\ \A t \in Thresholds, p \in Periods :
         /\ told[t][p] + Owed(t, p) <= crossed[t][p]
         /\ Faultless => told[t][p] + Owed(t, p) = crossed[t][p]
    /\ \A a \in Alerts :
         /\ alert[a].told + OwedWord(a) <= alert[a].rows
         /\ alert[a].rows + OwedRow(a) <= alert[a].fired
         /\ Faultless => /\ alert[a].told + OwedWord(a) = alert[a].rows
                         /\ alert[a].rows + OwedRow(a) = alert[a].fired

\* ClickHouse has the events but for those that a handler is about to copy.
CopyInv ==
    /\ copied \subseteq events
    /\ \A s \in Servers : proc[s].pc = "copy" => proc[s].new \subseteq events
    /\ Faultless /\ Dual => \A x \in events :
         x \in copied \/ \E s \in Servers : proc[s].pc = "copy" /\ x \in proc[s].new

\* A check of a kind is to be enqueued, or queued.
Coming(k) ==
    \/ \E s \in Servers :
         proc[s].pc = "copy" \/ (proc[s].pc = "enqueue" /\ k \in proc[s].checks)
    \/ jobs[k] > 0

\* A job is going to look at x, with the usage of the period.
Checks(w, k, x) ==
    run[w].pc # "idle" /\ run[w].kind = k /\ run[w].per = now /\ x \in run[w].todo

NoticeInv ==
    /\ "thresholds" \notin unheard /\ ~Coming("thresholds") =>
         \A t \in Listed : Used(Stored, now) >= Amount[t] =>
            \/ Recorded(t, now)
            \/ \E w \in Workers : /\ Checks(w, "thresholds", t)
                                  /\ run[w].pc = "measure" \/ Reached(t, run[w].usage)
    /\ "alerts" \notin unheard /\ ~Coming("alerts") =>
         \A a \in Alerts :
            \/ Expected(a, Used(Stored, now)) <= alert[a].times
            \/ \E w \in Workers : /\ Checks(w, "alerts", a)
                                  /\ run[w].pc = "check" \/ On(w) # a

=============================================================================
