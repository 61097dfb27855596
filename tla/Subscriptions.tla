---------------------------- MODULE Subscriptions ----------------------------
(***************************************************************************)
(* The life of one subscription of bxb: services/subscription_lifecycle.py *)
(* behind routers/subscriptions.py and routers/portal.py, the cron jobs of *)
(* worker.py, and the invoices and credit notes both of them create.       *)
(*                                                                         *)
(* API processes and the worker run concurrently over one database; every  *)
(* commit is a step.  proc[p].pc names the next commit of process p, and   *)
(* the record keeps what p read before it.  Time is counted in days; plans *)
(* have a price per day and bill periods of the same number of days.       *)
(***************************************************************************)
EXTENDS Integers, FiniteSets, Sequences

CONSTANTS
    Servers,      \* API processes
    Worker,       \* the arq worker process
    Plans,
    NoPlan,
    Price,        \* what a plan costs per day
    Period,       \* days of a billing period
    TrialDays,    \* trial_period_days of the subscription
    Advance,      \* the values pay_in_advance may have
    Endings,      \* termination actions that clients ask for
    Scheduling,   \* clients schedule downgrades to the end of the period
    Puts,         \* statuses that clients write with PUT
    MaxDay,       \* bound: the last day
    MaxInvoices,  \* bound: with this many invoices no plan is changed
    MaxCrashes    \* bound: crashes of a process

ASSUME ConstantsAssumption ==
    /\ Worker \notin Servers /\ NoPlan \notin Plans /\ IsFiniteSet(Plans)
    /\ Price \in [Plans -> Nat]
    /\ Period \in Nat \ {0} /\ TrialDays \in Nat
    /\ Advance \subseteq BOOLEAN /\ Scheduling \in BOOLEAN
    /\ Endings \subseteq {"invoice", "credit_note", "skip"}
    /\ Puts \subseteq {"pending", "active", "paused", "canceled", "terminated"}
    /\ MaxDay \in Nat /\ MaxInvoices \in Nat /\ MaxCrashes \in Nat

VARIABLES
    sub,       \* the row of table subscriptions
    invoices,  \* its invoices, by number
    notes,     \* its credit notes
    now,       \* today
    proc,      \* what each process is doing
    ran,       \* history: the last day on which the daily and hourly jobs ran
    crashes    \* history: crashes so far

history == <<ran, crashes>>
vars == <<sub, invoices, notes, now, proc, ran, crashes>>

Procs == Servers \cup {Worker}
NoDay == -1
Days == 0..MaxDay
MaybeDay == Days \cup {NoDay, MaxDay + 1}

SubscriptionStatus == {"pending", "active", "paused", "canceled", "terminated"}
Ended == {"canceled", "terminated"}

Row == [st : SubscriptionStatus \cup {"none"},
        plan : Plans, prev : Plans \cup {NoPlan},
        down : BOOLEAN,        \* downgraded_at is set
        trialEnded : BOOLEAN,  \* trial_ended_at is set
        started : MaybeDay,    \* started_at
        ann : BOOLEAN,         \* billing_time: anniversary, or calendar
        adv : BOOLEAN]         \* pay_in_advance

\* per: the day the billing period of an invoice starts.
Invoice == [kind : {"fee", "prorated", "final"}, per : Int, amt : Nat,
            open : BOOLEAN,    \* DRAFT or FINALIZED, neither PAID nor VOIDED
            day : Days,
            no : Days \X (Nat \ {0})]  \* invoice_number: a date and a counter
Note == [per : Int, amt : Nat, day : Days]

Steps == {"idle", "activate", "credit", "change", "number", "insert", "end",
          "pause", "resume", "trial_end"}

Process == [pc : Steps,
            then : Steps,      \* the step after the credit note or invoice
            day : Days,        \* the handler's own idea of now
            plan : Plans \cup {NoPlan},   \* the plan it bills, credits or sets
            to : SubscriptionStatus \cup {"none"},
            kind : {"fee", "prorated", "final"},
            no : Days \X Nat]  \* the invoice number it has generated
Idle == [pc |-> "idle", then |-> "idle", day |-> 0, plan |-> NoPlan,
         to |-> "none", kind |-> "fee", no |-> <<0, 0>>]

-----------------------------------------------------------------------------
(* Dates: services/subscription_dates.py *)

\* Both walks, forwards and backwards from the anchor, end at the period that
\* contains the day.  Calendar periods start with the calendar's day 0.
Anchor == IF sub.started # NoDay THEN sub.started ELSE 0
PeriodStart(day) ==
    IF sub.ann THEN Anchor + ((day - Anchor) \div Period) * Period
               ELSE day - (day % Period)
PeriodEnd(day) == PeriodStart(day) + Period

\* prorate_amount of the days left and of the days used.  Both count whole days,
\* so that the day that has begun is in neither: the handler's instant is taken to
\* be after the start of its day.
Unused(p, day) == Price[p] * (PeriodEnd(day) - day - 1)
UsedWrong(p, day) == Price[p] * (day - PeriodStart(day) + 1)
Used(p, day) == Price[p] * (day - PeriodStart(day))

\* What a credit note gives back: the days left, not the whole period.
CreditOfWrong(p, day) == Price[p] * Period
CreditOf(p, day) == Unused(p, day)

TrialEnd == Anchor + TrialDays
InTrial(day) == ~sub.trialEnded /\ TrialDays > 0 /\ day < TrialEnd

-----------------------------------------------------------------------------
(* Decisions, each preceded by the mistake that a property notices. *)

EndableWrong(st) == st \in {"pending", "active", "paused", "canceled"}
Endable(st) == st \in {"pending", "active", "paused"}

\* process_trial_expirations_task: the query and the comparison
TrialDueWrong(day) ==
    sub.st = "active" /\ TrialDays > 0 /\ ~sub.trialEnded /\ day = TrialEnd
TrialDueAgainWrong(day) == sub.st = "active" /\ TrialDays > 0 /\ day >= TrialEnd
TrialDue(day) ==
    sub.st = "active" /\ TrialDays > 0 /\ ~sub.trialEnded /\ day >= TrialEnd

\* activate_pending_subscription bills at once what is paid in advance
BillsAtOnceWrong == sub.adv
BillsAtOnce == sub.adv /\ TrialDays = 0

\* now >= period_end, where the period is the one that contains now
PeriodOver(day) == day >= PeriodEnd(day)

-----------------------------------------------------------------------------
At(p, step) == proc[p].pc = step
Begin(p, record) == At(p, "idle") /\ proc' = [proc EXCEPT ![p] = record]
Request(step) == [Idle EXCEPT !.pc = step, !.day = now]
Goto(p, step) == proc' = [proc EXCEPT ![p].pc = step]
Return(p) == proc' = [proc EXCEPT ![p] = Idle]
Bill(p, plan, kind) ==
    proc' = [proc EXCEPT ![p].pc = "number", ![p].plan = plan, ![p].kind = kind,
                         ![p].then = "idle"]

Rows == <<invoices, notes>>

-----------------------------------------------------------------------------
(* POST /subscriptions: ACTIVE if started_at has come; nothing is billed.  *)

Create(s, started, ann, adv) ==
    /\ At(s, "idle")
    /\ sub.st = "none"
    /\ sub' = [sub EXCEPT
         !.st = IF started # NoDay /\ started <= now THEN "active" ELSE "pending",
         !.started = started, !.ann = ann, !.adv = adv]
    /\ UNCHANGED <<Rows, now, proc, history>>

(* POST /subscriptions/{id}/activate *)

Activate(s) ==
    /\ sub.st = "pending"
    /\ Begin(s, Request("activate"))
    /\ UNCHANGED <<sub, Rows, now, history>>

WriteActivate(s) ==
    /\ At(s, "activate")
    /\ sub' = [sub EXCEPT !.st = "active", !.started = proc[s].day]
    /\ IF BillsAtOnce /\ Price[sub.plan] > 0
         THEN Bill(s, sub.plan, "fee") ELSE Return(s)
    /\ UNCHANGED <<Rows, now, history>>

(* PUT /subscriptions/{id} writes the status it is given over any other.   *)

Update(s, st) ==
    /\ At(s, "idle")
    /\ sub.st \notin {"none", st}
    /\ sub' = [sub EXCEPT !.st = st]
    /\ UNCHANGED <<Rows, now, proc, history>>

(* POST .../pause, .../resume and their bulk forms *)

Pause(s) ==
    /\ sub.st = "active"
    /\ Begin(s, Request("pause"))
    /\ UNCHANGED <<sub, Rows, now, history>>

Resume(s) ==
    /\ sub.st = "paused"
    /\ Begin(s, Request("resume"))
    /\ UNCHANGED <<sub, Rows, now, history>>

WritePause(s) ==
    /\ At(s, "pause") /\ sub' = [sub EXCEPT !.st = "paused"]
    /\ Return(s)
    /\ UNCHANGED <<Rows, now, history>>

WriteResume(s) ==
    /\ At(s, "resume") /\ sub' = [sub EXCEPT !.st = "active"]
    /\ Return(s)
    /\ UNCHANGED <<Rows, now, history>>

-----------------------------------------------------------------------------
(* The portal's change_plan: a dearer plan is an upgrade, a cheaper one an  *)
(* immediate downgrade.  In advance, the rest of the period is credited for *)
(* the old plan before the change and invoiced for the new one after it.    *)

ChangePlan(s, p) ==
    /\ sub.st = "active" /\ p # sub.plan
    /\ Len(invoices) < MaxInvoices
    /\ Begin(s, [Request(IF sub.adv THEN "credit" ELSE "change")
                   EXCEPT !.plan = p, !.then = "change"])
    /\ UNCHANGED <<sub, Rows, now, history>>

WriteChange(s) ==
    LET p == proc[s].plan IN
    /\ At(s, "change")
    /\ sub' = [sub EXCEPT !.plan = p, !.prev = sub.plan,
                          !.down = @ \/ Price[p] < Price[sub.plan]]
    /\ IF sub.adv /\ Unused(p, proc[s].day) > 0
         THEN Bill(s, p, "prorated")
         ELSE Return(s)
    /\ UNCHANGED <<Rows, now, history>>

\* downgrade_plan at the end of the period, or a PUT of the same two columns:
\* the target is kept in previous_plan_id until the daily job swaps it in.
ScheduleDowngrade(s, p) ==
    /\ Scheduling
    /\ At(s, "idle")
    /\ sub.st = "active" /\ p # sub.plan
    /\ sub' = [sub EXCEPT !.down = TRUE, !.prev = p]
    /\ UNCHANGED <<Rows, now, proc, history>>

(* DELETE /subscriptions/{id}, POST .../cancel and bulk_terminate: first    *)
(* the money, then the status.                                              *)

End(s, to, ending) ==
    LET billed == sub.st \in {"active", "paused"} /\ Price[sub.plan] > 0 IN
    /\ Endable(sub.st)
    /\ Begin(s, [Request(CASE billed /\ ending = "invoice"
                                /\ Used(sub.plan, now) > 0 -> "number"
                           [] billed /\ ending = "credit_note" -> "credit"
                           [] OTHER -> "end")
                   EXCEPT !.plan = sub.plan, !.to = to, !.kind = "final",
                          !.then = "end"])
    /\ UNCHANGED <<sub, Rows, now, history>>

WriteEnd(s) ==
    /\ At(s, "end")
    /\ sub' = [sub EXCEPT !.st = proc[s].to]
    /\ Return(s)
    /\ UNCHANGED <<Rows, now, history>>

-----------------------------------------------------------------------------
(* The credit note for the unused days: none without an open invoice of the *)
(* subscription, and its number is unique per subscription and day, so that *)
(* a second one on the same day raises and ends the handler.                *)

Credit(s) ==
    LET r == proc[s]
        amount == CreditOf(sub.plan, r.day)
    IN
    /\ At(s, "credit")
    /\ IF amount <= 0 \/ ~\E n \in DOMAIN invoices : invoices[n].open
         THEN Goto(s, r.then) /\ UNCHANGED notes
         ELSE IF \E n \in DOMAIN notes : notes[n].day = now
         THEN Return(s) /\ UNCHANGED notes
         ELSE /\ notes' = Append(notes, [per |-> PeriodStart(r.day),
                                         amt |-> amount, day |-> now])
              /\ Goto(s, r.then)
    /\ UNCHANGED <<sub, invoices, now, history>>

(* _create_invoice: the number is one more than the highest of the day, and *)
(* the insert raises if another process has taken it.                       *)

Today == {n \in DOMAIN invoices : invoices[n].no[1] = now}
NextNumber == <<now, Cardinality(Today) + 1>>

Number(p) ==
    /\ At(p, "number")
    /\ proc' = [proc EXCEPT ![p].pc = "insert", ![p].no = NextNumber]
    /\ UNCHANGED <<sub, Rows, now, history>>

AmountOf(r) ==
    CASE r.kind = "fee" -> Price[r.plan] * Period
      [] r.kind = "prorated" -> Unused(r.plan, r.day)
      [] r.kind = "final" -> Used(r.plan, r.day)

Insert(p) ==
    LET r == proc[p] IN
    /\ At(p, "insert")
    /\ IF \E n \in DOMAIN invoices : invoices[n].no = r.no
         THEN Return(p) /\ UNCHANGED invoices
         ELSE /\ invoices' = Append(invoices,
                   [kind |-> r.kind, per |-> PeriodStart(r.day),
                    amt |-> AmountOf(r), open |-> TRUE, day |-> r.day,
                    no |-> r.no])
              /\ IF r.then = "end" THEN Goto(p, "end") ELSE Return(p)
    /\ UNCHANGED <<sub, notes, now, history>>

\* An invoice is paid: InvoiceSettlement says how.
Close(n) ==
    /\ invoices[n].open
    /\ invoices' = [invoices EXCEPT ![n].open = FALSE]
    /\ UNCHANGED <<sub, notes, now, proc, history>>

-----------------------------------------------------------------------------
(* The worker's cron jobs.  process_trial_expirations reads the rows once   *)
(* and process_trial_end gets the same object from its session: the status  *)
(* is not read again before trial_ended_at is written.                      *)

TrialExpirations ==
    /\ TrialDue(now)
    /\ Begin(Worker, Request("trial_end"))
    /\ UNCHANGED <<sub, Rows, now, history>>

WriteTrialEnd ==
    /\ At(Worker, "trial_end")
    /\ sub' = [sub EXCEPT !.trialEnded = TRUE]
    /\ IF sub.adv /\ Price[sub.plan] > 0
         THEN Bill(Worker, sub.plan, "fee")
         ELSE Return(Worker)
    /\ UNCHANGED <<Rows, now, history>>

\* process_pending_downgrades_task with execute_pending_downgrade, then
\* generate_periodic_invoices_task.
PendingDowngrades ==
    sub' = IF sub.st = "active" /\ sub.down /\ sub.prev # NoPlan /\ PeriodOver(now)
             THEN [sub EXCEPT !.plan = sub.prev, !.prev = sub.plan, !.down = FALSE]
             ELSE sub

PeriodicInvoices ==
    IF /\ sub.st = "active" /\ ~InTrial(now) /\ Price[sub.plan] > 0
       /\ PeriodOver(now)
      THEN proc' = [proc EXCEPT ![Worker] =
                      [Request("number") EXCEPT !.plan = sub.plan]]
      ELSE UNCHANGED proc

CronJobs ==
    /\ At(Worker, "idle")
    /\ sub.st # "none" /\ ran < now
    /\ PendingDowngrades /\ PeriodicInvoices
    /\ ran' = now
    /\ UNCHANGED <<Rows, now, crashes>>

-----------------------------------------------------------------------------

Tick ==
    /\ now < MaxDay
    /\ now' = now + 1
    /\ UNCHANGED <<sub, Rows, proc, history>>

\* A process ends what it runs: a crash or an exception.
Crash(p) ==
    /\ ~At(p, "idle")
    /\ crashes < MaxCrashes
    /\ crashes' = crashes + 1
    /\ Return(p)
    /\ UNCHANGED <<sub, Rows, now, ran>>

Init ==
    /\ \E p \in Plans :
         sub = [st |-> "none", plan |-> p, prev |-> NoPlan, down |-> FALSE,
                trialEnded |-> FALSE, started |-> NoDay, ann |-> FALSE,
                adv |-> FALSE]
    /\ invoices = <<>> /\ notes = <<>>
    /\ now = 0
    /\ proc = [p \in Procs |-> Idle]
    /\ ran = NoDay /\ crashes = 0

Arrive(s) ==
    \/ \E started \in {NoDay, now, now + 1}, ann \in BOOLEAN, adv \in Advance :
         Create(s, started, ann, adv)
    \/ Activate(s) \/ Pause(s) \/ Resume(s)
    \/ \E st \in Puts : Update(s, st)
    \/ \E p \in Plans : ChangePlan(s, p) \/ ScheduleDowngrade(s, p)
    \/ \E to \in Ended, ending \in Endings : End(s, to, ending)

Continue(s) ==
    \/ WriteActivate(s) \/ WritePause(s) \/ WriteResume(s)
    \/ WriteChange(s) \/ WriteEnd(s) \/ Credit(s)

Billing(p) == Number(p) \/ Insert(p)
Jobs == TrialExpirations \/ WriteTrialEnd \/ CronJobs

\* Nobody has to call: a deadlock is a handler that cannot go on.
Rest == (\A p \in Procs : At(p, "idle")) /\ UNCHANGED vars

Next ==
    \/ Rest \/ Tick \/ Jobs
    \/ \E s \in Servers : Arrive(s) \/ Continue(s)
    \/ \E p \in Procs : Billing(p) \/ Crash(p)
    \/ \E n \in DOMAIN invoices : Close(n)

Spec == Init /\ [][Next]_vars

(* Days pass, handlers and jobs that have begun go on, and arq runs its     *)
(* cron jobs.                                                               *)
Fairness ==
    /\ WF_vars(Tick)
    /\ WF_vars(Jobs)
    /\ \A p \in Procs : WF_vars(Billing(p))
    /\ \A s \in Servers : WF_vars(Continue(s))
FairSpec == Spec /\ Fairness

-----------------------------------------------------------------------------
(* Properties *)

\* Every variable holds values of its type.
TypeOK ==
    /\ sub \in Row
    /\ invoices \in Seq(Invoice) /\ notes \in Seq(Note)
    /\ now \in Days
    /\ proc \in [Procs -> Process]
    /\ ran \in Days \cup {NoDay} /\ crashes \in 0..MaxCrashes

\* amt[1] + ... + amt[n]
Total(amt, n) ==
    LET sum[k \in 0..n] == IF k = 0 THEN 0 ELSE sum[k - 1] + amt[k] IN sum[n]
Of(rows, per) == [n \in DOMAIN rows |-> IF rows[n].per = per THEN rows[n].amt ELSE 0]

\* What the invoices and the credit notes of a period come to.
Invoiced(per) == Total(Of(invoices, per), Len(invoices))
Credited(per) == Total(Of(notes, per), Len(notes))
Dearest == CHOOSE c \in {Price[p] : p \in Plans} : \A p \in Plans : Price[p] <= c

\* With one API process, a canceled or terminated subscription lives again, or
\* ends again, only if a client writes its status with PUT, whatever the worker
\* was doing when it ended.
EndedIsFinal ==
    [][sub.st \in Ended /\ sub'.st # sub.st
         => \E s \in Servers, st \in Puts : Update(s, st)]_vars

\* The fee of a period is invoiced at most once, though activation and the
\* worker both bill it, the worker runs again every hour and either may crash.
FeeOnce == \A n, m \in DOMAIN invoices :
    invoices[n].kind = "fee" /\ invoices[m].kind = "fee"
        /\ invoices[n].per = invoices[m].per => n = m

\* No fee is invoiced for a day within the trial.
FeeAfterTrial == \A n \in DOMAIN invoices :
    invoices[n].kind = "fee" => invoices[n].day >= TrialEnd

\* In arrears, nobody is asked for days that have not passed: the invoices of a
\* period stay within the dearest plan's price of its days so far, however the
\* subscription is paused, resumed, changed and ended.
PeriodFairlyBilled == ~sub.adv => \A n \in DOMAIN invoices :
    Invoiced(invoices[n].per) <= Dearest * (now - invoices[n].per)

\* What the code gives back for a period without having asked for it.  The worker
\* invoices no second period, but any open invoice of the subscription lets the
\* days left of a later one be credited: once, and its first day is never left.
HasFee(per) == \E n \in DOMAIN invoices :
    invoices[n].kind = "fee" /\ invoices[n].per = per
Most == Dearest * (Period - 1)
Unbilled(per) == IF HasFee(per) THEN 0 ELSE Most

\* In advance, a period whose fee was invoiced is never credited with more than
\* was invoiced for it, however plans are changed and the subscription ends; a
\* period without a fee exceeds that by no more than one rest of the dearest plan.
CreditWithinCost == sub.adv => \A n \in DOMAIN notes :
    Credited(notes[n].per) <= Invoiced(notes[n].per) + Unbilled(notes[n].per)

\* The worker ends every trial that is over before the last day, in spite of
\* crashes, of pauses and of runs it has missed.
TrialEnds ==
    (sub.st = "active" /\ TrialDays > 0 /\ TrialEnd <= MaxDay)
        ~> (sub.trialEnded \/ sub.st # "active")

(* The inductive invariant behind FeeOnce and FeeAfterTrial, for one API    *)
(* process and clients that write no row back to pending.                   *)
IsFee(n) == invoices[n].kind = "fee"
BillsFee(p) == proc[p].kind = "fee" /\ proc[p].pc \in {"number", "insert"}
NoFee == (\A n \in DOMAIN invoices : ~IsFee(n)) /\ (\A p \in Procs : ~BillsFee(p))
Unborn == sub.st \in {"none", "pending"}

FeeInv ==
    /\ \A s \in Servers : At(s, "activate") => sub.st = "pending"
    /\ \A s \in Servers : At(s, "end") \/ proc[s].then = "end" => proc[s].to \in Ended
    /\ At(Worker, "trial_end") =>
         TrialDays > 0 /\ ~sub.trialEnded /\ ~Unborn /\ proc[Worker].day >= TrialEnd
    /\ Unborn \/ (TrialDays > 0 /\ ~sub.trialEnded) => NoFee
    /\ \A n, m \in DOMAIN invoices : IsFee(n) /\ IsFee(m) => n = m
    /\ \A p \in Procs : BillsFee(p) =>
         /\ \A n \in DOMAIN invoices : ~IsFee(n)
         /\ \A q \in Procs : BillsFee(q) => q = p
         /\ proc[p].day >= TrialEnd
    /\ \A n \in DOMAIN invoices : IsFee(n) => invoices[n].day >= TrialEnd

(* The inductive invariants behind PeriodFairlyBilled and CreditWithinCost, *)
(* for one API process that has not crashed and clients that write no       *)
(* status but an end.                                                       *)

\* Days are known when they have come, nothing is billed before activation, and
\* without trials the worker has nothing to do.
PastInv ==
    /\ \A p \in Procs : proc[p].day <= now
    /\ \A n \in DOMAIN invoices :
         invoices[n].per <= invoices[n].day /\ invoices[n].day <= now
    /\ sub.st = "none" => \A p \in Procs : At(p, "idle")
    /\ Unborn => /\ invoices = <<>> /\ notes = <<>>
                 /\ \A p \in Procs : proc[p].pc \in {"idle", "activate", "end"}
    /\ TrialDays = 0 => At(Worker, "idle")

\* In arrears the only invoice is that of the end, which follows it.
FinalInv == ~sub.adv /\ crashes = 0 =>
    /\ proc[Worker].pc \in {"idle", "trial_end"}
    /\ \A s \in Servers : proc[s].pc \in {"number", "insert"} =>
         proc[s].kind = "final" /\ proc[s].then = "end" /\ invoices = <<>>
    /\ invoices # <<>> =>
         /\ sub.st \in Ended \/ \E s \in Servers : At(s, "end")
         /\ Len(invoices) = 1
         /\ \E p \in Plans :
              invoices[1].amt = Price[p] * (invoices[1].day - invoices[1].per)

\* What the plan costs for the whole days left of the period on that day or, of a
\* period to come, on its first.
Left(per, day) == IF day < per THEN Period - 1
                  ELSE IF day < per + Period THEN per + Period - day - 1 ELSE 0
Worth(plan, per, day) == Price[plan] * Left(per, day)

\* What may still be credited for the period.
Net(per) == Invoiced(per) - Credited(per)
Balance(per) == Net(per) + Unbilled(per)

\* A number that has been generated is free: nobody else inserts.
Numbered(day) == {n \in DOMAIN invoices : invoices[n].no[1] = day}
NumberInv == \A day \in Days :
    /\ \A n \in Numbered(day) : invoices[n].no[2] <= Cardinality(Numbered(day))
    /\ \A s \in Servers : At(s, "insert") /\ proc[s].no[1] = day =>
         proc[s].no[2] = Cardinality(Numbered(day)) + 1

\* Who bills in advance: the fee is the first of all, the rest of a period is
\* billed for the new plan, and the end follows its invoice.
Billed == \A s \in Servers :
    /\ BillsFee(s) => /\ proc[s].plan = sub.plan /\ proc[s].then = "idle"
                      /\ invoices = <<>> /\ notes = <<>>
    /\ proc[s].pc \in {"number", "insert"} =>
         /\ proc[s].kind = "prorated" => proc[s].plan = sub.plan /\ proc[s].then = "idle"
         /\ proc[s].kind = "final" => proc[s].then = "end"

\* A balance is worth what the plan costs from now on, except while the plan is
\* changed: then the old one has been credited and the new one is yet to be
\* invoiced.  Nobody credits a period to come.
Covered(per) ==
    /\ Balance(per) >= 0
    /\ now < per => Balance(per) >= Most
    /\ \A s \in Servers :
         /\ ~At(s, "idle") /\ proc[s].day < per => Balance(per) >= Most
         /\ At(s, "credit") => Balance(per) >= Worth(sub.plan, per, proc[s].day)
         /\ proc[s].pc \in {"idle", "pause", "resume"} /\ sub.st \notin Ended =>
              Balance(per) >= Worth(sub.plan, per, now)

Aligned(per) == \E day \in Days : per = PeriodStart(day)

BalanceInv == sub.adv /\ crashes = 0 =>
    /\ Billed
    /\ \A day \in Days : Covered(PeriodStart(day))
    /\ \A n \in DOMAIN notes : Aligned(notes[n].per)

=============================================================================
