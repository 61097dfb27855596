------------------------- MODULE SubscriptionsProofs -------------------------
(***************************************************************************)
(* For any plans, prices, periods, trials, days and bounds: Subscriptions  *)
(* is type correct for any number of API processes, and the jobs for       *)
(* periodic invoices and pending downgrades never do anything.  With one   *)
(* API process an ended subscription lives again only by PUT; where no     *)
(* client writes a row back to pending either, there is one fee at most,   *)
(* and none for a day of the trial.  Where clients write no status but an  *)
(* end and no process has crashed, nobody pays in arrears for days to come *)
(* and, without trials, nobody gets back more than was invoiced, but for   *)
(* one rest of a plan in each period that has no fee.                      *)
(***************************************************************************)
EXTENDS Subscriptions, TLAPS, FiniteSetTheorems, SequenceTheorems, WellFoundedInduction

-----------------------------------------------------------------------------
(* Dates and amounts *)

LEMMA DivBounds ==
    ASSUME NEW a \in Int, NEW n \in Nat \ {0}
    PROVE  (a \div n) * n \in Int /\ (a \div n) * n <= a /\ a < (a \div n) * n + n
  OBVIOUS

LEMMA ModBounds ==
    ASSUME NEW a \in Int, NEW n \in Nat \ {0}
    PROVE  a % n \in Int /\ 0 <= a % n /\ a % n < n
  OBVIOUS

LEMMA Product ==
    ASSUME NEW a \in Nat, NEW b \in Nat
    PROVE  a * b \in Nat
  OBVIOUS

\* A day is in its own period.
LEMMA InPeriod ==
    ASSUME sub \in Row, NEW day \in Days
    PROVE  /\ PeriodStart(day) \in Int /\ PeriodEnd(day) \in Int
           /\ PeriodStart(day) <= day /\ day < PeriodEnd(day)
  <1>1. Period \in Nat \ {0} /\ day \in Int /\ Anchor \in Int
    BY ConstantsAssumption DEF Days, MaybeDay, Row, Anchor, NoDay
  <1> DEFINE d == day - Anchor
  <1>2. d \in Int /\ (d \div Period) * Period \in Int
        /\ (d \div Period) * Period <= d /\ d < (d \div Period) * Period + Period
    BY <1>1, DivBounds
  <1>3. day % Period \in Int /\ 0 <= day % Period /\ day % Period < Period
    BY <1>1, ModBounds
  <1>4. CASE sub.ann
    <2>1. PeriodStart(day) = Anchor + (d \div Period) * Period
      BY <1>4 DEF PeriodStart
    <2> HIDE DEF d
    <2>2. d = day - Anchor
      BY DEF d
    <2> QED
      BY <1>1, <1>2, <2>1, <2>2 DEF PeriodEnd
  <1>5. CASE ~sub.ann
    <2>1. PeriodStart(day) = day - (day % Period)
      BY <1>5 DEF PeriodStart
    <2> QED
      BY <1>1, <1>3, <2>1 DEF PeriodEnd
  <1> QED
    BY <1>4, <1>5

\* No amount is negative.
LEMMA Amounts ==
    ASSUME sub \in Row, NEW p \in Plans, NEW day \in Days
    PROVE  Unused(p, day) \in Nat /\ Used(p, day) \in Nat /\ Price[p] * Period \in Nat
  <1>1. Price[p] \in Nat /\ Period \in Nat /\ day \in Int
    BY ConstantsAssumption DEF Days
  <1>2. PeriodEnd(day) - day - 1 \in Nat /\ day - PeriodStart(day) \in Nat
    BY <1>1, InPeriod
  <1> QED
    BY <1>1, <1>2, Product DEF Unused, Used

\* The amounts of an invoice.
LEMMA AmountNat ==
    ASSUME sub \in Row, NEW r \in Process, r.plan \in Plans
    PROVE  AmountOf(r) \in Nat
  <1>1. r.day \in Days /\ r.kind \in {"fee", "prorated", "final"}
    BY DEF Process
  <1> QED
    BY <1>1, Amounts DEF AmountOf

\* The number that a process generates.
LEMMA NumberType ==
    ASSUME TypeOK
    PROVE  NextNumber \in Days \X (Nat \ {0})
  <1>1. IsFiniteSet(DOMAIN invoices)
    <2>1. Len(invoices) \in Nat /\ DOMAIN invoices = 1..Len(invoices)
      BY DEF TypeOK
    <2> QED
      BY <2>1, FS_Interval
  <1>2. Cardinality(Today) \in Nat
    BY <1>1, FS_Subset, FS_CardinalityType DEF Today
  <1> QED
    BY <1>2 DEF NextNumber, TypeOK

-----------------------------------------------------------------------------
(* What a process holds *)

\* Whoever bills, credits or changes a plan has named one; after a credit comes
\* the change or the end that it is for; numbers count from one.
Named(r) ==
    /\ r.pc \in {"credit", "change", "number", "insert"} => r.plan \in Plans
    /\ r.pc = "credit" => r.then \in {"change", "end"}
    /\ r.pc = "insert" => r.no \in Days \X (Nat \ {0})
Held == {r \in Process : Named(r)}

IInv == TypeOK /\ proc \in [Procs -> Held]

LEMMA IdleHeld == Idle \in Held
  BY ConstantsAssumption DEF Held, Idle, Process, Named, Days, Steps

LEMMA RequestHeld ==
    ASSUME TypeOK
    PROVE  /\ \A x \in {"activate", "pause", "resume", "trial_end"} : Request(x) \in Held
           /\ \A p \in Plans, x \in {"credit", "change"} :
                [Request(x) EXCEPT !.plan = p, !.then = "change"] \in Held
           /\ \A p \in Plans, to \in Ended, x \in {"number", "credit", "end"} :
                [Request(x) EXCEPT !.plan = p, !.to = to, !.kind = "final",
                                   !.then = "end"] \in Held
           /\ \A p \in Plans : [Request("number") EXCEPT !.plan = p] \in Held
  <1>1. now \in Days /\ Idle \in Process
    BY IdleHeld DEF TypeOK, Held
  <1> QED
    BY <1>1 DEF Request, Idle, Held, Process, Named, Steps, Ended, SubscriptionStatus

\* Moving on, and turning to an invoice
LEMMA NextHeld ==
    ASSUME IInv, NEW p \in Procs
    PROVE  /\ \A plan \in Plans, kind \in {"fee", "prorated", "final"} :
                [proc[p] EXCEPT !.pc = "number", !.plan = plan, !.kind = kind,
                                !.then = "idle"] \in Held
           /\ proc[p].pc = "number" =>
                \A no \in Days \X (Nat \ {0}) : [proc[p] EXCEPT !.pc = "insert", !.no = no] \in Held
           /\ proc[p].pc = "credit" => [proc[p] EXCEPT !.pc = proc[p].then] \in Held
           /\ [proc[p] EXCEPT !.pc = "end"] \in Held
  <1>1. proc[p] \in Process /\ Named(proc[p])
    BY DEF IInv, Held
  <1>2. ASSUME NEW plan \in Plans, NEW kind \in {"fee", "prorated", "final"}
        PROVE  [proc[p] EXCEPT !.pc = "number", !.plan = plan, !.kind = kind,
                               !.then = "idle"] \in Held
    BY <1>1 DEF Held, Process, Named, Steps
  <1>3. ASSUME proc[p].pc = "number", NEW no \in Days \X (Nat \ {0})
        PROVE  [proc[p] EXCEPT !.pc = "insert", !.no = no] \in Held
    <2>1. no \in Days \X Nat
      OBVIOUS
    <2> QED
      BY <1>1, <1>3, <2>1 DEF Held, Process, Named, Steps
  <1>4. proc[p].pc = "credit" => [proc[p] EXCEPT !.pc = proc[p].then] \in Held
    BY <1>1 DEF Held, Process, Named, Steps
  <1>5. [proc[p] EXCEPT !.pc = "end"] \in Held
    BY <1>1 DEF Held, Process, Named, Steps
  <1> QED
    BY <1>2, <1>3, <1>4, <1>5

LEMMA ProcHeld ==
    ASSUME IInv, NEW p \in Procs, NEW r \in Held, proc' = [proc EXCEPT ![p] = r]
    PROVE  proc' \in [Procs -> Held] /\ proc' \in [Procs -> Process]
  BY DEF IInv, Held

\* A step that changes the row and what one process holds.
LEMMA RowInv ==
    ASSUME IInv, sub' \in Row, NEW p \in Procs,
           UNCHANGED <<Rows, now, history>>,
           UNCHANGED proc \/ \E r \in Held : proc' = [proc EXCEPT ![p] = r]
    PROVE  IInv'
  <1>1. CASE UNCHANGED proc
    BY <1>1 DEF IInv, TypeOK, Rows, history
  <1>2. ASSUME NEW r \in Held, proc' = [proc EXCEPT ![p] = r] PROVE IInv'
    BY <1>2, ProcHeld DEF IInv, TypeOK, Rows, history
  <1> QED
    BY <1>1, <1>2

-----------------------------------------------------------------------------
(* Every action keeps the invariant. *)

LEMMA ArriveInv ==
    ASSUME IInv, NEW s \in Servers, Arrive(s)
    PROVE  IInv'
  <1>0. /\ TypeOK /\ s \in Procs /\ sub \in Row /\ now \in Days
        /\ sub.plan \in Plans
    BY DEF IInv, TypeOK, Procs, Row
  <1>1. ASSUME NEW started \in {NoDay, now, now + 1}, NEW ann \in BOOLEAN,
               NEW adv \in Advance, Create(s, started, ann, adv)
        PROVE  IInv'
    <2>1. started \in MaybeDay /\ adv \in BOOLEAN
      BY <1>0, ConstantsAssumption DEF MaybeDay, Days
    <2>2. sub' \in Row
      BY <1>0, <1>1, <2>1 DEF Create, Row, SubscriptionStatus
    <2> QED
      BY <1>0, <1>1, <2>2, RowInv DEF Create
  <1>2. CASE Activate(s) \/ Pause(s) \/ Resume(s)
    <2>1. \E r \in Held : proc' = [proc EXCEPT ![s] = r]
      BY <1>0, <1>2, RequestHeld DEF Activate, Pause, Resume, Begin
    <2> QED
      BY <1>0, <1>2, <2>1, RowInv DEF Activate, Pause, Resume
  <1>3. ASSUME NEW st \in Puts, Update(s, st) PROVE IInv'
    <2>1. sub' \in Row
      BY <1>0, <1>3, ConstantsAssumption DEF Update, Row, SubscriptionStatus
    <2> QED
      BY <1>0, <1>3, <2>1, RowInv DEF Update
  <1>4. ASSUME NEW p \in Plans, ChangePlan(s, p) PROVE IInv'
    <2>1. \E r \in Held : proc' = [proc EXCEPT ![s] = r]
      BY <1>0, <1>4, RequestHeld DEF ChangePlan, Begin
    <2> QED
      BY <1>0, <1>4, <2>1, RowInv DEF ChangePlan
  <1>5. ASSUME NEW p \in Plans, ScheduleDowngrade(s, p) PROVE IInv'
    <2>1. sub' \in Row
      BY <1>0, <1>5 DEF ScheduleDowngrade, Row
    <2> QED
      BY <1>0, <1>5, <2>1, RowInv DEF ScheduleDowngrade
  <1>6. ASSUME NEW to \in Ended, NEW ending \in Endings, End(s, to, ending) PROVE IInv'
    <2>1. PICK x \in {"number", "credit", "end"} :
            proc' = [proc EXCEPT ![s] = [Request(x) EXCEPT !.plan = sub.plan, !.to = to,
                                            !.kind = "final", !.then = "end"]]
      BY <1>6 DEF End, Begin
    <2>2. \E r \in Held : proc' = [proc EXCEPT ![s] = r]
      BY <1>0, <2>1, RequestHeld
    <2> QED
      BY <1>0, <1>6, <2>2, RowInv DEF End
  <1> QED
    BY <1>1, <1>2, <1>3, <1>4, <1>5, <1>6 DEF Arrive

LEMMA ContinueInv ==
    ASSUME IInv, NEW s \in Servers, Continue(s)
    PROVE  IInv'
  <1>0. /\ TypeOK /\ s \in Procs /\ sub \in Row /\ now \in Days /\ sub.plan \in Plans
        /\ proc \in [Procs -> Held] /\ proc[s] \in Process /\ Named(proc[s])
        /\ proc[s].day \in Days /\ proc[s].to \in SubscriptionStatus \cup {"none"}
    BY DEF IInv, TypeOK, Procs, Row, Held, Process
  <1>1. CASE WriteActivate(s)
    <2>1. sub' \in Row
      BY <1>0, <1>1 DEF WriteActivate, Row, SubscriptionStatus, MaybeDay
    <2>2. \E r \in Held : proc' = [proc EXCEPT ![s] = r]
      BY <1>0, <1>1, NextHeld, IdleHeld DEF WriteActivate, Bill, Return
    <2> QED
      BY <1>0, <1>1, <2>1, <2>2, RowInv DEF WriteActivate
  <1>2. CASE WritePause(s) \/ WriteResume(s) \/ WriteEnd(s)
    <2>1. sub' \in Row
      BY <1>0, <1>2 DEF WritePause, WriteResume, WriteEnd, Row, SubscriptionStatus
    <2>2. \E r \in Held : proc' = [proc EXCEPT ![s] = r]
      BY <1>2, IdleHeld DEF WritePause, WriteResume, WriteEnd, Return
    <2> QED
      BY <1>0, <1>2, <2>1, <2>2, RowInv DEF WritePause, WriteResume, WriteEnd
  <1>3. CASE WriteChange(s)
    <2>1. proc[s].plan \in Plans
      BY <1>0, <1>3 DEF WriteChange, At, Named
    <2>2. sub' \in Row
      BY <1>0, <1>3, <2>1 DEF WriteChange, Row
    <2>3. \E r \in Held : proc' = [proc EXCEPT ![s] = r]
      BY <1>0, <1>3, <2>1, NextHeld, IdleHeld DEF WriteChange, Bill, Return
    <2> QED
      BY <1>0, <1>3, <2>2, <2>3, RowInv DEF WriteChange
  <1>4. CASE Credit(s)
    <2>1. \E r \in Held : proc' = [proc EXCEPT ![s] = r]
      BY <1>0, <1>4, NextHeld, IdleHeld DEF Credit, At, Goto, Return
    <2>2. [per |-> PeriodStart(proc[s].day), amt |-> CreditOf(sub.plan, proc[s].day),
           day |-> now] \in Note
      BY <1>0, InPeriod, Amounts DEF CreditOf, Note
    <2>3. notes' = notes \/ notes' = Append(notes,
            [per |-> PeriodStart(proc[s].day), amt |-> CreditOf(sub.plan, proc[s].day),
             day |-> now])
      BY <1>4 DEF Credit
    <2>4. notes' \in Seq(Note)
      BY <1>0, <2>2, <2>3 DEF TypeOK
    <2>5. proc' \in [Procs -> Held] /\ proc' \in [Procs -> Process]
      BY <1>0, <2>1, ProcHeld
    <2> QED
      BY <1>4, <2>4, <2>5 DEF Credit, IInv, TypeOK, history
  <1> QED
    BY <1>1, <1>2, <1>3, <1>4 DEF Continue

LEMMA BillingInv ==
    ASSUME IInv, NEW p \in Procs, Billing(p)
    PROVE  IInv'
  <1>0. /\ TypeOK /\ sub \in Row /\ proc \in [Procs -> Held]
        /\ proc[p] \in Process /\ Named(proc[p])
    BY DEF IInv, TypeOK, Held
  <1>1. CASE Number(p)
    <2>1. NextNumber \in Days \X (Nat \ {0})
      BY <1>0, NumberType
    <2>2. \E r \in Held : proc' = [proc EXCEPT ![p] = r]
      BY <1>0, <1>1, <2>1, NextHeld DEF Number, At
    <2> QED
      BY <1>0, <1>1, <2>2, RowInv DEF Number
  <1>2. CASE Insert(p)
    <2> DEFINE row == [kind |-> proc[p].kind, per |-> PeriodStart(proc[p].day),
                       amt |-> AmountOf(proc[p]), open |-> TRUE,
                       day |-> proc[p].day, no |-> proc[p].no]
    <2>1. /\ proc[p].plan \in Plans /\ proc[p].day \in Days
          /\ proc[p].no \in Days \X (Nat \ {0})
      BY <1>0, <1>2 DEF Insert, At, Named, Process
    <2>2. PeriodStart(proc[p].day) \in Int /\ AmountOf(proc[p]) \in Nat
      BY <1>0, <2>1, InPeriod, AmountNat
    <2>3. row \in Invoice
      BY <1>0, <2>1, <2>2 DEF Process, Invoice
    <2>4. invoices' = invoices \/ invoices' = Append(invoices, row)
      BY <1>2 DEF Insert
    <2> HIDE DEF row
    <2>5. invoices' \in Seq(Invoice)
      BY <1>0, <2>3, <2>4 DEF TypeOK
    <2>6. \E r \in Held : proc' = [proc EXCEPT ![p] = r]
      BY <1>2, NextHeld, IdleHeld DEF Insert, Goto, Return
    <2>7. proc' \in [Procs -> Held] /\ proc' \in [Procs -> Process]
      BY <2>6, ProcHeld
    <2> QED
      BY <1>2, <2>5, <2>7 DEF Insert, IInv, TypeOK, history
  <1> QED
    BY <1>1, <1>2 DEF Billing

LEMMA JobsInv ==
    ASSUME IInv, Jobs
    PROVE  IInv'
  <1>0. /\ TypeOK /\ Worker \in Procs /\ sub \in Row /\ sub.plan \in Plans
        /\ now \in Days /\ proc \in [Procs -> Held]
    BY DEF IInv, TypeOK, Procs, Row
  <1>1. CASE TrialExpirations
    <2>1. \E r \in Held : proc' = [proc EXCEPT ![Worker] = r]
      BY <1>0, <1>1, RequestHeld DEF TrialExpirations, Begin
    <2> QED
      BY <1>0, <1>1, <2>1, RowInv DEF TrialExpirations
  <1>2. CASE WriteTrialEnd
    <2>1. sub' \in Row
      BY <1>0, <1>2 DEF WriteTrialEnd, Row
    <2>2. \E r \in Held : proc' = [proc EXCEPT ![Worker] = r]
      BY <1>0, <1>2, NextHeld, IdleHeld DEF WriteTrialEnd, Bill, Return
    <2> QED
      BY <1>0, <1>2, <2>1, <2>2, RowInv DEF WriteTrialEnd
  <1>3. CASE CronJobs
    <2>1. sub' \in Row
      BY <1>0, <1>3 DEF CronJobs, PendingDowngrades, Row
    <2>2. sub'.plan \in Plans
      BY <2>1 DEF Row
    <2>3. UNCHANGED proc \/ \E r \in Held : proc' = [proc EXCEPT ![Worker] = r]
      BY <1>0, <1>3, RequestHeld DEF CronJobs, PeriodicInvoices
    <2>4. proc' \in [Procs -> Held] /\ proc' \in [Procs -> Process]
      BY <1>0, <2>3, ProcHeld DEF IInv, TypeOK
    <2> QED
      BY <1>0, <1>3, <2>1, <2>4 DEF CronJobs, IInv, TypeOK, Rows
  <1> QED
    BY <1>1, <1>2, <1>3 DEF Jobs

LEMMA OtherInv ==
    ASSUME IInv, \/ Rest \/ Tick \/ UNCHANGED vars
                 \/ \E p \in Procs : Crash(p)
                 \/ \E n \in DOMAIN invoices : Close(n)
    PROVE  IInv'
  <1>1. CASE Rest \/ UNCHANGED vars
    BY <1>1 DEF Rest, IInv, TypeOK, vars
  <1>2. CASE Tick
    BY <1>2, ConstantsAssumption DEF Tick, IInv, TypeOK, Days, Rows, history
  <1>3. ASSUME NEW p \in Procs, Crash(p) PROVE IInv'
    <2>1. proc' \in [Procs -> Held] /\ proc' \in [Procs -> Process]
      BY <1>3, IdleHeld, ProcHeld DEF Crash, Return
    <2>2. crashes' \in 0..MaxCrashes
      BY <1>3, ConstantsAssumption DEF Crash, IInv, TypeOK
    <2> QED
      BY <1>3, <2>1, <2>2 DEF Crash, IInv, TypeOK, Rows
  <1>4. ASSUME NEW n \in DOMAIN invoices, Close(n) PROVE IInv'
    <2>1. invoices[n] \in Invoice /\ invoices \in Seq(Invoice)
      BY DEF IInv, TypeOK
    <2>2. [invoices[n] EXCEPT !.open = FALSE] \in Invoice
      BY <2>1 DEF Invoice
    <2>3. invoices' \in Seq(Invoice)
      BY <1>4, <2>1, <2>2 DEF Close
    <2> QED
      BY <1>4, <2>3 DEF Close, IInv, TypeOK, history
  <1> QED
    BY <1>1, <1>2, <1>3, <1>4

LEMMA InitInv == Init => IInv
  <1> SUFFICES ASSUME Init PROVE IInv
    OBVIOUS
  <1>1. sub \in Row /\ now \in Days /\ crashes \in 0..MaxCrashes /\ ran \in {NoDay}
    BY ConstantsAssumption DEF Init, Row, Days, MaybeDay, SubscriptionStatus, NoDay
  <1>2. proc \in [Procs -> Held] /\ proc \in [Procs -> Process]
    BY IdleHeld DEF Init, Held
  <1>3. invoices \in Seq(Invoice) /\ notes \in Seq(Note)
    BY DEF Init
  <1> QED
    BY <1>1, <1>2, <1>3 DEF IInv, TypeOK

LEMMA NextInv == IInv /\ [Next]_vars => IInv'
  BY ArriveInv, ContinueInv, BillingInv, JobsInv, OtherInv DEF Next

\* Every variable keeps its type; no invoice or credit note has a negative amount.
THEOREM TypeCorrect == Spec => []TypeOK
  <1>1. IInv => TypeOK
    BY DEF IInv
  <1> QED
    BY <1>1, InitInv, NextInv, PTL DEF Spec

-----------------------------------------------------------------------------
(* One API process *)

OneServer == \A s, t \in Servers : s = t

\* What a handler is about to write changes the status.
Decides(r) ==
    \/ r.pc \in {"activate", "pause", "resume", "end"}
    \/ r.pc \in {"credit", "number", "insert"} /\ r.then = "end"

\* It has found the subscription alive, and nobody else ends it meanwhile: the
\* worker never writes the status.
AliveInv == \A s \in Servers : Decides(proc[s]) => sub.st \notin Ended

\* How a step leaves the status of an ended subscription and what follows.
Orderly ==
    /\ sub.st \in Ended /\ sub'.st # sub.st
         => \E s \in Servers, st \in Puts : Update(s, st)
    /\ AliveInv'

LEMMA ArriveOrderly ==
    ASSUME OneServer, IInv, AliveInv, NEW s \in Servers, Arrive(s)
    PROVE  Orderly
  <1>0. /\ proc \in [Procs -> Process] /\ s \in Procs /\ sub \in Row
        /\ proc[s] \in Process /\ \A t \in Servers : t = s
    BY DEF IInv, TypeOK, Procs, OneServer
  <1>1. CASE \E started \in {NoDay, now, now + 1}, ann \in BOOLEAN, adv \in Advance :
               Create(s, started, ann, adv)
    <2>1. sub.st = "none" /\ proc'[s] = proc[s] /\ proc[s].pc = "idle"
      BY <1>1 DEF Create, At
    <2> QED
      BY <1>0, <2>1 DEF Orderly, AliveInv, Decides, Ended
  <1>2. CASE Activate(s) \/ Pause(s) \/ Resume(s)
    <2>1. sub' = sub /\ sub.st \notin Ended
      BY <1>2 DEF Activate, Pause, Resume, Ended
    <2> QED
      BY <1>0, <2>1 DEF Orderly, AliveInv
  <1>3. ASSUME NEW st \in Puts, Update(s, st) PROVE Orderly
    <2>1. proc'[s] = proc[s] /\ proc[s].pc = "idle"
      BY <1>3 DEF Update, At
    <2> QED
      BY <1>0, <1>3, <2>1 DEF Orderly, AliveInv, Decides
  <1>4. ASSUME NEW p \in Plans, ChangePlan(s, p) \/ ScheduleDowngrade(s, p)
        PROVE  Orderly
    <2>1. sub.st = "active" /\ sub'.st = "active"
      BY <1>0, <1>4 DEF ChangePlan, ScheduleDowngrade, Row
    <2> QED
      BY <1>0, <2>1 DEF Orderly, AliveInv, Ended
  <1>5. ASSUME NEW to \in Ended, NEW ending \in Endings, End(s, to, ending)
        PROVE  Orderly
    <2>1. sub' = sub /\ sub.st \notin Ended
      BY <1>5 DEF End, Endable, Ended
    <2> QED
      BY <1>0, <2>1 DEF Orderly, AliveInv
  <1> QED
    BY <1>1, <1>2, <1>3, <1>4, <1>5 DEF Arrive

LEMMA ContinueOrderly ==
    ASSUME OneServer, IInv, AliveInv, NEW s \in Servers, Continue(s)
    PROVE  Orderly
  <1>0. /\ proc \in [Procs -> Process] /\ s \in Procs /\ sub \in Row
        /\ proc[s] \in Process /\ Named(proc[s]) /\ \A t \in Servers : t = s
    BY DEF IInv, TypeOK, Procs, OneServer, Held
  <1>1. CASE WriteActivate(s) \/ WritePause(s) \/ WriteResume(s)
    <2>1. sub.st \notin Ended
      BY <1>1 DEF WriteActivate, WritePause, WriteResume, At, AliveInv, Decides
    <2>2. sub'.st \in {"active", "paused"}
      BY <1>0, <1>1 DEF WriteActivate, WritePause, WriteResume, Row
    <2> QED
      BY <2>1, <2>2 DEF Orderly, AliveInv, Ended
  <1>2. CASE WriteChange(s)
    <2>1. sub'.st = sub.st
      BY <1>0, <1>2 DEF WriteChange, Row
    <2>2. \/ proc'[s].then = "idle" /\ proc'[s].pc = "number"
          \/ proc'[s] = Idle
      BY <1>0, <1>2 DEF WriteChange, Bill, Return, Process
    <2>3. ~Decides(proc'[s])
      BY <2>2 DEF Decides, Idle
    <2> QED
      BY <1>0, <2>1, <2>3 DEF Orderly, AliveInv
  <1>3. CASE WriteEnd(s)
    <2>1. sub.st \notin Ended /\ proc'[s] = Idle
      BY <1>0, <1>3 DEF WriteEnd, At, Return, AliveInv, Decides
    <2>2. ~Decides(proc'[s])
      BY <2>1 DEF Decides, Idle
    <2> QED
      BY <1>0, <2>1, <2>2 DEF Orderly, AliveInv
  <1>4. CASE Credit(s)
    <2>1. /\ sub' = sub /\ proc[s].pc = "credit" /\ proc[s].then \in {"change", "end"}
      BY <1>0, <1>4 DEF Credit, At, Named
    <2>2. proc'[s] = Idle \/ proc'[s].pc = proc[s].then
      BY <1>0, <1>4 DEF Credit, Goto, Return, Process
    <2>3. Decides(proc'[s]) => Decides(proc[s])
      BY <2>1, <2>2 DEF Decides, Idle
    <2> QED
      BY <1>0, <2>1, <2>3 DEF Orderly, AliveInv
  <1> QED
    BY <1>1, <1>2, <1>3, <1>4 DEF Continue

LEMMA OtherOrderly ==
    ASSUME IInv, AliveInv,
           \/ Rest \/ Tick \/ Jobs \/ UNCHANGED vars
           \/ \E p \in Procs : Billing(p) \/ Crash(p)
           \/ \E n \in DOMAIN invoices : Close(n)
    PROVE  Orderly
  <1>0. /\ proc \in [Procs -> Process] /\ Servers \subseteq Procs /\ Worker \notin Servers
        /\ sub \in Row /\ \A p \in Procs : proc[p] \in Process
    BY ConstantsAssumption DEF IInv, TypeOK, Procs
  <1>1. ASSUME sub'.st = sub.st, \A s \in Servers : Decides(proc'[s]) => Decides(proc[s])
        PROVE  Orderly
    BY <1>1 DEF Orderly, AliveInv
  <1>2. CASE Rest \/ Tick \/ UNCHANGED vars \/ \E n \in DOMAIN invoices : Close(n)
    <2>1. UNCHANGED <<sub, proc>>
      BY <1>2 DEF Rest, Tick, vars, Close
    <2> QED
      BY <1>1, <2>1
  <1>3. CASE Jobs
    <2>1. sub'.st = sub.st
      BY <1>0, <1>3 DEF Jobs, TrialExpirations, WriteTrialEnd, CronJobs,
                        PendingDowngrades, Row
    <2>2. \A s \in Servers : proc'[s] = proc[s]
      BY <1>0, <1>3 DEF Jobs, TrialExpirations, WriteTrialEnd, CronJobs,
                        PeriodicInvoices, Begin, Bill, Return
    <2> QED
      BY <1>1, <2>1, <2>2
  <1>4. ASSUME NEW p \in Procs, Billing(p) \/ Crash(p) PROVE Orderly
    <2>1. sub' = sub /\ \A s \in Procs : s # p => proc'[s] = proc[s]
      BY <1>0, <1>4 DEF Billing, Number, Insert, Goto, Return, Crash
    <2>2. \/ proc'[p] = Idle
          \/ proc[p].pc = "number" /\ proc'[p].pc = "insert" /\ proc'[p].then = proc[p].then
          \/ proc[p].pc = "insert" /\ proc[p].then = "end"
      BY <1>0, <1>4 DEF Billing, Number, Insert, At, Goto, Return, Crash, Process
    <2>3. Decides(proc'[p]) => Decides(proc[p])
      BY <2>2 DEF Decides, Idle
    <2> QED
      BY <1>0, <1>1, <2>1, <2>3
  <1> QED
    BY <1>2, <1>3, <1>4

\* With one API process, and for any plans, periods, trials, jobs and crashes,
\* an ended subscription changes its status only by PUT.
THEOREM EndedIsFinalHolds ==
    ASSUME OneServer
    PROVE  Spec => EndedIsFinal
  <1>1. Init => AliveInv
    BY ConstantsAssumption DEF Init, AliveInv, Decides, Idle, Procs
  <1>2. IInv /\ AliveInv /\ [Next]_vars => Orderly
    BY ArriveOrderly, ContinueOrderly, OtherOrderly DEF Next
  <1>3. IInv /\ AliveInv /\ [Next]_vars => AliveInv'
    BY <1>2 DEF Orderly
  <1>4. IInv /\ AliveInv /\ [Next]_vars =>
          [sub.st \in Ended /\ sub'.st # sub.st
             => \E s \in Servers, st \in Puts : Update(s, st)]_vars
    BY <1>2 DEF Orderly
  <1> QED
    BY <1>1, <1>3, <1>4, InitInv, NextInv, PTL DEF Spec, EndedIsFinal

-----------------------------------------------------------------------------
(* What the worker bills *)

\* The period that contains a day is not over on that day.
LEMMA NeverOver ==
    ASSUME sub \in Row, NEW day \in Days
    PROVE  ~PeriodOver(day)
  <1>1. day < PeriodEnd(day) /\ PeriodEnd(day) \in Int /\ day \in Int
    BY InPeriod DEF Days
  <1> QED
    BY <1>1 DEF PeriodOver

LEMMA CronJobsRest ==
    ASSUME TypeOK, CronJobs
    PROVE  UNCHANGED <<sub, invoices, notes, proc>>
  <1>1. ~PeriodOver(now)
    BY NeverOver DEF TypeOK
  <1> QED
    BY <1>1 DEF CronJobs, PendingDowngrades, PeriodicInvoices, Rows

\* generate_periodic_invoices_task and process_pending_downgrades_task compare
\* today with the end of the period that contains today: whatever the plans,
\* periods and dates, they invoice nothing and swap no plan.
THEOREM CronJobsDoNothing ==
    Spec => [][CronJobs => UNCHANGED <<sub, invoices, notes, proc>>]_vars
  <1>1. TypeOK /\ [Next]_vars
           => [CronJobs => UNCHANGED <<sub, invoices, notes, proc>>]_vars
    BY CronJobsRest
  <1> QED
    BY <1>1, TypeCorrect, PTL DEF Spec

-----------------------------------------------------------------------------
(* Fees *)

\* The invoices are the same, but for who has paid.
SameInvoices ==
    /\ DOMAIN invoices' = DOMAIN invoices
    /\ \A n \in DOMAIN invoices : invoices'[n].kind = invoices[n].kind
                                  /\ invoices'[n].day = invoices[n].day

\* A step of one process that starts to bill no fee and moves no trial or start.
LEMMA MoveFee ==
    ASSUME OneServer, FeeInv, SameInvoices, NEW p \in Procs,
           \A q \in Procs \ {p} : proc'[q] = proc[q],
           sub'.started = sub.started, sub'.trialEnded = sub.trialEnded,
           sub'.st = sub.st \/ (p \in Servers /\ sub'.st \notin {"none", "pending"}),
           p \in Servers /\ proc'[p].pc = "activate" => sub'.st = "pending",
           p \in Servers /\ (proc'[p].pc = "end" \/ proc'[p].then = "end")
              => proc'[p].to \in Ended,
           p = Worker => proc'[p].pc # "trial_end",
           proc'[p].kind = "fee" /\ proc'[p].pc \in {"number", "insert"}
              => BillsFee(p) /\ proc'[p].day = proc[p].day
    PROVE  FeeInv'
  <1>1. Worker \in Procs /\ Servers \subseteq Procs /\ Worker \notin Servers
    BY ConstantsAssumption DEF Procs
  <1>2. TrialEnd' = TrialEnd
    BY DEF TrialEnd, Anchor
  <1>3. DOMAIN invoices' = DOMAIN invoices /\ \A n \in DOMAIN invoices : IsFee(n)' <=> IsFee(n)
    BY DEF IsFee, SameInvoices
  <1>4. \A q \in Procs : BillsFee(q)' => BillsFee(q) /\ proc'[q].day = proc[q].day
    BY DEF BillsFee
  <1>5. Unborn' => Unborn
    BY DEF Unborn
  <1>6. NoFee => NoFee'
    BY <1>3, <1>4 DEF NoFee
  <1>7. \A s \in Servers : At(s, "activate")' => sub'.st = "pending"
    BY <1>1 DEF OneServer, FeeInv, At
  <1>8. \A s \in Servers : At(s, "end")' \/ proc'[s].then = "end" => proc'[s].to \in Ended
    BY <1>1 DEF OneServer, FeeInv, At
  <1>9. At(Worker, "trial_end")' =>
          /\ TrialDays > 0 /\ ~sub'.trialEnded /\ ~Unborn'
          /\ proc'[Worker].day >= TrialEnd'
    BY <1>1, <1>2, <1>5 DEF FeeInv, At
  <1>10. \A n, m \in DOMAIN invoices' : IsFee(n)' /\ IsFee(m)' => n = m
    BY <1>3 DEF FeeInv
  <1>11. \A q \in Procs : BillsFee(q)' =>
           /\ \A n \in DOMAIN invoices' : ~IsFee(n)'
           /\ \A r \in Procs : BillsFee(r)' => r = q
           /\ proc'[q].day >= TrialEnd'
    BY <1>2, <1>3, <1>4 DEF FeeInv
  <1>12. \A n \in DOMAIN invoices' : IsFee(n)' => invoices'[n].day >= TrialEnd'
    BY <1>2, <1>3 DEF FeeInv, SameInvoices
  <1>13. Unborn' \/ (TrialDays > 0 /\ ~sub'.trialEnded) => NoFee'
    BY <1>5, <1>6 DEF FeeInv
  <1> QED
    BY <1>7, <1>8, <1>9, <1>10, <1>11, <1>12, <1>13 DEF FeeInv

\* A step after which there is no fee.
LEMMA FreeOfFees ==
    ASSUME NoFee',
           \A s \in Servers : At(s, "activate")' => sub'.st = "pending",
           \A s \in Servers : At(s, "end")' \/ proc'[s].then = "end" => proc'[s].to \in Ended,
           ~At(Worker, "trial_end")'
    PROVE  FeeInv'
  BY DEF FeeInv, NoFee

\* A step after which one process bills the only fee.
LEMMA BillsTheFee ==
    ASSUME NEW p \in Procs, BillsFee(p)', proc'[p].day >= TrialEnd',
           \A n \in DOMAIN invoices' : ~IsFee(n)',
           \A q \in Procs : BillsFee(q)' => q = p,
           ~Unborn', TrialDays = 0 \/ sub'.trialEnded,
           \A s \in Servers : At(s, "activate")' => sub'.st = "pending",
           \A s \in Servers : At(s, "end")' \/ proc'[s].then = "end" => proc'[s].to \in Ended,
           ~At(Worker, "trial_end")'
    PROVE  FeeInv'
  BY DEF FeeInv

LEMMA ArriveFee ==
    ASSUME OneServer, "pending" \notin Puts, IInv, FeeInv, NEW s \in Servers, Arrive(s)
    PROVE  FeeInv'
  <1>0. /\ proc \in [Procs -> Process] /\ s \in Procs /\ sub \in Row /\ proc[s] \in Process
        /\ Worker \in Procs /\ s # Worker /\ \A t \in Servers : t = s
    BY ConstantsAssumption DEF IInv, TypeOK, Procs, OneServer
  <1>1. CASE \E started \in {NoDay, now, now + 1}, ann \in BOOLEAN, adv \in Advance :
               Create(s, started, ann, adv)
    <2>1. sub.st = "none" /\ UNCHANGED <<proc, invoices>> /\ proc[s].pc = "idle"
      BY <1>1 DEF Create, At, Rows
    <2>2. NoFee /\ ~At(Worker, "trial_end")
      BY <2>1 DEF FeeInv, Unborn
    <2>3. NoFee' /\ ~At(Worker, "trial_end")'
      BY <2>1, <2>2 DEF NoFee, IsFee, BillsFee, At
    <2>4. \A t \in Servers : ~At(t, "activate")'
      BY <1>0, <2>1 DEF At
    <2>5. \A t \in Servers : At(t, "end")' \/ proc'[t].then = "end" => proc'[t].to \in Ended
      BY <2>1 DEF FeeInv, At
    <2> QED
      BY <2>3, <2>4, <2>5, FreeOfFees
  <1>2. ASSUME UNCHANGED <<invoices, proc>>, proc[s].pc = "idle",
               sub'.started = sub.started, sub'.trialEnded = sub.trialEnded,
               sub'.st = sub.st \/ sub'.st \notin {"none", "pending"}
        PROVE  FeeInv'
    <2>1. SameInvoices /\ proc'[s] = proc[s]
      BY <1>2 DEF SameInvoices
    <2>2. proc[s].then = "end" => proc[s].to \in Ended
      BY DEF FeeInv
    <2> QED
      BY <1>0, <1>2, <2>1, <2>2, MoveFee
  <1>3. ASSUME NEW r, proc' = [proc EXCEPT ![s] = r], UNCHANGED <<sub, invoices>>,
               r.pc = "activate" => sub.st = "pending",
               r.pc = "end" \/ r.then = "end" => r.to \in Ended,
               r.kind = "fee" => r.pc \notin {"number", "insert"}
        PROVE  FeeInv'
    <2>1. SameInvoices /\ proc'[s] = r /\ \A q \in Procs \ {s} : proc'[q] = proc[q]
      BY <1>0, <1>3 DEF SameInvoices
    <2> QED
      BY <1>0, <1>3, <2>1, MoveFee
  <1>4. CASE Activate(s) \/ Pause(s) \/ Resume(s)
    <2>1. PICK x \in {"activate", "pause", "resume"} :
            /\ proc' = [proc EXCEPT ![s] = Request(x)] /\ UNCHANGED <<sub, invoices>>
            /\ x = "activate" => sub.st = "pending"
      BY <1>4 DEF Activate, Pause, Resume, Begin, Rows
    <2>2. Request(x).pc = x /\ Request(x).then = "idle"
      BY DEF Request, Idle
    <2> QED
      BY <1>3, <2>1, <2>2
  <1>5. ASSUME NEW st \in Puts, Update(s, st) PROVE FeeInv'
    <2>1. sub' = [sub EXCEPT !.st = st] /\ UNCHANGED <<invoices, proc>> /\ proc[s].pc = "idle"
      BY <1>5 DEF Update, Rows, At
    <2>2. sub'.st = st /\ sub'.started = sub.started /\ sub'.trialEnded = sub.trialEnded
      BY <1>0, <2>1 DEF Row
    <2>3. st \notin {"none", "pending"}
      BY ConstantsAssumption
    <2> QED
      BY <1>2, <2>1, <2>2, <2>3
  <1>6. ASSUME NEW p \in Plans, ChangePlan(s, p) PROVE FeeInv'
    <2>1. PICK x \in {"credit", "change"} :
            proc' = [proc EXCEPT ![s] = [Request(x) EXCEPT !.plan = p, !.then = "change"]]
      BY <1>6 DEF ChangePlan, Begin
    <2> DEFINE r == [Request(x) EXCEPT !.plan = p, !.then = "change"]
    <2>2. r.pc = x /\ r.then = "change"
      BY DEF Request, Idle
    <2>3. UNCHANGED <<sub, invoices>>
      BY <1>6 DEF ChangePlan, Rows
    <2> HIDE DEF r
    <2> QED
      BY <1>3, <2>1, <2>2, <2>3 DEF r
  <1>7. ASSUME NEW p \in Plans, ScheduleDowngrade(s, p) PROVE FeeInv'
    <2>1. sub' = [sub EXCEPT !.down = TRUE, !.prev = p] /\ UNCHANGED <<invoices, proc>>
          /\ proc[s].pc = "idle"
      BY <1>7 DEF ScheduleDowngrade, Rows, At
    <2>2. sub'.st = sub.st /\ sub'.started = sub.started /\ sub'.trialEnded = sub.trialEnded
      BY <1>0, <2>1 DEF Row
    <2> QED
      BY <1>2, <2>1, <2>2
  <1>8. ASSUME NEW to \in Ended, NEW ending \in Endings, End(s, to, ending) PROVE FeeInv'
    <2>1. PICK x \in {"number", "credit", "end"} :
            proc' = [proc EXCEPT ![s] = [Request(x) EXCEPT !.plan = sub.plan, !.to = to,
                                            !.kind = "final", !.then = "end"]]
      BY <1>8 DEF End, Begin
    <2> DEFINE r == [Request(x) EXCEPT !.plan = sub.plan, !.to = to, !.kind = "final",
                                       !.then = "end"]
    <2>2. r.pc = x /\ r.to = to /\ r.kind = "final"
      BY DEF Request, Idle
    <2>3. UNCHANGED <<sub, invoices>>
      BY <1>8 DEF End, Rows
    <2> HIDE DEF r
    <2> QED
      BY <1>3, <2>1, <2>2, <2>3 DEF r
  <1> QED
    BY <1>1, <1>4, <1>5, <1>6, <1>7, <1>8 DEF Arrive

LEMMA ContinueFee ==
    ASSUME OneServer, IInv, FeeInv, NEW s \in Servers, Continue(s)
    PROVE  FeeInv'
  <1>0. /\ proc \in [Procs -> Process] /\ s \in Procs /\ sub \in Row /\ proc[s] \in Process
        /\ Worker \in Procs /\ s # Worker /\ \A t \in Servers : t = s /\ Named(proc[s])
        /\ UNCHANGED invoices
    BY ConstantsAssumption
       DEF IInv, TypeOK, Procs, OneServer, Held, Continue, WriteActivate, WritePause,
           WriteResume, WriteChange, WriteEnd, Credit, Rows
  <1>1. SameInvoices
    BY <1>0 DEF SameInvoices
  <1>2. CASE WriteActivate(s)
    <2>1. sub.st = "pending" /\ proc[s].pc = "activate"
      BY <1>2 DEF WriteActivate, FeeInv, At
    <2>2. NoFee /\ ~At(Worker, "trial_end")
      BY <2>1 DEF FeeInv, Unborn
    <2>3. sub' = [sub EXCEPT !.st = "active", !.started = proc[s].day]
      BY <1>2 DEF WriteActivate
    <2>4. sub'.st = "active" /\ sub'.started = proc[s].day /\ proc[s].day \in Days
      BY <1>0, <2>3 DEF Row, Process
    <2>5. \A q \in Procs \ {s} : proc'[q] = proc[q]
      BY <1>0, <1>2 DEF WriteActivate, Bill, Return
    <2>6. /\ ~At(Worker, "trial_end")' /\ \A n \in DOMAIN invoices' : ~IsFee(n)'
          /\ \A q \in Procs \ {s} : ~BillsFee(q)'
      BY <1>0, <2>2, <2>5 DEF At, NoFee, IsFee, BillsFee
    <2>7. CASE proc' = [proc EXCEPT ![s] = Idle]
      <3>1. proc'[s].pc = "idle" /\ proc'[s].then = "idle"
        BY <1>0, <2>7 DEF Idle
      <3>2. NoFee'
        BY <2>6, <3>1 DEF NoFee, BillsFee
      <3> QED
        BY <1>0, <2>6, <3>1, <3>2, FreeOfFees DEF At
    <2>8. CASE BillsAtOnce /\ Bill(s, sub.plan, "fee")
      <3>1. /\ proc'[s].pc = "number" /\ proc'[s].kind = "fee" /\ proc'[s].then = "idle"
            /\ proc'[s].day = proc[s].day
        BY <1>0, <2>8 DEF Bill, Process
      <3>2. TrialDays = 0 /\ TrialEnd' = proc[s].day
        BY <2>4, <2>8 DEF BillsAtOnce, TrialEnd, Anchor, Days, NoDay
      <3>3. proc'[s].day >= TrialEnd' /\ BillsFee(s)' /\ ~Unborn'
        BY <2>4, <3>1, <3>2 DEF BillsFee, Unborn, Days
      <3> QED
        BY <1>0, <2>6, <3>1, <3>2, <3>3, BillsTheFee DEF At
    <2> QED
      BY <1>2, <2>7, <2>8 DEF WriteActivate, Return
  <1>3. ASSUME \A q \in Procs \ {s} : proc'[q] = proc[q],
               sub'.started = sub.started, sub'.trialEnded = sub.trialEnded,
               sub'.st = sub.st \/ sub'.st \notin {"none", "pending"},
               proc'[s].pc # "activate", proc'[s].kind = "fee" => proc'[s].pc \notin {"number", "insert"},
               proc'[s].pc = "end" \/ proc'[s].then = "end" => proc'[s].to \in Ended
        PROVE  FeeInv'
    BY <1>0, <1>1, <1>3, MoveFee
  <1>4. CASE WritePause(s) \/ WriteResume(s) \/ WriteEnd(s)
    <2>1. proc' = [proc EXCEPT ![s] = Idle]
      BY <1>4 DEF WritePause, WriteResume, WriteEnd, Return
    <2>2. proc'[s].pc = "idle" /\ proc'[s].then = "idle" /\ \A q \in Procs \ {s} : proc'[q] = proc[q]
      BY <1>0, <2>1 DEF Idle
    <2>3. PICK st \in {"paused", "active"} \cup Ended : sub' = [sub EXCEPT !.st = st]
      BY <1>4 DEF WritePause, WriteResume, WriteEnd, FeeInv, At
    <2>4. sub'.st = st /\ sub'.started = sub.started /\ sub'.trialEnded = sub.trialEnded
      BY <1>0, <2>3 DEF Row
    <2> QED
      BY <1>3, <2>2, <2>3, <2>4 DEF Ended
  <1>5. CASE WriteChange(s)
    <2>1. sub'.st = sub.st /\ sub'.started = sub.started /\ sub'.trialEnded = sub.trialEnded
      BY <1>0, <1>5 DEF WriteChange, Row
    <2>2. \/ proc'[s].pc = "idle" /\ proc'[s].then = "idle"
          \/ proc'[s].pc = "number" /\ proc'[s].then = "idle" /\ proc'[s].kind = "prorated"
      BY <1>0, <1>5 DEF WriteChange, Bill, Return, Idle, Process
    <2>3. \A q \in Procs \ {s} : proc'[q] = proc[q]
      BY <1>0, <1>5 DEF WriteChange, Bill, Return
    <2> QED
      BY <1>3, <2>1, <2>2, <2>3
  <1>6. CASE Credit(s)
    <2>1. sub' = sub /\ proc[s].pc = "credit" /\ proc[s].then \in {"change", "end"}
      BY <1>0, <1>6 DEF Credit, At, Named
    <2>2. \/ proc'[s].pc = "idle" /\ proc'[s].then = "idle"
          \/ proc'[s].pc = proc[s].then /\ proc'[s].then = proc[s].then /\ proc'[s].to = proc[s].to
      BY <1>0, <1>6 DEF Credit, Goto, Return, Idle, Process
    <2>3. \A q \in Procs \ {s} : proc'[q] = proc[q]
      BY <1>0, <1>6 DEF Credit, Goto, Return
    <2> QED
      BY <1>3, <2>1, <2>2, <2>3 DEF FeeInv
  <1> QED
    BY <1>2, <1>4, <1>5, <1>6 DEF Continue

LEMMA BillingFee ==
    ASSUME OneServer, IInv, FeeInv, NEW p \in Procs, Billing(p)
    PROVE  FeeInv'
  <1>0. /\ proc \in [Procs -> Process] /\ proc[p] \in Process /\ sub' = sub
        /\ invoices \in Seq(Invoice)
    BY DEF IInv, TypeOK, Billing, Number, Insert
  <1>1. \A q \in Procs \ {p} : proc'[q] = proc[q]
    BY <1>0 DEF Billing, Number, Insert, Goto, Return
  <1>2. CASE Number(p)
    <2>1. SameInvoices
      BY <1>2 DEF Number, Rows, SameInvoices
    <2>2. /\ proc[p].pc = "number" /\ proc'[p].pc = "insert" /\ proc'[p].kind = proc[p].kind
          /\ proc'[p].then = proc[p].then /\ proc'[p].to = proc[p].to
          /\ proc'[p].day = proc[p].day
      BY <1>0, <1>2 DEF Number, At, Process
    <2>3. BillsFee(p) <=> proc[p].kind = "fee"
      BY <2>2 DEF BillsFee
    <2>4. p \in Servers => (proc[p].then = "end" => proc[p].to \in Ended)
      BY DEF FeeInv
    <2> QED
      BY <1>0, <1>1, <2>1, <2>2, <2>3, <2>4, MoveFee
  <1>3. CASE Insert(p)
    <2>1. proc[p].pc = "insert" /\ (p \in Servers => (proc[p].then = "end" => proc[p].to \in Ended))
      BY <1>3 DEF Insert, At, FeeInv
    <2>2. \/ proc'[p].pc = "idle" /\ proc'[p].then = "idle"
          \/ /\ proc'[p].pc = "end" /\ proc'[p].then = proc[p].then /\ proc'[p].to = proc[p].to
             /\ proc[p].then = "end"
      BY <1>0, <1>3 DEF Insert, Goto, Return, Idle, Process
    <2>3. CASE SameInvoices
      BY <1>0, <1>1, <2>1, <2>2, <2>3, MoveFee
    <2>4. PICK row \in Invoice :
             \/ UNCHANGED invoices
             \/ /\ invoices' = Append(invoices, row)
                /\ row.kind = proc[p].kind /\ row.day = proc[p].day
      <3> DEFINE row == [kind |-> proc[p].kind, per |-> PeriodStart(proc[p].day),
                         amt |-> AmountOf(proc[p]), open |-> TRUE,
                         day |-> proc[p].day, no |-> proc[p].no]
      <3>1. sub \in Row /\ Named(proc[p])
        BY DEF IInv, TypeOK, Held
      <3>2. /\ proc[p].plan \in Plans /\ proc[p].day \in Days
            /\ proc[p].no \in Days \X (Nat \ {0})
        BY <1>0, <2>1, <3>1 DEF Named, Process
      <3>3. PeriodStart(proc[p].day) \in Int /\ AmountOf(proc[p]) \in Nat
        BY <1>0, <3>1, <3>2, InPeriod, AmountNat
      <3>4. row \in Invoice
        BY <1>0, <3>2, <3>3 DEF Process, Invoice
      <3>5. invoices' = invoices \/ invoices' = Append(invoices, row)
        BY <1>3 DEF Insert
      <3> QED
        BY <3>4, <3>5
    <2>5. CASE invoices' = Append(invoices, row) /\ row.kind = proc[p].kind /\ row.day = proc[p].day
      <3>0. PICK last \in Nat \ {0} : last = Len(invoices) + 1
        BY <1>0
      <3>1. /\ DOMAIN invoices = 1..(last - 1) /\ DOMAIN invoices' = 1..last
            /\ \A n \in 1..(last - 1) : invoices'[n] = invoices[n]
            /\ invoices'[last] = row
        BY <1>0, <2>5, <3>0
      <3>2. /\ \A n \in DOMAIN invoices' : n \in DOMAIN invoices \/ n = last
            /\ \A n \in DOMAIN invoices : IsFee(n)' <=> IsFee(n)
            /\ IsFee(last)' <=> proc[p].kind = "fee"
            /\ invoices'[last].day = proc[p].day
        BY <2>5, <3>0, <3>1 DEF IsFee
      <3>3. ~BillsFee(p)' /\ (proc[p].kind = "fee" => BillsFee(p))
        BY <2>1, <2>2 DEF BillsFee
      <3>4. \A q \in Procs : BillsFee(q)' => BillsFee(q) /\ q # p /\ proc'[q].day = proc[q].day
        BY <1>1, <3>3 DEF BillsFee
      <3>5. TrialEnd' = TrialEnd /\ (Unborn' <=> Unborn)
        BY <1>0 DEF TrialEnd, Anchor, Unborn
      <3>6. \A t \in Servers : At(t, "activate")' => sub'.st = "pending"
        BY <1>0, <1>1, <2>2 DEF FeeInv, At, Procs
      <3>7. \A t \in Servers : At(t, "end")' \/ proc'[t].then = "end" => proc'[t].to \in Ended
        BY <1>1, <2>1, <2>2 DEF FeeInv, At, Procs
      <3>8. At(Worker, "trial_end")' =>
              /\ TrialDays > 0 /\ ~sub'.trialEnded /\ ~Unborn'
              /\ proc'[Worker].day >= TrialEnd'
        BY <1>0, <1>1, <2>2, <3>5 DEF FeeInv, At, Procs
      <3>9. Unborn' \/ (TrialDays > 0 /\ ~sub'.trialEnded) => NoFee'
        <4>1. SUFFICES ASSUME Unborn' \/ (TrialDays > 0 /\ ~sub'.trialEnded) PROVE NoFee'
          OBVIOUS
        <4>2. NoFee
          BY <1>0, <3>5, <4>1 DEF FeeInv
        <4> QED
          BY <3>2, <3>3, <3>4, <4>2 DEF NoFee
      <3>10. \A n, m \in DOMAIN invoices' : IsFee(n)' /\ IsFee(m)' => n = m
        BY <3>2, <3>3 DEF FeeInv
      <3>11. \A q \in Procs : BillsFee(q)' =>
               /\ \A n \in DOMAIN invoices' : ~IsFee(n)'
               /\ \A r \in Procs : BillsFee(r)' => r = q
               /\ proc'[q].day >= TrialEnd'
        BY <3>2, <3>3, <3>4, <3>5 DEF FeeInv
      <3>12. \A n \in DOMAIN invoices' : IsFee(n)' => invoices'[n].day >= TrialEnd'
        <4>1. ASSUME NEW n \in DOMAIN invoices, IsFee(n)' PROVE invoices'[n].day >= TrialEnd'
          BY <3>1, <3>2, <3>5, <4>1 DEF FeeInv
        <4>2. IsFee(last)' => invoices'[last].day >= TrialEnd'
          BY <3>2, <3>3, <3>5 DEF FeeInv
        <4> QED
          BY <3>2, <4>1, <4>2
      <3> QED
        BY <3>6, <3>7, <3>8, <3>9, <3>10, <3>11, <3>12 DEF FeeInv
    <2> QED
      BY <2>3, <2>4, <2>5 DEF SameInvoices
  <1> QED
    BY <1>2, <1>3 DEF Billing

LEMMA JobsFee ==
    ASSUME OneServer, IInv, FeeInv, Jobs
    PROVE  FeeInv'
  <1>0. /\ proc \in [Procs -> Process] /\ Worker \in Procs /\ proc[Worker] \in Process
        /\ sub \in Row /\ Worker \notin Servers /\ Servers \subseteq Procs
        /\ UNCHANGED invoices
    BY ConstantsAssumption
       DEF IInv, TypeOK, Procs, Jobs, TrialExpirations, WriteTrialEnd, CronJobs, Rows
  <1>1. CASE TrialExpirations
    <2>1. /\ sub' = sub /\ proc' = [proc EXCEPT ![Worker] = Request("trial_end")]
          /\ proc[Worker].pc = "idle"
      BY <1>1 DEF TrialExpirations, Begin, At
    <2>2. Request("trial_end").pc = "trial_end" /\ Request("trial_end").day = now
      BY DEF Request, Idle
    <2>3. /\ proc'[Worker].pc = "trial_end" /\ proc'[Worker].day = now
          /\ \A q \in Procs \ {Worker} : proc'[q] = proc[q]
      BY <1>0, <2>1, <2>2
    <2>4. TrialDays > 0 /\ ~sub.trialEnded /\ sub.st = "active" /\ now >= TrialEnd
      BY <1>1 DEF TrialExpirations, TrialDue
    <2>5. NoFee
      BY <2>4 DEF FeeInv
    <2>6. NoFee' /\ (\A n \in DOMAIN invoices' : ~IsFee(n)') /\ \A q \in Procs : ~BillsFee(q)'
      BY <1>0, <2>3, <2>5 DEF NoFee, IsFee, BillsFee
    <2>7. TrialEnd' = TrialEnd /\ ~Unborn'
      BY <2>1, <2>4 DEF TrialEnd, Anchor, Unborn
    <2>8. \A t \in Servers : proc'[t] = proc[t]
      BY <1>0, <2>3
    <2> QED
      BY <2>1, <2>3, <2>4, <2>6, <2>7, <2>8 DEF FeeInv, At
  <1>2. CASE WriteTrialEnd
    <2>1. /\ TrialDays > 0 /\ ~sub.trialEnded /\ ~Unborn /\ proc[Worker].day >= TrialEnd
          /\ NoFee
      BY <1>2 DEF WriteTrialEnd, FeeInv
    <2>2. sub'.trialEnded /\ sub'.st = sub.st /\ sub'.started = sub.started
      BY <1>0, <1>2 DEF WriteTrialEnd, Row
    <2>3. \A q \in Procs \ {Worker} : proc'[q] = proc[q]
      BY <1>0, <1>2 DEF WriteTrialEnd, Bill, Return
    <2>4. /\ \A n \in DOMAIN invoices' : ~IsFee(n)'
          /\ \A q \in Procs \ {Worker} : ~BillsFee(q)'
      BY <1>0, <2>1, <2>3 DEF NoFee, IsFee, BillsFee
    <2>5. \A t \in Servers : /\ At(t, "activate")' => sub'.st = "pending"
                             /\ At(t, "end")' \/ proc'[t].then = "end" => proc'[t].to \in Ended
      BY <1>0, <2>2, <2>3 DEF FeeInv, At
    <2>6. TrialEnd' = TrialEnd /\ ~Unborn'
      BY <2>1, <2>2 DEF TrialEnd, Anchor, Unborn
    <2>7. CASE proc' = [proc EXCEPT ![Worker] = Idle]
      <3>1. proc'[Worker].pc = "idle"
        BY <1>0, <2>7 DEF Idle
      <3>2. NoFee' /\ ~At(Worker, "trial_end")'
        BY <2>4, <3>1 DEF NoFee, BillsFee, At
      <3> QED
        BY <2>5, <3>2, FreeOfFees
    <2>8. CASE Bill(Worker, sub.plan, "fee")
      <3>1. proc'[Worker].pc = "number" /\ proc'[Worker].kind = "fee"
            /\ proc'[Worker].day = proc[Worker].day
        BY <1>0, <2>8 DEF Bill, Process
      <3>2. BillsFee(Worker)' /\ ~At(Worker, "trial_end")' /\ proc'[Worker].day >= TrialEnd'
        BY <2>1, <2>6, <3>1 DEF BillsFee, At
      <3> QED
        BY <1>0, <2>2, <2>4, <2>5, <2>6, <3>2, BillsTheFee
    <2> QED
      BY <1>2, <2>7, <2>8 DEF WriteTrialEnd, Return
  <1>3. CASE CronJobs
    <2>1. UNCHANGED <<sub, invoices, proc>>
      BY <1>3, CronJobsRest DEF IInv
    <2> QED
      BY <2>1 DEF FeeInv, At, NoFee, IsFee, BillsFee, Unborn, TrialEnd, Anchor
  <1> QED
    BY <1>1, <1>2, <1>3 DEF Jobs

LEMMA OtherFee ==
    ASSUME OneServer, IInv, FeeInv,
           \/ Rest \/ Tick \/ UNCHANGED vars
           \/ \E p \in Procs : Crash(p)
           \/ \E n \in DOMAIN invoices : Close(n)
    PROVE  FeeInv'
  <1>0. proc \in [Procs -> Process] /\ invoices \in Seq(Invoice)
    BY DEF IInv, TypeOK
  <1>1. CASE Rest \/ Tick \/ UNCHANGED vars
    <2>1. UNCHANGED <<sub, invoices, proc>>
      BY <1>1 DEF Rest, Tick, vars, Rows
    <2> QED
      BY <2>1 DEF FeeInv, At, NoFee, IsFee, BillsFee, Unborn, TrialEnd, Anchor
  <1>2. ASSUME NEW p \in Procs, Crash(p) PROVE FeeInv'
    <2>1. proc' = [proc EXCEPT ![p] = Idle] /\ UNCHANGED <<sub, invoices>>
      BY <1>2 DEF Crash, Return, Rows
    <2>2. /\ SameInvoices /\ proc'[p].pc = "idle" /\ proc'[p].then = "idle"
          /\ \A q \in Procs \ {p} : proc'[q] = proc[q]
      BY <1>0, <2>1 DEF SameInvoices, Idle
    <2> QED
      BY <2>1, <2>2, MoveFee
  <1>3. ASSUME NEW n \in DOMAIN invoices, Close(n) PROVE FeeInv'
    <2>1. UNCHANGED <<sub, proc>> /\ invoices' = [invoices EXCEPT ![n].open = FALSE]
      BY <1>3 DEF Close
    <2>2. /\ DOMAIN invoices' = DOMAIN invoices
          /\ \A m \in DOMAIN invoices : invoices'[m].kind = invoices[m].kind
                                        /\ invoices'[m].day = invoices[m].day
      <3>1. \A m \in DOMAIN invoices : invoices[m] \in Invoice
        BY <1>0
      <3>2. \A m \in DOMAIN invoices :
              invoices'[m] = invoices[m] \/ invoices'[m] = [invoices[m] EXCEPT !.open = FALSE]
        BY <2>1
      <3>3. DOMAIN invoices' = DOMAIN invoices
        BY <2>1
      <3> QED
        BY <3>1, <3>2, <3>3 DEF Invoice
    <2>3. \A m \in DOMAIN invoices : IsFee(m)' <=> IsFee(m)
      BY <2>2 DEF IsFee
    <2>4. NoFee' <=> NoFee
      BY <2>1, <2>2, <2>3 DEF NoFee, BillsFee
    <2>5. \A q : BillsFee(q)' <=> BillsFee(q)
      BY <2>1 DEF BillsFee
    <2>6. TrialEnd' = TrialEnd /\ (Unborn' <=> Unborn)
      BY <2>1 DEF TrialEnd, Anchor, Unborn
    <2> QED
      BY <2>1, <2>2, <2>3, <2>4, <2>5, <2>6 DEF FeeInv, At
  <1> QED
    BY <1>1, <1>2, <1>3

LEMMA FeeStep ==
    ASSUME OneServer, "pending" \notin Puts, IInv, FeeInv, [Next]_vars
    PROVE  FeeInv'
  BY ArriveFee, ContinueFee, BillingFee, JobsFee, OtherFee DEF Next

LEMMA InitFee == Init => FeeInv
  <1> SUFFICES ASSUME Init PROVE FeeInv
    OBVIOUS
  <1>1. \A p \in Procs : proc[p].pc = "idle" /\ proc[p].then = "idle"
    BY DEF Init, Idle
  <1>2. NoFee
    BY <1>1 DEF Init, NoFee, BillsFee
  <1> QED
    BY <1>1, <1>2 DEF FeeInv, At, NoFee, Procs

LEMMA FeeInvariant ==
    ASSUME OneServer, "pending" \notin Puts
    PROVE  Spec => []FeeInv
  <1>1. IInv /\ FeeInv /\ [Next]_vars => FeeInv'
    BY FeeStep
  <1> QED
    BY <1>1, InitFee, InitInv, NextInv, PTL DEF Spec

\* With one API process, and clients that write no row back to pending, the fee
\* of a period is invoiced at most once: for any plans, periods, trials, jobs,
\* plan changes and crashes.
THEOREM FeeOnceHolds ==
    ASSUME OneServer, "pending" \notin Puts
    PROVE  Spec => []FeeOnce
  <1>1. FeeInv => FeeOnce
    BY DEF FeeInv, FeeOnce, IsFee
  <1> QED
    BY <1>1, FeeInvariant, PTL

\* Under the same conditions no fee is invoiced for a day within the trial.
THEOREM FeeAfterTrialHolds ==
    ASSUME OneServer, "pending" \notin Puts
    PROVE  Spec => []FeeAfterTrial
  <1>1. FeeInv => FeeAfterTrial
    BY DEF FeeInv, FeeAfterTrial, IsFee
  <1> QED
    BY <1>1, FeeInvariant, PTL

\* Nor is there a second fee for another period: what activation or the end of
\* the trial has billed is all that is ever billed, since no period is ever due.
THEOREM OneFeeEver ==
    ASSUME OneServer, "pending" \notin Puts
    PROVE  Spec => [](\A n, m \in DOMAIN invoices : IsFee(n) /\ IsFee(m) => n = m)
  <1>1. FeeInv => \A n, m \in DOMAIN invoices : IsFee(n) /\ IsFee(m) => n = m
    BY DEF FeeInv
  <1> QED
    BY <1>1, FeeInvariant, PTL

-----------------------------------------------------------------------------
(* Sums *)

\* Induction, by the smallest number outside of S: the library's theorem takes a
\* predicate, which the provers do not instantiate.
LEMMA Induction ==
    ASSUME NEW S, 0 \in S, \A n \in Nat : n \in S => n + 1 \in S
    PROVE  \A n \in Nat : n \in S
  <1> DEFINE less == {pair \in Nat \X Nat : pair[1] < pair[2]}
             out  == {n \in Nat : n \notin S}
  <1> SUFFICES ASSUME out # {} PROVE FALSE
    OBVIOUS
  <1>1. IsWellFoundedOn(less, Nat)
    BY NatLessThanWellFounded DEF OpToRel
  <1>2. out \subseteq Nat /\ \A n \in out : n \notin S /\ n # 0
    OBVIOUS
  <1>3. \A n \in Nat : n \in out \/ n \in S
    OBVIOUS
  <1>4. \A m, n \in Nat : m < n => <<m, n>> \in less
    OBVIOUS
  <1> HIDE DEF less, out
  <1>5. PICK n \in out : \A m \in out : <<m, n>> \notin less
    BY <1>1, <1>2, WFMin
  <1>6. n \in Nat /\ n # 0 /\ n \notin S
    BY <1>2
  <1>7. n - 1 \in Nat /\ n - 1 < n /\ (n - 1) + 1 = n
    BY <1>6
  <1>8. n - 1 \in S
    BY <1>3, <1>4, <1>5, <1>6, <1>7
  <1> QED
    BY <1>6, <1>7, <1>8

\* sum lists the sums of the first amounts.
Sums(sum, amt, n) ==
    /\ sum \in [0..n -> Nat] /\ sum[0] = 0
    /\ \A k \in 1..n : sum[k] = sum[k - 1] + amt[k]

AreNats(amt, n) == \A k \in 1..n : amt[k] \in Nat

LEMMA SumsExist ==
    ASSUME NEW amt, NEW n \in Nat, AreNats(amt, n)
    PROVE  \E sum : Sums(sum, amt, n)
  <1> DEFINE S == {m \in Nat : m <= n => \E sum : Sums(sum, amt, m)}
  <1>1. 0 \in S
    <2>1. Sums([k \in 0..0 |-> 0], amt, 0)
      BY DEF Sums
    <2> QED
      BY <2>1
  <1>2. ASSUME NEW m \in Nat, m \in S PROVE m + 1 \in S
    <2> SUFFICES ASSUME m + 1 <= n PROVE \E sum : Sums(sum, amt, m + 1)
      OBVIOUS
    <2>1. PICK sum : Sums(sum, amt, m)
      BY <1>2
    <2>2. m + 1 \in 1..n /\ amt[m + 1] \in Nat
      BY DEF AreNats
    <2> DEFINE longer == [k \in 0..(m + 1) |-> IF k = m + 1 THEN sum[m] + amt[m + 1] ELSE sum[k]]
    <2>3. /\ \A k \in 0..m : longer[k] = sum[k] /\ sum[k] \in Nat
          /\ longer[m + 1] = sum[m] + amt[m + 1]
      BY <2>1 DEF Sums
    <2>4. longer \in [0..(m + 1) -> Nat] /\ longer[0] = 0
      <3>1. ASSUME NEW k \in 0..(m + 1) PROVE longer[k] \in Nat
        <4>1. k = m + 1 \/ k \in 0..m
          OBVIOUS
        <4> HIDE DEF longer
        <4> QED
          BY <2>2, <2>3, <4>1
      <3> QED
        BY <2>1, <2>3, <3>1 DEF Sums
    <2>5. ASSUME NEW k \in 1..(m + 1) PROVE longer[k] = longer[k - 1] + amt[k]
      <3>1. k - 1 \in 0..m /\ (k = m + 1 \/ k \in 1..m)
        OBVIOUS
      <3> HIDE DEF longer
      <3> QED
        BY <2>1, <2>3, <3>1 DEF Sums
    <2> HIDE DEF longer
    <2>6. Sums(longer, amt, m + 1)
      BY <2>4, <2>5 DEF Sums
    <2> QED
      BY <2>6
  <1> HIDE DEF S
  <1>3. n \in S
    BY <1>1, <1>2, Induction
  <1> QED
    BY <1>3 DEF S

\* The total is the last of the sums.
LEMMA TotalIs ==
    ASSUME NEW amt, NEW n \in Nat, AreNats(amt, n)
    PROVE  \E sum : Sums(sum, amt, n) /\ Total(amt, n) = sum[n]
  <1> DEFINE is(f) == f = [k \in 0..n |-> IF k = 0 THEN 0 ELSE f[k - 1] + amt[k]]
             total == CHOOSE f : is(f)
  <1>1. PICK sum : Sums(sum, amt, n)
    BY SumsExist
  <1>2. is(sum)
    BY <1>1 DEF Sums
  <1>3. is(total)
    BY <1>2
  <1>4. Total(amt, n) = total[n]
    BY DEF Total
  <1> HIDE DEF total
  <1>5. /\ total[0] = 0 /\ DOMAIN total = 0..n
        /\ \A k \in 1..n : total[k] = total[k - 1] + amt[k]
    BY <1>3
  <1> DEFINE S == {m \in Nat : m <= n => total[m] = sum[m]}
  <1>6. 0 \in S
    BY <1>1, <1>5 DEF Sums
  <1>7. ASSUME NEW m \in Nat, m \in S PROVE m + 1 \in S
    <2> SUFFICES ASSUME m + 1 <= n PROVE total[m + 1] = sum[m + 1]
      OBVIOUS
    <2>1. m + 1 \in 1..n /\ (m + 1) - 1 = m /\ total[m] = sum[m]
      BY <1>7
    <2> QED
      BY <1>1, <1>5, <2>1 DEF Sums
  <1> HIDE DEF S, is
  <1>8. n \in S
    BY <1>6, <1>7, Induction
  <1>9. total[n] = sum[n]
    BY <1>8 DEF S
  <1> QED
    BY <1>1, <1>4, <1>9

\* The sums of the same amounts are the same.
LEMMA SumsAgree ==
    ASSUME NEW amt, NEW other, NEW n \in Nat, NEW sum, NEW longer, NEW m \in Nat, n <= m,
           Sums(sum, amt, n), Sums(longer, other, m), \A k \in 1..n : amt[k] = other[k]
    PROVE  longer[n] = sum[n]
  <1> DEFINE S == {k \in Nat : k <= n => longer[k] = sum[k]}
  <1>1. 0 \in S
    BY DEF Sums
  <1>2. ASSUME NEW k \in Nat, k \in S PROVE k + 1 \in S
    <2> SUFFICES ASSUME k + 1 <= n PROVE longer[k + 1] = sum[k + 1]
      OBVIOUS
    <2>1. k + 1 \in 1..n /\ k + 1 \in 1..m /\ (k + 1) - 1 = k /\ longer[k] = sum[k]
      BY <1>2
    <2> QED
      BY <2>1 DEF Sums
  <1> HIDE DEF S
  <1>3. n \in S
    BY <1>1, <1>2, Induction
  <1> QED
    BY <1>3 DEF S

LEMMA TotalNat ==
    ASSUME NEW amt, NEW n \in Nat, AreNats(amt, n)
    PROVE  Total(amt, n) \in Nat
  <1>1. PICK sum : Sums(sum, amt, n) /\ Total(amt, n) = sum[n]
    BY TotalIs
  <1> QED
    BY <1>1 DEF Sums

LEMMA TotalEmpty ==
    ASSUME NEW amt PROVE Total(amt, 0) = 0
  <1>1. AreNats(amt, 0)
    BY DEF AreNats
  <1>2. PICK sum : Sums(sum, amt, 0) /\ Total(amt, 0) = sum[0]
    BY <1>1, TotalIs
  <1> QED
    BY <1>2 DEF Sums

LEMMA TotalSame ==
    ASSUME NEW amt, NEW other, NEW n \in Nat, AreNats(amt, n), \A k \in 1..n : amt[k] = other[k]
    PROVE  Total(amt, n) = Total(other, n)
  <1>1. AreNats(other, n)
    BY DEF AreNats
  <1>2. PICK sum : Sums(sum, amt, n) /\ Total(amt, n) = sum[n]
    BY TotalIs
  <1>3. PICK same : Sums(same, other, n) /\ Total(other, n) = same[n]
    BY <1>1, TotalIs
  <1> QED
    BY <1>2, <1>3, SumsAgree

LEMMA TotalNext ==
    ASSUME NEW amt, NEW other, NEW n \in Nat, AreNats(amt, n), other[n + 1] \in Nat,
           \A k \in 1..n : amt[k] = other[k]
    PROVE  Total(other, n + 1) = Total(amt, n) + other[n + 1]
  <1>1. AreNats(other, n + 1)
    <2>1. \A k \in 1..(n + 1) : k \in 1..n \/ k = n + 1
      OBVIOUS
    <2> QED
      BY <2>1 DEF AreNats
  <1>2. PICK sum : Sums(sum, amt, n) /\ Total(amt, n) = sum[n]
    BY TotalIs
  <1>3. PICK longer : Sums(longer, other, n + 1) /\ Total(other, n + 1) = longer[n + 1]
    BY <1>1, TotalIs
  <1>4. longer[n] = sum[n]
    <2>1. n + 1 \in Nat /\ n <= n + 1
      OBVIOUS
    <2> QED
      BY <1>2, <1>3, <2>1, SumsAgree
  <1>5. n + 1 \in 1..(n + 1) /\ (n + 1) - 1 = n
    OBVIOUS
  <1> QED
    BY <1>2, <1>3, <1>4, <1>5 DEF Sums

-----------------------------------------------------------------------------
(* What a period comes to *)

LEMMA RowsNat ==
    ASSUME NEW S, \A x \in S : x.amt \in Nat, NEW rows \in Seq(S), NEW per
    PROVE  /\ Len(rows) \in Nat /\ AreNats(Of(rows, per), Len(rows))
           /\ Total(Of(rows, per), Len(rows)) \in Nat
  <1>1. Len(rows) \in Nat /\ DOMAIN rows = 1..Len(rows) /\ \A n \in 1..Len(rows) : rows[n] \in S
    OBVIOUS
  <1>2. AreNats(Of(rows, per), Len(rows))
    BY <1>1 DEF AreNats, Of
  <1> QED
    BY <1>1, <1>2, TotalNat

\* The total of a period after another row, and after none that counts.
LEMMA RowsAppended ==
    ASSUME NEW S, \A x \in S : x.amt \in Nat, NEW rows \in Seq(S), NEW row \in S, NEW per
    PROVE  Total(Of(Append(rows, row), per), Len(Append(rows, row)))
             = Total(Of(rows, per), Len(rows)) + (IF row.per = per THEN row.amt ELSE 0)
  <1> DEFINE more == Append(rows, row)
             n == Len(rows)
  <1>1. /\ n \in Nat /\ Len(more) = n + 1 /\ more[n + 1] = row /\ DOMAIN more = 1..(n + 1)
        /\ \A k \in 1..n : more[k] = rows[k]
        /\ DOMAIN rows = 1..n
    OBVIOUS
  <1> HIDE DEF more, n
  <1>2. /\ Of(more, per)[n + 1] = IF row.per = per THEN row.amt ELSE 0
        /\ \A k \in 1..n : Of(rows, per)[k] = Of(more, per)[k]
    BY <1>1 DEF Of
  <1>3. AreNats(Of(rows, per), n)
    BY RowsNat DEF n
  <1>4. Of(more, per)[n + 1] \in Nat
    BY <1>2
  <1>5. Total(Of(more, per), n + 1) = Total(Of(rows, per), n) + Of(more, per)[n + 1]
    BY <1>1, <1>2, <1>3, <1>4, TotalNext
  <1> QED
    BY <1>1, <1>2, <1>5 DEF more, n

LEMMA RowsKept ==
    ASSUME NEW S, \A x \in S : x.amt \in Nat, NEW rows \in Seq(S), NEW same \in Seq(S),
           DOMAIN same = DOMAIN rows, NEW per,
           \A n \in DOMAIN rows : same[n].per = rows[n].per /\ same[n].amt = rows[n].amt
    PROVE  Total(Of(same, per), Len(same)) = Total(Of(rows, per), Len(rows))
  <1>1. Len(rows) \in Nat /\ Len(same) = Len(rows) /\ DOMAIN rows = 1..Len(rows)
    OBVIOUS
  <1>2. \A k \in 1..Len(rows) : Of(rows, per)[k] = Of(same, per)[k]
    BY <1>1 DEF Of
  <1> QED
    BY <1>1, <1>2, RowsNat, TotalSame

LEMMA SumsNat ==
    ASSUME TypeOK
    PROVE  \A per \in Int : Invoiced(per) \in Nat /\ Credited(per) \in Nat /\ Net(per) \in Int
  <1>1. (\A x \in Invoice : x.amt \in Nat) /\ (\A x \in Note : x.amt \in Nat)
    BY DEF Invoice, Note
  <1>2. \A per \in Int : Invoiced(per) \in Nat /\ Credited(per) \in Nat
    BY <1>1, RowsNat DEF TypeOK, Invoiced, Credited
  <1> QED
    BY <1>2 DEF Net

\* Closing an invoice moves no money between periods.
LEMMA NetKept ==
    ASSUME TypeOK, TypeOK', UNCHANGED notes, DOMAIN invoices' = DOMAIN invoices,
           \A n \in DOMAIN invoices :
             invoices'[n].per = invoices[n].per /\ invoices'[n].amt = invoices[n].amt
    PROVE  \A per \in Int : Net(per)' = Net(per)
  <1>1. \A x \in Invoice : x.amt \in Nat
    BY DEF Invoice
  <1>2. invoices \in Seq(Invoice) /\ invoices' \in Seq(Invoice)
    BY DEF TypeOK
  <1>3. \A per \in Int : Invoiced(per)' = Invoiced(per)
    BY <1>1, <1>2, RowsKept DEF Invoiced
  <1>4. \A per \in Int : Credited(per)' = Credited(per)
    BY DEF Credited
  <1> QED
    BY <1>3, <1>4 DEF Net

LEMMA NetInvoiced ==
    ASSUME TypeOK, UNCHANGED notes, NEW row \in Invoice, invoices' = Append(invoices, row)
    PROVE  \A per \in Int : Net(per)' = Net(per) + (IF row.per = per THEN row.amt ELSE 0)
  <1>1. \A x \in Invoice : x.amt \in Nat
    BY DEF Invoice
  <1>2. invoices \in Seq(Invoice)
    BY DEF TypeOK
  <1>3. \A per \in Int : Invoiced(per)' = Invoiced(per) + (IF row.per = per THEN row.amt ELSE 0)
    BY <1>1, <1>2, RowsAppended DEF Invoiced
  <1>4. \A per \in Int : Credited(per)' = Credited(per)
    BY DEF Credited
  <1>5. row.amt \in Nat
    BY <1>1
  <1> SUFFICES ASSUME NEW per \in Int
               PROVE  Net(per)' = Net(per) + (IF row.per = per THEN row.amt ELSE 0)
    OBVIOUS
  <1>6. Invoiced(per) \in Nat /\ Credited(per) \in Nat
    BY SumsNat
  <1> QED
    BY <1>3, <1>4, <1>5, <1>6 DEF Net

LEMMA NetCredited ==
    ASSUME TypeOK, UNCHANGED invoices, NEW row \in Note, notes' = Append(notes, row)
    PROVE  \A per \in Int : Net(per)' = Net(per) - (IF row.per = per THEN row.amt ELSE 0)
  <1>1. \A x \in Note : x.amt \in Nat
    BY DEF Note
  <1>2. notes \in Seq(Note)
    BY DEF TypeOK
  <1>3. \A per \in Int : Credited(per)' = Credited(per) + (IF row.per = per THEN row.amt ELSE 0)
    BY <1>1, <1>2, RowsAppended DEF Credited
  <1>4. \A per \in Int : Invoiced(per)' = Invoiced(per)
    BY DEF Invoiced
  <1>5. row.amt \in Nat
    BY <1>1
  <1> SUFFICES ASSUME NEW per \in Int
               PROVE  Net(per)' = Net(per) - (IF row.per = per THEN row.amt ELSE 0)
    OBVIOUS
  <1>6. Invoiced(per) \in Nat /\ Credited(per) \in Nat
    BY SumsNat
  <1> QED
    BY <1>3, <1>4, <1>5, <1>6 DEF Net

LEMMA NothingYet ==
    ASSUME invoices = <<>>, notes = <<>>
    PROVE  \A per \in Int : Net(per) = 0
  <1>1. \A per \in Int : Invoiced(per) = 0 /\ Credited(per) = 0
    BY TotalEmpty DEF Invoiced, Credited
  <1> QED
    BY <1>1 DEF Net

\* Less of it costs no more.
LEMMA ProductGrows ==
    ASSUME NEW c \in Nat, NEW a \in Nat, NEW b \in Nat, a <= b
    PROVE  c * a <= c * b
  <1>1. PICK d \in Nat : b = a + d
    <2>1. b - a \in Nat /\ b = a + (b - a)
      OBVIOUS
    <2> QED
      BY <2>1
  <1>2. c * (a + d) = c * a + c * d /\ c * d \in Nat /\ c * a \in Nat
    OBVIOUS
  <1> QED
    BY <1>1, <1>2

\* One of finitely many numbers is the greatest.
LEMMA Greatest ==
    ASSUME NEW T \in SUBSET Nat, IsFiniteSet(T), T # {}
    PROVE  \E m \in T : \A x \in T : x <= m
  <1> DEFINE S == {n \in Nat : \A R \in SUBSET Nat :
                     IsFiniteSet(R) /\ Cardinality(R) = n /\ R # {}
                       => \E m \in R : \A x \in R : x <= m}
  <1>1. 0 \in S
    <2>1. \A R \in SUBSET Nat : IsFiniteSet(R) /\ Cardinality(R) = 0 => R = {}
      BY FS_EmptySet
    <2> QED
      BY <2>1
  <1>2. ASSUME NEW n \in Nat, n \in S PROVE n + 1 \in S
    <2> SUFFICES ASSUME NEW R \in SUBSET Nat, IsFiniteSet(R), Cardinality(R) = n + 1, R # {}
                 PROVE  \E m \in R : \A x \in R : x <= m
      OBVIOUS
    <2>1. PICK y \in R : TRUE
      OBVIOUS
    <2>2. IsFiniteSet(R \ {y}) /\ Cardinality(R \ {y}) = n
      <3>1. IsFiniteSet(R \ {y}) /\ Cardinality(R \ {y}) = Cardinality(R) - 1
        BY <2>1, FS_RemoveElement
      <3> QED
        BY <3>1
    <2>3. CASE R \ {y} = {}
      BY <2>1, <2>3
    <2>4. CASE R \ {y} # {}
      <3>1. PICK m \in R \ {y} : \A x \in R \ {y} : x <= m
        BY <1>2, <2>2, <2>4
      <3>2. CASE y <= m
        BY <3>1, <3>2
      <3>3. CASE ~(y <= m)
        <4>1. \A x \in R \ {y} : x <= y
          BY <3>1, <3>3
        <4> QED
          BY <2>1, <4>1
      <3> QED
        BY <3>2, <3>3
    <2> QED
      BY <2>3, <2>4
  <1> HIDE DEF S
  <1>3. Cardinality(T) \in Nat
    BY FS_CardinalityType
  <1>4. Cardinality(T) \in S
    BY <1>1, <1>2, <1>3, Induction
  <1> QED
    <2>1. \A R \in SUBSET Nat : IsFiniteSet(R) /\ Cardinality(R) = Cardinality(T) /\ R # {}
             => \E m \in R : \A x \in R : x <= m
      BY <1>4 DEF S
    <2> QED
      BY <2>1

\* No plan is dearer than the dearest.
LEMMA DearestIs ==
    ASSUME NEW p \in Plans
    PROVE  Dearest \in Nat /\ Price[p] \in Nat /\ Price[p] <= Dearest
  <1> DEFINE T == {Price[q] : q \in Plans}
  <1>1. T \in SUBSET Nat /\ T # {} /\ IsFiniteSet(T)
    <2>1. Price \in Surjection(Plans, T) /\ IsFiniteSet(Plans)
      BY ConstantsAssumption DEF Surjection
    <2> QED
      BY <2>1, ConstantsAssumption, FS_Surjection
  <1>2. PICK c \in T : \A x \in T : x <= c
    <2> HIDE DEF T
    <2> QED
      BY <1>1, Greatest
  <1>3. \E d \in T : \A q \in Plans : Price[q] <= d
    BY <1>2
  <1>4. Dearest \in T /\ \A q \in Plans : Price[q] <= Dearest
    BY <1>3 DEF Dearest
  <1> QED
    BY <1>1, <1>4

LEMMA LessTimes ==
    ASSUME NEW a \in Nat, NEW b \in Nat, a <= b, NEW c \in Nat, NEW d \in Nat, c <= d
    PROVE  a * c <= b * d
  <1>1. a * c <= a * d
    BY ProductGrows
  <1>2. d * a <= d * b
    BY ProductGrows
  <1>3. a * c \in Nat /\ a * d \in Nat /\ d * a = a * d /\ d * b = b * d /\ b * d \in Nat
    BY Product
  <1> QED
    BY <1>1, <1>2, <1>3

\* The days left become fewer, and no plan costs more than the dearest.
LEMMA WorthFalls ==
    ASSUME NEW p \in Plans, NEW per \in Int, NEW day \in Days, NEW later \in Days, day <= later
    PROVE  /\ Worth(p, per, day) \in Nat /\ Worth(p, per, later) \in Nat
           /\ Worth(p, per, later) <= Worth(p, per, day)
           /\ Worth(p, per, day) <= Price[p] * Period
           /\ Worth(p, per, day) <= Most /\ Most \in Nat
           /\ per + Period <= day => Worth(p, per, day) = 0
           /\ Price[p] = 0 => Worth(p, per, day) = 0
  <1>1. /\ Price[p] \in Nat /\ Period \in Nat \ {0} /\ day \in Int /\ later \in Int
        /\ Period - 1 \in Nat
    BY ConstantsAssumption DEF Days
  <1>2. /\ Left(per, day) \in Nat /\ Left(per, later) \in Nat
        /\ Left(per, later) <= Left(per, day)
        /\ Left(per, day) <= Period /\ Left(per, day) <= Period - 1
        /\ per + Period <= day => Left(per, day) = 0
    BY <1>1 DEF Left
  <1>3. PICK left \in Nat : left = Left(per, day)
    BY <1>2
  <1>4. PICK rest \in Nat : rest = Left(per, later)
    BY <1>2
  <1>5. Worth(p, per, day) = Price[p] * left /\ Worth(p, per, later) = Price[p] * rest
    BY <1>3, <1>4 DEF Worth
  <1>6. /\ Price[p] * left \in Nat /\ Price[p] * rest \in Nat
        /\ Price[p] * rest <= Price[p] * left
        /\ Price[p] * left <= Price[p] * Period
    BY <1>1, <1>2, <1>3, <1>4, Product, ProductGrows
  <1>7. Price[p] * left <= Most /\ Most \in Nat
    <2>1. Dearest \in Nat /\ Price[p] <= Dearest /\ left <= Period - 1
      BY <1>2, <1>3, DearestIs
    <2>2. Price[p] * left <= Dearest * (Period - 1) /\ Dearest * (Period - 1) \in Nat
      BY <1>1, <2>1, LessTimes, Product
    <2> QED
      BY <2>2 DEF Most
  <1>8. Price[p] * 0 = 0 /\ (Price[p] = 0 => Price[p] * left = 0)
    BY <1>1
  <1> QED
    BY <1>2, <1>3, <1>5, <1>6, <1>7, <1>8

\* The rest of the period of a day is worth what is left of it.
LEMMA WorthOfRest ==
    ASSUME sub \in Row, NEW p \in Plans, NEW day \in Days
    PROVE  Worth(p, PeriodStart(day), day) = Unused(p, day)
  <1>1. Price[p] \in Nat /\ Period \in Nat /\ day \in Int
    BY ConstantsAssumption DEF Days
  <1>2. PICK per \in Int : per = PeriodStart(day)
    BY InPeriod
  <1>3. ~(day < per) /\ day < per + Period /\ PeriodEnd(day) = per + Period
    BY <1>1, <1>2, InPeriod DEF PeriodEnd
  <1>4. PICK left \in Int : left = PeriodEnd(day) - day - 1 /\ left = per + Period - day - 1
    BY <1>1, <1>3
  <1>5. Left(per, day) = left
    BY <1>3, <1>4 DEF Left
  <1>6. Worth(p, per, day) = Price[p] * left
    BY <1>5 DEF Worth
  <1>7. Unused(p, day) = Price[p] * left
    BY <1>4 DEF Unused
  <1> QED
    BY <1>2, <1>6, <1>7

\* Two days are of the same period if the one is in that of the other.
LEMMA Multiples ==
    ASSUME NEW a \in Int, NEW b \in Int, NEW n \in Nat \ {0}, a * n < b * n + n
    PROVE  a <= b
  <1>1. SUFFICES ASSUME b + 1 <= a PROVE FALSE
    OBVIOUS
  <1>2. a - (b + 1) \in Nat
    BY <1>1
  <1>3. PICK d \in Nat : a = b + 1 + d
    BY <1>2
  <1>4. (b + 1 + d) * n = b * n + n + d * n /\ d * n \in Nat
    OBVIOUS
  <1> QED
    BY <1>3, <1>4

LEMMA SamePeriod ==
    ASSUME sub \in Row, NEW d \in Days, NEW e \in Days, PeriodStart(d) <= e,
           e < PeriodStart(d) + Period
    PROVE  PeriodStart(e) = PeriodStart(d)
  <1>1. Period \in Nat \ {0} /\ d \in Int /\ e \in Int /\ Anchor \in Int
    BY ConstantsAssumption DEF Days, MaybeDay, Row, Anchor, NoDay
  <1>2. ASSUME NEW x \in Int, NEW y \in Int,
               (x \div Period) * Period <= y, y < (x \div Period) * Period + Period
        PROVE  y \div Period = x \div Period
    <2> DEFINE a == x \div Period
               b == y \div Period
    <2>1. a \in Int /\ b \in Int
      BY <1>1
    <2>2. b * Period <= y /\ y < b * Period + Period
      BY <1>1, DivBounds
    <2>3. a * Period <= y /\ y < a * Period + Period
      BY <1>2
    <2> HIDE DEF a, b
    <2>4. a * Period \in Int /\ b * Period \in Int
      BY <1>1, <2>1
    <2>5. a * Period < b * Period + Period /\ b * Period < a * Period + Period
      BY <1>1, <2>2, <2>3, <2>4
    <2>6. a <= b /\ b <= a
      BY <1>1, <2>1, <2>5, Multiples
    <2>7. a = b
      BY <2>1, <2>6
    <2> QED
      BY <2>7 DEF a, b
  <1>3. CASE sub.ann
    <2> DEFINE x == d - Anchor
               y == e - Anchor
    <2>1. x \in Int /\ y \in Int /\ (x \div Period) * Period \in Int
      BY <1>1, DivBounds
    <2>2. /\ PeriodStart(d) = Anchor + (x \div Period) * Period
          /\ PeriodStart(e) = Anchor + (y \div Period) * Period
      BY <1>3 DEF PeriodStart
    <2>3. e = Anchor + y
      BY <1>1
    <2> HIDE DEF x, y
    <2>4. (x \div Period) * Period <= y /\ y < (x \div Period) * Period + Period
      BY <1>1, <2>1, <2>2, <2>3
    <2>5. y \div Period = x \div Period
      BY <1>2, <2>1, <2>4
    <2> QED
      BY <2>2, <2>5
  <1>4. CASE ~sub.ann
    <2>1. \A x \in Int : x - (x % Period) = (x \div Period) * Period
      BY <1>1
    <2>2. /\ PeriodStart(d) = (d \div Period) * Period
          /\ PeriodStart(e) = (e \div Period) * Period
      BY <1>1, <1>4, <2>1 DEF PeriodStart
    <2>3. e \div Period = d \div Period
      BY <1>1, <1>2, <2>2
    <2> QED
      BY <2>2, <2>3
  <1> QED
    BY <1>3, <1>4

-----------------------------------------------------------------------------
(* What a handler does, told by what the balances depend on *)

SameDates == sub'.ann = sub.ann /\ sub'.started = sub.started
SamePlan == SameDates /\ sub'.plan = sub.plan /\ sub'.adv = sub.adv

\* The others go on as they were.
Alone(s) == \A q \in Procs \ {s} : proc'[q] = proc[q]

\* A request that is accepted: it bills, credits or writes later.
Accepted(s) ==
    /\ sub' = sub /\ sub.st \notin Ended /\ sub.st # "none"
    /\ proc[s].pc = "idle" /\ proc'[s].day = now /\ Alone(s)
    /\ \/ proc'[s].pc = "activate" /\ sub.st = "pending"
       \/ proc'[s].pc \in {"pause", "resume"} /\ sub.st \in {"active", "paused"}
       \/ /\ proc'[s].pc \in {"credit", "change"} /\ sub.st = "active"
          /\ proc'[s].then = "change"
       \/ /\ proc'[s].pc = "end"
       \/ /\ proc'[s].pc \in {"number", "credit"} /\ sub.st \in {"active", "paused"}
          /\ proc'[s].kind = "final" /\ proc'[s].then = "end"

LEMMA Arrives ==
    ASSUME IInv, NEW s \in Servers, Arrive(s)
    PROVE  /\ UNCHANGED <<invoices, notes, now, ran, crashes>>
           /\ \/ UNCHANGED proc /\ sub.st = "none" /\ sub'.st # "none" /\ proc[s].pc = "idle"
              \/ /\ UNCHANGED proc /\ SamePlan /\ sub.st # "none" /\ proc[s].pc = "idle"
                 /\ sub'.st = sub.st \/ sub'.st \in Puts
              \/ Accepted(s)
  <1>0. /\ proc \in [Procs -> Process] /\ s \in Procs /\ sub \in Row /\ proc[s] \in Process
    BY DEF IInv, TypeOK, Procs
  <1>1. UNCHANGED <<invoices, notes, now, ran, crashes>>
    BY DEF Arrive, Create, Activate, Pause, Resume, Update, ChangePlan, ScheduleDowngrade, End,
           Rows, history
  <1>2. CASE \E started \in {NoDay, now, now + 1}, ann \in BOOLEAN, adv \in Advance :
               Create(s, started, ann, adv)
    <2>1. /\ UNCHANGED proc /\ sub.st = "none" /\ proc[s].pc = "idle"
          /\ sub'.st \in {"active", "pending"}
      BY <1>0, <1>2 DEF Create, At, Row
    <2> QED
      BY <1>1, <2>1
  <1>3. CASE \/ \E st \in Puts : Update(s, st)
             \/ \E p \in Plans : ScheduleDowngrade(s, p)
    <2>1. UNCHANGED proc /\ SamePlan /\ sub.st # "none" /\ proc[s].pc = "idle"
      BY <1>0, <1>3 DEF Update, ScheduleDowngrade, At, SamePlan, SameDates, Row
    <2>2. sub'.st = sub.st \/ sub'.st \in Puts
      BY <1>0, <1>3 DEF Update, ScheduleDowngrade, Row
    <2> QED
      BY <1>1, <2>1, <2>2
  <1>4. ASSUME NEW r, proc[s].pc = "idle", proc' = [proc EXCEPT ![s] = r]
        PROVE  proc'[s] = r /\ Alone(s)
    BY <1>0, <1>4 DEF Alone
  <1>5. CASE Activate(s) \/ Pause(s) \/ Resume(s)
    <2>1. PICK x \in {"activate", "pause", "resume"} :
            /\ proc' = [proc EXCEPT ![s] = Request(x)] /\ sub' = sub /\ proc[s].pc = "idle"
            /\ x = "activate" => sub.st = "pending"
            /\ x # "activate" => sub.st \in {"active", "paused"}
      BY <1>5 DEF Activate, Pause, Resume, Begin, At
    <2>2. Request(x).pc = x /\ Request(x).day = now
      BY DEF Request, Idle
    <2>3. proc'[s] = Request(x) /\ Alone(s)
      BY <1>4, <2>1
    <2> QED
      BY <1>1, <2>1, <2>2, <2>3 DEF Accepted, Ended
  <1>6. ASSUME NEW p \in Plans, ChangePlan(s, p) PROVE Accepted(s)
    <2>1. PICK x \in {"credit", "change"} :
            proc' = [proc EXCEPT ![s] = [Request(x) EXCEPT !.plan = p, !.then = "change"]]
      BY <1>6 DEF ChangePlan, Begin
    <2>2. PICK r : r = [Request(x) EXCEPT !.plan = p, !.then = "change"]
      OBVIOUS
    <2>3. r.pc = x /\ r.then = "change" /\ r.day = now
      BY <2>2 DEF Request, Idle
    <2>4. sub' = sub /\ sub.st = "active" /\ proc[s].pc = "idle"
      BY <1>6 DEF ChangePlan, Begin, At
    <2>5. proc'[s] = r /\ Alone(s)
      BY <1>4, <2>1, <2>2, <2>4
    <2> QED
      BY <2>3, <2>4, <2>5 DEF Accepted, Ended
  <1>7. ASSUME NEW to \in Ended, NEW ending \in Endings, End(s, to, ending)
        PROVE  Accepted(s)
    <2>1. PICK x \in {"number", "credit", "end"} :
            /\ proc' = [proc EXCEPT ![s] = [Request(x) EXCEPT !.plan = sub.plan, !.to = to,
                                               !.kind = "final", !.then = "end"]]
            /\ x # "end" => sub.st \in {"active", "paused"}
      BY <1>7 DEF End, Begin
    <2>2. PICK r : r = [Request(x) EXCEPT !.plan = sub.plan, !.to = to, !.kind = "final",
                                          !.then = "end"]
      OBVIOUS
    <2>3. r.pc = x /\ r.then = "end" /\ r.day = now /\ r.kind = "final"
      BY <2>2 DEF Request, Idle
    <2>4. sub' = sub /\ Endable(sub.st) /\ proc[s].pc = "idle"
      BY <1>7 DEF End, Begin, At
    <2>5. proc'[s] = r /\ Alone(s)
      BY <1>4, <2>1, <2>2, <2>4
    <2> QED
      BY <2>1, <2>3, <2>4, <2>5 DEF Accepted, Ended, Endable
  <1> QED
    BY <1>1, <1>2, <1>3, <1>5, <1>6, <1>7 DEF Arrive

\* A handler that goes on, and one that returns.
GoesOn(s) == proc'[s].day = proc[s].day /\ proc'[s].to = proc[s].to
Returns(s) == proc'[s].pc = "idle" /\ proc'[s].then = "idle" /\ proc'[s].day = 0

NoteOf(s) == [per |-> PeriodStart(proc[s].day), amt |-> CreditOf(sub.plan, proc[s].day),
              day |-> now]

Activated(s) ==
    /\ proc[s].pc = "activate" /\ sub'.st = "active" /\ UNCHANGED notes
    /\ sub'.plan = sub.plan /\ sub'.adv = sub.adv
    /\ \/ Returns(s)
       \/ /\ proc'[s].pc = "number" /\ proc'[s].kind = "fee" /\ proc'[s].then = "idle"
          /\ proc'[s].plan = sub.plan /\ GoesOn(s) /\ sub.adv
Changed(s) ==
    /\ proc[s].pc = "change" /\ sub'.st = sub.st /\ SameDates /\ sub'.adv = sub.adv
    /\ sub'.plan = proc[s].plan /\ UNCHANGED notes
    /\ \/ Returns(s) /\ (sub.adv => ~(Unused(proc[s].plan, proc[s].day) > 0))
       \/ /\ proc'[s].pc = "number" /\ proc'[s].kind = "prorated" /\ proc'[s].then = "idle"
          /\ proc'[s].plan = proc[s].plan /\ GoesOn(s) /\ sub.adv
Wrote(s) ==
    /\ SamePlan /\ UNCHANGED notes /\ Returns(s)
    /\ \/ proc[s].pc \in {"pause", "resume"} /\ sub'.st \in {"active", "paused"}
       \/ proc[s].pc = "end" /\ sub'.st = proc[s].to
GivesBack(s) ==
    /\ proc[s].pc = "credit" /\ sub' = sub
    /\ \/ /\ proc'[s].pc = proc[s].then /\ proc'[s].then = proc[s].then /\ GoesOn(s)
          /\ UNCHANGED notes \/ notes' = Append(notes, NoteOf(s))
       \/ Returns(s) /\ UNCHANGED notes

LEMMA Continues ==
    ASSUME IInv, NEW s \in Servers, Continue(s)
    PROVE  /\ UNCHANGED <<invoices, now, ran, crashes>> /\ Alone(s)
           /\ Activated(s) \/ Changed(s) \/ Wrote(s) \/ GivesBack(s)
  <1>0. /\ proc \in [Procs -> Process] /\ s \in Procs /\ sub \in Row /\ proc[s] \in Process
    BY DEF IInv, TypeOK, Procs
  <1>1. UNCHANGED <<invoices, now, ran, crashes>>
    BY DEF Continue, WriteActivate, WritePause, WriteResume, WriteChange, WriteEnd, Credit,
           Rows, history
  <1>2. Alone(s)
    BY <1>0 DEF Continue, WriteActivate, WritePause, WriteResume, WriteChange, WriteEnd, Credit,
                Bill, Return, Goto, Alone
  <1>3. Return(s) => Returns(s)
    BY <1>0 DEF Return, Returns, Idle
  <1>4. ASSUME NEW plan, NEW kind, Bill(s, plan, kind)
        PROVE  /\ proc'[s].pc = "number" /\ proc'[s].kind = kind /\ proc'[s].then = "idle"
               /\ proc'[s].plan = plan /\ GoesOn(s)
    BY <1>0, <1>4 DEF Bill, GoesOn, Process
  <1>5. CASE WriteActivate(s)
    <2>1. /\ proc[s].pc = "activate" /\ sub'.st = "active" /\ UNCHANGED notes
          /\ sub'.plan = sub.plan /\ sub'.adv = sub.adv
      BY <1>0, <1>5 DEF WriteActivate, At, Row, Rows
    <2>2. Return(s) \/ (Bill(s, sub.plan, "fee") /\ sub.adv)
      BY <1>5 DEF WriteActivate, BillsAtOnce
    <2> QED
      BY <1>1, <1>2, <1>3, <1>4, <2>1, <2>2 DEF Activated
  <1>6. CASE WriteChange(s)
    <2>1. /\ proc[s].pc = "change" /\ sub'.st = sub.st /\ SameDates /\ sub'.adv = sub.adv
          /\ sub'.plan = proc[s].plan /\ UNCHANGED notes
      BY <1>0, <1>6 DEF WriteChange, At, Row, Rows, SameDates
    <2>2. \/ Return(s) /\ (sub.adv => ~(Unused(proc[s].plan, proc[s].day) > 0))
          \/ Bill(s, proc[s].plan, "prorated") /\ sub.adv
      BY <1>6 DEF WriteChange
    <2> QED
      BY <1>1, <1>2, <1>3, <1>4, <2>1, <2>2 DEF Changed
  <1>7. CASE WritePause(s) \/ WriteResume(s) \/ WriteEnd(s)
    <2>1. SamePlan /\ UNCHANGED notes /\ Returns(s)
      BY <1>0, <1>3, <1>7 DEF WritePause, WriteResume, WriteEnd, Row, Rows, SamePlan, SameDates
    <2>2. \/ proc[s].pc \in {"pause", "resume"} /\ sub'.st \in {"active", "paused"}
          \/ proc[s].pc = "end" /\ sub'.st = proc[s].to
      BY <1>0, <1>7 DEF WritePause, WriteResume, WriteEnd, Row, At
    <2> QED
      BY <1>1, <1>2, <2>1, <2>2 DEF Wrote
  <1>8. CASE Credit(s)
    <2>1. proc[s].pc = "credit" /\ sub' = sub
      BY <1>8 DEF Credit, At
    <2>2. \/ Goto(s, proc[s].then) /\ (UNCHANGED notes \/ notes' = Append(notes, NoteOf(s)))
          \/ Return(s) /\ UNCHANGED notes
      BY <1>8 DEF Credit, NoteOf
    <2>3. Goto(s, proc[s].then) =>
            proc'[s].pc = proc[s].then /\ proc'[s].then = proc[s].then /\ GoesOn(s)
      BY <1>0 DEF Goto, GoesOn, Process
    <2> QED
      BY <1>1, <1>2, <1>3, <2>1, <2>2, <2>3 DEF GivesBack
  <1> QED
    BY <1>5, <1>6, <1>7, <1>8 DEF Continue

InvoiceOf(p) ==
    [kind |-> proc[p].kind, per |-> PeriodStart(proc[p].day), amt |-> AmountOf(proc[p]),
     open |-> TRUE, day |-> proc[p].day, no |-> proc[p].no]

\* The first commit of an invoice reads the number, the second inserts it.
LEMMA Bills ==
    ASSUME IInv, NEW p \in Procs, Billing(p)
    PROVE  /\ UNCHANGED <<sub, notes, now, ran, crashes>> /\ Alone(p)
           /\ \/ /\ proc[p].pc = "number" /\ proc'[p].pc = "insert" /\ UNCHANGED invoices
                 /\ proc'[p].kind = proc[p].kind /\ proc'[p].then = proc[p].then
                 /\ proc'[p].plan = proc[p].plan /\ proc'[p].day = proc[p].day
                 /\ proc'[p].no = NextNumber
              \/ /\ proc[p].pc = "insert" /\ UNCHANGED invoices /\ Returns(p)
                 /\ \E n \in DOMAIN invoices : invoices[n].no = proc[p].no
              \/ /\ proc[p].pc = "insert"
                 /\ invoices' = Append(invoices, InvoiceOf(p)) /\ InvoiceOf(p) \in Invoice
                 /\ proc[p].plan \in Plans
                 /\ IF proc[p].then = "end"
                      THEN proc'[p].pc = "end" /\ proc'[p].day = proc[p].day
                      ELSE Returns(p)
  <1>0. /\ proc \in [Procs -> Process] /\ proc[p] \in Process /\ sub \in Row /\ Named(proc[p])
    BY DEF IInv, TypeOK, Held
  <1>1. UNCHANGED <<sub, notes, now, ran, crashes>> /\ Alone(p)
    BY <1>0 DEF Billing, Number, Insert, Goto, Return, Rows, history, Alone
  <1>2. CASE Number(p)
    BY <1>0, <1>1, <1>2 DEF Number, At, Rows, Process
  <1>3. CASE Insert(p)
    <2>1. proc[p].pc = "insert"
      BY <1>3 DEF Insert, At
    <2>2. /\ proc[p].plan \in Plans /\ proc[p].day \in Days
          /\ proc[p].no \in Days \X (Nat \ {0})
      BY <1>0, <2>1 DEF Named, Process
    <2>3. PeriodStart(proc[p].day) \in Int /\ AmountOf(proc[p]) \in Nat
      BY <1>0, <2>2, InPeriod, AmountNat
    <2>4. InvoiceOf(p) \in Invoice
      BY <1>0, <2>2, <2>3 DEF Process, Invoice, InvoiceOf
    <2>5. Return(p) => Returns(p)
      BY <1>0 DEF Return, Returns, Idle
    <2>6. Goto(p, "end") => proc'[p].pc = "end" /\ proc'[p].day = proc[p].day
      BY <1>0 DEF Goto, Process
    <2>7. \/ /\ UNCHANGED invoices /\ Return(p)
             /\ \E n \in DOMAIN invoices : invoices[n].no = proc[p].no
          \/ /\ invoices' = Append(invoices, InvoiceOf(p))
             /\ IF proc[p].then = "end" THEN Goto(p, "end") ELSE Return(p)
      BY <1>3 DEF Insert, InvoiceOf
    <2> QED
      BY <1>1, <2>1, <2>2, <2>4, <2>5, <2>6, <2>7
  <1> QED
    BY <1>2, <1>3 DEF Billing

\* The jobs touch the end of the trial only.
LEMMA Works ==
    ASSUME IInv, Jobs
    PROVE  /\ UNCHANGED <<invoices, notes, now, crashes>> /\ SamePlan /\ sub'.st = sub.st
           /\ Alone(Worker)
           /\ \/ proc'[Worker] = proc[Worker]
              \/ /\ TrialDays > 0 /\ sub.st = "active"
                 /\ proc'[Worker].pc = "trial_end" /\ proc'[Worker].day = now
              \/ /\ proc[Worker].pc = "trial_end"
                 /\ Returns(Worker) \/ (sub.adv /\ proc'[Worker].pc = "number" /\ GoesOn(Worker))
  <1>0. /\ proc \in [Procs -> Process] /\ Worker \in Procs /\ sub \in Row
        /\ proc[Worker] \in Process
    BY DEF IInv, TypeOK, Procs
  <1>1. CASE TrialExpirations
    <2>1. /\ UNCHANGED <<sub, invoices, notes, now, crashes>>
          /\ proc' = [proc EXCEPT ![Worker] = Request("trial_end")]
          /\ TrialDays > 0 /\ sub.st = "active"
      BY <1>1 DEF TrialExpirations, TrialDue, Begin, Rows, history
    <2>2. proc'[Worker].pc = "trial_end" /\ proc'[Worker].day = now /\ Alone(Worker)
      BY <1>0, <2>1 DEF Request, Idle, Alone
    <2> QED
      BY <2>1, <2>2 DEF SamePlan, SameDates
  <1>2. CASE WriteTrialEnd
    <2>1. /\ UNCHANGED <<invoices, notes, now, crashes>> /\ SamePlan /\ sub'.st = sub.st
          /\ proc[Worker].pc = "trial_end"
      BY <1>0, <1>2 DEF WriteTrialEnd, Rows, history, SamePlan, SameDates, Row, At
    <2>2. Alone(Worker)
      BY <1>0, <1>2 DEF WriteTrialEnd, Bill, Return, Alone
    <2>3. Returns(Worker) \/ (sub.adv /\ proc'[Worker].pc = "number" /\ GoesOn(Worker))
      BY <1>0, <1>2 DEF WriteTrialEnd, Bill, Return, Returns, Idle, GoesOn, Process
    <2> QED
      BY <2>1, <2>2, <2>3
  <1>3. CASE CronJobs
    <2>1. UNCHANGED <<sub, invoices, notes, proc, now, crashes>>
      BY <1>3, CronJobsRest DEF IInv, CronJobs
    <2> QED
      BY <2>1 DEF SamePlan, SameDates, Alone
  <1> QED
    BY <1>1, <1>2, <1>3 DEF Jobs

\* The invoices are the same, but for who has paid.
SameRows ==
    /\ DOMAIN invoices' = DOMAIN invoices
    /\ \A n \in DOMAIN invoices :
         /\ invoices'[n].kind = invoices[n].kind /\ invoices'[n].per = invoices[n].per
         /\ invoices'[n].amt = invoices[n].amt /\ invoices'[n].day = invoices[n].day
         /\ invoices'[n].no = invoices[n].no

LEMMA Passes ==
    ASSUME IInv, \/ Rest \/ Tick \/ UNCHANGED vars
                 \/ \E p \in Procs : Crash(p)
                 \/ \E n \in DOMAIN invoices : Close(n)
    PROVE  /\ UNCHANGED <<sub, notes>> /\ SameRows
           /\ \/ UNCHANGED <<proc, now, crashes>>
              \/ UNCHANGED <<proc, crashes>> /\ now' = now + 1
              \/ /\ now' = now /\ crashes' = crashes + 1
                 /\ \E p \in Procs : proc' = [proc EXCEPT ![p] = Idle]
  <1>0. invoices \in Seq(Invoice)
    BY DEF IInv, TypeOK
  <1>1. CASE Rest \/ Tick \/ UNCHANGED vars
    BY <1>1 DEF Rest, Tick, vars, Rows, history, SameRows
  <1>2. CASE \E p \in Procs : Crash(p)
    BY <1>2 DEF Crash, Return, Rows, SameRows
  <1>3. ASSUME NEW n \in DOMAIN invoices, Close(n) PROVE SameRows
    <2>1. UNCHANGED notes /\ invoices' = [invoices EXCEPT ![n].open = FALSE]
      BY <1>3 DEF Close
    <2>2. \A m \in DOMAIN invoices : invoices[m] \in Invoice
      BY <1>0
    <2>3. /\ DOMAIN invoices' = DOMAIN invoices
          /\ \A m \in DOMAIN invoices :
               invoices'[m] = invoices[m] \/ invoices'[m] = [invoices[m] EXCEPT !.open = FALSE]
      BY <2>1
    <2> QED
      BY <2>1, <2>2, <2>3 DEF SameRows, Invoice
  <1> QED
    BY <1>1, <1>2, <1>3 DEF Close, history

-----------------------------------------------------------------------------
(* What has come, and when it begins *)

LEMMA Typed ==
    ASSUME IInv
    PROVE  /\ now \in Int /\ now \in Days /\ sub \in Row /\ crashes \in Nat
           /\ \A p \in Procs : proc[p] \in Process /\ Named(proc[p])
                               /\ proc[p].day \in Int /\ proc[p].day \in Days
           /\ \A n \in DOMAIN invoices :
                /\ invoices[n] \in Invoice /\ invoices[n].amt \in Nat
                /\ invoices[n].per \in Int /\ invoices[n].day \in Int /\ invoices[n].day \in Days
           /\ Worker \in Procs /\ Servers \subseteq Procs /\ Worker \notin Servers
           /\ invoices \in Seq(Invoice) /\ notes \in Seq(Note)
  <1>1. \A n \in DOMAIN invoices : invoices[n] \in Invoice
    BY DEF IInv, TypeOK
  <1>2. \A p \in Procs : proc[p] \in Process /\ Named(proc[p])
    BY DEF IInv, TypeOK, Held
  <1>3. now \in Days /\ Days \subseteq Int /\ crashes \in Nat
    BY ConstantsAssumption DEF IInv, TypeOK, Days
  <1>4. \A p \in Procs : proc[p].day \in Days
    BY <1>2 DEF Process
  <1>5. \A n \in DOMAIN invoices : /\ invoices[n].amt \in Nat /\ invoices[n].per \in Int
                                  /\ invoices[n].day \in Days
    BY <1>1 DEF Invoice
  <1> QED
    BY <1>1, <1>2, <1>3, <1>4, <1>5, ConstantsAssumption DEF IInv, TypeOK, Procs

\* An appended row is the last one.
LEMMA OneMore ==
    ASSUME invoices \in Seq(Invoice), NEW row \in Invoice, invoices' = Append(invoices, row)
    PROVE  \E last \in Nat \ {0} :
             /\ last = Len(invoices) + 1 /\ last = Len(invoices')
             /\ last \in DOMAIN invoices' /\ invoices'[last] = row /\ invoices' # <<>>
             /\ \A n \in DOMAIN invoices' : n = last \/ n \in DOMAIN invoices
             /\ \A n \in DOMAIN invoices : n # last /\ n \in DOMAIN invoices'
                                            /\ invoices'[n] = invoices[n]
  <1>1. PICK last \in Nat \ {0} : last = Len(invoices) + 1
    OBVIOUS
  <1>2. /\ DOMAIN invoices = 1..(last - 1) /\ DOMAIN invoices' = 1..last
        /\ \A n \in 1..(last - 1) : invoices'[n] = invoices[n]
        /\ invoices'[last] = row /\ Len(invoices') = last
    BY <1>1
  <1>3. \A n \in 1..last : n = last \/ n \in 1..(last - 1)
    OBVIOUS
  <1>4. last \in 1..last /\ \A n \in 1..(last - 1) : n # last /\ n \in 1..last
    OBVIOUS
  <1> QED
    BY <1>1, <1>2, <1>3, <1>4

LEMMA PastKept ==
    ASSUME IInv, PastInv, UNCHANGED <<invoices, notes, now>>, NEW p \in Procs, Alone(p),
           proc'[p].day <= now,
           sub'.st = "none" => sub.st = "none" /\ proc'[p].pc = "idle",
           sub'.st \in {"none", "pending"} =>
             Unborn /\ proc'[p].pc \in {"idle", "activate", "end"},
           p = Worker /\ TrialDays = 0 => proc'[p].pc = "idle"
    PROVE  PastInv'
  <1>1. Worker \in Procs
    BY Typed
  <1>2. \A q \in Procs : proc'[q].day <= now'
    BY DEF PastInv, Alone
  <1>3. \A n \in DOMAIN invoices' :
          invoices'[n].per <= invoices'[n].day /\ invoices'[n].day <= now'
    BY DEF PastInv
  <1>4. sub'.st = "none" => \A q \in Procs : proc'[q].pc = "idle"
    BY DEF PastInv, Alone, At
  <1>5. Unborn' => /\ invoices' = <<>> /\ notes' = <<>>
                   /\ \A q \in Procs : proc'[q].pc \in {"idle", "activate", "end"}
    BY DEF PastInv, Alone, Unborn
  <1>6. TrialDays = 0 => proc'[Worker].pc = "idle"
    BY <1>1 DEF PastInv, Alone, At
  <1> QED
    BY <1>2, <1>3, <1>4, <1>5, <1>6 DEF PastInv, At

LEMMA PastStep ==
    ASSUME "pending" \notin Puts, IInv, FeeInv, PastInv, [Next]_vars
    PROVE  PastInv'
  <1>0. /\ now \in Int /\ Worker \in Procs /\ Servers \subseteq Procs /\ Worker \notin Servers
        /\ \A p \in Procs : proc[p].day <= now /\ proc[p].day \in Int
        /\ now \in Days
    BY Typed DEF PastInv
  <1>1. ASSUME NEW p \in Procs, proc[p].pc \notin {"idle", "activate", "end"} PROVE ~Unborn
    BY <1>1 DEF PastInv
  <1>2. ASSUME NEW p \in Procs, proc[p].pc # "idle" PROVE sub.st # "none"
    BY <1>2 DEF PastInv, At
  <1>3. \A p \in Procs : Returns(p) => proc'[p].day <= now
    BY <1>0 DEF Returns, Days
  <1>4. ASSUME NEW s \in Servers, Arrive(s) PROVE PastInv'
    <2>1. /\ UNCHANGED <<invoices, notes, now, ran, crashes>>
          /\ \/ UNCHANGED proc /\ sub.st = "none" /\ sub'.st # "none" /\ proc[s].pc = "idle"
             \/ /\ UNCHANGED proc /\ SamePlan /\ sub.st # "none" /\ proc[s].pc = "idle"
                /\ sub'.st = sub.st \/ sub'.st \in Puts
             \/ Accepted(s)
      BY <1>4, Arrives
    <2>2. CASE UNCHANGED proc /\ proc[s].pc = "idle" /\ sub'.st # "none"
               /\ (sub'.st = "pending" => Unborn)
      <3>1. Alone(s)
        BY <2>2 DEF Alone
      <3> QED
        BY <1>0, <2>1, <2>2, <3>1, PastKept
    <2>3. \A st \in Puts : st \notin {"none", "pending"}
      BY ConstantsAssumption
    <2>4. CASE Accepted(s)
      <3>1. /\ sub' = sub /\ sub.st # "none" /\ proc'[s].day = now /\ Alone(s)
            /\ sub.st = "pending" => Unborn /\ proc'[s].pc \in {"idle", "activate", "end"}
        BY <2>4 DEF Accepted, Unborn
      <3> QED
        BY <1>0, <2>1, <3>1, PastKept
    <2> QED
      BY <2>1, <2>2, <2>3, <2>4 DEF Unborn
  <1>5. ASSUME NEW s \in Servers, Continue(s) PROVE PastInv'
    <2>1. /\ UNCHANGED <<invoices, notes, now>> \/ (UNCHANGED <<invoices, now>> /\ GivesBack(s))
          /\ UNCHANGED <<invoices, now>> /\ Alone(s)
          /\ Activated(s) \/ Changed(s) \/ Wrote(s) \/ GivesBack(s)
      BY <1>5, Continues DEF Activated, Changed, Wrote
    <2>2. /\ sub'.st \notin {"none", "pending"}
          /\ proc'[s].day <= now
      <3>1. proc[s].pc # "idle" /\ sub.st # "none"
        BY <1>0, <1>2, <2>1 DEF Activated, Changed, Wrote, GivesBack
      <3>2. proc'[s].day <= now
        BY <1>0, <1>3, <2>1 DEF Activated, Changed, Wrote, GivesBack, GoesOn
      <3>3. proc[s].pc \in {"change", "credit"} => ~Unborn
        BY <1>0, <1>1
      <3>4. proc[s].pc = "end" => proc[s].to \in Ended
        BY DEF FeeInv, At
      <3>5. sub'.st \notin {"none", "pending"}
        BY <2>1, <3>3, <3>4 DEF Activated, Changed, Wrote, GivesBack, Unborn, Ended
      <3> QED
        BY <3>2, <3>5
    <2> QED
      <3>1. \A q \in Procs : proc'[q].day <= now'
        BY <1>0, <2>1, <2>2 DEF Alone
      <3>2. TrialDays = 0 => At(Worker, "idle")'
        BY <1>0, <2>1 DEF PastInv, Alone, At
      <3>3. \A n \in DOMAIN invoices' :
              invoices'[n].per <= invoices'[n].day /\ invoices'[n].day <= now'
        BY <2>1 DEF PastInv
      <3> QED
        BY <2>2, <3>1, <3>2, <3>3 DEF PastInv, Unborn
  <1>6. ASSUME NEW p \in Procs, Billing(p) PROVE PastInv'
    <2>1. /\ UNCHANGED <<sub, notes, now>> /\ Alone(p)
          /\ proc[p].pc \in {"number", "insert"}
          /\ proc'[p].day = proc[p].day \/ Returns(p)
          /\ UNCHANGED invoices
               \/ (invoices' = Append(invoices, InvoiceOf(p)) /\ InvoiceOf(p) \in Invoice)
      BY <1>6, Bills
    <2>2. ~Unborn /\ proc'[p].day <= now /\ (TrialDays = 0 => p # Worker)
      BY <1>0, <1>1, <1>3, <2>1 DEF PastInv, At
    <2>3. \A q \in Procs : proc'[q].day <= now'
      BY <1>0, <2>1, <2>2 DEF Alone
    <2>4. TrialDays = 0 => At(Worker, "idle")'
      BY <1>0, <2>1, <2>2 DEF PastInv, Alone, At
    <2>5. ASSUME invoices' = Append(invoices, InvoiceOf(p)), InvoiceOf(p) \in Invoice,
                 NEW n \in DOMAIN invoices'
          PROVE  invoices'[n].per <= invoices'[n].day /\ invoices'[n].day <= now
      <3>1. InvoiceOf(p).per <= InvoiceOf(p).day /\ InvoiceOf(p).day <= now
        BY <1>0, Typed, InPeriod DEF InvoiceOf
      <3>2. CASE n \in DOMAIN invoices /\ invoices'[n] = invoices[n]
        BY <3>2 DEF PastInv
      <3> QED
        BY <2>5, <3>1, <3>2, Typed, OneMore
    <2>6. \A n \in DOMAIN invoices' :
            invoices'[n].per <= invoices'[n].day /\ invoices'[n].day <= now'
      BY <2>1, <2>5 DEF PastInv
    <2> QED
      BY <2>1, <2>2, <2>3, <2>4, <2>6 DEF PastInv, Unborn
  <1>7. CASE Jobs
    <2>1. /\ UNCHANGED <<invoices, notes, now>> /\ sub'.st = sub.st /\ Alone(Worker)
          /\ \/ proc'[Worker] = proc[Worker]
             \/ /\ TrialDays > 0 /\ sub.st = "active"
                /\ proc'[Worker].day = now
             \/ /\ proc[Worker].pc = "trial_end"
                /\ Returns(Worker) \/ GoesOn(Worker)
      BY <1>7, Works
    <2>2. proc'[Worker].day <= now
      BY <1>0, <1>3, <2>1 DEF GoesOn
    <2>3. proc'[Worker].pc = proc[Worker].pc \/ (~Unborn /\ sub.st # "none" /\ TrialDays # 0)
      BY <1>0, <1>1, <1>2, <2>1 DEF PastInv, At, Unborn
    <2>4. sub.st = "none" => proc[Worker].pc = "idle"
      BY <1>0, <1>2
    <2> QED
      BY <1>0, <2>1, <2>2, <2>3, <2>4, PastKept DEF PastInv, At, Unborn
  <1>8. CASE \/ Rest \/ Tick \/ UNCHANGED vars
             \/ \E p \in Procs : Crash(p)
             \/ \E n \in DOMAIN invoices : Close(n)
    <2>1. /\ UNCHANGED <<sub, notes>> /\ SameRows
          /\ \/ UNCHANGED <<proc, now>>
             \/ UNCHANGED proc /\ now' = now + 1
             \/ now' = now /\ \E p \in Procs : proc' = [proc EXCEPT ![p] = Idle]
      BY <1>8, Passes
    <2>2. now' = now \/ now' = now + 1
      BY <2>1
    <2>3. \A p \in Procs : /\ proc'[p].day = proc[p].day \/ proc'[p].day = 0
                           /\ proc'[p].pc = proc[p].pc \/ proc'[p].pc = "idle"
      <3>1. proc \in [Procs -> Process] /\ Idle.day = 0 /\ Idle.pc = "idle"
        BY DEF IInv, TypeOK, Idle
      <3> QED
        BY <2>1, <3>1
    <2>4. \A p \in Procs : proc'[p].day <= now'
      BY <1>0, <2>2, <2>3 DEF Days
    <2>5. \A n \in DOMAIN invoices' :
            invoices'[n].per <= invoices'[n].day /\ invoices'[n].day <= now'
      BY <1>0, <2>1, <2>2, Typed DEF PastInv, SameRows
    <2>6. invoices = <<>> => invoices' = <<>>
      BY <2>1, Typed DEF SameRows
    <2> QED
      BY <1>0, <2>1, <2>3, <2>4, <2>5, <2>6 DEF PastInv, At, Unborn
  <1> QED
    BY <1>4, <1>5, <1>6, <1>7, <1>8 DEF Next

-----------------------------------------------------------------------------
(* In arrears *)

\* A step of the one API process that inserts no invoice: once the final invoice
\* is there, the row has ended or the process is about to write it.
LEMMA FinalKept ==
    ASSUME OneServer, UNCHANGED invoices, sub'.adv = sub.adv, crashes' = crashes, FinalInv,
           NEW s \in Servers, Alone(s), IInv,
           ~sub.adv /\ proc'[s].pc \in {"number", "insert"} =>
             /\ proc'[s].kind = "final" /\ proc'[s].then = "end"
             /\ invoices = <<>>,
           ~sub.adv /\ invoices # <<>> => sub'.st \in Ended \/ proc'[s].pc = "end"
    PROVE  FinalInv'
  <1> SUFFICES ASSUME ~sub.adv, crashes = 0
               PROVE  /\ proc'[Worker].pc \in {"idle", "trial_end"}
                      /\ \A t \in Servers : proc'[t].pc \in {"number", "insert"} =>
                           proc'[t].kind = "final" /\ proc'[t].then = "end" /\ invoices = <<>>
                      /\ invoices # <<>> =>
                           /\ sub'.st \in Ended \/ \E t \in Servers : proc'[t].pc = "end"
                           /\ Len(invoices) = 1
                           /\ \E p \in Plans :
                                invoices[1].amt = Price[p] * (invoices[1].day - invoices[1].per)
    BY DEF FinalInv, At
  <1>1. Worker \in Procs /\ s # Worker
    BY Typed
  <1>2. proc'[Worker].pc \in {"idle", "trial_end"}
    BY <1>1 DEF FinalInv, Alone
  <1>3. \A t \in Servers : t = s
    BY DEF OneServer
  <1> QED
    BY <1>2, <1>3 DEF FinalInv

LEMMA FinalArrives ==
    ASSUME OneServer, Puts \subseteq Ended, IInv, PastInv, FinalInv, NEW s \in Servers, Arrive(s)
    PROVE  FinalInv'
  <1>1. /\ UNCHANGED <<invoices, notes, now, ran, crashes>>
        /\ \/ UNCHANGED proc /\ sub.st = "none" /\ sub'.st # "none" /\ proc[s].pc = "idle"
           \/ /\ UNCHANGED proc /\ SamePlan /\ sub.st # "none" /\ proc[s].pc = "idle"
              /\ sub'.st = sub.st \/ sub'.st \in Puts
           \/ Accepted(s)
    BY Arrives
  <1>2. Worker \in Procs /\ Servers \subseteq Procs
    BY Typed
  <1>3. CASE UNCHANGED proc /\ sub.st = "none"
    <2>1. invoices' = <<>> /\ \A p \in Procs : proc'[p].pc = "idle"
      BY <1>1, <1>3 DEF PastInv, Unborn, At
    <2> QED
      BY <1>2, <2>1 DEF FinalInv
  <1>4. ASSUME proc[s].pc = "idle", ~sub.adv, crashes = 0, invoices # <<>> PROVE sub.st \in Ended
    BY <1>4 DEF FinalInv, At, OneServer
  <1>5. CASE /\ UNCHANGED proc /\ SamePlan /\ sub.st # "none" /\ proc[s].pc = "idle"
             /\ sub'.st = sub.st \/ sub'.st \in Puts
    <2>1. Alone(s) /\ proc'[s].pc = "idle" /\ sub'.adv = sub.adv
      BY <1>5 DEF Alone, SamePlan
    <2> QED
      BY <1>1, <1>4, <1>5, <2>1, FinalKept DEF FinalInv
  <1>6. CASE Accepted(s)
    <2>1. /\ Alone(s) /\ sub' = sub /\ sub.st \notin Ended /\ proc[s].pc = "idle"
          /\ proc'[s].pc \in {"number", "insert"} => proc'[s].kind = "final" /\ proc'[s].then = "end"
      BY <1>6 DEF Accepted
    <2> QED
      BY <1>1, <1>4, <2>1, FinalKept DEF FinalInv
  <1> QED
    BY <1>1, <1>3, <1>5, <1>6

LEMMA FinalContinues ==
    ASSUME OneServer, IInv, FeeInv, AliveInv, FinalInv, NEW s \in Servers, Continue(s)
    PROVE  FinalInv'
  <1>1. /\ UNCHANGED <<invoices, now, ran, crashes>> /\ Alone(s)
        /\ Activated(s) \/ Changed(s) \/ Wrote(s) \/ GivesBack(s)
    BY Continues
  <1>2. ASSUME ~sub.adv, crashes = 0, invoices # <<>> PROVE sub.st \in Ended \/ proc[s].pc = "end"
    BY <1>2 DEF FinalInv, At, OneServer
  <1>3. proc[s].pc \in {"activate", "pause", "resume", "end"} => sub.st \notin Ended
    BY DEF AliveInv, Decides
  <1>4. s \in Procs /\ Named(proc[s])
    BY Typed
  <1>5. ~sub.adv => proc'[s].pc \notin {"number", "insert"}
    BY <1>1, <1>4 DEF Activated, Changed, Wrote, GivesBack, Returns, Named
  <1>6. sub'.adv = sub.adv
    BY <1>1 DEF Activated, Changed, Wrote, GivesBack, SamePlan
  <1>7. ASSUME ~sub.adv, crashes = 0, invoices # <<>> PROVE sub'.st \in Ended
    <2>1. proc[s].pc = "end" => proc[s].to \in Ended
      BY DEF FeeInv, At
    <2> QED
      BY <1>1, <1>2, <1>3, <1>7, <2>1 DEF Activated, Changed, Wrote, GivesBack
  <1> QED
    BY <1>1, <1>5, <1>6, <1>7, FinalKept DEF FinalInv

LEMMA FinalBills ==
    ASSUME OneServer, IInv, PastInv, FinalInv, NEW p \in Procs, Billing(p)
    PROVE  FinalInv'
  <1>1. /\ UNCHANGED <<sub, notes, now, ran, crashes>> /\ Alone(p)
        /\ \/ /\ proc[p].pc = "number" /\ UNCHANGED invoices
              /\ proc'[p].kind = proc[p].kind /\ proc'[p].then = proc[p].then
           \/ /\ proc[p].pc = "insert" /\ UNCHANGED invoices
              /\ \E n \in DOMAIN invoices : invoices[n].no = proc[p].no
           \/ /\ proc[p].pc = "insert"
              /\ invoices' = Append(invoices, InvoiceOf(p)) /\ InvoiceOf(p) \in Invoice
              /\ proc[p].plan \in Plans
              /\ proc[p].then = "end" => proc'[p].pc = "end"
    BY Bills
  <1> SUFFICES ASSUME ~sub.adv, crashes = 0 PROVE FinalInv'
    BY <1>1 DEF FinalInv
  <1>2. p \in Servers /\ p # Worker /\ Worker \in Procs
    <2>1. proc[Worker].pc \notin {"number", "insert"}
      BY DEF FinalInv
    <2> QED
      BY <1>1, <2>1, Typed DEF Procs
  <1>3. proc[p].kind = "final" /\ proc[p].then = "end" /\ invoices = <<>>
    BY <1>1, <1>2 DEF FinalInv
  <1>4. CASE UNCHANGED invoices /\ proc[p].pc = "number"
    BY <1>1, <1>2, <1>3, <1>4, FinalKept
  <1>5. CASE invoices' = Append(invoices, InvoiceOf(p)) /\ InvoiceOf(p) \in Invoice
             /\ proc[p].plan \in Plans /\ proc'[p].pc = "end"
    <2>1. Len(invoices') = 1 /\ invoices'[1] = InvoiceOf(p)
      BY <1>3, <1>5
    <2>2. InvoiceOf(p).amt = Price[proc[p].plan] * (InvoiceOf(p).day - InvoiceOf(p).per)
      BY <1>3 DEF InvoiceOf, AmountOf, Used
    <2>3. \A t \in Servers : t = p
      BY <1>2 DEF OneServer
    <2>4. proc'[Worker].pc \in {"idle", "trial_end"}
      BY <1>1, <1>2 DEF FinalInv, Alone
    <2> QED
      BY <1>2, <1>5, <2>1, <2>2, <2>3, <2>4 DEF FinalInv, At
  <1>6. ~\E n \in DOMAIN invoices : invoices[n].no = proc[p].no
    BY <1>3
  <1> QED
    BY <1>1, <1>3, <1>4, <1>5, <1>6

LEMMA FinalRest ==
    ASSUME IInv, FinalInv,
           \/ Jobs \/ Rest \/ Tick \/ UNCHANGED vars
           \/ \E p \in Procs : Crash(p)
           \/ \E n \in DOMAIN invoices : Close(n)
    PROVE  FinalInv'
  <1>0. Worker \in Procs /\ Servers \subseteq Procs /\ Worker \notin Servers /\ crashes \in Nat
    BY Typed
  <1>1. CASE Jobs
    <2>1. /\ UNCHANGED <<invoices, notes, now, crashes>> /\ SamePlan /\ sub'.st = sub.st
          /\ Alone(Worker)
          /\ \/ proc'[Worker] = proc[Worker]
             \/ proc'[Worker].pc = "trial_end"
             \/ Returns(Worker) \/ sub.adv
      BY <1>1, Works
    <2>2. \A t \in Servers : proc'[t] = proc[t]
      BY <1>0, <2>1 DEF Alone
    <2>3. ~sub.adv /\ crashes = 0 => proc'[Worker].pc \in {"idle", "trial_end"}
      BY <2>1 DEF FinalInv, Returns
    <2> QED
      BY <2>1, <2>2, <2>3 DEF FinalInv, SamePlan, At
  <1>2. CASE \/ Rest \/ Tick \/ UNCHANGED vars
             \/ \E p \in Procs : Crash(p)
             \/ \E n \in DOMAIN invoices : Close(n)
    <2>1. /\ UNCHANGED sub /\ SameRows
          /\ UNCHANGED <<proc, crashes>> \/ crashes' = crashes + 1
      BY <1>2, Passes
    <2>2. crashes' = 0 => UNCHANGED <<proc, crashes>>
      BY <1>0, <2>1
    <2>3. Len(invoices') = Len(invoices) /\ (invoices' = <<>> <=> invoices = <<>>)
      <3>1. invoices \in Seq(Invoice) /\ invoices' \in Seq(Invoice)
        BY <1>2, OtherInv, Typed DEF IInv, TypeOK
      <3> QED
        BY <2>1, <3>1 DEF SameRows
    <2>4. invoices # <<>> /\ Len(invoices) = 1 => 1 \in DOMAIN invoices
      BY Typed
    <2> QED
      BY <2>1, <2>2, <2>3, <2>4 DEF FinalInv, SameRows, At
  <1> QED
    BY <1>1, <1>2

LEMMA FinalIsFair ==
    ASSUME IInv, PastInv, FinalInv, crashes = 0
    PROVE  PeriodFairlyBilled
  <1> SUFFICES ASSUME ~sub.adv, NEW n \in DOMAIN invoices
               PROVE  Invoiced(invoices[n].per) <= Dearest * (now - invoices[n].per)
    BY DEF PeriodFairlyBilled
  <1>1. Len(invoices) = 1 /\ n = 1 /\ invoices # <<>>
    <2>1. invoices # <<>>
      OBVIOUS
    <2>2. Len(invoices) = 1
      BY <2>1 DEF FinalInv
    <2> QED
      BY <2>1, <2>2, Typed
  <1>2. PICK p \in Plans : invoices[1].amt = Price[p] * (invoices[1].day - invoices[1].per)
    BY <1>1 DEF FinalInv
  <1> DEFINE per == invoices[1].per
             day == invoices[1].day
  <1>3. /\ per \in Int /\ day \in Int /\ now \in Int /\ per <= day /\ day <= now
        /\ invoices[1].amt \in Nat
    BY <1>1, Typed DEF PastInv
  <1>4. Invoiced(per) = invoices[1].amt
    <2> DEFINE amt == Of(invoices, per)
    <2>1. amt[0 + 1] = invoices[1].amt
      BY <1>1 DEF Of
    <2>2. 0 \in Nat /\ AreNats(amt, 0) /\ \A k \in 1..0 : amt[k] = amt[k]
      BY DEF AreNats
    <2>3. amt[0 + 1] \in Nat
      BY <1>3, <2>1
    <2> HIDE DEF amt
    <2>4. Total(amt, 0 + 1) = Total(amt, 0) + amt[0 + 1]
      BY <2>2, <2>3, TotalNext
    <2>5. Total(amt, 1) = invoices[1].amt
      BY <1>3, <2>1, <2>4, TotalEmpty
    <2> QED
      BY <1>1, <2>5 DEF Invoiced, amt
  <1> HIDE DEF per, day
  <1>5. /\ Dearest \in Nat /\ Price[p] \in Nat /\ Price[p] <= Dearest
        /\ day - per \in Nat /\ now - per \in Nat /\ day - per <= now - per
    BY <1>3, DearestIs
  <1>6. Price[p] * (day - per) <= Dearest * (now - per)
    BY <1>5, LessTimes
  <1> QED
    BY <1>1, <1>2, <1>4, <1>6 DEF per, day

LEMMA Carried ==
    ASSUME OneServer, "pending" \notin Puts
    PROVE  /\ Init => IInv /\ FeeInv /\ AliveInv /\ PastInv
           /\ IInv /\ FeeInv /\ AliveInv /\ PastInv /\ [Next]_vars
                => IInv' /\ FeeInv' /\ AliveInv' /\ PastInv'
  <1>1. Init => AliveInv
    BY ConstantsAssumption DEF Init, AliveInv, Decides, Idle, Procs
  <1>2. IInv /\ AliveInv /\ [Next]_vars => AliveInv'
    BY ArriveOrderly, ContinueOrderly, OtherOrderly DEF Next, Orderly
  <1>3. Init => PastInv
    <2> SUFFICES ASSUME Init PROVE PastInv
      OBVIOUS
    <2>1. \A p \in Procs : proc[p].pc = "idle" /\ proc[p].day = 0
      BY DEF Init, Idle
    <2>2. invoices = <<>> /\ notes = <<>> /\ now = 0 /\ Worker \in Procs
      BY DEF Init, Procs
    <2> QED
      BY <2>1, <2>2 DEF PastInv, At
  <1>4. Init => FeeInv
    BY InitFee
  <1> QED
    BY <1>1, <1>2, <1>3, <1>4, InitInv, NextInv, FeeStep, PastStep

\* With one API process that does not crash, and clients that write no status
\* but an end, nobody who pays in arrears is asked for days that have not
\* passed: for any plans, prices, periods, trials, days and plan changes.
THEOREM PeriodFairlyBilledHolds ==
    ASSUME OneServer, Puts \subseteq Ended
    PROVE  Spec => [](crashes = 0 => PeriodFairlyBilled)
  <1> DEFINE All == IInv /\ FeeInv /\ AliveInv /\ PastInv /\ FinalInv
  <1>0. "pending" \notin Puts
    BY DEF Ended
  <1>1. Init => All
    <2>1. Init => FinalInv
      BY DEF Init, FinalInv, Idle, Procs
    <2> QED
      BY <1>0, <2>1, Carried
  <1>2. All /\ [Next]_vars => All'
    <2> SUFFICES ASSUME All, [Next]_vars PROVE All'
      OBVIOUS
    <2>1. IInv' /\ FeeInv' /\ AliveInv' /\ PastInv'
      BY <1>0, Carried
    <2>2. FinalInv'
      BY FinalArrives, FinalContinues, FinalBills, FinalRest DEF Next
    <2> QED
      BY <2>1, <2>2
  <1>3. All => (crashes = 0 => PeriodFairlyBilled)
    BY FinalIsFair
  <1> QED
    BY <1>1, <1>2, <1>3, PTL DEF Spec

-----------------------------------------------------------------------------
(* Numbers *)

LEMMA NumbersType ==
    ASSUME IInv
    PROVE  /\ \A d : IsFiniteSet(Numbered(d)) /\ Cardinality(Numbered(d)) \in Nat
           /\ \A n \in DOMAIN invoices : invoices[n].no[2] \in Nat
           /\ \A p \in Procs : proc[p].no[2] \in Nat
           /\ IsFiniteSet(DOMAIN invoices)
  <1>1. IsFiniteSet(DOMAIN invoices)
    <2>1. Len(invoices) \in Nat /\ DOMAIN invoices = 1..Len(invoices)
      BY DEF IInv, TypeOK
    <2> QED
      BY <2>1, FS_Interval
  <1>2. ASSUME NEW d PROVE IsFiniteSet(Numbered(d)) /\ Cardinality(Numbered(d)) \in Nat
    BY <1>1, FS_Subset, FS_CardinalityType DEF Numbered
  <1>3. \A n \in DOMAIN invoices : invoices[n].no[2] \in Nat
    BY Typed DEF Invoice
  <1>4. \A p \in Procs : proc[p].no[2] \in Nat
    BY Typed DEF Process
  <1> QED
    BY <1>1, <1>2, <1>3, <1>4

\* A generated number is free.
LEMMA NoClash ==
    ASSUME IInv, NumberInv, NEW s \in Servers, proc[s].pc = "insert"
    PROVE  ~\E n \in DOMAIN invoices : invoices[n].no = proc[s].no
  <1> SUFFICES ASSUME NEW n \in DOMAIN invoices, invoices[n].no = proc[s].no PROVE FALSE
    OBVIOUS
  <1>1. PICK d \in Days : d = proc[s].no[1]
    BY Typed DEF Process
  <1>2. /\ invoices[n].no[2] <= Cardinality(Numbered(d))
        /\ invoices[n].no[2] = Cardinality(Numbered(d)) + 1
    BY <1>1 DEF NumberInv, At, Numbered
  <1>3. Cardinality(Numbered(d)) \in Nat
    BY NumbersType
  <1> QED
    BY <1>2, <1>3

\* A step that inserts no invoice
LEMMA NumberKept ==
    ASSUME IInv, SameRows, NumberInv,
           \A s \in Servers : proc'[s].pc = "insert" =>
             \/ proc[s].pc = "insert" /\ proc'[s].no = proc[s].no
             \/ proc'[s].no = NextNumber
    PROVE  NumberInv'
  <1>1. \A d \in Days : Numbered(d)' = Numbered(d)
    BY DEF SameRows, Numbered
  <1>2. NextNumber[1] = now /\ NextNumber[2] = Cardinality(Numbered(now)) + 1
    BY DEF NextNumber, Today, Numbered
  <1>3. \A d \in Days : \A n \in Numbered(d) : invoices'[n].no = invoices[n].no
    BY DEF SameRows, Numbered
  <1>4. \A d \in Days : \A n \in Numbered(d)' : invoices'[n].no[2] <= Cardinality(Numbered(d)')
    BY <1>1, <1>3 DEF NumberInv
  <1>5. ASSUME NEW d \in Days, NEW s \in Servers, proc'[s].pc = "insert", proc'[s].no[1] = d
        PROVE  proc'[s].no[2] = Cardinality(Numbered(d)') + 1
    BY <1>1, <1>2, <1>5 DEF NumberInv, At
  <1> QED
    BY <1>4, <1>5 DEF NumberInv, At

LEMMA NumberGrows ==
    ASSUME OneServer, IInv, NumberInv, NEW s \in Servers, proc[s].pc = "insert",
           invoices' = Append(invoices, InvoiceOf(s)), InvoiceOf(s) \in Invoice,
           proc'[s].pc # "insert"
    PROVE  NumberInv'
  <1>0. PICK d \in Days : d = proc[s].no[1]
    BY Typed DEF Process
  <1>1. PICK last \in Nat \ {0} :
          /\ last \in DOMAIN invoices' /\ invoices'[last] = InvoiceOf(s)
          /\ \A n \in DOMAIN invoices' : n = last \/ n \in DOMAIN invoices
          /\ \A n \in DOMAIN invoices : n # last /\ n \in DOMAIN invoices'
                                         /\ invoices'[n] = invoices[n]
    BY Typed, OneMore
  <1>2. PICK k \in Nat : k = Cardinality(Numbered(d))
    BY NumbersType
  <1>3. invoices'[last].no = proc[s].no /\ proc[s].no[2] = k + 1
    BY <1>0, <1>1, <1>2 DEF NumberInv, At, InvoiceOf
  <1>4. Numbered(d)' = Numbered(d) \cup {last} /\ last \notin Numbered(d)
    BY <1>0, <1>1, <1>3 DEF Numbered
  <1>5. \A e \in Days : e # d => Numbered(e)' = Numbered(e)
    BY <1>0, <1>1, <1>3 DEF Numbered
  <1>6. Cardinality(Numbered(d)') = k + 1
    <2>1. IsFiniteSet(Numbered(d))
      BY NumbersType
    <2> QED
      BY <1>2, <1>4, <2>1, FS_AddElement
  <1>7. \A e \in Days : \A n \in Numbered(e) :
          /\ invoices'[n].no = invoices[n].no /\ invoices[n].no[2] \in Nat
          /\ invoices[n].no[2] <= Cardinality(Numbered(e))
    BY <1>1, NumbersType DEF Numbered, NumberInv
  <1>8. ASSUME NEW e \in Days, NEW n \in Numbered(e)'
        PROVE  invoices'[n].no[2] <= Cardinality(Numbered(e)')
    <2>0. e = d => Numbered(e)' = Numbered(d)'
      BY DEF Numbered
    <2>1. CASE e = d /\ n = last
      <3>1. invoices'[n].no[2] = k + 1 /\ Cardinality(Numbered(e)') = k + 1
        BY <1>3, <1>6, <2>0, <2>1
      <3> QED
        BY <1>2, <3>1
    <2>2. CASE e = d /\ n # last
      <3>1. n \in Numbered(d)
        BY <1>4, <2>0, <2>2
      <3>2. invoices'[n].no = invoices[n].no /\ invoices[n].no[2] \in Nat /\ invoices[n].no[2] <= k
        BY <1>2, <1>7, <3>1
      <3> QED
        BY <1>2, <1>6, <2>0, <2>2, <3>2
    <2>3. CASE e # d
      BY <1>5, <1>7, <2>3
    <2> QED
      BY <2>1, <2>2, <2>3
  <1>9. \A t \in Servers : proc'[t].pc # "insert"
    BY DEF OneServer
  <1> QED
    BY <1>8, <1>9 DEF NumberInv, At

LEMMA NumberStep ==
    ASSUME OneServer, TrialDays = 0, IInv, PastInv, NumberInv, [Next]_vars
    PROVE  NumberInv'
  <1>0. Servers \subseteq Procs /\ Worker \in Procs /\ proc[Worker].pc = "idle"
    BY Typed DEF PastInv, At
  <1>1. UNCHANGED invoices => SameRows
    BY DEF SameRows
  <1>2. ASSUME NEW s \in Servers, Arrive(s) PROVE NumberInv'
    <2>1. /\ UNCHANGED invoices
          /\ UNCHANGED proc \/ Accepted(s)
      BY <1>2, Arrives
    <2>2. \A t \in Servers : proc'[t] = proc[t] \/ proc'[t].pc # "insert"
      BY <2>1, <1>0 DEF Accepted, Alone
    <2> QED
      BY <1>1, <2>1, <2>2, NumberKept
  <1>3. ASSUME NEW s \in Servers, Continue(s) PROVE NumberInv'
    <2>1. /\ UNCHANGED invoices /\ Alone(s)
          /\ Activated(s) \/ Changed(s) \/ Wrote(s) \/ GivesBack(s)
      BY <1>3, Continues
    <2>2. Named(proc[s])
      BY Typed
    <2>3. proc'[s].pc # "insert"
      BY <2>1, <2>2 DEF Activated, Changed, Wrote, GivesBack, Returns, Named
    <2>4. \A t \in Servers : proc'[t] = proc[t] \/ proc'[t].pc # "insert"
      BY <1>0, <2>1, <2>3 DEF Alone
    <2> QED
      BY <1>1, <2>1, <2>4, NumberKept
  <1>4. ASSUME NEW p \in Procs, Billing(p) PROVE NumberInv'
    <2>1. /\ Alone(p)
          /\ \/ proc[p].pc = "number" /\ UNCHANGED invoices /\ proc'[p].no = NextNumber
             \/ proc[p].pc = "insert" /\ UNCHANGED invoices /\ Returns(p)
             \/ /\ proc[p].pc = "insert"
                /\ invoices' = Append(invoices, InvoiceOf(p)) /\ InvoiceOf(p) \in Invoice
                /\ IF proc[p].then = "end" THEN proc'[p].pc = "end" ELSE Returns(p)
      BY <1>4, Bills
    <2>2. p \in Servers
      BY <1>0, <2>1 DEF Procs
    <2>3. CASE UNCHANGED invoices
      <3>1. proc'[p].pc = "insert" => proc'[p].no = NextNumber
        BY <2>1, <2>3 DEF Returns
      <3>2. \A t \in Servers : t # p => proc'[t] = proc[t]
        BY <1>0, <2>1 DEF Alone
      <3> QED
        BY <1>1, <2>3, <3>1, <3>2, NumberKept
    <2>4. CASE /\ proc[p].pc = "insert"
               /\ invoices' = Append(invoices, InvoiceOf(p)) /\ InvoiceOf(p) \in Invoice
               /\ IF proc[p].then = "end" THEN proc'[p].pc = "end" ELSE Returns(p)
      <3>1. proc'[p].pc # "insert"
        BY <2>4 DEF Returns
      <3> QED
        BY <2>2, <2>4, <3>1, NumberGrows
    <2> QED
      BY <2>1, <2>3, <2>4
  <1>5. CASE Jobs
    <2>1. UNCHANGED invoices /\ Alone(Worker)
      BY <1>5, Works
    <2>2. \A t \in Servers : proc'[t] = proc[t]
      BY <2>1, Typed DEF Alone
    <2> QED
      BY <1>1, <2>1, <2>2, NumberKept
  <1>6. CASE \/ Rest \/ Tick \/ UNCHANGED vars
             \/ \E p \in Procs : Crash(p)
             \/ \E n \in DOMAIN invoices : Close(n)
    <2>1. /\ SameRows
          /\ UNCHANGED proc \/ \E p \in Procs : proc' = [proc EXCEPT ![p] = Idle]
      BY <1>6, Passes
    <2>2. \A t \in Servers : proc'[t] = proc[t] \/ proc'[t].pc # "insert"
      <3>1. proc \in [Procs -> Process] /\ Idle.pc = "idle"
        BY DEF IInv, TypeOK, Idle
      <3> QED
        BY <1>0, <2>1, <3>1
    <2> QED
      BY <2>1, <2>2, NumberKept
  <1> QED
    BY <1>2, <1>3, <1>4, <1>5, <1>6 DEF Next

-----------------------------------------------------------------------------
(* In advance *)

\* A period that starts some period is that of the day, over, or to come.
LEMMA ThreeWays ==
    ASSUME sub \in Row, NEW day \in Days, NEW per \in Int, Aligned(per)
    PROVE  per = PeriodStart(day) \/ per + Period <= day \/ day < per
  <1>1. PICK other \in Days : per = PeriodStart(other)
    BY DEF Aligned
  <1>2. ASSUME per <= day, day < per + Period PROVE per = PeriodStart(day)
    BY <1>1, <1>2, SamePeriod
  <1> QED
    BY <1>2, ConstantsAssumption DEF Days

LEMMA BalanceInt ==
    ASSUME IInv
    PROVE  Most \in Nat /\ \A per \in Int : Balance(per) \in Int
  <1>1. sub.plan \in Plans /\ Period - 1 \in Nat
    BY Typed, ConstantsAssumption DEF Row
  <1>2. Most \in Nat
    BY <1>1, DearestIs, Product DEF Most
  <1>3. \A per \in Int : Net(per) \in Int
    BY SumsNat DEF IInv
  <1> QED
    BY <1>2, <1>3 DEF Balance, Unbilled

LEMMA Periods ==
    ASSUME IInv, BalanceInv, sub.adv, crashes = 0, NEW per \in Int, Aligned(per)
    PROVE  /\ Covered(per) /\ Balance(per) \in Int /\ Balance(per) >= 0 /\ Most \in Nat
           /\ now < per => Balance(per) >= Most
           /\ \A s \in Servers : proc[s].pc # "idle" /\ proc[s].day < per => Balance(per) >= Most
  <1>1. Covered(per)
    BY DEF BalanceInv, Aligned
  <1>2. Balance(per) \in Int /\ Most \in Nat
    BY BalanceInt
  <1> QED
    BY <1>1, <1>2 DEF Covered, At

LEMMA BalanceSame ==
    ASSUME IInv, IInv', SameRows, UNCHANGED notes
    PROVE  \A per \in Int : Balance(per)' = Balance(per)
  <1> SUFFICES ASSUME NEW per \in Int PROVE Balance(per)' = Balance(per)
    OBVIOUS
  <1>1. Net(per)' = Net(per)
    BY NetKept DEF IInv, SameRows
  <1>2. HasFee(per)' <=> HasFee(per)
    BY DEF SameRows, HasFee
  <1> QED
    BY <1>1, <1>2 DEF Balance, Unbilled, Most

LEMMA SameAgain == UNCHANGED invoices => SameRows
  BY DEF SameRows

\* A step that moves no period
LEMMA BalanceKept ==
    ASSUME IInv, BalanceInv, SameDates, sub'.adv = sub.adv, crashes' = crashes,
           sub.adv /\ crashes = 0 =>
             /\ Billed'
             /\ \A per \in Int : Aligned(per) => Covered(per)'
             /\ UNCHANGED notes \/ \A n \in DOMAIN notes' : Aligned(notes'[n].per)
    PROVE  BalanceInv'
  <1> SUFFICES ASSUME sub.adv, crashes = 0 PROVE BalanceInv'
    BY DEF BalanceInv
  <1>1. \A d \in Days : PeriodStart(d)' = PeriodStart(d) /\ PeriodStart(d) \in Int
    BY Typed, InPeriod DEF SameDates, PeriodStart, Anchor
  <1>2. ASSUME NEW d \in Days PROVE Covered(PeriodStart(d))'
    <2>1. PICK per \in Int : per = PeriodStart(d) /\ per = PeriodStart(d)'
      BY <1>1
    <2>2. Covered(per)'
      BY <2>1 DEF Aligned
    <2> QED
      BY <2>1, <2>2
  <1>3. ASSUME NEW n \in DOMAIN notes' PROVE Aligned(notes[n].per)'
    <2>1. Aligned(notes'[n].per)
      BY DEF BalanceInv
    <2>2. PICK d \in Days : notes'[n].per = PeriodStart(d)
      BY <2>1 DEF Aligned
    <2> QED
      BY <1>1, <2>2 DEF Aligned
  <1> QED
    BY <1>2, <1>3 DEF BalanceInv

\* What has to be covered when the one API process has gone on
LEMMA CoveredAfter ==
    ASSUME OneServer, NEW s \in Servers, NEW per \in Int, NEW net \in Int, Balance(per)' = net,
           NEW plan, plan = sub'.plan, net >= 0,
           \A day : proc'[s].pc = "credit" /\ day = proc'[s].day => net >= Worth(plan, per, day),
           \A day : proc'[s].pc \in {"idle", "pause", "resume"} /\ sub'.st \notin Ended
                      /\ day = now' => net >= Worth(plan, per, day),
           now' < per => net >= Most,
           proc'[s].pc # "idle" /\ proc'[s].day < per => net >= Most
    PROVE  Covered(per)'
  <1> SUFFICES ASSUME NEW t \in Servers
               PROVE  /\ ~At(t, "idle")' /\ proc'[t].day < per => net >= Most
                      /\ At(t, "credit")' => net >= Worth(sub.plan, per, proc[t].day)'
                      /\ proc'[t].pc \in {"idle", "pause", "resume"} /\ sub'.st \notin Ended =>
                           net >= Worth(sub.plan, per, now)'
    BY DEF Covered, Most
  <1>1. t = s
    BY DEF OneServer
  <1>2. At(s, "credit")' => net >= Worth(sub.plan, per, proc[s].day)'
    BY DEF At, Worth, Left
  <1>3. proc'[s].pc \in {"idle", "pause", "resume"} /\ sub'.st \notin Ended =>
          net >= Worth(sub.plan, per, now)'
    BY DEF Worth, Left
  <1> QED
    BY <1>1, <1>2, <1>3 DEF At, Worth, Left

\* Whoever goes on with the day it began, or returns, credits no period to come.
LEMMA ToCome ==
    ASSUME IInv, BalanceInv, sub.adv, crashes = 0, UNCHANGED now, NEW s \in Servers,
           proc'[s].pc = "idle" \/ (proc[s].pc # "idle" /\ proc'[s].day = proc[s].day),
           NEW per \in Int, Aligned(per)
    PROVE  /\ now' < per => Balance(per) >= Most
           /\ proc'[s].pc # "idle" /\ proc'[s].day < per => Balance(per) >= Most
  BY Periods

\* Where nothing has been invoiced, every period may be credited once.
LEMMA BeforeRows ==
    ASSUME IInv, IInv', Billed', invoices = <<>>, notes = <<>>, UNCHANGED <<invoices, notes>>
    PROVE  BalanceInv'
  <1>0. /\ Servers \subseteq Procs /\ sub'.plan \in Plans /\ now' \in Days
        /\ \A t \in Procs : proc'[t].day \in Days
    BY DEF IInv, TypeOK, Row, Held, Process, Procs
  <1>1. ASSUME NEW per \in Int PROVE Balance(per)' = Most
    <2>1. Net(per) = 0 /\ ~HasFee(per)
      BY NothingYet DEF HasFee
    <2>2. Balance(per)' = Balance(per)
      BY BalanceSame, SameAgain
    <2> QED
      BY <2>1, <2>2, BalanceInt DEF Balance, Unbilled
  <1>2. \A plan \in Plans, per \in Int, d \in Days : Worth(plan, per, d) <= Most
    <2> SUFFICES ASSUME NEW plan \in Plans, NEW per \in Int, NEW d \in Days
                 PROVE  Worth(plan, per, d) <= Most
      OBVIOUS
    <2>1. d <= d
      BY DEF Days
    <2> QED
      BY <2>1, WorthFalls
  <1>3. ASSUME NEW per \in Int PROVE Covered(per)'
    <2>1. PICK plan \in Plans : plan = sub'.plan
      BY <1>0
    <2>2. ASSUME NEW t \in Servers
          PROVE  Most >= Worth(sub.plan, per, proc[t].day)' /\ Most >= Worth(sub.plan, per, now)'
      <3>1. PICK d \in Days : d = proc'[t].day
        BY <1>0
      <3>2. PICK e \in Days : e = now'
        BY <1>0
      <3>3. Worth(plan, per, d) <= Most /\ Worth(plan, per, e) <= Most
        BY <1>2
      <3>4. /\ Worth(sub.plan, per, proc[t].day)' = Worth(plan, per, d)
            /\ Worth(sub.plan, per, now)' = Worth(plan, per, e)
        BY <2>1, <3>1, <3>2 DEF Worth, Left
      <3>5. Worth(plan, per, d) \in Nat /\ Worth(plan, per, e) \in Nat /\ Most \in Nat
        <4>1. d <= d /\ e <= e
          BY DEF Days
        <4> QED
          BY <4>1, WorthFalls
      <3> QED
        BY <3>3, <3>4, <3>5
    <2>3. Most \in Nat /\ Most >= 0 /\ Most >= Most
      BY BalanceInt
    <2> QED
      BY <1>1, <2>2, <2>3 DEF Covered, Most
  <1>4. \A d \in Days : PeriodStart(d)' \in Int
    <2>1. sub' \in Row
      BY DEF IInv, TypeOK
    <2>2. /\ Period \in Nat \ {0} /\ Anchor' \in Int /\ Days \subseteq Int
      BY <2>1, ConstantsAssumption DEF Days, MaybeDay, Row, Anchor, NoDay
    <2>3. ASSUME NEW d \in Days PROVE PeriodStart(d)' \in Int
      <3>1. d - Anchor' \in Int /\ d \in Int
        BY <2>2
      <3>2. ((d - Anchor') \div Period) * Period \in Int /\ d % Period \in Int
        BY <2>2, <3>1, DivBounds, ModBounds
      <3> QED
        BY <2>2, <3>1, <3>2 DEF PeriodStart
    <2> QED
      BY <2>3
  <1>5. ASSUME NEW d \in Days PROVE Covered(PeriodStart(d))'
    <2>1. PICK per \in Int : per = PeriodStart(d)'
      BY <1>4
    <2>2. Covered(per)'
      BY <1>3
    <2> QED
      BY <2>1, <2>2
  <1>6. ~\E n \in DOMAIN notes' : TRUE
    OBVIOUS
  <1> QED
    BY <1>5, <1>6 DEF BalanceInv

LEMMA BalanceArrives ==
    ASSUME OneServer, Puts \subseteq Ended, IInv, IInv', PastInv, BalanceInv, NEW s \in Servers,
           Arrive(s)
    PROVE  BalanceInv'
  <1>1. /\ UNCHANGED <<invoices, notes, now, ran, crashes>>
        /\ \/ UNCHANGED proc /\ sub.st = "none" /\ sub'.st # "none" /\ proc[s].pc = "idle"
           \/ /\ UNCHANGED proc /\ SamePlan /\ sub.st # "none" /\ proc[s].pc = "idle"
              /\ sub'.st = sub.st \/ sub'.st \in Puts
           \/ Accepted(s)
    BY Arrives
  <1>2. \A per \in Int : Balance(per)' = Balance(per)
    BY <1>1, BalanceSame, SameAgain
  <1>3. /\ Servers \subseteq Procs /\ now \in Days /\ sub.plan \in Plans
        /\ \A t \in Servers : t = s
    BY Typed DEF Row, OneServer
  <1>4. CASE UNCHANGED proc /\ sub.st = "none"
    <2>1. invoices = <<>> /\ notes = <<>> /\ \A p \in Procs : proc'[p].pc = "idle"
      BY <1>1, <1>4 DEF PastInv, Unborn, At
    <2>2. Billed'
      BY <1>3, <2>1 DEF Billed, BillsFee
    <2> QED
      BY <1>1, <2>1, <2>2, BeforeRows
  <1>5. CASE /\ UNCHANGED proc /\ SamePlan /\ sub.st # "none" /\ proc[s].pc = "idle"
             /\ sub'.st = sub.st \/ sub'.st \in Puts
    <2> SUFFICES ASSUME sub.adv, crashes = 0 PROVE BalanceInv'
      BY <1>1, <1>5 DEF BalanceInv, SamePlan
    <2>1. Billed'
      BY <1>3, <1>5 DEF Billed, BillsFee
    <2>2. ASSUME NEW per \in Int, Aligned(per) PROVE Covered(per)'
      <3>1. Balance(per) \in Int /\ Balance(per) >= 0 /\ Covered(per)
        BY <2>2, Periods
      <3>2. sub'.st \notin Ended => Balance(per) >= Worth(sub.plan, per, now)
        BY <1>5, <3>1 DEF Covered
      <3>3. sub'.plan = sub.plan /\ proc'[s].pc = "idle" /\ now' = now
        BY <1>1, <1>5 DEF SamePlan
      <3>4. now' < per => Balance(per) >= Most
        BY <2>2, <3>3, Periods
      <3> QED
        BY <1>2, <3>1, <3>2, <3>3, <3>4, CoveredAfter
    <2> QED
      BY <1>1, <1>5, <2>1, <2>2, BalanceKept DEF SamePlan
  <1>6. CASE Accepted(s)
    <2> SUFFICES ASSUME sub.adv, crashes = 0 PROVE BalanceInv'
      BY <1>1, <1>6 DEF BalanceInv, Accepted
    <2>1. /\ sub' = sub /\ sub.st \notin Ended /\ proc[s].pc = "idle" /\ proc'[s].day = now
          /\ proc'[s].pc \in {"number", "insert"} =>
               proc'[s].kind = "final" /\ proc'[s].then = "end"
      BY <1>6 DEF Accepted
    <2>2. Billed'
      BY <1>3, <2>1 DEF Billed, BillsFee
    <2>3. ASSUME NEW per \in Int, Aligned(per) PROVE Covered(per)'
      <3>1. Balance(per) \in Int /\ Balance(per) >= 0 /\ Covered(per)
        BY <2>3, Periods
      <3>2. Balance(per) >= Worth(sub.plan, per, now)
        BY <2>1, <3>1 DEF Covered
      <3>3. sub'.plan = sub.plan /\ proc'[s].day = now /\ now' = now
        BY <1>1, <2>1
      <3>4. now < per => Balance(per) >= Most
        BY <2>3, Periods
      <3> QED
        BY <1>2, <3>1, <3>2, <3>3, <3>4, CoveredAfter
    <2> QED
      BY <1>1, <2>1, <2>2, <2>3, BalanceKept DEF SameDates
  <1> QED
    BY <1>1, <1>4, <1>5, <1>6

\* A plan of which nothing is left on a day costs nothing for periods not to come.
LEMMA NothingLeft ==
    ASSUME sub \in Row, NEW p \in Plans, NEW day \in Days, ~(Unused(p, day) > 0),
           NEW per \in Int, Aligned(per), ~(day < per), NEW later \in Days, day <= later
    PROVE  Worth(p, per, later) = 0
  <1>1. Worth(p, per, day) = 0
    <2>1. CASE per = PeriodStart(day)
      <3>1. Worth(p, per, day) = Unused(p, day) /\ Unused(p, day) \in Nat
        BY <2>1, WorthOfRest, Amounts
      <3> QED
        BY <3>1
    <2>2. CASE per + Period <= day
      BY <2>2, WorthFalls
    <2> QED
      BY <2>1, <2>2, ThreeWays
  <1>2. Worth(p, per, later) <= Worth(p, per, day) /\ Worth(p, per, later) \in Nat
    BY WorthFalls
  <1> QED
    BY <1>1, <1>2

LEMMA NoteType ==
    ASSUME IInv, NEW s \in Servers, NEW day \in Days, day = proc[s].day
    PROVE  /\ NoteOf(s) \in Note /\ NoteOf(s).per = PeriodStart(day)
           /\ NoteOf(s).amt = Unused(sub.plan, day)
  <1>1. sub \in Row /\ sub.plan \in Plans /\ now \in Days
    BY Typed DEF Row
  <1>2. PeriodStart(day) \in Int /\ Unused(sub.plan, day) \in Nat
    BY <1>1, InPeriod, Amounts
  <1> QED
    BY <1>1, <1>2 DEF NoteOf, Note, CreditOf

\* The new plan's rest is billed next, unless nothing is left of the period.
LEMMA BalanceChanges ==
    ASSUME OneServer, IInv, IInv', PastInv, BalanceInv, sub.adv, crashes = 0, NEW s \in Servers,
           UNCHANGED <<invoices, now, crashes>>, Changed(s)
    PROVE  BalanceInv'
  <1>1. /\ s \in Procs /\ now \in Days /\ sub \in Row /\ \A t \in Servers : t = s
        /\ proc[s] \in Process /\ Named(proc[s])
    BY Typed DEF OneServer
  <1>2. PICK day \in Days : day = proc[s].day /\ day <= now
    BY <1>1, Typed DEF PastInv
  <1>3. /\ proc[s].pc = "change" /\ proc[s].plan \in Plans /\ sub'.plan = proc[s].plan
        /\ SameDates /\ UNCHANGED notes /\ sub'.adv = sub.adv
    BY <1>1 DEF Changed, Named
  <1>4. \/ proc'[s].pc = "number" /\ proc'[s].day = day
        \/ proc'[s].pc = "idle" /\ ~(Unused(proc[s].plan, day) > 0)
    BY <1>2 DEF Changed, Returns, GoesOn
  <1>5. Billed'
    BY <1>1 DEF Billed, BillsFee, Changed, Returns
  <1>6. ASSUME NEW per \in Int, Aligned(per) PROVE Covered(per)'
    <2>1. PICK net \in Int : net = Balance(per) /\ net >= 0
      BY <1>6, Periods
    <2>2. Balance(per)' = net
      BY <1>3, <2>1, BalanceSame, SameAgain
    <2>3. /\ now' < per => net >= Most
          /\ proc'[s].pc # "idle" /\ proc'[s].day < per => net >= Most
          /\ day < per => net >= Most
      <3>1. proc'[s].pc = "idle" \/ (proc[s].pc # "idle" /\ proc'[s].day = proc[s].day)
        BY <1>2, <1>3, <1>4
      <3> QED
        BY <1>2, <1>3, <1>6, <2>1, <3>1, ToCome, Periods
    <2>4. PICK p \in Plans : p = proc[s].plan
      BY <1>3
    <2>5. ASSUME proc'[s].pc = "idle" PROVE net >= Worth(p, per, now)
      <3>1. CASE day < per
        <4>1. Worth(p, per, now) <= Most /\ Worth(p, per, now) \in Nat /\ Most \in Nat
          BY <1>1, <1>2, WorthFalls
        <4> QED
          BY <2>1, <2>3, <3>1, <4>1
      <3>2. CASE ~(day < per)
        <4>1. Worth(p, per, now) = 0
          BY <1>1, <1>2, <1>4, <1>6, <2>4, <2>5, <3>2, NothingLeft
        <4> QED
          BY <2>1, <4>1
      <3> QED
        BY <3>1, <3>2
    <2> QED
      BY <1>3, <1>4, <2>1, <2>2, <2>3, <2>4, <2>5, CoveredAfter
  <1> QED
    BY <1>3, <1>5, <1>6, BalanceKept

\* A credit takes no more from the balance than the plan is worth.
LEMMA BalanceCredits ==
    ASSUME OneServer, IInv, IInv', PastInv, BalanceInv, sub.adv, crashes = 0, NEW s \in Servers,
           UNCHANGED <<invoices, now, crashes>>, GivesBack(s)
    PROVE  BalanceInv'
  <1>1. /\ s \in Procs /\ now \in Days /\ sub \in Row /\ sub.plan \in Plans
        /\ \A t \in Servers : t = s
        /\ proc[s] \in Process /\ Named(proc[s]) /\ TypeOK /\ notes \in Seq(Note)
    BY Typed DEF Row, OneServer, IInv
  <1>2. PICK day \in Days : day = proc[s].day /\ day <= now
    BY <1>1, Typed DEF PastInv
  <1>3. /\ proc[s].pc = "credit" /\ sub' = sub /\ proc[s].then \in {"change", "end"}
        /\ \/ proc'[s].pc = proc[s].then /\ proc'[s].day = day
              /\ (UNCHANGED notes \/ notes' = Append(notes, NoteOf(s)))
           \/ proc'[s].pc = "idle" /\ UNCHANGED notes
    BY <1>1, <1>2 DEF GivesBack, Named, GoesOn, Returns
  <1>4. Billed'
    BY <1>1, <1>3 DEF Billed, BillsFee
  <1>5. /\ NoteOf(s) \in Note /\ NoteOf(s).per = PeriodStart(day)
        /\ NoteOf(s).amt = Unused(sub.plan, day) /\ Unused(sub.plan, day) \in Nat
    BY <1>1, <1>2, NoteType, Amounts
  <1>6. ASSUME NEW per \in Int, Aligned(per) PROVE Covered(per)'
    <2>1. PICK net \in Int : net = Balance(per) /\ net >= 0
      BY <1>6, Periods
    <2>2. net >= Worth(sub.plan, per, day)
      BY <1>2, <1>3, <1>6, <2>1, Periods DEF Covered, At
    <2>3. /\ now' < per => net >= Most
          /\ proc'[s].pc # "idle" /\ proc'[s].day < per => net >= Most
      <3>1. proc'[s].pc = "idle" \/ (proc[s].pc # "idle" /\ proc'[s].day = proc[s].day)
        BY <1>2, <1>3
      <3> QED
        BY <1>6, <2>1, <3>1, ToCome
    <2>4. CASE UNCHANGED notes
      <3>1. Balance(per)' = net
        BY <2>1, <2>4, BalanceSame, SameAgain
      <3>2. /\ Worth(sub.plan, per, now) <= Worth(sub.plan, per, day)
            /\ Worth(sub.plan, per, now) \in Nat /\ Worth(sub.plan, per, day) \in Nat
        BY <1>1, <1>2, WorthFalls
      <3>3. net >= Worth(sub.plan, per, now)
        BY <2>1, <2>2, <3>2
      <3> QED
        BY <1>3, <2>1, <2>3, <3>1, <3>3, CoveredAfter
    <2>5. CASE notes' = Append(notes, NoteOf(s)) /\ proc'[s].pc \in {"change", "end"}
      <3>1. Net(per)' = Net(per) - (IF NoteOf(s).per = per THEN NoteOf(s).amt ELSE 0)
        BY <1>1, <1>5, <2>5, NetCredited
      <3>2. Unbilled(per)' = Unbilled(per) /\ Unbilled(per) \in Nat /\ Net(per) \in Int
        BY <1>1, BalanceInt, SumsNat DEF Unbilled, HasFee, Most
      <3>3. Balance(per)' = net - (IF NoteOf(s).per = per THEN NoteOf(s).amt ELSE 0)
        BY <1>5, <2>1, <3>1, <3>2 DEF Balance
      <3>4. NoteOf(s).per = per => NoteOf(s).amt = Worth(sub.plan, per, day)
        BY <1>1, <1>5, WorthOfRest
      <3>5. now < per \/ proc'[s].day < per => NoteOf(s).per # per
        <4>1. PeriodStart(day) <= day /\ PeriodStart(day) \in Int
          BY <1>1, InPeriod
        <4> QED
          BY <1>2, <1>3, <1>5, <2>5, <4>1, Typed DEF Days
      <3>6. PICK rest \in Int : rest = Balance(per)' /\ rest >= 0
        <4>1. CASE NoteOf(s).per = per
          BY <1>5, <2>1, <2>2, <3>3, <3>4, <4>1
        <4>2. CASE NoteOf(s).per # per
          BY <2>1, <3>3, <4>2
        <4> QED
          BY <4>1, <4>2
      <3>7. NoteOf(s).per # per => rest = net
        BY <2>1, <3>3, <3>6
      <3> QED
        BY <2>3, <2>5, <3>5, <3>6, <3>7, CoveredAfter
    <2> QED
      BY <1>3, <2>4, <2>5
  <1>7. UNCHANGED notes \/ \A n \in DOMAIN notes' : Aligned(notes'[n].per)
    <2>1. CASE notes' = Append(notes, NoteOf(s))
      <3>1. \A n \in DOMAIN notes' :
              notes'[n] = NoteOf(s) \/ (n \in DOMAIN notes /\ notes'[n] = notes[n])
        BY <1>1, <1>5, <2>1
      <3>2. Aligned(NoteOf(s).per)
        BY <1>5 DEF Aligned
      <3> QED
        BY <3>1, <3>2 DEF BalanceInv
    <2> QED
      BY <1>3, <2>1
  <1>8. SameDates /\ sub'.adv = sub.adv
    BY <1>3 DEF SameDates
  <1> QED
    BY <1>4, <1>6, <1>7, <1>8, BalanceKept

LEMMA BalanceContinues ==
    ASSUME OneServer, IInv, IInv', FeeInv, AliveInv, PastInv, BalanceInv, NEW s \in Servers,
           Continue(s)
    PROVE  BalanceInv'
  <1>1. /\ UNCHANGED <<invoices, now, ran, crashes>> /\ Alone(s)
        /\ Activated(s) \/ Changed(s) \/ Wrote(s) \/ GivesBack(s)
    BY Continues
  <1>2. sub'.adv = sub.adv
    BY <1>1 DEF Activated, Changed, Wrote, GivesBack, SamePlan
  <1>3. \A t \in Servers : t = s
    BY DEF OneServer
  <1> SUFFICES ASSUME sub.adv, crashes = 0 PROVE BalanceInv'
    BY <1>1, <1>2 DEF BalanceInv
  <1>4. CASE Activated(s)
    <2>1. sub.st = "pending"
      BY <1>4 DEF Activated, FeeInv, At
    <2>2. invoices = <<>> /\ notes = <<>> /\ UNCHANGED notes
      BY <1>4, <2>1 DEF PastInv, Unborn, Activated
    <2>3. Billed'
      BY <1>1, <1>3, <1>4, <2>2 DEF Billed, BillsFee, Activated, Returns
    <2> QED
      BY <1>1, <2>2, <2>3, BeforeRows
  <1>5. CASE Wrote(s)
    <2>1. /\ SamePlan /\ UNCHANGED notes /\ proc'[s].pc = "idle"
          /\ \/ proc[s].pc \in {"pause", "resume"} /\ sub'.st \in {"active", "paused"}
             \/ proc[s].pc = "end" /\ sub'.st = proc[s].to
      BY <1>5 DEF Wrote, Returns
    <2>2. Billed'
      BY <1>3, <2>1 DEF Billed, BillsFee
    <2>3. ASSUME NEW per \in Int, Aligned(per) PROVE Covered(per)'
      <3>1. Balance(per) \in Int /\ Balance(per) >= 0 /\ Covered(per)
        BY <2>3, Periods
      <3>2. Balance(per)' = Balance(per)
        BY <1>1, <2>1, BalanceSame, SameAgain
      <3>3. proc[s].pc \in {"pause", "resume"} => Balance(per) >= Worth(sub.plan, per, now)
        BY <3>1 DEF Covered, AliveInv, Decides
      <3>4. proc[s].pc = "end" => sub'.st \in Ended
        BY <2>1 DEF FeeInv, At
      <3>5. sub'.plan = sub.plan /\ now' = now
        BY <1>1, <2>1 DEF SamePlan
      <3>6. now' < per => Balance(per) >= Most
        BY <2>3, <3>5, Periods
      <3> QED
        BY <2>1, <3>1, <3>2, <3>3, <3>4, <3>5, <3>6, CoveredAfter
    <2> QED
      BY <1>1, <2>1, <2>2, <2>3, BalanceKept DEF SamePlan
  <1> QED
    BY <1>1, <1>4, <1>5, BalanceChanges, BalanceCredits

LEMMA BalanceNumbers ==
    ASSUME OneServer, IInv, IInv', BalanceInv, NEW s \in Servers,
           UNCHANGED <<sub, invoices, notes, now, crashes>>, Alone(s), proc[s].pc = "number",
           proc'[s].pc = "insert", proc'[s].kind = proc[s].kind, proc'[s].then = proc[s].then,
           proc'[s].plan = proc[s].plan, proc'[s].day = proc[s].day
    PROVE  BalanceInv'
  <1> SUFFICES ASSUME sub.adv, crashes = 0 PROVE BalanceInv'
    BY DEF BalanceInv
  <1>1. SameDates /\ \A t \in Servers : t = s
    BY DEF SameDates, OneServer
  <1>2. Billed'
    BY <1>1 DEF BalanceInv, Billed, BillsFee
  <1>3. ASSUME NEW per \in Int, Aligned(per) PROVE Covered(per)'
    <2>1. Balance(per) \in Int /\ Balance(per) >= 0
      BY <1>3, Periods
    <2>2. Balance(per)' = Balance(per)
      BY BalanceSame, SameAgain
    <2>3. /\ now' < per => Balance(per) >= Most
          /\ proc'[s].pc # "idle" /\ proc'[s].day < per => Balance(per) >= Most
      BY <1>3, ToCome
    <2> QED
      BY <2>1, <2>2, <2>3, CoveredAfter
  <1> QED
    BY <1>1, <1>2, <1>3, BalanceKept

\* The fee is the first of all.
LEMMA BalanceFee ==
    ASSUME OneServer, IInv, IInv', PastInv, Billed, BalanceInv, NEW s \in Servers,
           UNCHANGED <<sub, notes, now, crashes>>, Alone(s), proc[s].pc = "insert",
           proc[s].kind = "fee",
           invoices' = Append(invoices, InvoiceOf(s)), InvoiceOf(s) \in Invoice,
           proc[s].plan \in Plans, proc[s].then = "end" \/ Returns(s)
    PROVE  BalanceInv'
  <1>0. /\ sub \in Row /\ sub.plan \in Plans /\ now \in Days /\ s \in Procs
        /\ \A t \in Servers : t = s
    BY Typed DEF Row, OneServer
  <1>1. PICK day \in Days : day = proc[s].day /\ day <= now
    BY <1>0, Typed DEF PastInv
  <1>2. PICK fee \in Int : fee = PeriodStart(day) /\ fee <= day
    BY <1>0, InPeriod
  <1>3. /\ proc[s].plan = sub.plan /\ proc[s].then = "idle" /\ invoices = <<>> /\ notes = <<>>
        /\ proc'[s].pc = "idle"
    BY DEF Billed, BillsFee, Returns
  <1>4. DOMAIN invoices' = {1} /\ invoices'[1] = InvoiceOf(s)
    BY <1>3
  <1>5. /\ InvoiceOf(s).per = fee /\ InvoiceOf(s).day = day /\ InvoiceOf(s).kind = "fee"
        /\ InvoiceOf(s).amt = Price[sub.plan] * Period /\ Price[sub.plan] * Period \in Nat
    BY <1>0, <1>1, <1>2, <1>3, Amounts DEF InvoiceOf, AmountOf
  <1>6. ASSUME NEW per \in Int PROVE Covered(per)'
    <2>1. Net(per)' = IF fee = per THEN Price[sub.plan] * Period ELSE 0
      <3>1. Net(per) = 0
        BY <1>3, NothingYet
      <3>2. Net(per)' = Net(per) + (IF InvoiceOf(s).per = per THEN InvoiceOf(s).amt ELSE 0)
        BY NetInvoiced DEF IInv
      <3> QED
        BY <1>5, <3>1, <3>2
    <2>2. Unbilled(per)' = IF fee = per THEN 0 ELSE Most
      BY <1>4, <1>5 DEF Unbilled, HasFee, Most
    <2>3. /\ Worth(sub.plan, per, now) \in Nat /\ Most \in Nat
          /\ Worth(sub.plan, per, now) <= Price[sub.plan] * Period
          /\ Worth(sub.plan, per, now) <= Most
      <3>1. now <= now
        BY Typed
      <3> QED
        BY <1>0, <3>1, WorthFalls
    <2>4. Balance(per)' = IF fee = per THEN Price[sub.plan] * Period ELSE Most
      BY <1>5, <2>1, <2>2, <2>3 DEF Balance
    <2>5. PICK net \in Int : /\ net = Balance(per)' /\ net >= 0 /\ net >= Worth(sub.plan, per, now)
                             /\ now < per => net >= Most
      <3>1. CASE fee = per
        <4>1. ~(now < per)
          BY <1>1, <1>2, <3>1, Typed DEF Days
        <4> QED
          BY <1>5, <2>3, <2>4, <3>1, <4>1
      <3>2. CASE fee # per
        BY <2>3, <2>4, <3>2
      <3> QED
        BY <3>1, <3>2
    <2> QED
      BY <1>3, <2>5, CoveredAfter
  <1>7. Billed'
    BY <1>0, <1>3 DEF Billed, BillsFee
  <1>8. SameDates
    BY DEF SameDates
  <1> QED
    BY <1>6, <1>7, <1>8, BalanceKept

\* An invoice for what is left, or for the end, comes to the others.
LEMMA BalanceGrows ==
    ASSUME OneServer, IInv, IInv', PastInv, BalanceInv, sub.adv, crashes = 0, NEW s \in Servers,
           UNCHANGED <<sub, notes, now, crashes>>, Alone(s), proc[s].pc = "insert",
           proc[s].kind # "fee",
           invoices' = Append(invoices, InvoiceOf(s)), InvoiceOf(s) \in Invoice,
           proc[s].plan \in Plans,
           IF proc[s].then = "end" THEN proc'[s].pc = "end" /\ proc'[s].day = proc[s].day
                                   ELSE Returns(s)
    PROVE  BalanceInv'
  <1>0. /\ sub \in Row /\ sub.plan \in Plans /\ now \in Days /\ s \in Procs
        /\ \A t \in Servers : t = s
    BY Typed DEF Row, OneServer
  <1>1. PICK day \in Days : day = proc[s].day /\ day <= now
    BY <1>0, Typed DEF PastInv
  <1>2. /\ InvoiceOf(s).per = PeriodStart(day) /\ InvoiceOf(s).kind # "fee"
        /\ InvoiceOf(s).amt \in Nat
        /\ proc[s].kind = "prorated" => InvoiceOf(s).amt = Unused(sub.plan, day)
    BY <1>1 DEF InvoiceOf, AmountOf, BalanceInv, Billed, Invoice
  <1>3. PICK last \in Nat \ {0} :
          /\ last \in DOMAIN invoices' /\ invoices'[last] = InvoiceOf(s)
          /\ \A n \in DOMAIN invoices' : n = last \/ n \in DOMAIN invoices
          /\ \A n \in DOMAIN invoices : n # last /\ n \in DOMAIN invoices'
                                         /\ invoices'[n] = invoices[n]
    BY Typed, OneMore
  <1>4. \A per \in Int : HasFee(per)' <=> HasFee(per)
    BY <1>2, <1>3 DEF HasFee
  <1>5. \/ proc'[s].pc = "end" /\ proc'[s].day = day
        \/ proc'[s].pc = "idle" /\ proc[s].kind = "prorated"
    <2>1. proc[s].kind \in {"prorated", "final"}
      BY <1>0, Typed DEF Process
    <2>2. proc[s].kind = "final" => proc[s].then = "end"
      BY DEF BalanceInv, Billed
    <2>3. proc[s].then = "end" => proc'[s].pc = "end" /\ proc'[s].day = day
      BY <1>1
    <2>4. proc[s].then # "end" => proc'[s].pc = "idle"
      BY DEF Returns
    <2> QED
      BY <2>1, <2>2, <2>3, <2>4
  <1>6. Billed'
    BY <1>0, <1>5 DEF Billed, BillsFee
  <1>7. ASSUME NEW per \in Int, Aligned(per) PROVE Covered(per)'
    <2>1. PICK was \in Int : was = Balance(per) /\ was >= 0
      BY <1>7, Periods
    <2>2. Balance(per)' = was + (IF InvoiceOf(s).per = per THEN InvoiceOf(s).amt ELSE 0)
      <3>1. Net(per)' = Net(per) + (IF InvoiceOf(s).per = per THEN InvoiceOf(s).amt ELSE 0)
        BY NetInvoiced DEF IInv
      <3>2. Unbilled(per)' = Unbilled(per) /\ Unbilled(per) \in Nat /\ Net(per) \in Int
        BY <1>4, BalanceInt, SumsNat DEF Unbilled, Most, IInv
      <3> QED
        BY <1>2, <2>1, <3>1, <3>2 DEF Balance
    <2>3. PICK net \in Int : net = Balance(per)' /\ net >= was
      BY <1>2, <2>1, <2>2
    <2>4. /\ now' < per => net >= Most
          /\ proc'[s].pc # "idle" /\ proc'[s].day < per => net >= Most
          /\ day < per => net >= Most
      <3>1. proc'[s].pc = "idle" \/ (proc[s].pc # "idle" /\ proc'[s].day = proc[s].day)
        BY <1>1, <1>5
      <3>2. /\ now' < per => was >= Most
            /\ proc'[s].pc # "idle" /\ proc'[s].day < per => was >= Most
            /\ day < per => was >= Most
        BY <1>1, <1>7, <2>1, <3>1, ToCome, Periods
      <3>3. Most \in Nat
        BY BalanceInt
      <3>4. was >= Most => net >= Most
        BY <2>3, <3>3
      <3> QED
        BY <3>2, <3>4
    <2>5. /\ Worth(sub.plan, per, now) <= Worth(sub.plan, per, day)
          /\ Worth(sub.plan, per, now) \in Nat /\ Worth(sub.plan, per, day) \in Nat
          /\ Worth(sub.plan, per, day) <= Most /\ Most \in Nat
          /\ per + Period <= day => Worth(sub.plan, per, day) = 0
      BY <1>0, <1>1, WorthFalls
    <2>6. ASSUME proc'[s].pc = "idle" PROVE net >= Worth(sub.plan, per, now)
      <3>1. CASE per = PeriodStart(day)
        <4>1. Worth(sub.plan, per, day) = Unused(sub.plan, day)
          BY <1>0, <3>1, WorthOfRest
        <4>2. net = was + Worth(sub.plan, per, day)
          BY <1>2, <1>5, <2>2, <2>3, <2>6, <3>1, <4>1
        <4> QED
          BY <2>1, <2>3, <2>5, <4>2
      <3>2. CASE per + Period <= day
        BY <2>1, <2>3, <2>5, <3>2
      <3>3. CASE day < per
        BY <2>3, <2>4, <2>5, <3>3
      <3> QED
        BY <1>0, <1>7, <3>1, <3>2, <3>3, ThreeWays
    <2>7. proc'[s].pc \in {"end", "idle"}
      BY <1>5
    <2>8. net >= 0
      BY <2>1, <2>3
    <2> QED
      BY <2>3, <2>4, <2>6, <2>7, <2>8, CoveredAfter
  <1>8. SameDates
    BY DEF SameDates
  <1> QED
    BY <1>6, <1>7, <1>8, BalanceKept

LEMMA BalanceBills ==
    ASSUME OneServer, TrialDays = 0, IInv, IInv', PastInv, NumberInv, BalanceInv,
           NEW p \in Procs, Billing(p)
    PROVE  BalanceInv'
  <1>1. /\ UNCHANGED <<sub, notes, now, ran, crashes>> /\ Alone(p)
        /\ \/ /\ proc[p].pc = "number" /\ proc'[p].pc = "insert" /\ UNCHANGED invoices
              /\ proc'[p].kind = proc[p].kind /\ proc'[p].then = proc[p].then
              /\ proc'[p].plan = proc[p].plan /\ proc'[p].day = proc[p].day
           \/ /\ proc[p].pc = "insert"
              /\ \E n \in DOMAIN invoices : invoices[n].no = proc[p].no
           \/ /\ proc[p].pc = "insert"
              /\ invoices' = Append(invoices, InvoiceOf(p)) /\ InvoiceOf(p) \in Invoice
              /\ proc[p].plan \in Plans
              /\ IF proc[p].then = "end"
                   THEN proc'[p].pc = "end" /\ proc'[p].day = proc[p].day
                   ELSE Returns(p)
    BY Bills
  <1>2. p \in Servers
    BY <1>1 DEF PastInv, At, Procs
  <1> SUFFICES ASSUME sub.adv, crashes = 0 PROVE BalanceInv'
    BY <1>1 DEF BalanceInv
  <1>3. CASE proc[p].pc = "number"
    BY <1>1, <1>2, <1>3, BalanceNumbers
  <1>4. CASE /\ proc[p].pc = "insert"
             /\ invoices' = Append(invoices, InvoiceOf(p)) /\ InvoiceOf(p) \in Invoice
             /\ proc[p].plan \in Plans
             /\ IF proc[p].then = "end"
                  THEN proc'[p].pc = "end" /\ proc'[p].day = proc[p].day
                  ELSE Returns(p)
    <2>1. CASE proc[p].kind = "fee"
      BY <1>1, <1>2, <1>4, <2>1, BalanceFee DEF BalanceInv
    <2>2. CASE proc[p].kind # "fee"
      BY <1>1, <1>2, <1>4, <2>2, BalanceGrows
    <2> QED
      BY <2>1, <2>2
  <1> QED
    BY <1>1, <1>2, <1>3, <1>4, NoClash

LEMMA BalanceRest ==
    ASSUME TrialDays = 0, IInv, IInv', PastInv, BalanceInv,
           \/ Jobs \/ Rest \/ Tick \/ UNCHANGED vars
           \/ \E p \in Procs : Crash(p)
           \/ \E n \in DOMAIN invoices : Close(n)
    PROVE  BalanceInv'
  <1>0. /\ Worker \in Procs /\ Servers \subseteq Procs /\ Worker \notin Servers
        /\ proc[Worker].pc = "idle" /\ now \in Days /\ now' \in Days /\ crashes \in Nat
        /\ sub.plan \in Plans
    BY Typed DEF PastInv, At, IInv, TypeOK, Row
  <1>1. ASSUME SameRows, UNCHANGED notes, SamePlan, sub'.st = sub.st, crashes' = crashes,
               \A t \in Servers : proc'[t] = proc[t], now' = now \/ now' = now + 1
        PROVE  BalanceInv'
    <2> SUFFICES ASSUME sub.adv, crashes = 0 PROVE BalanceInv'
      BY <1>1 DEF BalanceInv, SamePlan
    <2>1. Billed'
      <3>1. invoices = <<>> => invoices' = <<>>
        BY <1>1, Typed DEF SameRows
      <3> QED
        BY <1>1, <3>1 DEF BalanceInv, Billed, BillsFee, SamePlan
    <2>2. ASSUME NEW per \in Int, Aligned(per) PROVE Covered(per)'
      <3>1. PICK net \in Int : net = Balance(per) /\ net >= 0
        BY <2>2, Periods
      <3>2. Balance(per)' = net
        BY <1>1, <3>1, BalanceSame
      <3>3. /\ Worth(sub.plan, per, now') <= Worth(sub.plan, per, now)
            /\ Worth(sub.plan, per, now') \in Nat /\ Worth(sub.plan, per, now) \in Nat
        <4>1. PICK later \in Days : later = now' /\ now <= later
          BY <1>0, <1>1 DEF Days
        <4> QED
          BY <1>0, <4>1, WorthFalls
      <3>4. ASSUME NEW t \in Servers, At(t, "credit")'
            PROVE  net >= Worth(sub.plan, per, proc[t].day)'
        BY <1>1, <2>2, <3>1, <3>4, Periods DEF Covered, At, SamePlan, Worth, Left
      <3>5. ASSUME NEW t \in Servers, proc'[t].pc \in {"idle", "pause", "resume"},
                   sub'.st \notin Ended
            PROVE  net >= Worth(sub.plan, per, now)'
        <4>1. net >= Worth(sub.plan, per, now)
          BY <1>1, <2>2, <3>1, <3>5, Periods DEF Covered
        <4>2. net >= Worth(sub.plan, per, now')
          BY <3>1, <3>3, <4>1
        <4> QED
          BY <1>1, <4>2 DEF SamePlan, Worth, Left
      <3>6. now' < per => net >= Most
        <4>1. now' < per => now < per
          BY <1>0, <1>1 DEF Days
        <4> QED
          BY <2>2, <3>1, <4>1, Periods
      <3>7. \A t \in Servers : proc'[t].pc # "idle" /\ proc'[t].day < per => net >= Most
        BY <1>1, <2>2, <3>1, Periods
      <3> QED
        BY <3>1, <3>2, <3>4, <3>5, <3>6, <3>7 DEF Covered, At, Most
    <2> QED
      BY <1>1, <2>1, <2>2, BalanceKept DEF SamePlan
  <1>2. CASE Jobs
    <2>1. UNCHANGED <<invoices, notes, now, crashes>> /\ SamePlan /\ sub'.st = sub.st
          /\ Alone(Worker)
      BY <1>2, Works
    <2>2. \A t \in Servers : proc'[t] = proc[t]
      BY <1>0, <2>1 DEF Alone
    <2> QED
      BY <1>1, <2>1, <2>2, SameAgain
  <1>3. CASE \/ Rest \/ Tick \/ UNCHANGED vars
             \/ \E p \in Procs : Crash(p)
             \/ \E n \in DOMAIN invoices : Close(n)
    <2>1. /\ UNCHANGED <<sub, notes>> /\ SameRows
          /\ \/ UNCHANGED <<proc, now, crashes>>
             \/ UNCHANGED <<proc, crashes>> /\ now' = now + 1
             \/ crashes' = crashes + 1
      BY <1>3, Passes
    <2>2. CASE crashes' = crashes + 1
      <3>1. crashes' # 0
        BY <1>0, <2>2
      <3> QED
        BY <3>1 DEF BalanceInv
    <2> QED
      BY <1>1, <2>1, <2>2 DEF SamePlan, SameDates
  <1> QED
    BY <1>2, <1>3

\* With one API process that does not crash, without trials, and with clients
\* that write no status but an end, nobody who pays in advance is given back
\* more for a period whose fee was invoiced than was invoiced for it, and for any
\* other period no more than that and one rest of the dearest plan: for any
\* plans, prices, periods, days, plan changes and endings.
THEOREM CreditWithinCostHolds ==
    ASSUME OneServer, TrialDays = 0, Puts \subseteq Ended
    PROVE  Spec => [](crashes = 0 => CreditWithinCost)
  <1> DEFINE All == /\ IInv /\ FeeInv /\ AliveInv /\ PastInv
                    /\ NumberInv /\ BalanceInv
  <1>0. "pending" \notin Puts
    BY DEF Ended
  <1>1. Init => All
    <2> SUFFICES ASSUME Init PROVE NumberInv /\ BalanceInv
      BY <1>0, Carried
    <2>1. invoices = <<>> /\ notes = <<>> /\ \A p \in Procs : proc[p].pc = "idle"
      BY DEF Init, Idle
    <2>2. /\ Servers \subseteq Procs
          /\ ~(\E n \in DOMAIN invoices : TRUE) /\ ~(\E n \in DOMAIN notes : TRUE)
      BY <2>1 DEF Procs
    <2>3. ~sub.adv
      BY DEF Init
    <2> QED
      BY <2>1, <2>2, <2>3 DEF NumberInv, Numbered, BalanceInv, At
  <1>2. All /\ [Next]_vars => All'
    <2> SUFFICES ASSUME All, [Next]_vars PROVE All'
      OBVIOUS
    <2>1. IInv' /\ FeeInv' /\ AliveInv' /\ PastInv' /\ NumberInv'
      BY <1>0, Carried, NumberStep
    <2>2. BalanceInv'
      BY <2>1, BalanceArrives, BalanceContinues, BalanceBills, BalanceRest DEF Next
    <2> QED
      BY <2>1, <2>2
  <1>3. All => (crashes = 0 => CreditWithinCost)
    <2> SUFFICES ASSUME All, crashes = 0, sub.adv, NEW n \in DOMAIN notes
                 PROVE  Credited(notes[n].per)
                          <= Invoiced(notes[n].per) + Unbilled(notes[n].per)
      BY DEF CreditWithinCost
    <2>0. notes \in Seq(Note) /\ notes[n] \in Note
      BY Typed
    <2>1. PICK per \in Int : per = notes[n].per
      BY <2>0 DEF Note
    <2>2. Aligned(per)
      BY <2>1 DEF BalanceInv
    <2>3. Balance(per) >= 0 /\ Most \in Nat
      BY <2>2, Periods
    <2>4. Invoiced(per) \in Nat /\ Credited(per) \in Nat
      BY SumsNat DEF IInv
    <2>5. Unbilled(per) \in Nat
      BY <2>3 DEF Unbilled
    <2> QED
      BY <2>1, <2>3, <2>4, <2>5 DEF Net, Balance
  <1> QED
    BY <1>1, <1>2, <1>3, PTL DEF Spec

=============================================================================
