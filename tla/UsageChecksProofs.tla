-------------------------- MODULE UsageChecksProofs --------------------------
(***************************************************************************)
(* For any events, thresholds, alerts, handlers and bounds: UsageChecks is *)
(* type correct, nothing is announced that is not on record or more often  *)
(* than it is, and all that the period's usage reaches is on record once   *)
(* nothing is under way; where one worker runs the jobs, no threshold is   *)
(* recorded twice in a period.                                             *)
(***************************************************************************)
EXTENDS UsageChecks, TLAPS, FiniteSetTheorems

-----------------------------------------------------------------------------
(* Operators *)

\* Usage is a number.
LEMMA UsedNat ==
    ASSUME NEW S \in SUBSET Txns, NEW p
    PROVE  Used(S, p) \in Nat
  <1>1. IsFiniteSet({x \in S : stamp[x] = p})
    BY ConstantsAssumption, FS_Subset
  <1> QED
    BY <1>1, FS_CardinalityType DEF Used

\* So is how often an alert should have gone off.
LEMMA ExpectedNat ==
    ASSUME NEW a \in Alerts, NEW n \in Nat
    PROVE  Expected(a, n) \in Nat
  <1>1. Value[a] \in Nat \ {0}
    BY ConstantsAssumption
  <1>2. n \div Value[a] \in Nat
    BY <1>1
  <1> QED
    BY <1>2 DEF Expected

\* The row of a job that has dealt with one more.
LEMMA DoneType ==
    ASSUME TypeOK, NEW w \in Workers
    PROVE  /\ Done(w) \in Job /\ Done(w).pc = "check"
           /\ Done(w).per = run[w].per /\ Done(w).at = run[w].at
  BY DEF TypeOK, Done, Job

\* The row of a job that goes on.
LEMMA JobAt ==
    ASSUME TypeOK, NEW w \in Workers, NEW p \in {"check", "insert", "record", "announce"}
    PROVE  /\ [run[w] EXCEPT !.pc = p] \in Job
           /\ [run[w] EXCEPT !.pc = p].pc = p
           /\ [run[w] EXCEPT !.pc = p].per = run[w].per
           /\ [run[w] EXCEPT !.pc = p].at = run[w].at
  BY DEF TypeOK, Job

\* The row of a handler that goes on.
LEMMA HandlerAt ==
    ASSUME TypeOK, NEW s \in Servers, NEW T \in SUBSET Txns, NEW C \in SUBSET Kinds
    PROVE  /\ [Free EXCEPT !.pc = "insert", !.new = T] \in Handler
           /\ [Free EXCEPT !.pc = "enqueue", !.checks = C] \in Handler
           /\ [proc[s] EXCEPT !.pc = "copy"] \in Handler
           /\ [proc[s] EXCEPT !.checks = proc[s].checks \ C] \in Handler
           /\ proc[s].new \in SUBSET Txns /\ proc[s].checks \in SUBSET Kinds
  BY DEF TypeOK, Free, Handler

LEMMA RestingType == Resting \in Job /\ Free \in Handler
  BY ConstantsAssumption DEF Resting, Job, Free, Handler, Periods, Kinds

-----------------------------------------------------------------------------
(* Types *)

LEMMA HandleTypes ==
    ASSUME TypeOK, NEW s \in Servers, Handle(s) \/ CrashHandler(s)
    PROVE  TypeOK'
  <1>1. CASE Ingest(s)
    <2>1. PICK T \in SUBSET Txns :
            proc' = [proc EXCEPT ![s] = [Free EXCEPT !.pc = "insert", !.new = T \ events]]
      BY <1>1 DEF Ingest
    <2>2. [Free EXCEPT !.pc = "insert", !.new = T \ events] \in Handler
      BY HandlerAt
    <2> QED
      BY <1>1, <2>1, <2>2 DEF Ingest, TypeOK, ingestion, findings
  <1>2. CASE Insert(s)
    <2>1. proc[s].new \in SUBSET Txns /\ [proc[s] EXCEPT !.pc = "copy"] \in Handler
      BY HandlerAt
    <2>2. \/ proc' = [proc EXCEPT ![s] = Free] /\ events' = events
          \/ /\ proc' = [proc EXCEPT ![s] = [proc[s] EXCEPT !.pc = "copy"]]
             /\ events' = events \cup proc[s].new
      BY <1>2 DEF Insert
    <2> QED
      BY <1>2, <2>1, <2>2, RestingType DEF Insert, TypeOK, findings
  <1>3. CASE Copy(s)
    <2>1. /\ proc[s].new \in SUBSET Txns
          /\ [Free EXCEPT !.pc = "enqueue", !.checks = Kinds] \in Handler
      BY HandlerAt
    <2>2. /\ copied' = copied \/ copied' = copied \cup proc[s].new
          /\ faults' = faults \/ faults' = faults + 1
          /\ \/ proc' = [proc EXCEPT ![s] = Free]
             \/ proc' = [proc EXCEPT ![s] =
                            [Free EXCEPT !.pc = "enqueue", !.checks = Kinds]]
          /\ unheard' = unheard \/ unheard' = Kinds
      BY <1>3 DEF Copy, CheckActive, Fail
    <2> QED
      BY <1>3, <2>1, <2>2, RestingType DEF Copy, TypeOK, findings
  <1>4. CASE Reprocess(s)
    <2>1. [Free EXCEPT !.pc = "enqueue", !.checks = Kinds] \in Handler
      BY HandlerAt
    <2> QED
      BY <1>4, <2>1 DEF Reprocess, TypeOK, ingestion, findings
  <1>5. CASE Enqueue(s)
    <2> DEFINE k == IF "thresholds" \in proc[s].checks THEN "thresholds" ELSE "alerts"
    <2>1. k \in Kinds
      BY DEF Kinds
    <2>2. [proc[s] EXCEPT !.checks = proc[s].checks \ {k}] \in Handler
      BY <2>1, HandlerAt
    <2>3. /\ jobs' = jobs \/ jobs' = [jobs EXCEPT ![k] = jobs[k] + 1]
          /\ faults' = faults \/ faults' = faults + 1
          /\ unheard' = unheard \ {k} \/ unheard' = unheard \cup {k}
          /\ UNCHANGED <<stamp, now, active, threshold, ingestion, run, findings>>
      BY <1>5 DEF Enqueue, Fail
    <2>4. proc' = [proc EXCEPT ![s] =
                     IF proc[s].checks = {k} THEN Free
                     ELSE [proc[s] EXCEPT !.checks = proc[s].checks \ {k}]]
      BY <1>5 DEF Enqueue
    <2> HIDE DEF k
    <2>5. proc' \in [Servers -> Handler]
      BY <2>2, <2>4, RestingType DEF TypeOK
    <2> QED
      BY <2>1, <2>3, <2>5 DEF TypeOK, ingestion, findings
  <1>6. CASE CrashHandler(s)
    <2>1. proc[s].checks \in SUBSET Kinds
      BY HandlerAt
    <2>2. unheard' \in SUBSET Kinds
      BY <1>6, <2>1 DEF CrashHandler, TypeOK
    <2> QED
      BY <1>6, <2>2, RestingType DEF CrashHandler, Fail, TypeOK, ingestion, findings
  <1> QED
    BY <1>1, <1>2, <1>3, <1>4, <1>5, <1>6 DEF Handle

LEMMA WorkTypes ==
    ASSUME TypeOK, NEW w \in Workers, Work(w) \/ Abort(w) \/ CrashWorker(w)
    PROVE  TypeOK'
  <1>0. /\ run \in [Workers -> Job] /\ run[w] \in Job /\ run[w].kind \in Kinds
        /\ run[w].per \in Periods /\ run[w].at \in Periods
    BY DEF TypeOK, Job
  <1> USE DEF ingestion, findings
  <1>1. ASSUME NEW k \in Kinds, Start(w, k) PROVE TypeOK'
    <2>1. ASSUME NEW p \in {"measure", "check"}, NEW T \in SUBSET (Thresholds \cup Alerts)
          PROVE  [Resting EXCEPT !.pc = p, !.kind = k, !.per = now, !.at = now,
                                 !.todo = T] \in Job
      BY RestingType DEF TypeOK, Job, Resting
    <2>2. (IF k = "thresholds" THEN Listed ELSE Alerts) \in SUBSET (Thresholds \cup Alerts)
      BY DEF Listed
    <2>3. run' \in [Workers -> Job]
      BY <1>0, <1>1, <2>1, <2>2 DEF Start
    <2> QED
      BY <1>1, <2>3 DEF Start, TypeOK
  <1>2. CASE Measure(w)
    <2> DEFINE u == Used(Stored, run[w].per)
    <2>1. u \in Nat
      BY UsedNat DEF Stored, TypeOK
    <2> HIDE DEF u
    <2>2. now \in Periods
      BY DEF TypeOK
    <2>3. [run[w] EXCEPT !.pc = "check", !.at = now, !.usage = u] \in Job
      BY <1>0, <2>1, <2>2 DEF Job
    <2>4. run' = [run EXCEPT ![w] = [run[w] EXCEPT !.pc = "check", !.at = now, !.usage = u]]
      BY <1>0, <1>2 DEF Measure, u
    <2>5. run' \in [Workers -> Job]
      BY <1>0, <2>3, <2>4
    <2> QED
      BY <1>2, <2>5 DEF Measure, TypeOK
  <1>3. CASE CheckThreshold(w)
    <2>1. [run[w] EXCEPT !.pc = "insert"] \in Job /\ Done(w) \in Job
      BY JobAt, DoneType
    <2> QED
      BY <1>0, <1>3, <2>1 DEF CheckThreshold, TypeOK
  <1>4. CASE InsertCrossing(w)
    <2>1. [run[w] EXCEPT !.pc = "announce"] \in Job
      BY JobAt
    <2>2. /\ \/ run' = [run EXCEPT ![w] = [run[w] EXCEPT !.pc = "announce"]]
             \/ run' = [run EXCEPT ![w] = Resting]
          /\ \/ crossed' = crossed
             \/ /\ On(w) \in Thresholds
                /\ crossed' = [crossed EXCEPT ![On(w)] =
                                  [crossed[On(w)] EXCEPT ![run[w].at] = @ + 1]]
          /\ unheard' = unheard \/ unheard' = unheard \cup {"thresholds"}
      BY <1>4 DEF InsertCrossing, Listed
    <2>3. run' \in [Workers -> Job]
      BY <1>0, <2>1, <2>2, RestingType
    <2>4. crossed' \in [Thresholds -> [Periods -> Nat]]
      <3>1. crossed \in [Thresholds -> [Periods -> Nat]]
        BY DEF TypeOK
      <3>2. ASSUME On(w) \in Thresholds
            PROVE  [crossed[On(w)] EXCEPT ![run[w].at] = @ + 1] \in [Periods -> Nat]
        BY <1>0, <3>1, <3>2
      <3> QED
        BY <2>2, <3>1, <3>2
    <2> QED
      BY <1>4, <2>2, <2>3, <2>4 DEF InsertCrossing, TypeOK, Kinds
  <1>5. CASE CheckAlert(w)
    <2> DEFINE n == Expected(On(w), Used(Stored, run[w].per))
    <2>1. Used(Stored, run[w].per) \in Nat
      BY UsedNat DEF Stored, TypeOK
    <2>2. On(w) \in Alerts => n \in Nat
      BY <2>1, ExpectedNat
    <2>3. /\ \/ alert' = alert
             \/ alert' = [alert EXCEPT ![On(w)].times = n, ![On(w)].fired = @ + 1]
          /\ \/ run' = [run EXCEPT ![w] = [run[w] EXCEPT !.pc = "record"]]
             \/ run' = [run EXCEPT ![w] = Done(w)]
      BY <1>5 DEF CheckAlert
    <2> HIDE DEF n
    <2>4. [run[w] EXCEPT !.pc = "record"] \in Job /\ Done(w) \in Job
      BY JobAt, DoneType
    <2>5. alert' \in [Alerts -> [times : Nat, fired : Nat, rows : Nat, told : Nat]]
      BY <2>2, <2>3 DEF TypeOK
    <2>6. run' \in [Workers -> Job]
      BY <1>0, <2>3, <2>4
    <2> QED
      BY <1>5, <2>5, <2>6 DEF CheckAlert, TypeOK
  <1>6. CASE RecordTrigger(w)
    <2>1. [run[w] EXCEPT !.pc = "announce"] \in Job
      BY JobAt
    <2>2. run' \in [Workers -> Job]
      BY <1>0, <1>6, <2>1 DEF RecordTrigger
    <2>3. alert' \in [Alerts -> [times : Nat, fired : Nat, rows : Nat, told : Nat]]
      <3>1. CASE On(w) \in Alerts
        BY <1>6, <3>1 DEF RecordTrigger, TypeOK
      <3>2. CASE On(w) \notin Alerts
        BY <1>6, <3>2 DEF RecordTrigger, TypeOK
      <3> QED
        BY <3>1, <3>2
    <2> QED
      BY <1>6, <2>2, <2>3 DEF RecordTrigger, TypeOK
  <1>7. CASE Announce(w)
    <2>1. run' \in [Workers -> Job]
      BY <1>0, <1>7, DoneType DEF Announce
    <2>2. told' \in [Thresholds -> [Periods -> Nat]]
      <3>1. told \in [Thresholds -> [Periods -> Nat]]
        BY DEF TypeOK
      <3>2. ASSUME On(w) \in Thresholds
            PROVE  [told[On(w)] EXCEPT ![run[w].at] = @ + 1] \in [Periods -> Nat]
        BY <1>0, <3>1, <3>2
      <3>3. \/ told' = told
            \/ told' = [told EXCEPT ![On(w)] = [told[On(w)] EXCEPT ![run[w].at] = @ + 1]]
        BY <1>7 DEF Announce
      <3> QED
        BY <3>1, <3>2, <3>3
    <2>3. alert' \in [Alerts -> [times : Nat, fired : Nat, rows : Nat, told : Nat]]
      <3>1. CASE On(w) \in Alerts
        BY <1>7, <3>1 DEF Announce, TypeOK
      <3>2. CASE On(w) \notin Alerts
        BY <1>7, <3>2 DEF Announce, TypeOK
      <3> QED
        BY <3>1, <3>2
    <2> QED
      BY <1>7, <2>1, <2>2, <2>3 DEF Announce, TypeOK
  <1>8. CASE Finish(w)
    BY <1>8, RestingType DEF Finish, TypeOK
  <1>9. CASE Abort(w)
    BY <1>0, <1>9, RestingType DEF Abort, Fail, TypeOK
  <1>10. CASE CrashWorker(w)
    BY <1>0, <1>10, RestingType DEF CrashWorker, Fail, TypeOK
  <1> QED
    BY <1>1, <1>2, <1>3, <1>4, <1>5, <1>6, <1>7, <1>8, <1>9, <1>10 DEF Work

LEMMA OtherTypes ==
    ASSUME TypeOK, Toggle \/ CreateThreshold \/ DeleteThreshold \/ Tick
    PROVE  TypeOK'
  <1> USE ConstantsAssumption DEF TypeOK, ingestion, findings, Kinds, Periods
  <1>1. CASE Toggle
    BY <1>1 DEF Toggle
  <1>2. CASE CreateThreshold
    BY <1>2 DEF CreateThreshold
  <1>3. CASE DeleteThreshold
    BY <1>3 DEF DeleteThreshold, Listed
  <1>4. CASE Tick
    BY <1>4 DEF Tick
  <1> QED
    BY <1>1, <1>2, <1>3, <1>4

\* Every variable keeps its type.
THEOREM TypeCorrect == Spec => []TypeOK
  <1>1. Init => TypeOK
    BY RestingType, ConstantsAssumption DEF Init, TypeOK, Periods, Kinds
  <1>2. TypeOK /\ [Next]_vars => TypeOK'
    <2> SUFFICES ASSUME TypeOK, [Next]_vars PROVE TypeOK'
      OBVIOUS
    <2>1. CASE UNCHANGED vars
      BY <2>1 DEF TypeOK, vars, ingestion, findings
    <2> QED
      BY <2>1, HandleTypes, WorkTypes, OtherTypes DEF Next
  <1> QED
    BY <1>1, <1>2, PTL DEF Spec

-----------------------------------------------------------------------------
(* Workers and dates *)

\* A worker's step changes its own job alone.
Moves(w) == \A v \in Workers \ {w} : run'[v] = run[v]

LEMMA OthersStay ==
    ASSUME TypeOK, NEW w \in Workers, Work(w) \/ Abort(w) \/ CrashWorker(w)
    PROVE  Moves(w)
  <1>1. run \in [Workers -> Job]
    BY DEF TypeOK
  <1>2. run' = run \/ \E j : run' = [run EXCEPT ![w] = j]
    BY <1>1 DEF Work, Start, Measure, CheckThreshold, InsertCrossing, CheckAlert,
       RecordTrigger, Announce, Finish, Abort, CrashWorker
  <1> QED
    BY <1>1, <1>2 DEF Moves

\* A check dates what it finds no earlier than the period it is for.
DateInv ==
    /\ TypeOK
    /\ \A w \in Workers : run[w].per <= run[w].at /\ run[w].per <= now

LEMMA InitDate == Init => DateInv
  <1> SUFFICES ASSUME Init PROVE DateInv
    OBVIOUS
  <1>1. TypeOK
    BY RestingType, ConstantsAssumption DEF Init, TypeOK, Periods, Kinds
  <1> QED
    BY <1>1 DEF Init, DateInv, Resting

LEMMA NextDate ==
    ASSUME DateInv, [Next]_vars
    PROVE  DateInv'
  <1>0. /\ TypeOK /\ run \in [Workers -> Job] /\ now \in Nat
        /\ \A w \in Workers : /\ run[w].per \in Nat /\ run[w].at \in Nat
                              /\ run[w].per <= run[w].at /\ run[w].per <= now
    BY DEF DateInv, TypeOK, Job, Periods
  <1>1. TypeOK'
    <2>1. CASE UNCHANGED vars
      BY <1>0, <2>1 DEF TypeOK, vars, ingestion, findings
    <2> QED
      BY <1>0, <2>1, HandleTypes, WorkTypes, OtherTypes DEF Next
  <1>2. ASSUME UNCHANGED run, now' = now \/ now' = now + 1 PROVE DateInv'
    BY <1>0, <1>1, <1>2 DEF DateInv
  <1>3. ASSUME NEW s \in Servers, Handle(s) \/ CrashHandler(s) PROVE DateInv'
    <2>1. UNCHANGED <<now, run>>
      BY <1>3 DEF Handle, Ingest, Insert, Copy, Reprocess, Enqueue, CrashHandler
    <2> QED
      BY <1>2, <2>1
  <1>4. CASE Toggle \/ CreateThreshold \/ DeleteThreshold \/ Tick \/ UNCHANGED vars
    <2>1. UNCHANGED run /\ (now' = now \/ now' = now + 1)
      BY <1>4 DEF Toggle, CreateThreshold, DeleteThreshold, Tick, vars
    <2> QED
      BY <1>2, <2>1
  <1>5. ASSUME NEW w \in Workers, Work(w) \/ Abort(w) \/ CrashWorker(w) PROVE DateInv'
    <2>0. Moves(w) /\ run[w] \in Job
      BY <1>0, <1>5, OthersStay
    <2>1. ASSUME UNCHANGED now,
                 \/ run'[w].per = run[w].per /\ run'[w].at \in {run[w].at, now}
                 \/ run'[w].per = now /\ run'[w].at = now
                 \/ run'[w].per = 0 /\ run'[w].at = 0
          PROVE  DateInv'
      <3>1. run'[w].per <= run'[w].at /\ run'[w].per <= now
        BY <1>0, <2>1
      <3> QED
        BY <1>0, <1>1, <2>0, <2>1, <3>1 DEF DateInv, Moves
    <2>2. ASSUME NEW k \in Kinds, Start(w, k) PROVE DateInv'
      <3>1. UNCHANGED now
        BY <2>2 DEF Start
      <3>2. CASE active
        <4>1. PICK p \in {"measure", "check"}, T \in {Listed, Alerts} :
                run'[w] = [Resting EXCEPT !.pc = p, !.kind = k, !.per = now, !.at = now,
                                          !.todo = T]
          BY <1>0, <2>2, <3>2 DEF Start
        <4>2. run'[w].per = now /\ run'[w].at = now
          BY <4>1 DEF Resting
        <4> QED
          BY <2>1, <3>1, <4>2
      <3>3. CASE ~active
        BY <1>2, <2>2, <3>1, <3>3 DEF Start
      <3> QED
        BY <3>2, <3>3
    <2>3. CASE Measure(w)
      <3>1. UNCHANGED now /\ run'[w].per = run[w].per /\ run'[w].at = now
        BY <1>0, <2>0, <2>3 DEF Measure, Job
      <3> QED
        BY <2>1, <3>1
    <2>4. CASE CheckThreshold(w) \/ InsertCrossing(w) \/ CheckAlert(w) \/ RecordTrigger(w)
               \/ Announce(w)
      <3>1. /\ UNCHANGED now
            /\ \/ \E p \in {"insert", "record", "announce"} :
                    run'[w] = [run[w] EXCEPT !.pc = p]
               \/ run'[w] = Done(w)
               \/ run'[w] = Resting
        BY <1>0, <2>4 DEF CheckThreshold, InsertCrossing, CheckAlert, RecordTrigger, Announce
      <3>2. ASSUME NEW p \in {"insert", "record", "announce"}
            PROVE  /\ [run[w] EXCEPT !.pc = p].per = run[w].per
                   /\ [run[w] EXCEPT !.pc = p].at = run[w].at
        BY <1>0, JobAt
      <3>3. /\ Done(w).per = run[w].per /\ Done(w).at = run[w].at
            /\ Resting.per = 0 /\ Resting.at = 0
        BY <1>0, DoneType DEF Resting
      <3>4. \/ run'[w].per = run[w].per /\ run'[w].at = run[w].at
            \/ run'[w].per = 0 /\ run'[w].at = 0
        BY <3>1, <3>2, <3>3
      <3> QED
        BY <2>1, <3>1, <3>4
    <2>5. CASE Finish(w) \/ Abort(w) \/ CrashWorker(w)
      <3>1. UNCHANGED now /\ run'[w] = Resting
        BY <1>0, <2>5 DEF Finish, Abort, CrashWorker
      <3> QED
        BY <2>1, <3>1 DEF Resting
    <2> QED
      BY <1>5, <2>2, <2>3, <2>4, <2>5 DEF Work
  <1> QED
    BY <1>3, <1>4, <1>5 DEF Next

-----------------------------------------------------------------------------
(* One worker *)

OneWorker == \A v, w \in Workers : v = w

\* A check that is about to insert has found nothing of its period, nor of a
\* later one.
IInv ==
    /\ DateInv /\ CrossedOnce
    /\ \A w \in Workers : run[w].pc = "insert" => ~Recorded(On(w), run[w].per)

LEMMA InitInv == Init => IInv
  BY InitDate DEF Init, IInv, CrossedOnce, Resting

\* What leaves the workers and the records alone.
LEMMA ElsewhereInv ==
    ASSUME IInv, DateInv', UNCHANGED <<run, crossed>>
    PROVE  IInv'
  BY DEF IInv, CrossedOnce, Recorded, On

\* A step of the only worker that records nothing and is not about to.
LEMMA WorkerInv ==
    ASSUME OneWorker, IInv, DateInv', NEW w \in Workers, UNCHANGED crossed,
           run'[w].pc # "insert"
    PROVE  IInv'
  BY DEF OneWorker, IInv, CrossedOnce

LEMMA CheckInv ==
    ASSUME OneWorker, IInv, DateInv', NEW w \in Workers, CheckThreshold(w)
    PROVE  IInv'
  <1>1. UNCHANGED crossed
    BY DEF CheckThreshold, findings
  <1>2. CASE run'[w].pc # "insert"
    BY <1>1, <1>2, WorkerInv
  <1>3. CASE run'[w].pc = "insert"
    <2>0. TypeOK /\ run \in [Workers -> Job] /\ run[w] \in Job
      BY DEF IInv, DateInv, TypeOK
    <2>1. /\ run'[w] = [run[w] EXCEPT !.pc = "insert"]
          /\ ~Recorded(On(w), run[w].per)
      BY <1>3, <2>0, DoneType DEF CheckThreshold
    <2>2. /\ run'[w].kind = run[w].kind /\ run'[w].todo = run[w].todo
          /\ run'[w].per = run[w].per
      BY <2>0, <2>1 DEF Job
    <2>3. ~Recorded(On(w), run[w].per)'
      BY <1>1, <2>1, <2>2 DEF Recorded, On
    <2> QED
      BY <1>1, <2>3 DEF OneWorker, IInv, CrossedOnce
  <1> QED
    BY <1>2, <1>3

\* The period of its date has no record, since none is later than its own.
LEMMA InsertInv ==
    ASSUME OneWorker, IInv, DateInv', NEW w \in Workers, InsertCrossing(w)
    PROVE  IInv'
  <1> DEFINE t == On(w)  at == run[w].at
  <1>0. TypeOK /\ run \in [Workers -> Job] /\ run[w] \in Job
    BY DEF IInv, DateInv, TypeOK
  <1>1. run'[w].pc # "insert"
    BY <1>0 DEF InsertCrossing, Resting, Job
  <1>2. CASE t \notin Listed
    BY <1>1, <1>2, WorkerInv DEF InsertCrossing
  <1>3. CASE t \in Listed
    <2>1. at \in Periods /\ run[w].per \in Periods /\ run[w].per <= at
      BY <1>0 DEF IInv, DateInv, Job
    <2>2. t \in Thresholds /\ crossed[t] \in [Periods -> Nat]
      BY <1>0, <1>3 DEF Listed, TypeOK
    <2>3. ~(crossed[t][at] > 0)
      BY <2>1 DEF InsertCrossing, IInv, Recorded, Periods
    <2>4. crossed[t][at] = 0
      BY <2>1, <2>2, <2>3
    <2>5. crossed' = [crossed EXCEPT ![t][at] = @ + 1]
      BY <1>3 DEF InsertCrossing
    <2> HIDE DEF t, at
    <2>6. CrossedOnce'
      BY <1>0, <2>1, <2>2, <2>4, <2>5 DEF CrossedOnce, IInv, TypeOK
    <2> QED
      BY <1>1, <2>6 DEF OneWorker, IInv
  <1> QED
    BY <1>2, <1>3

LEMMA NextInv ==
    ASSUME OneWorker, IInv, [Next]_vars
    PROVE  IInv'
  <1>1. DateInv'
    BY NextDate DEF IInv
  <1>2. ASSUME NEW s \in Servers, Handle(s) \/ CrashHandler(s) PROVE IInv'
    <2>1. UNCHANGED <<run, crossed>>
      BY <1>2 DEF Handle, Ingest, Insert, Copy, Reprocess, Enqueue, CrashHandler, findings
    <2> QED
      BY <1>1, <2>1, ElsewhereInv
  <1>3. CASE Toggle \/ CreateThreshold \/ DeleteThreshold \/ Tick \/ UNCHANGED vars
    <2>1. UNCHANGED <<run, crossed>>
      BY <1>3 DEF Toggle, CreateThreshold, DeleteThreshold, Tick, vars, findings
    <2> QED
      BY <1>1, <2>1, ElsewhereInv
  <1>4. ASSUME NEW w \in Workers, Work(w) \/ Abort(w) \/ CrashWorker(w) PROVE IInv'
    <2>0. TypeOK /\ run \in [Workers -> Job] /\ run[w] \in Job
      BY DEF IInv, DateInv, TypeOK
    <2>1. CASE CheckThreshold(w)
      BY <1>1, <2>1, CheckInv
    <2>2. CASE InsertCrossing(w)
      BY <1>1, <2>2, InsertInv
    <2>3. ASSUME NEW k \in Kinds, Start(w, k) PROVE IInv'
      <3>1. UNCHANGED crossed /\ run[w].pc = "idle"
        BY <2>3 DEF Start, findings
      <3>2. CASE active
        <4>1. PICK p \in {"measure", "check"}, T \in {Listed, Alerts} :
                run'[w] = [Resting EXCEPT !.pc = p, !.kind = k, !.per = now, !.at = now,
                                          !.todo = T]
          BY <2>0, <2>3, <3>2 DEF Start
        <4>2. run'[w].pc # "insert"
          BY <4>1 DEF Resting
        <4> QED
          BY <1>1, <3>1, <4>2, WorkerInv
      <3>3. CASE ~active
        BY <1>1, <2>3, <3>1, <3>3, ElsewhereInv DEF Start
      <3> QED
        BY <3>2, <3>3
    <2>4. CASE Measure(w)
      <3>1. run'[w].pc = "check" /\ UNCHANGED crossed
        BY <2>0, <2>4 DEF Measure, Job, findings
      <3> QED
        BY <1>1, <3>1, WorkerInv
    <2>5. CASE CheckAlert(w) \/ RecordTrigger(w) \/ Announce(w)
      <3>1. /\ \/ run'[w] = [run[w] EXCEPT !.pc = "record"]
               \/ run'[w] = [run[w] EXCEPT !.pc = "announce"]
               \/ run'[w] = Done(w)
            /\ UNCHANGED crossed
        BY <2>0, <2>5 DEF CheckAlert, RecordTrigger, Announce
      <3>2. run'[w].pc # "insert"
        BY <2>0, <3>1, DoneType DEF Job
      <3> QED
        BY <1>1, <3>1, <3>2, WorkerInv
    <2>6. CASE Finish(w) \/ Abort(w) \/ CrashWorker(w)
      <3>1. run'[w] = Resting /\ UNCHANGED crossed
        BY <2>0, <2>6 DEF Finish, Abort, CrashWorker, findings
      <3> QED
        BY <1>1, <3>1, WorkerInv DEF Resting
    <2> QED
      BY <1>4, <2>1, <2>2, <2>3, <2>4, <2>5, <2>6 DEF Work
  <1> QED
    BY <1>2, <1>3, <1>4 DEF Next

\* Where one worker runs the jobs, no threshold is recorded twice in a period:
\* for any number of requests, events, crashes, failures and periods.
THEOREM CrossedOnceHolds ==
    ASSUME OneWorker
    PROVE  Spec => []CrossedOnce
  <1>1. IInv => CrossedOnce
    BY DEF IInv
  <1> QED
    BY <1>1, InitInv, NextInv, PTL DEF Spec

-----------------------------------------------------------------------------
(* What is announced *)

\* A finite set without one.
LEMMA WithoutOne ==
    ASSUME NEW S, IsFiniteSet(S), NEW w
    PROVE  /\ Cardinality(S) \in Nat /\ Cardinality(S \ {w}) \in Nat
           /\ Cardinality(S) = Cardinality(S \ {w}) + (IF w \in S THEN 1 ELSE 0)
  <1>1. Cardinality(S) \in Nat
    BY FS_CardinalityType
  <1>2. CASE w \in S
    <2>1. IsFiniteSet(S \ {w}) /\ Cardinality(S \ {w}) = Cardinality(S) - 1
      BY <1>2, FS_RemoveElement
    <2>2. Cardinality(S \ {w}) \in Nat
      BY <2>1, FS_CardinalityType
    <2> QED
      BY <1>1, <1>2, <2>1, <2>2
  <1>3. CASE w \notin S
    <2>1. S \ {w} = S
      BY <1>3
    <2>2. Cardinality(S \ {w}) = Cardinality(S)
      BY <2>1
    <2> QED
      BY <1>1, <1>3, <2>2
  <1> QED
    BY <1>2, <1>3

\* Two finite sets that differ in one element at most.
LEMMA CountOne ==
    ASSUME NEW S, NEW T, IsFiniteSet(S), IsFiniteSet(T), NEW w, S \ {w} = T \ {w}
    PROVE  /\ Cardinality(S) \in Nat /\ Cardinality(T) \in Nat
           /\ Cardinality(T) + (IF w \in S THEN 1 ELSE 0)
                = Cardinality(S) + (IF w \in T THEN 1 ELSE 0)
  <1>1. /\ Cardinality(S) \in Nat /\ Cardinality(S \ {w}) \in Nat
        /\ Cardinality(S) = Cardinality(S \ {w}) + (IF w \in S THEN 1 ELSE 0)
    BY WithoutOne
  <1>2. /\ Cardinality(T) \in Nat
        /\ Cardinality(T) = Cardinality(T \ {w}) + (IF w \in T THEN 1 ELSE 0)
    BY WithoutOne
  <1>3. Cardinality(S \ {w}) = Cardinality(T \ {w})
    OBVIOUS
  <1> QED
    BY <1>1, <1>2, <1>3

\* A worker's step changes what is owed by what this worker owes.
LEMMA OwedOne ==
    ASSUME NEW w \in Workers, Moves(w)
    PROVE  /\ \A t, p :
                /\ Owed(t, p) \in Nat /\ Owed(t, p)' \in Nat
                /\ Owed(t, p)' + (IF IsAt(w, "thresholds", "announce", t) /\ run[w].at = p
                                  THEN 1 ELSE 0)
                     = Owed(t, p) + (IF IsAt(w, "thresholds", "announce", t)' /\ run'[w].at = p
                                     THEN 1 ELSE 0)
           /\ \A a :
                /\ OwedRow(a) \in Nat /\ OwedRow(a)' \in Nat
                /\ OwedRow(a)' + (IF IsAt(w, "alerts", "record", a) THEN 1 ELSE 0)
                     = OwedRow(a) + (IF IsAt(w, "alerts", "record", a)' THEN 1 ELSE 0)
                /\ OwedWord(a) \in Nat /\ OwedWord(a)' \in Nat
                /\ OwedWord(a)' + (IF IsAt(w, "alerts", "announce", a) THEN 1 ELSE 0)
                     = OwedWord(a) + (IF IsAt(w, "alerts", "announce", a)' THEN 1 ELSE 0)
  <1>1. IsFiniteSet(Workers)
    BY ConstantsAssumption
  <1>2. \A v \in Workers \ {w} : run'[v] = run[v] /\ On(v)' = On(v)
    BY DEF Moves, On
  <1>3. ASSUME NEW t, NEW p
        PROVE  /\ IsFiniteSet(Owing(t, p)) /\ IsFiniteSet(Owing(t, p)')
               /\ Owing(t, p) \ {w} = Owing(t, p)' \ {w}
               /\ w \in Owing(t, p) <=> IsAt(w, "thresholds", "announce", t) /\ run[w].at = p
               /\ w \in Owing(t, p)' <=>
                     IsAt(w, "thresholds", "announce", t)' /\ run'[w].at = p
    <2>1. Owing(t, p) \subseteq Workers /\ Owing(t, p)' \subseteq Workers
      BY DEF Owing
    <2>2. IsFiniteSet(Owing(t, p)) /\ IsFiniteSet(Owing(t, p)')
      BY <1>1, <2>1, FS_Subset
    <2> QED
      BY <1>2, <2>2 DEF Owing, IsAt
  <1>4. ASSUME NEW a
        PROVE  /\ IsFiniteSet(OwingRow(a)) /\ IsFiniteSet(OwingRow(a)')
               /\ OwingRow(a) \ {w} = OwingRow(a)' \ {w}
               /\ w \in OwingRow(a) <=> IsAt(w, "alerts", "record", a)
               /\ w \in OwingRow(a)' <=> IsAt(w, "alerts", "record", a)'
    <2>1. OwingRow(a) \subseteq Workers /\ OwingRow(a)' \subseteq Workers
      BY DEF OwingRow
    <2>2. IsFiniteSet(OwingRow(a)) /\ IsFiniteSet(OwingRow(a)')
      BY <1>1, <2>1, FS_Subset
    <2> QED
      BY <1>2, <2>2 DEF OwingRow, IsAt
  <1>5. ASSUME NEW a
        PROVE  /\ IsFiniteSet(OwingWord(a)) /\ IsFiniteSet(OwingWord(a)')
               /\ OwingWord(a) \ {w} = OwingWord(a)' \ {w}
               /\ w \in OwingWord(a) <=> IsAt(w, "alerts", "announce", a)
               /\ w \in OwingWord(a)' <=> IsAt(w, "alerts", "announce", a)'
    <2>1. OwingWord(a) \subseteq Workers /\ OwingWord(a)' \subseteq Workers
      BY DEF OwingWord
    <2>2. IsFiniteSet(OwingWord(a)) /\ IsFiniteSet(OwingWord(a)')
      BY <1>1, <2>1, FS_Subset
    <2> QED
      BY <1>2, <2>2 DEF OwingWord, IsAt
  <1>6. ASSUME NEW t, NEW p
        PROVE  /\ Owed(t, p) \in Nat /\ Owed(t, p)' \in Nat
               /\ Owed(t, p)' + (IF w \in Owing(t, p) THEN 1 ELSE 0)
                    = Owed(t, p) + (IF w \in Owing(t, p)' THEN 1 ELSE 0)
    BY <1>3, CountOne DEF Owed
  <1>7. ASSUME NEW a
        PROVE  /\ OwedRow(a) \in Nat /\ OwedRow(a)' \in Nat
               /\ OwedRow(a)' + (IF w \in OwingRow(a) THEN 1 ELSE 0)
                    = OwedRow(a) + (IF w \in OwingRow(a)' THEN 1 ELSE 0)
    BY <1>4, CountOne DEF OwedRow
  <1>8. ASSUME NEW a
        PROVE  /\ OwedWord(a) \in Nat /\ OwedWord(a)' \in Nat
               /\ OwedWord(a)' + (IF w \in OwingWord(a) THEN 1 ELSE 0)
                    = OwedWord(a) + (IF w \in OwingWord(a)' THEN 1 ELSE 0)
    BY <1>5, CountOne DEF OwedWord
  <1> QED
    BY <1>3, <1>4, <1>5, <1>6, <1>7, <1>8

\* What is owed is a number, that of no worker when none is at work.
LEMMA OwedNat ==
    /\ \A t, p : /\ Owed(t, p) \in Nat
                 /\ (\A w \in Workers : run[w].pc = "idle") => Owed(t, p) = 0
                 /\ \A w \in Workers : w \in Owing(t, p) => Owed(t, p) > 0
    /\ \A a : /\ OwedRow(a) \in Nat /\ OwedWord(a) \in Nat
              /\ (\A w \in Workers : run[w].pc = "idle") => OwedRow(a) = 0 /\ OwedWord(a) = 0
  <1>1. IsFiniteSet(Workers)
    BY ConstantsAssumption
  <1>2. ASSUME NEW t, NEW p PROVE IsFiniteSet(Owing(t, p))
    BY <1>1, FS_Subset DEF Owing
  <1>3. ASSUME NEW a PROVE IsFiniteSet(OwingRow(a)) /\ IsFiniteSet(OwingWord(a))
    BY <1>1, FS_Subset DEF OwingRow, OwingWord
  <1>4. ASSUME \A w \in Workers : run[w].pc = "idle"
        PROVE  (\A t, p : Owing(t, p) = {}) /\ \A a : OwingRow(a) = {} /\ OwingWord(a) = {}
    BY <1>4 DEF Owing, OwingRow, OwingWord, IsAt
  <1>5. ASSUME NEW t, NEW p, NEW w \in Owing(t, p) PROVE Owed(t, p) > 0
    BY <1>2, <1>5, FS_CardinalityType, FS_EmptySet DEF Owed
  <1> QED
    BY <1>2, <1>3, <1>4, <1>5, FS_CardinalityType, FS_EmptySet DEF Owed, OwedRow, OwedWord

\* The numbers that are compared.
LEMMA Tallies ==
    ASSUME TypeOK
    PROVE  /\ \A t \in Thresholds, p \in Periods : told[t][p] \in Nat /\ crossed[t][p] \in Nat
           /\ \A a \in Alerts : /\ alert[a].told \in Nat /\ alert[a].rows \in Nat
                                /\ alert[a].fired \in Nat /\ alert[a].times \in Nat
           /\ faults \in Nat
  BY DEF TypeOK

\* Which alert or threshold a job is at depends on its kind and on what it has
\* to do.
LEMMA SameOn ==
    ASSUME NEW w \in Workers, run'[w].kind = run[w].kind, run'[w].todo = run[w].todo
    PROVE  On(w)' = On(w)
  BY DEF On

LEMMA InitTell == Init => TellInv
  <1> SUFFICES ASSUME Init PROVE TellInv
    OBVIOUS
  <1>1. \A w \in Workers : run[w].pc = "idle"
    BY DEF Init, Resting
  <1>2. /\ \A t, p : Owed(t, p) = 0
        /\ \A a : OwedRow(a) = 0 /\ OwedWord(a) = 0
    BY <1>1, OwedNat
  <1> QED
    BY <1>1, <1>2 DEF Init, TellInv

\* A step that leaves the workers and what they have found alone.
LEMMA ElsewhereTell ==
    ASSUME TellInv, UNCHANGED <<run, crossed, told, alert>>, faults' = 0 => faults = 0
    PROVE  TellInv'
  BY DEF TellInv, Owed, OwedRow, OwedWord, Owing, OwingRow, OwingWord, IsAt, On, Faultless

\* A step of a worker that finds nothing, before which and after which it owes
\* nothing, unless the faults excuse it.
LEMMA QuietTell ==
    ASSUME TypeOK, TellInv, NEW w \in Workers, Moves(w),
           UNCHANGED <<crossed, told, alert>>, faults' = 0 => faults = 0,
           run[w].pc \in {"record", "announce"} => faults' # 0,
           run'[w].pc \notin {"record", "announce"},
           run'[w].pc = "insert" => run'[w].kind = "thresholds"
    PROVE  TellInv'
  <1>1. \A t, p : /\ Owed(t, p) \in Nat /\ Owed(t, p)' \in Nat /\ Owed(t, p)' <= Owed(t, p)
                  /\ faults' = 0 => Owed(t, p)' = Owed(t, p)
    BY OwedOne DEF IsAt
  <1>2. \A a : /\ OwedRow(a) \in Nat /\ OwedRow(a)' \in Nat /\ OwedRow(a)' <= OwedRow(a)
               /\ OwedWord(a) \in Nat /\ OwedWord(a)' \in Nat /\ OwedWord(a)' <= OwedWord(a)
               /\ faults' = 0 => OwedRow(a)' = OwedRow(a) /\ OwedWord(a)' = OwedWord(a)
    BY OwedOne DEF IsAt
  <1>3. \A v \in Workers : /\ run'[v].pc = "insert" => run'[v].kind = "thresholds"
                           /\ run'[v].pc = "record" => run'[v].kind = "alerts"
    BY DEF Moves, TellInv
  <1>4. ASSUME NEW t \in Thresholds, NEW p \in Periods
        PROVE  /\ told'[t][p] + Owed(t, p)' <= crossed'[t][p]
               /\ Faultless' => told'[t][p] + Owed(t, p)' = crossed'[t][p]
    BY <1>1, Tallies DEF TellInv, Faultless
  <1>5. ASSUME NEW a \in Alerts
        PROVE  /\ alert'[a].told + OwedWord(a)' <= alert'[a].rows
               /\ alert'[a].rows + OwedRow(a)' <= alert'[a].fired
               /\ Faultless' => /\ alert'[a].told + OwedWord(a)' = alert'[a].rows
                                /\ alert'[a].rows + OwedRow(a)' = alert'[a].fired
    BY <1>2, Tallies DEF TellInv, Faultless
  <1> QED
    BY <1>3, <1>4, <1>5 DEF TellInv

LEMMA InsertTell ==
    ASSUME TypeOK, TellInv, NEW w \in Workers, Moves(w), InsertCrossing(w), On(w) \in Listed
    PROVE  TellInv'
  <1> DEFINE x == On(w)
             at == run[w].at
  <1>1. /\ run \in [Workers -> Job] /\ run[w].kind = "thresholds" /\ run[w].pc = "insert"
        /\ at \in Periods /\ x \in Thresholds
    BY DEF TypeOK, TellInv, InsertCrossing, Job, Listed
  <1>2. /\ run'[w].pc = "announce" /\ run'[w].kind = "thresholds" /\ run'[w].at = at
        /\ On(w)' = x
        /\ UNCHANGED <<told, alert, faults>>
    BY <1>1, SameOn DEF InsertCrossing, Job
  <1>3. \A t \in Thresholds, p \in Periods :
          crossed'[t][p] = IF t = x /\ p = at THEN crossed[t][p] + 1 ELSE crossed[t][p]
    <2>1. crossed' = [crossed EXCEPT ![x][at] = @ + 1]
      BY DEF InsertCrossing
    <2> HIDE DEF x, at
    <2> QED
      BY <1>1, <2>1 DEF TypeOK
  <1>4. \A t, p : /\ Owed(t, p) \in Nat
                  /\ Owed(t, p)' = IF t = x /\ p = at THEN Owed(t, p) + 1 ELSE Owed(t, p)
    BY <1>1, <1>2, OwedOne DEF IsAt
  <1>5. \A a : OwedRow(a)' = OwedRow(a) /\ OwedWord(a)' = OwedWord(a)
    BY <1>1, <1>2, OwedOne DEF IsAt
  <1> HIDE DEF x, at
  <1>6. ASSUME NEW t \in Thresholds, NEW p \in Periods
        PROVE  /\ told'[t][p] + Owed(t, p)' <= crossed'[t][p]
               /\ Faultless' => told'[t][p] + Owed(t, p)' = crossed'[t][p]
    BY <1>2, <1>3, <1>4, Tallies DEF TellInv, Faultless
  <1> QED
    BY <1>2, <1>5, <1>6 DEF TellInv, Faultless, Moves

LEMMA CheckAlertTell ==
    ASSUME TypeOK, TellInv, NEW w \in Workers, Moves(w), CheckAlert(w)
    PROVE  TellInv'
  <1> DEFINE x == On(w)
  <1>1. /\ run \in [Workers -> Job] /\ run[w].kind = "alerts" /\ run[w].pc = "check"
        /\ UNCHANGED <<crossed, told, faults>>
    BY DEF TypeOK, CheckAlert
  <1>2. CASE UNCHANGED alert /\ run' = [run EXCEPT ![w] = Done(w)]
    <2>1. run'[w].pc = "check"
      BY <1>1, <1>2, DoneType
    <2> QED
      BY <1>1, <1>2, <2>1, QuietTell
  <1>3. ASSUME NEW n, alert' = [alert EXCEPT ![x].times = n, ![x].fired = @ + 1],
               run' = [run EXCEPT ![w].pc = "record"]
        PROVE  TellInv'
    <2>1. run'[w].pc = "record" /\ run'[w].kind = "alerts" /\ On(w)' = x
      BY <1>1, <1>3, SameOn DEF Job
    <2>2. \A a \in Alerts : /\ alert'[a].told = alert[a].told /\ alert'[a].rows = alert[a].rows
                            /\ alert'[a].fired = IF a = x THEN alert[a].fired + 1 ELSE alert[a].fired
      <3> HIDE DEF x
      <3> QED
        BY <1>3 DEF TypeOK
    <2>3. \A t, p : Owed(t, p)' = Owed(t, p)
      BY <1>1, <2>1, OwedOne DEF IsAt
    <2>4. \A a : /\ OwedRow(a) \in Nat /\ OwedWord(a) \in Nat
                 /\ OwedRow(a)' = IF a = x THEN OwedRow(a) + 1 ELSE OwedRow(a)
                 /\ OwedWord(a)' = OwedWord(a)
      BY <1>1, <2>1, OwedOne DEF IsAt
    <2> HIDE DEF x
    <2>5. ASSUME NEW a \in Alerts
          PROVE  /\ alert'[a].told + OwedWord(a)' <= alert'[a].rows
                 /\ alert'[a].rows + OwedRow(a)' <= alert'[a].fired
                 /\ Faultless' => /\ alert'[a].told + OwedWord(a)' = alert'[a].rows
                                  /\ alert'[a].rows + OwedRow(a)' = alert'[a].fired
      BY <1>1, <2>2, <2>4, Tallies DEF TellInv, Faultless
    <2> QED
      BY <1>1, <2>1, <2>3, <2>5 DEF TellInv, Faultless, Moves
  <1> QED
    BY <1>2, <1>3 DEF CheckAlert

LEMMA RecordTell ==
    ASSUME TypeOK, TellInv, NEW w \in Workers, Moves(w), RecordTrigger(w)
    PROVE  TellInv'
  <1> DEFINE x == On(w)
  <1>1. /\ run \in [Workers -> Job] /\ run[w].kind = "alerts" /\ run[w].pc = "record"
        /\ UNCHANGED <<crossed, told, faults>>
    BY DEF TypeOK, RecordTrigger, TellInv
  <1>2. run'[w].pc = "announce" /\ run'[w].kind = "alerts" /\ On(w)' = x
    BY <1>1, SameOn DEF Job, RecordTrigger
  <1>3. \A a \in Alerts : /\ alert'[a].told = alert[a].told /\ alert'[a].fired = alert[a].fired
                          /\ alert'[a].rows = IF a = x THEN alert[a].rows + 1 ELSE alert[a].rows
    <2>1. alert' = [alert EXCEPT ![x].rows = @ + 1]
      BY DEF RecordTrigger
    <2> HIDE DEF x
    <2> QED
      BY <2>1 DEF TypeOK
  <1>4. \A t, p : Owed(t, p)' = Owed(t, p)
    BY <1>1, <1>2, OwedOne DEF IsAt
  <1>5. \A a : /\ OwedRow(a) \in Nat /\ OwedWord(a) \in Nat /\ OwedRow(a)' \in Nat
               /\ OwedRow(a) = IF a = x THEN OwedRow(a)' + 1 ELSE OwedRow(a)'
               /\ OwedWord(a)' = IF a = x THEN OwedWord(a) + 1 ELSE OwedWord(a)
    BY <1>1, <1>2, OwedOne DEF IsAt
  <1> HIDE DEF x
  <1>6. ASSUME NEW a \in Alerts
        PROVE  /\ alert'[a].told + OwedWord(a)' <= alert'[a].rows
               /\ alert'[a].rows + OwedRow(a)' <= alert'[a].fired
               /\ Faultless' => /\ alert'[a].told + OwedWord(a)' = alert'[a].rows
                                /\ alert'[a].rows + OwedRow(a)' = alert'[a].fired
    BY <1>1, <1>3, <1>5, Tallies DEF TellInv, Faultless
  <1> QED
    BY <1>1, <1>2, <1>4, <1>6 DEF TellInv, Faultless, Moves

LEMMA AnnounceTell ==
    ASSUME TypeOK, TellInv, NEW w \in Workers, Moves(w), Announce(w)
    PROVE  TellInv'
  <1> DEFINE x == On(w)
             at == run[w].at
  <1>1. /\ run \in [Workers -> Job] /\ run[w].kind \in Kinds /\ run[w].pc = "announce"
        /\ at \in Periods
        /\ UNCHANGED <<crossed, faults>>
    BY DEF TypeOK, Announce, Job
  <1>2. run'[w].pc = "check"
    BY <1>1, DoneType DEF Announce
  <1>3. \A t, p : Owed(t, p) \in Nat /\ Owed(t, p)' \in Nat
    BY OwedOne
  <1>4. \A a : /\ OwedWord(a) \in Nat /\ OwedWord(a)' \in Nat
               /\ OwedRow(a) \in Nat /\ OwedRow(a)' = OwedRow(a)
    BY <1>1, <1>2, OwedOne DEF IsAt
  <1>5. CASE run[w].kind = "thresholds"
    <2>1. \A t \in Thresholds, p \in Periods :
            told'[t][p] = IF t = x /\ p = at THEN told[t][p] + 1 ELSE told[t][p]
      <3>1. told' = [told EXCEPT ![x][at] = @ + 1]
        BY <1>5 DEF Announce
      <3> HIDE DEF x, at
      <3> QED
        BY <1>1, <3>1 DEF TypeOK
    <2>2. \A t, p : Owed(t, p) = IF t = x /\ p = at THEN Owed(t, p)' + 1 ELSE Owed(t, p)'
      BY <1>1, <1>2, <1>5, OwedOne DEF IsAt
    <2>3. alert' = alert /\ \A a : OwedWord(a)' = OwedWord(a)
      BY <1>2, <1>5, OwedOne DEF IsAt, Announce
    <2> HIDE DEF x, at
    <2>4. ASSUME NEW t \in Thresholds, NEW p \in Periods
          PROVE  /\ told'[t][p] + Owed(t, p)' <= crossed'[t][p]
                 /\ Faultless' => told'[t][p] + Owed(t, p)' = crossed'[t][p]
      BY <1>1, <1>3, <2>1, <2>2, Tallies DEF TellInv, Faultless
    <2> QED
      BY <1>1, <1>2, <1>4, <2>3, <2>4 DEF TellInv, Faultless, Moves
  <1>6. CASE run[w].kind = "alerts"
    <2>1. \A a \in Alerts : /\ alert'[a].rows = alert[a].rows /\ alert'[a].fired = alert[a].fired
                            /\ alert'[a].told = IF a = x THEN alert[a].told + 1 ELSE alert[a].told
      <3>1. alert' = [alert EXCEPT ![x].told = @ + 1]
        BY <1>6 DEF Announce
      <3> HIDE DEF x
      <3> QED
        BY <3>1 DEF TypeOK
    <2>2. \A a : OwedWord(a) = IF a = x THEN OwedWord(a)' + 1 ELSE OwedWord(a)'
      BY <1>1, <1>2, <1>6, OwedOne DEF IsAt
    <2>3. told' = told /\ \A t, p : Owed(t, p)' = Owed(t, p)
      BY <1>2, <1>6, OwedOne DEF IsAt, Announce
    <2> HIDE DEF x
    <2>4. ASSUME NEW a \in Alerts
          PROVE  /\ alert'[a].told + OwedWord(a)' <= alert'[a].rows
                 /\ alert'[a].rows + OwedRow(a)' <= alert'[a].fired
                 /\ Faultless' => /\ alert'[a].told + OwedWord(a)' = alert'[a].rows
                                  /\ alert'[a].rows + OwedRow(a)' = alert'[a].fired
      BY <1>1, <1>4, <2>1, <2>2, Tallies DEF TellInv, Faultless
    <2> QED
      BY <1>1, <1>2, <1>3, <2>3, <2>4 DEF TellInv, Faultless, Moves
  <1> QED
    BY <1>1, <1>5, <1>6 DEF Kinds

LEMMA NextTell ==
    ASSUME TypeOK, TellInv, [Next]_vars
    PROVE  TellInv'
  <1>0. faults \in Nat /\ (Fail => faults' # 0)
    BY Tallies DEF Fail
  <1>1. ASSUME NEW s \in Servers, Handle(s) \/ CrashHandler(s) PROVE TellInv'
    <2>1. UNCHANGED <<run, crossed, told, alert>> /\ (faults' = faults \/ faults' # 0)
      BY <1>0, <1>1
         DEF Handle, Ingest, Insert, Copy, Reprocess, Enqueue, CrashHandler, findings
    <2> QED
      BY <2>1, ElsewhereTell
  <1>2. CASE Toggle \/ CreateThreshold \/ DeleteThreshold \/ Tick \/ UNCHANGED vars
    <2>1. UNCHANGED <<run, crossed, told, alert, faults>>
      BY <1>2 DEF Toggle, CreateThreshold, DeleteThreshold, Tick, vars, findings
    <2> QED
      BY <2>1, ElsewhereTell
  <1>3. ASSUME NEW w \in Workers, Work(w) \/ Abort(w) \/ CrashWorker(w) PROVE TellInv'
    <2>0. run \in [Workers -> Job] /\ run[w] \in Job /\ Moves(w)
      BY <1>3, OthersStay DEF TypeOK
    <2>1. ASSUME NEW k \in Kinds, Start(w, k) PROVE TellInv'
      <3>1. UNCHANGED <<crossed, told, alert, faults>> /\ run[w].pc = "idle"
        BY <2>1 DEF Start, findings
      <3>2. run'[w].pc \notin {"insert", "record", "announce"}
        <4>1. CASE active
          <5>1. PICK p \in {"measure", "check"}, T \in {Listed, Alerts} :
                  run'[w] = [Resting EXCEPT !.pc = p, !.kind = k, !.per = now, !.at = now,
                                            !.todo = T]
            BY <2>0, <2>1, <4>1 DEF Start
          <5> QED
            BY <5>1 DEF Resting
        <4>2. CASE ~active
          BY <2>1, <3>1, <4>2 DEF Start
        <4> QED
          BY <4>1, <4>2
      <3> QED
        BY <2>0, <3>1, <3>2, QuietTell
    <2>2. CASE Measure(w)
      <3>1. /\ UNCHANGED <<crossed, told, alert, faults>> /\ run[w].pc = "measure"
            /\ run'[w].pc = "check"
        BY <2>0, <2>2 DEF Measure, findings, Job
      <3> QED
        BY <2>0, <3>1, QuietTell
    <2>3. CASE CheckThreshold(w)
      <3>1. /\ UNCHANGED <<crossed, told, alert, faults>> /\ run[w].pc = "check"
            /\ \/ run'[w].pc = "insert" /\ run'[w].kind = "thresholds"
               \/ run'[w].pc = "check"
        <4>1. run'[w] = [run[w] EXCEPT !.pc = "insert"] \/ run'[w] = Done(w)
          BY <2>0, <2>3 DEF CheckThreshold
        <4> QED
          BY <2>0, <2>3, <4>1, DoneType DEF CheckThreshold, findings, Job
      <3> QED
        BY <2>0, <3>1, QuietTell
    <2>4. CASE InsertCrossing(w)
      <3>1. CASE On(w) \notin Listed
        <4>1. /\ UNCHANGED <<crossed, told, alert, faults>> /\ run[w].pc = "insert"
              /\ run'[w].pc = "idle"
          BY <2>0, <2>4, <3>1 DEF InsertCrossing, Resting
        <4> QED
          BY <2>0, <4>1, QuietTell
      <3> QED
        BY <2>0, <2>4, <3>1, InsertTell
    <2>5. CASE CheckAlert(w) \/ RecordTrigger(w) \/ Announce(w)
      BY <2>0, <2>5, CheckAlertTell, RecordTell, AnnounceTell
    <2>6. CASE Finish(w)
      <3>1. /\ UNCHANGED <<crossed, told, alert, faults>> /\ run[w].pc = "check"
            /\ run'[w].pc = "idle"
        BY <2>0, <2>6 DEF Finish, findings, Resting
      <3> QED
        BY <2>0, <3>1, QuietTell
    <2>7. CASE Abort(w) \/ CrashWorker(w)
      <3>1. /\ UNCHANGED <<crossed, told, alert>> /\ faults' # 0
            /\ run'[w].pc = "idle"
        BY <2>0, <1>0, <2>7 DEF Abort, CrashWorker, findings, Resting
      <3> QED
        BY <2>0, <3>1, QuietTell
    <2> QED
      BY <1>3, <2>1, <2>2, <2>3, <2>4, <2>5, <2>6, <2>7 DEF Work
  <1> QED
    BY <1>1, <1>2, <1>3 DEF Next

\* UsageThresholdService and UsageAlertService announce nothing more often than it
\* is on record, however many workers there are and whatever crashes; without
\* faults they announce all of it.
THEOREM ToldOnceHolds == Spec => []ToldOnce
  <1>1. Init => TellInv
    BY InitTell
  <1>2. TypeOK /\ TellInv /\ [Next]_vars => TellInv'
    BY NextTell
  <1>3. TypeOK /\ TellInv => ToldOnce
    <2> SUFFICES ASSUME TypeOK, TellInv PROVE ToldOnce
      OBVIOUS
    <2>1. \A t, p : Owed(t, p) \in Nat /\ (Quiet => Owed(t, p) = 0)
      BY OwedNat DEF Quiet
    <2>2. \A a : /\ OwedRow(a) \in Nat /\ (Quiet => OwedRow(a) = 0)
                 /\ OwedWord(a) \in Nat /\ (Quiet => OwedWord(a) = 0)
      BY OwedNat DEF Quiet
    <2>3. ASSUME NEW t \in Thresholds, NEW p \in Periods
          PROVE  /\ told[t][p] <= crossed[t][p]
                 /\ Quiet /\ Faultless => told[t][p] = crossed[t][p]
      BY <2>1, Tallies DEF TellInv
    <2>4. ASSUME NEW a \in Alerts
          PROVE  /\ alert[a].told <= alert[a].rows /\ alert[a].rows <= alert[a].fired
                 /\ Quiet /\ Faultless => alert[a].told = alert[a].fired
      BY <2>2, Tallies DEF TellInv
    <2> QED
      BY <2>3, <2>4 DEF ToldOnce
  <1> QED
    BY <1>1, <1>2, <1>3, TypeCorrect, PTL DEF Spec

-----------------------------------------------------------------------------
(* What is noticed *)

\* A handler's step changes that handler alone.
LEMMA OneHandler ==
    ASSUME TypeOK, NEW s \in Servers, Handle(s) \/ CrashHandler(s)
    PROVE  \A r \in Servers \ {s} : proc'[r] = proc[r]
  <1>1. proc \in [Servers -> Handler]
    BY DEF TypeOK
  <1> QED
    BY <1>1 DEF Handle, Ingest, Insert, Copy, CheckActive, Reprocess, Enqueue, CrashHandler

\* ClickHouse has what is stored, but for what is being copied.
LEMMA NextCopy ==
    ASSUME TypeOK, CopyInv, [Next]_vars
    PROVE  CopyInv'
  <1>0. proc \in [Servers -> Handler] /\ (Fail => faults' # 0)
    BY DEF TypeOK, Fail
  <1>1. CASE UNCHANGED <<events, copied, proc>> /\ (faults' = 0 => faults = 0)
    BY <1>1 DEF CopyInv, Faultless
  <1>2. ASSUME NEW s \in Servers, Handle(s) \/ CrashHandler(s) PROVE CopyInv'
    <2>1. \A r \in Servers \ {s} : proc'[r] = proc[r]
      BY <1>2, OneHandler
    <2>2. CASE /\ proc[s].pc # "copy" /\ proc'[s].pc # "copy"
               /\ UNCHANGED <<events, copied>> /\ (faults' = 0 => faults = 0)
      BY <2>1, <2>2 DEF CopyInv, Faultless
    <2>3. CASE Ingest(s) \/ Reprocess(s)
      <3>1. proc[s].pc = "idle" /\ proc'[s].pc \in {"insert", "enqueue"}
        BY <1>0, <2>3 DEF Ingest, Reprocess, Free
      <3> QED
        BY <2>2, <2>3, <3>1 DEF Ingest, Reprocess, ingestion
    <2>4. CASE Insert(s)
      <3>1. CASE proc'[s].pc # "copy" /\ UNCHANGED events
        BY <2>2, <2>4, <3>1 DEF Insert
      <3>2. CASE proc' = [proc EXCEPT ![s].pc = "copy"] /\ events' = events \cup proc[s].new
        <4>1. proc'[s].pc = "copy" /\ proc'[s].new = proc[s].new /\ proc[s].pc = "insert"
              /\ UNCHANGED <<copied, faults>>
          BY <1>0, <2>4, <3>2 DEF Insert, Handler
        <4> QED
          BY <2>1, <3>2, <4>1 DEF CopyInv, Faultless
      <3> QED
        BY <1>0, <2>4, <3>1, <3>2 DEF Insert, Free
    <2>5. CASE Copy(s)
      <3>1. /\ proc[s].pc = "copy" /\ proc'[s].pc # "copy" /\ UNCHANGED events
            /\ \/ copied' = (IF Dual THEN copied \cup proc[s].new ELSE copied) /\ UNCHANGED faults
               \/ faults' # 0 /\ UNCHANGED copied
        <4>1. proc'[s] = Free \/ proc'[s] = [Free EXCEPT !.pc = "enqueue", !.checks = Kinds]
          BY <1>0, <2>5 DEF Copy, CheckActive
        <4>2. proc'[s].pc # "copy"
          <5>1. CASE proc'[s] = Free
            BY <5>1 DEF Free
          <5>2. CASE proc'[s] = [Free EXCEPT !.pc = "enqueue", !.checks = Kinds]
            BY <5>2 DEF Free
          <5> QED
            BY <4>1, <5>1, <5>2
        <4>3. \/ copied' = (IF Dual THEN copied \cup proc[s].new ELSE copied) /\ UNCHANGED faults
              \/ faults' # 0 /\ UNCHANGED copied
          BY <1>0, <2>5 DEF Copy
        <4> QED
          BY <2>5, <4>2, <4>3 DEF Copy
      <3> QED
        BY <2>1, <3>1 DEF CopyInv, Faultless
    <2>6. CASE Enqueue(s)
      <3>1. /\ proc[s].pc = "enqueue" /\ UNCHANGED <<events, copied>>
            /\ faults' = faults \/ faults' # 0
        BY <1>0, <2>6 DEF Enqueue, ingestion
      <3>2. proc'[s].pc # "copy"
        BY <1>0, <2>6, <3>1 DEF Enqueue, Free, Handler
      <3> QED
        BY <2>2, <3>1, <3>2
    <2>7. CASE CrashHandler(s)
      <3>1. proc'[s].pc = "idle" /\ faults' # 0 /\ UNCHANGED <<events, copied>>
        BY <1>0, <2>7 DEF CrashHandler, Free, ingestion
      <3> QED
        BY <2>1, <3>1 DEF CopyInv, Faultless
    <2> QED
      BY <1>2, <2>3, <2>4, <2>5, <2>6, <2>7 DEF Handle
  <1>3. ASSUME NEW w \in Workers, Work(w) \/ Abort(w) \/ CrashWorker(w) PROVE CopyInv'
    BY <1>0, <1>1, <1>3 DEF Work, Start, Measure, CheckThreshold, InsertCrossing, CheckAlert,
       RecordTrigger, Announce, Finish, Abort, CrashWorker, ingestion
  <1>4. CASE Toggle \/ CreateThreshold \/ DeleteThreshold \/ Tick \/ UNCHANGED vars
    BY <1>1, <1>4 DEF Toggle, CreateThreshold, DeleteThreshold, Tick, vars, ingestion
  <1> QED
    BY <1>2, <1>3, <1>4 DEF Next

\* What is seen of a threshold and of an alert.
SeenT(t) ==
    \/ Recorded(t, now)
    \/ \E w \in Workers : /\ Checks(w, "thresholds", t)
                          /\ run[w].pc = "measure" \/ Reached(t, run[w].usage)
SeenA(a) ==
    \/ Expected(a, Used(Stored, now)) <= alert[a].times
    \/ \E w \in Workers : /\ Checks(w, "alerts", a)
                          /\ run[w].pc = "check" \/ On(w) # a

LEMMA NoticeSeen ==
    NoticeInv <=>
      /\ "thresholds" \notin unheard /\ ~Coming("thresholds") =>
           \A t \in Listed : Used(Stored, now) >= Amount[t] => SeenT(t)
      /\ "alerts" \notin unheard /\ ~Coming("alerts") => \A a \in Alerts : SeenA(a)
  BY DEF NoticeInv, SeenT, SeenA

\* A step that leaves the workers and what they have found alone.
LEMMA ElsewhereNotice ==
    ASSUME NoticeInv, UNCHANGED <<stamp, now, run, crossed, alert>>,
           \A k \in Kinds : k \notin unheard' /\ ~Coming(k)' =>
              /\ k \notin unheard /\ ~Coming(k) /\ UNCHANGED Stored
              /\ k = "thresholds" => Listed' \subseteq Listed
    PROVE  NoticeInv'
  <1>1. "thresholds" \in Kinds /\ "alerts" \in Kinds
    BY DEF Kinds
  <1>2. ASSUME NEW t, SeenT(t) PROVE SeenT(t)'
    BY <1>2 DEF SeenT, Recorded, Checks
  <1>3. UNCHANGED Stored => \A a : SeenA(a) => SeenA(a)'
    BY DEF SeenA, Checks, On, Used
  <1>4. UNCHANGED Stored => Used(Stored, now)' = Used(Stored, now)
    BY DEF Used
  <1>5. ASSUME "thresholds" \notin unheard', ~Coming("thresholds")',
               NEW t \in Listed', (Used(Stored, now) >= Amount[t])'
        PROVE  SeenT(t)'
    BY <1>1, <1>2, <1>4, <1>5, NoticeSeen
  <1>6. ASSUME "alerts" \notin unheard', ~Coming("alerts")', NEW a \in Alerts
        PROVE  SeenA(a)'
    BY <1>1, <1>3, <1>6, NoticeSeen
  <1> QED
    BY <1>5, <1>6 DEF NoticeInv, SeenT, SeenA

\* Handlers: what they store, they are to have checked.
LEMMA HandlerNotice ==
    ASSUME TypeOK, NoticeInv, NEW s \in Servers, Handle(s) \/ CrashHandler(s)
    PROVE  NoticeInv'
  <1>0. proc \in [Servers -> Handler] /\ proc[s].checks \in SUBSET Kinds
    BY HandlerAt DEF TypeOK
  <1>1. \A r \in Servers \ {s} : proc'[r] = proc[r]
    BY OneHandler
  <1>2. UNCHANGED <<stamp, now, run, crossed, alert, threshold>>
    BY DEF Handle, Ingest, Insert, Copy, Reprocess, Enqueue, CrashHandler, findings
  <1> DEFINE Wait(k) == proc[s].pc = "copy" \/ (proc[s].pc = "enqueue" /\ k \in proc[s].checks)
  <1>3. ASSUME NEW k, ~Wait(k) \/ Wait(k)', jobs[k] > 0 => jobs'[k] > 0, Coming(k)
        PROVE  Coming(k)'
    BY <1>1, <1>3 DEF Coming
  <1>4. SUFFICES ASSUME NEW k \in Kinds, k \notin unheard', ~Coming(k)'
                 PROVE  k \notin unheard /\ ~Coming(k) /\ UNCHANGED Stored
    BY <1>2, ElsewhereNotice DEF Listed
  <1>5. CASE Ingest(s) \/ Reprocess(s)
    <2>1. proc[s].pc = "idle" /\ UNCHANGED <<jobs, unheard, events, copied>>
      BY <1>5 DEF Ingest, Reprocess, ingestion
    <2> QED
      BY <1>3, <1>4, <2>1 DEF Stored
  <1>6. CASE Insert(s)
    <2>1. proc[s].pc = "insert" /\ UNCHANGED <<jobs, unheard, copied>>
      BY <1>6 DEF Insert
    <2>2. proc'[s].pc # "copy"
      BY <1>4 DEF Coming
    <2>3. UNCHANGED events
      BY <1>0, <1>6, <2>2 DEF Insert, Handler
    <2> QED
      BY <1>3, <1>4, <2>1, <2>3 DEF Stored
  <1>7. CASE Copy(s)
    <2>1. \/ unheard' = Kinds
          \/ proc'[s].pc = "enqueue" /\ proc'[s].checks = Kinds
      BY <1>0, <1>7 DEF Copy, CheckActive, Free
    <2> QED
      BY <1>4, <2>1 DEF Coming
  <1>8. CASE Enqueue(s)
    <2>1. PICK j \in Kinds :
            /\ proc[s].pc = "enqueue" /\ UNCHANGED <<events, copied>>
            /\ \/ jobs' = [jobs EXCEPT ![j] = @ + 1] /\ unheard' = unheard \ {j}
               \/ jobs' = jobs /\ unheard' = unheard \cup {j}
            /\ proc' = [proc EXCEPT ![s] =
                          IF proc[s].checks = {j} THEN Free
                          ELSE [proc[s] EXCEPT !.checks = proc[s].checks \ {j}]]
      BY <1>8 DEF Enqueue, ingestion, Kinds
    <2>2. jobs \in [Kinds -> Nat]
      BY DEF TypeOK
    <2>3. k # j /\ k \notin unheard /\ jobs'[k] = jobs[k]
      BY <1>4, <2>1, <2>2 DEF Coming
    <2>4. Wait(k) => Wait(k)'
      <3>1. ASSUME Wait(k) PROVE Wait(k)'
        <4>1. k \in proc[s].checks /\ proc[s].pc = "enqueue"
          BY <2>1, <3>1
        <4>2. proc'[s] = [proc[s] EXCEPT !.checks = proc[s].checks \ {j}]
          BY <1>0, <2>1, <2>3, <4>1
        <4> QED
          BY <1>0, <2>3, <4>1, <4>2 DEF Handler
      <3> QED
        BY <3>1
    <2> QED
      BY <1>3, <1>4, <2>1, <2>3, <2>4 DEF Stored
  <1>9. CASE CrashHandler(s)
    <2>1. /\ UNCHANGED <<jobs, events, copied>>
          /\ unheard' = unheard \cup (CASE proc[s].pc = "insert"  -> {}
                                      [] proc[s].pc = "enqueue" -> proc[s].checks
                                      [] OTHER                  -> Kinds)
      BY <1>9 DEF CrashHandler, ingestion
    <2>2. k \notin unheard /\ ~Wait(k)
      BY <1>4, <2>1
    <2> QED
      BY <1>3, <1>4, <2>1, <2>2 DEF Stored
  <1> QED
    BY <1>5, <1>6, <1>7, <1>8, <1>9 DEF Handle

\* A worker's step changes what is seen by what this worker sees: what another
\* sees is still seen.
LEMMA OneSeen ==
    ASSUME NEW w \in Workers, Moves(w), UNCHANGED now
    PROVE  /\ \A t : /\ SeenT(t) => \/ SeenT(t)' \/ Recorded(t, now)
                                    \/ /\ Checks(w, "thresholds", t)
                                       /\ run[w].pc = "measure" \/ Reached(t, run[w].usage)
                     /\ \/ Recorded(t, now)'
                        \/ /\ Checks(w, "thresholds", t)'
                           /\ run'[w].pc = "measure" \/ Reached(t, run'[w].usage)
                        => SeenT(t)'
           /\ \A a : /\ SeenA(a) => \/ SeenA(a)'
                                    \/ Expected(a, Used(Stored, now)) <= alert[a].times
                                    \/ /\ Checks(w, "alerts", a)
                                       /\ run[w].pc = "check" \/ On(w) # a
                     /\ \/ (Expected(a, Used(Stored, now)) <= alert[a].times)'
                        \/ /\ Checks(w, "alerts", a)'
                           /\ run'[w].pc = "check" \/ On(w)' # a
                        => SeenA(a)'
  <1>1. \A v \in Workers \ {w} : /\ run'[v] = run[v] /\ On(v)' = On(v)
                                 /\ \A k, x : Checks(v, k, x) => Checks(v, k, x)'
    BY DEF Moves, On, Checks
  <1>2. ASSUME NEW t, SeenT(t), ~Recorded(t, now),
               ~(/\ Checks(w, "thresholds", t)
                 /\ run[w].pc = "measure" \/ Reached(t, run[w].usage))
        PROVE  SeenT(t)'
    BY <1>1, <1>2 DEF SeenT, Reached
  <1>3. ASSUME NEW a, SeenA(a), ~(Expected(a, Used(Stored, now)) <= alert[a].times),
               ~(Checks(w, "alerts", a) /\ (run[w].pc = "check" \/ On(w) # a))
        PROVE  SeenA(a)'
    BY <1>1, <1>3 DEF SeenA
  <1> QED
    BY <1>2, <1>3 DEF SeenT, SeenA, Reached

\* A step of a worker: what a check was coming for has to be seen after it.
LEMMA WorkerNotice ==
    ASSUME NoticeInv, UNCHANGED <<stamp, now, threshold, events, copied>>,
           unheard \subseteq unheard',
           "thresholds" \notin unheard' /\ ~Coming("thresholds")' =>
              \A t \in Listed : Used(Stored, now) >= Amount[t]
                                /\ (SeenT(t) \/ Coming("thresholds")) => SeenT(t)',
           "alerts" \notin unheard' /\ ~Coming("alerts")' =>
              \A a \in Alerts : SeenA(a) \/ Coming("alerts") => SeenA(a)'
    PROVE  NoticeInv'
  <1>1. Listed' = Listed /\ Used(Stored, now)' = Used(Stored, now)
    BY DEF Listed, Used, Stored
  <1>2. ASSUME "thresholds" \notin unheard', ~Coming("thresholds")',
               NEW t \in Listed, Used(Stored, now) >= Amount[t]
        PROVE  SeenT(t)'
    BY <1>2, NoticeSeen
  <1>3. ASSUME "alerts" \notin unheard', ~Coming("alerts")', NEW a \in Alerts
        PROVE  SeenA(a)'
    BY <1>3, NoticeSeen
  <1> QED
    BY <1>1, <1>2, <1>3 DEF NoticeInv, SeenT, SeenA

\* A step of a worker with the jobs as they were.
LEMMA JobNotice ==
    ASSUME NoticeInv, UNCHANGED <<stamp, now, threshold, events, copied, proc, jobs>>,
           unheard \subseteq unheard',
           "thresholds" \notin unheard' =>
              \A t \in Listed : Used(Stored, now) >= Amount[t] /\ SeenT(t) => SeenT(t)',
           "alerts" \notin unheard' => \A a \in Alerts : SeenA(a) => SeenA(a)'
    PROVE  NoticeInv'
  <1>1. \A k : Coming(k)' <=> Coming(k)
    BY DEF Coming
  <1> QED
    BY <1>1, WorkerNotice

\* What a worker sees of the kind that it is not at does not depend on its job.
LEMMA OtherSeen ==
    ASSUME NEW w \in Workers, Moves(w), UNCHANGED <<stamp, now, events, copied>>
    PROVE  /\ UNCHANGED crossed /\ (run[w].kind # "thresholds" \/ run[w].pc = "idle") =>
                 \A t : SeenT(t) => SeenT(t)'
           /\ UNCHANGED alert /\ (run[w].kind # "alerts" \/ run[w].pc = "idle") =>
                 \A a : SeenA(a) => SeenA(a)'
  <1>1. Used(Stored, now)' = Used(Stored, now)
    BY DEF Used, Stored
  <1> QED
    BY <1>1, OneSeen DEF Recorded, Checks

\* A job that goes on with the same list, and one that has dealt with one more.
LEMMA Rows ==
    ASSUME TypeOK, NEW w \in Workers
    PROVE  /\ \A p : run' = [run EXCEPT ![w].pc = p] =>
                 /\ run'[w].pc = p /\ run'[w].kind = run[w].kind /\ run'[w].per = run[w].per
                 /\ run'[w].usage = run[w].usage /\ run'[w].todo = run[w].todo
                 /\ On(w)' = On(w)
           /\ run' = [run EXCEPT ![w] = Done(w)] =>
                 /\ run'[w].pc = "check" /\ run'[w].kind = run[w].kind
                 /\ run'[w].per = run[w].per /\ run'[w].usage = run[w].usage
                 /\ run'[w].todo = run[w].todo \ {On(w)}
           /\ run' = [run EXCEPT ![w] = Resting] => run'[w].pc = "idle"
  <1>1. run \in [Workers -> Job] /\ run[w] \in Job
    BY DEF TypeOK
  <1>2. ASSUME NEW p, run' = [run EXCEPT ![w].pc = p]
        PROVE  /\ run'[w].pc = p /\ run'[w].kind = run[w].kind /\ run'[w].per = run[w].per
               /\ run'[w].usage = run[w].usage /\ run'[w].todo = run[w].todo
    BY <1>1, <1>2 DEF Job
  <1>3. ASSUME NEW p, run' = [run EXCEPT ![w].pc = p] PROVE On(w)' = On(w)
    BY <1>2, <1>3, SameOn
  <1>4. run' = [run EXCEPT ![w] = Done(w)] => run'[w] = Done(w)
    BY <1>1
  <1>5. /\ Done(w).pc = "check" /\ Done(w).kind = run[w].kind /\ Done(w).per = run[w].per
        /\ Done(w).usage = run[w].usage /\ Done(w).todo = run[w].todo \ {On(w)}
    <2>1. PICK q \in Job : q = run[w]
      BY <1>1
    <2> DEFINE x == On(w)
    <2>2. Done(w) = [q EXCEPT !.pc = "check", !.todo = q.todo \ {x}]
      BY <2>1 DEF Done
    <2> HIDE DEF x
    <2>3. q = [pc |-> q.pc, kind |-> q.kind, per |-> q.per, at |-> q.at, usage |-> q.usage,
               todo |-> q.todo]
      BY DEF Job
    <2>4. Done(w) = [pc |-> "check", kind |-> q.kind, per |-> q.per, at |-> q.at,
                     usage |-> q.usage, todo |-> q.todo \ {x}]
      BY <2>2, <2>3 DEF Job
    <2> QED
      BY <2>1, <2>4 DEF x
  <1>6. run' = [run EXCEPT ![w] = Resting] => run'[w].pc = "idle"
    BY <1>1 DEF Resting
  <1> QED
    BY <1>2, <1>3, <1>4, <1>5, <1>6

\* Thresholds: what is passed over is on record or is not reached.
LEMMA MeasureNotice ==
    ASSUME TypeOK, NoticeInv, NEW w \in Workers, Moves(w), Measure(w)
    PROVE  NoticeInv'
  <1> DEFINE u == Used(Stored, run[w].per)
  <1>1. /\ UNCHANGED <<stamp, now, threshold, events, copied, proc, jobs, crossed, alert>>
        /\ UNCHANGED unheard /\ run[w].pc = "measure"
    BY DEF Measure, ingestion, findings
  <1>2. /\ run'[w].pc = "check" /\ run'[w].kind = run[w].kind /\ run'[w].per = run[w].per
        /\ run'[w].usage = u /\ run'[w].todo = run[w].todo
    <2>1. run' = [run EXCEPT ![w].pc = "check", ![w].at = now, ![w].usage = u]
      BY DEF Measure
    <2> HIDE DEF u
    <2>2. run \in [Workers -> Job] /\ run[w] \in Job
      BY DEF TypeOK
    <2> QED
      BY <2>1, <2>2 DEF Job
  <1>3. On(w)' = On(w) /\ Used(Stored, now)' = Used(Stored, now)
    BY <1>1, <1>2, SameOn DEF Used, Stored
  <1>4. ASSUME NEW t \in Listed, Used(Stored, now) >= Amount[t], SeenT(t) PROVE SeenT(t)'
    <2>1. CASE Recorded(t, now)
      BY <1>1, <2>1 DEF SeenT, Recorded
    <2>2. CASE Checks(w, "thresholds", t)
      BY <1>1, <1>2, <1>4, <2>2, OneSeen DEF Checks, Reached
    <2> QED
      BY <1>1, <1>4, <2>1, <2>2, OneSeen
  <1>5. ASSUME NEW a \in Alerts, SeenA(a) PROVE SeenA(a)'
    BY <1>1, <1>2, <1>3, <1>5, OneSeen DEF Checks
  <1> QED
    BY <1>1, <1>4, <1>5, JobNotice

LEMMA CheckThresholdNotice ==
    ASSUME TypeOK, NoticeInv, NEW w \in Workers, Moves(w), CheckThreshold(w)
    PROVE  NoticeInv'
  <1>1. /\ UNCHANGED <<stamp, now, threshold, events, copied, proc, jobs, crossed, alert>>
        /\ UNCHANGED unheard /\ run[w].pc = "check" /\ run[w].kind = "thresholds"
    BY DEF CheckThreshold, ingestion, findings
  <1>2. /\ run'[w].pc # "idle" /\ run'[w].kind = "thresholds" /\ run'[w].per = run[w].per
        /\ run'[w].usage = run[w].usage
        /\ \/ run'[w].todo = run[w].todo
           \/ /\ run'[w].todo = run[w].todo \ {On(w)}
              /\ Recorded(On(w), run[w].per) \/ ~Reached(On(w), run[w].usage)
    <2>1. CASE ~Recorded(On(w), run[w].per) /\ Reached(On(w), run[w].usage)
      <3>1. run' = [run EXCEPT ![w].pc = "insert"]
        BY <2>1 DEF CheckThreshold
      <3> QED
        BY <1>1, <3>1, Rows
    <2>2. CASE Recorded(On(w), run[w].per) \/ ~Reached(On(w), run[w].usage)
      <3>1. run' = [run EXCEPT ![w] = Done(w)]
        BY <2>2 DEF CheckThreshold
      <3> QED
        BY <1>1, <2>2, <3>1, Rows
    <2> QED
      BY <2>1, <2>2
  <1>3. ASSUME NEW t \in Listed, SeenT(t) PROVE SeenT(t)'
    <2>1. CASE Recorded(t, now)
      BY <1>1, <2>1 DEF SeenT, Recorded
    <2>2. CASE Checks(w, "thresholds", t) /\ Reached(t, run[w].usage) /\ ~Recorded(t, now)
      BY <1>1, <1>2, <2>2, OneSeen DEF Checks
    <2> QED
      BY <1>1, <1>3, <2>1, <2>2, OneSeen
  <1>4. \A a : SeenA(a) => SeenA(a)'
    BY <1>1, OtherSeen
  <1> QED
    BY <1>1, <1>3, <1>4, JobNotice

LEMMA InsertNotice ==
    ASSUME TypeOK, TellInv, NoticeInv, NEW w \in Workers, Moves(w), InsertCrossing(w)
    PROVE  NoticeInv'
  <1>1. /\ UNCHANGED <<stamp, now, threshold, events, copied, proc, jobs, alert>>
        /\ run[w].pc = "insert" /\ run[w].kind = "thresholds"
    BY DEF InsertCrossing, ingestion, TellInv
  <1>2. \A a : SeenA(a) => SeenA(a)'
    BY <1>1, OtherSeen
  <1>3. CASE On(w) \in Listed
    <2> DEFINE x == On(w)
               at == run[w].at
    <2>1. /\ run' = [run EXCEPT ![w].pc = "announce"] /\ UNCHANGED unheard
          /\ crossed' = [crossed EXCEPT ![x][at] = @ + 1]
      BY <1>3 DEF InsertCrossing
    <2>2. /\ run'[w].pc = "announce" /\ run'[w].kind = run[w].kind /\ run'[w].per = run[w].per
          /\ run'[w].usage = run[w].usage /\ run'[w].todo = run[w].todo
      BY <2>1, Rows
    <2>3. \A t \in Thresholds : Recorded(t, now) => Recorded(t, now)'
      <3> HIDE DEF x, at
      <3>1. crossed \in [Thresholds -> [Periods -> Nat]] /\ now \in Nat /\ MaxPeriod \in Nat
        BY ConstantsAssumption DEF TypeOK, Periods
      <3>2. \A t \in Thresholds, p \in Periods : crossed[t][p] > 0 => crossed'[t][p] > 0
        BY <2>1, <3>1
      <3>3. \A p \in now..MaxPeriod : p \in Periods
        BY <3>1 DEF Periods
      <3> QED
        BY <1>1, <3>2, <3>3 DEF Recorded
    <2>4. \A t \in Listed : SeenT(t) => SeenT(t)'
      BY <1>1, <2>2, <2>3, OneSeen DEF Checks, Listed
    <2> QED
      BY <1>1, <1>2, <2>1, <2>4, JobNotice
  <1>4. CASE On(w) \notin Listed
    BY <1>1, <1>2, <1>4, JobNotice DEF InsertCrossing
  <1> QED
    BY <1>3, <1>4

\* Alerts: what is passed over is counted.
LEMMA CheckAlertNotice ==
    ASSUME TypeOK, NoticeInv, NEW w \in Workers, Moves(w), CheckAlert(w)
    PROVE  NoticeInv'
  <1> DEFINE x == On(w)
             n == Expected(x, Used(Stored, run[w].per))
  <1>1. /\ UNCHANGED <<stamp, now, threshold, events, copied, proc, jobs, crossed, unheard>>
        /\ run[w].pc = "check" /\ run[w].kind = "alerts"
    BY DEF CheckAlert, ingestion
  <1>2. Used(Stored, now)' = Used(Stored, now)
    BY <1>1 DEF Used, Stored
  <1>3. \A t : SeenT(t) => SeenT(t)'
    BY <1>1, OtherSeen
  <1>4. CASE n > alert[x].times
    <2>1. /\ run' = [run EXCEPT ![w].pc = "record"]
          /\ alert' = [alert EXCEPT ![x].times = n, ![x].fired = @ + 1]
      BY <1>4 DEF CheckAlert
    <2>2. /\ run'[w].pc = "record" /\ run'[w].kind = run[w].kind /\ run'[w].per = run[w].per
          /\ run'[w].usage = run[w].usage /\ run'[w].todo = run[w].todo /\ On(w)' = x
      BY <2>1, Rows
    <2>3. \A a \in Alerts : alert'[a].times = IF a = x THEN n ELSE alert[a].times
      <3> HIDE DEF x, n
      <3> QED
        BY <2>1 DEF TypeOK
    <2>4. ASSUME NEW a \in Alerts, SeenA(a) PROVE SeenA(a)'
      <3>1. CASE a # x
        BY <1>1, <1>2, <2>2, <2>3, <2>4, <3>1, OneSeen DEF Checks
      <3>2. CASE a = x
        <4>1. Used(Stored, run[w].per) \in Nat /\ Used(Stored, now) \in Nat
          BY UsedNat DEF TypeOK, Stored
        <4>2. n \in Nat /\ Expected(a, Used(Stored, now)) \in Nat /\ alert[a].times \in Nat
          BY <3>2, <4>1, ExpectedNat, Tallies
        <4>3. \/ SeenA(a)' \/ run[w].per = now
              \/ Expected(a, Used(Stored, now)) <= alert[a].times
          BY <1>1, <2>4, OneSeen DEF Checks
        <4>4. run[w].per = now => n = Expected(a, Used(Stored, now))
          BY <3>2
        <4>5. alert'[a].times = n
          BY <2>3, <3>2
        <4> HIDE DEF n
        <4>6. SeenA(a)' \/ Expected(a, Used(Stored, now)) <= n
          BY <1>4, <3>2, <4>2, <4>3, <4>4
        <4> QED
          BY <1>1, <1>2, <4>5, <4>6, OneSeen
      <3> QED
        BY <3>1, <3>2
    <2> QED
      BY <1>1, <1>3, <2>4, JobNotice
  <1>5. CASE ~(n > alert[x].times)
    <2>1. run' = [run EXCEPT ![w] = Done(w)] /\ UNCHANGED alert
      BY <1>5 DEF CheckAlert
    <2>2. /\ run'[w].pc = "check" /\ run'[w].kind = run[w].kind /\ run'[w].per = run[w].per
          /\ run'[w].todo = run[w].todo \ {x}
      BY <2>1, Rows
    <2>3. ASSUME NEW a \in Alerts, SeenA(a) PROVE SeenA(a)'
      <3>1. CASE Expected(a, Used(Stored, now)) <= alert[a].times
        BY <1>2, <2>1, <3>1, <1>1, OneSeen
      <3>2. CASE Checks(w, "alerts", a) /\ a # x
        BY <1>1, <2>2, <3>2, OneSeen DEF Checks
      <3>3. CASE Checks(w, "alerts", a) /\ a = x
        <4>1. Used(Stored, now) \in Nat
          BY UsedNat DEF TypeOK, Stored
        <4>2. Expected(a, Used(Stored, now)) \in Nat /\ alert[a].times \in Nat
          BY <4>1, ExpectedNat, Tallies
        <4>3. n = Expected(a, Used(Stored, now))
          BY <3>3 DEF Checks
        <4> HIDE DEF n
        <4>4. Expected(a, Used(Stored, now)) <= alert[a].times
          BY <1>5, <3>3, <4>2, <4>3
        <4> QED
          BY <3>1, <4>4
      <3> QED
        BY <1>1, <2>3, <3>1, <3>2, <3>3, OneSeen
    <2> QED
      BY <1>1, <1>3, <2>3, JobNotice
  <1> QED
    BY <1>4, <1>5

LEMMA RecordNotice ==
    ASSUME TypeOK, TellInv, NoticeInv, NEW w \in Workers, Moves(w), RecordTrigger(w)
    PROVE  NoticeInv'
  <1>1. /\ UNCHANGED <<stamp, now, threshold, events, copied, proc, jobs, crossed, unheard>>
        /\ run[w].pc = "record" /\ run[w].kind = "alerts"
        /\ run' = [run EXCEPT ![w].pc = "announce"]
    BY DEF RecordTrigger, ingestion, TellInv
  <1>2. /\ run'[w].pc = "announce" /\ run'[w].kind = run[w].kind /\ run'[w].per = run[w].per
        /\ run'[w].todo = run[w].todo /\ On(w)' = On(w)
    BY <1>1, Rows
  <1>3. \A a \in Alerts : alert'[a].times = alert[a].times
    BY DEF RecordTrigger, TypeOK
  <1>4. Used(Stored, now)' = Used(Stored, now)
    BY <1>1 DEF Used, Stored
  <1>5. \A a \in Alerts : SeenA(a) => SeenA(a)'
    BY <1>1, <1>2, <1>3, <1>4, OneSeen DEF Checks
  <1>6. \A t : SeenT(t) => SeenT(t)'
    BY <1>1, OtherSeen
  <1> QED
    BY <1>1, <1>5, <1>6, JobNotice

\* What is announced is on record, in the period or after it.
LEMMA AnnounceNotice ==
    ASSUME DateInv, TellInv, NoticeInv, NEW w \in Workers, Moves(w), Announce(w)
    PROVE  NoticeInv'
  <1> DEFINE x == On(w)
             at == run[w].at
  <1>1. /\ UNCHANGED <<stamp, now, threshold, events, copied, proc, jobs, crossed, unheard>>
        /\ run[w].pc = "announce" /\ run' = [run EXCEPT ![w] = Done(w)]
        /\ run[w].kind \in Kinds /\ at \in Periods /\ run[w].per \in Periods
        /\ run[w].per <= at /\ TypeOK
    BY DEF Announce, ingestion, DateInv, TypeOK, Job
  <1>2. /\ run'[w].pc = "check" /\ run'[w].kind = run[w].kind /\ run'[w].per = run[w].per
        /\ run'[w].usage = run[w].usage /\ run'[w].todo = run[w].todo \ {x}
    BY <1>1, Rows
  <1>3. Used(Stored, now)' = Used(Stored, now)
    BY <1>1 DEF Used, Stored
  <1>4. CASE run[w].kind = "thresholds"
    <2>1. UNCHANGED alert
      BY <1>4 DEF Announce
    <2>2. \A a : SeenA(a) => SeenA(a)'
      BY <1>1, <1>4, <2>1, OtherSeen
    <2>3. ASSUME x \in Thresholds, run[w].per = now PROVE Recorded(x, now)
      <3>1. w \in Owing(x, at)
        BY <1>1, <1>4 DEF Owing, IsAt
      <3> HIDE DEF x, at
      <3>2. told[x][at] + Owed(x, at) <= crossed[x][at] /\ Owed(x, at) \in Nat /\ Owed(x, at) > 0
        BY <1>1, <2>3, <3>1, OwedNat DEF TellInv
      <3>3. crossed[x][at] > 0
        BY <1>1, <2>3, <3>2, Tallies
      <3>4. at \in now..MaxPeriod
        BY <1>1, <2>3, ConstantsAssumption DEF Periods
      <3> QED
        BY <3>3, <3>4 DEF Recorded
    <2>4. ASSUME NEW t \in Listed, SeenT(t) PROVE SeenT(t)'
      <3>0. t \in Thresholds
        BY DEF Listed
      <3>1. CASE Recorded(t, now)
        BY <1>1, <3>1 DEF SeenT, Recorded
      <3>2. CASE Checks(w, "thresholds", t) /\ t # x /\ Reached(t, run[w].usage)
        BY <1>1, <1>2, <3>2, OneSeen DEF Checks
      <3>3. CASE Checks(w, "thresholds", t) /\ t = x
        BY <2>3, <3>0, <3>1, <3>3 DEF Checks
      <3> QED
        BY <1>1, <2>4, <3>1, <3>2, <3>3, OneSeen
    <2> QED
      BY <1>1, <2>2, <2>4, JobNotice
  <1>5. CASE run[w].kind = "alerts"
    <2>1. \A a \in Alerts : alert'[a].times = alert[a].times
      <3>1. alert' = [alert EXCEPT ![x].told = @ + 1]
        BY <1>5 DEF Announce
      <3> HIDE DEF x
      <3> QED
        BY <1>1, <3>1 DEF TypeOK
    <2>2. \A t : SeenT(t) => SeenT(t)'
      BY <1>1, <1>5, OtherSeen
    <2>3. ASSUME NEW a \in Alerts, SeenA(a) PROVE SeenA(a)'
      BY <1>1, <1>2, <1>3, <2>1, <2>3, OneSeen DEF Checks
    <2> QED
      BY <1>1, <2>2, <2>3, JobNotice
  <1> QED
    BY <1>1, <1>4, <1>5 DEF Kinds

\* A job that ends has seen all, or its kind is unheard or comes again.
LEMMA EndNotice ==
    ASSUME TypeOK, NoticeInv, NEW w \in Workers, Moves(w),
           Finish(w) \/ Abort(w) \/ CrashWorker(w)
    PROVE  NoticeInv'
  <1>1. /\ UNCHANGED <<stamp, now, threshold, events, copied, proc, crossed, alert>>
        /\ run' = [run EXCEPT ![w] = Resting] /\ run[w].kind \in Kinds
        /\ jobs \in [Kinds -> Nat]
    BY DEF Finish, Abort, CrashWorker, ingestion, findings, TypeOK, Job
  <1>2. Used(Stored, now)' = Used(Stored, now)
    BY <1>1 DEF Used, Stored
  <1>3. ASSUME NEW t, SeenT(t), run[w].kind # "thresholds" \/ Finish(w) PROVE SeenT(t)'
    <2>1. SeenT(t)' \/ Recorded(t, now)
      BY <1>1, <1>3, OneSeen DEF Checks, Finish
    <2> QED
      BY <1>1, <2>1, OneSeen DEF Recorded
  <1>4. ASSUME NEW a, SeenA(a), run[w].kind # "alerts" \/ Finish(w) PROVE SeenA(a)'
    <2>1. SeenA(a)' \/ Expected(a, Used(Stored, now)) <= alert[a].times
      BY <1>1, <1>4, OneSeen DEF Checks, Finish
    <2> QED
      BY <1>1, <1>2, <2>1, OneSeen
  <1>5. CASE Finish(w)
    BY <1>1, <1>3, <1>4, <1>5, JobNotice DEF Finish
  <1>6. CASE Abort(w)
    BY <1>1, <1>3, <1>4, <1>6, JobNotice DEF Abort
  <1>7. CASE CrashWorker(w)
    <2>1. jobs' = [jobs EXCEPT ![run[w].kind] = @ + 1] /\ UNCHANGED unheard
      BY <1>7 DEF CrashWorker
    <2>2. PICK j \in Kinds : j = run[w].kind
      BY <1>1
    <2>3. Coming(j)' /\ \A k \in Kinds : Coming(k) => Coming(k)'
      BY <1>1, <2>1, <2>2 DEF Coming
    <2> QED
      BY <1>1, <1>3, <1>4, <2>1, <2>2, <2>3, WorkerNotice DEF Kinds
  <1> QED
    BY <1>5, <1>6, <1>7

\* A job that starts looks at everything of its kind.
LEMMA StartNotice ==
    ASSUME TypeOK, NoticeInv, NEW w \in Workers, Moves(w), NEW k \in Kinds, Start(w, k)
    PROVE  NoticeInv'
  <1>1. /\ UNCHANGED <<stamp, now, threshold, events, copied, proc, crossed, alert>>
        /\ run[w].pc = "idle" /\ jobs' = [jobs EXCEPT ![k] = @ - 1]
        /\ jobs \in [Kinds -> Nat] /\ unheard \subseteq unheard'
    BY DEF Start, ingestion, findings, TypeOK
  <1>2. \A j \in Kinds \ {k} : Coming(j) => Coming(j)'
    BY <1>1 DEF Coming
  <1>3. (\A t : SeenT(t) => SeenT(t)') /\ (\A a : SeenA(a) => SeenA(a)')
    BY <1>1, OtherSeen
  <1>4. CASE active
    <2> DEFINE T == IF k = "thresholds" THEN Listed ELSE Alerts
               p == IF k = "thresholds" THEN "measure" ELSE "check"
    <2>1. run'[w] = [Resting EXCEPT !.pc = p, !.kind = k, !.per = now, !.at = now, !.todo = T]
      BY <1>4 DEF Start, TypeOK
    <2>2. /\ run'[w].pc = p /\ run'[w].kind = k /\ run'[w].per = now /\ run'[w].todo = T
      <3> HIDE DEF T, p
      <3> QED
        BY <2>1 DEF Resting
    <2>3. k = "thresholds" => \A t \in Listed : SeenT(t)'
      BY <1>1, <2>2, OneSeen DEF Checks
    <2>4. k = "alerts" => \A a \in Alerts : SeenA(a)'
      BY <1>1, <2>2, OneSeen DEF Checks
    <2> QED
      BY <1>1, <1>2, <1>3, <2>3, <2>4, WorkerNotice DEF Kinds
  <1>5. CASE ~active
    <2>1. k \in unheard'
      BY <1>5 DEF Start
    <2> QED
      BY <1>1, <1>2, <1>3, <2>1, WorkerNotice DEF Kinds
  <1> QED
    BY <1>4, <1>5

\* A period begins with nothing used, or its usage is unheard of.
LEMMA TickNotice ==
    ASSUME TypeOK, CopyInv, NoticeInv, Tick
    PROVE  NoticeInv'
  <1>1. /\ UNCHANGED <<stamp, threshold, events, copied, proc, jobs, run, crossed, alert>>
        /\ now' = now + 1 /\ now' \in Periods /\ events \in SUBSET Txns
    BY ConstantsAssumption DEF Tick, ingestion, findings, TypeOK, Periods
  <1>2. CASE unheard' = Kinds
    BY <1>2 DEF NoticeInv, Kinds
  <1>3. CASE Used(events, now + 1) = 0
    <2> DEFINE E == {x \in events : stamp[x] = now + 1}
               S == {x \in Stored : stamp[x] = now + 1}
    <2>1. IsFiniteSet(E) /\ S \subseteq E
      BY <1>1, ConstantsAssumption, FS_Subset DEF CopyInv, Stored
    <2>2. Cardinality(E) = 0
      BY <1>3 DEF Used
    <2> HIDE DEF E
    <2>3. E = {}
      BY <2>1, <2>2, FS_EmptySet
    <2>4. S = {}
      BY <2>1, <2>3
    <2>5. Used(Stored, now)' = Cardinality(S)
      BY <1>1 DEF Used, Stored
    <2>6. Used(Stored, now)' = 0
      BY <2>4, <2>5, FS_EmptySet
    <2>7. \A t \in Thresholds : Amount[t] \in Nat \ {0}
      BY ConstantsAssumption
    <2>8. \A a \in Alerts : /\ Value[a] \in Nat \ {0} /\ alert'[a].times \in Nat
                            /\ 0 \div Value[a] = 0
      BY <1>1, ConstantsAssumption, Tallies
    <2>9. \A t \in Listed' : ~(Used(Stored, now)' >= Amount[t])
      BY <1>1, <2>6, <2>7 DEF Listed
    <2>10. \A a \in Alerts : (Expected(a, Used(Stored, now)) <= alert[a].times)'
      BY <2>6, <2>8 DEF Expected
    <2> QED
      BY <2>9, <2>10 DEF NoticeInv
  <1>4. Used(events, now + 1) \in Nat
    BY <1>1, UsedNat
  <1> QED
    BY <1>2, <1>3, <1>4 DEF Tick

LEMMA NextNotice ==
    ASSUME DateInv, TellInv, CopyInv, NoticeInv, [Next]_vars
    PROVE  NoticeInv'
  <1>0. TypeOK
    BY DEF DateInv
  <1>1. ASSUME NEW s \in Servers, Handle(s) \/ CrashHandler(s) PROVE NoticeInv'
    BY <1>0, <1>1, HandlerNotice
  <1>2. ASSUME NEW w \in Workers, Work(w) \/ Abort(w) \/ CrashWorker(w) PROVE NoticeInv'
    <2>0. Moves(w)
      BY <1>0, <1>2, OthersStay
    <2>1. ASSUME NEW k \in Kinds, Start(w, k) PROVE NoticeInv'
      BY <1>0, <2>0, <2>1, StartNotice
    <2>2. CASE Measure(w) \/ CheckThreshold(w) \/ InsertCrossing(w)
      BY <1>0, <2>0, <2>2, MeasureNotice, CheckThresholdNotice, InsertNotice
    <2>3. CASE CheckAlert(w) \/ RecordTrigger(w) \/ Announce(w)
      BY <1>0, <2>0, <2>3, CheckAlertNotice, RecordNotice, AnnounceNotice
    <2>4. CASE Finish(w) \/ Abort(w) \/ CrashWorker(w)
      BY <1>0, <2>0, <2>4, EndNotice
    <2> QED
      BY <1>2, <2>1, <2>2, <2>3, <2>4 DEF Work
  <1>3. CASE Toggle \/ CreateThreshold \/ DeleteThreshold \/ UNCHANGED vars
    <2>1. /\ UNCHANGED <<stamp, now, run, crossed, alert, proc, jobs, events, copied>>
          /\ \/ unheard' = unheard /\ Listed' \subseteq Listed
             \/ unheard' = unheard \cup {"thresholds"}
      BY <1>0, <1>3 DEF Toggle, CreateThreshold, DeleteThreshold, vars, ingestion, findings,
                        Listed, TypeOK
    <2>2. UNCHANGED Stored /\ \A k : Coming(k)' <=> Coming(k)
      BY <2>1 DEF Stored, Coming
    <2> QED
      BY <2>1, <2>2, ElsewhereNotice
  <1>4. CASE Tick
    BY <1>0, <1>4, TickNotice
  <1> QED
    BY <1>1, <1>2, <1>3, <1>4 DEF Next

\* Without faults what is counted is what is stored, once nothing is being copied.
LEMMA StoredIsEvents ==
    ASSUME CopyInv, Faultless, Quiet
    PROVE  Stored = events
  BY DEF CopyInv, Quiet, Stored

\* UsageThresholdService and UsageAlertService have on record, once nothing is
\* under way and the last check was not lost, everything that the usage of the
\* period has reached: for any number of events, requests and checks that race
\* each other, thresholds, alerts and faults.
THEOREM NoticedHolds == Spec => []Noticed
  <1>1. Init => TellInv /\ CopyInv /\ NoticeInv
    <2> SUFFICES ASSUME Init PROVE TellInv /\ CopyInv /\ NoticeInv
      OBVIOUS
    <2>1. TellInv
      BY InitTell
    <2>2. CopyInv
      BY DEF Init, CopyInv, Free
    <2>3. Used(Stored, now) = 0
      <3>1. {x \in Stored : stamp[x] = now} = {}
        BY DEF Init, Stored
      <3> QED
        BY <3>1, FS_EmptySet DEF Used
    <2>4. \A t \in Thresholds : ~(Used(Stored, now) >= Amount[t])
      BY <2>3, ConstantsAssumption
    <2>5. \A a \in Alerts : Expected(a, Used(Stored, now)) <= alert[a].times
      <3>1. \A a \in Alerts : Value[a] \in Nat \ {0} /\ 0 \div Value[a] = 0
        BY ConstantsAssumption
      <3>2. \A a \in Alerts : alert[a].times = 0
        BY DEF Init
      <3> QED
        BY <2>3, <3>1, <3>2 DEF Expected
    <2> QED
      BY <2>1, <2>2, <2>4, <2>5 DEF NoticeInv, Listed
  <1>2. DateInv /\ TellInv /\ CopyInv /\ NoticeInv /\ [Next]_vars
           => DateInv' /\ TellInv' /\ CopyInv' /\ NoticeInv'
    BY NextDate, NextTell, NextCopy, NextNotice DEF DateInv
  <1>3. CopyInv /\ NoticeInv => Noticed
    <2> SUFFICES ASSUME CopyInv, NoticeInv, Quiet
                 PROVE  /\ "thresholds" \notin unheard =>
                             \A t \in Listed :
                                Used(IF Faultless THEN events ELSE Stored, now) >= Amount[t]
                                => Recorded(t, now)
                        /\ "alerts" \notin unheard =>
                             \A a \in Alerts :
                                Expected(a, Used(IF Faultless THEN events ELSE Stored, now))
                                   <= alert[a].times
      BY DEF Noticed, Recorded
    <2>1. (IF Faultless THEN events ELSE Stored) = Stored
      BY StoredIsEvents
    <2>2. ~Coming("thresholds") /\ ~Coming("alerts")
      BY DEF Quiet, Coming, Kinds
    <2>3. \A w \in Workers : \A k, x : ~Checks(w, k, x)
      BY DEF Quiet, Checks
    <2>4. "thresholds" \notin unheard =>
             \A t \in Listed : Used(Stored, now) >= Amount[t] => Recorded(t, now)
      BY <2>2, <2>3 DEF NoticeInv
    <2>5. "alerts" \notin unheard =>
             \A a \in Alerts : Expected(a, Used(Stored, now)) <= alert[a].times
      BY <2>2, <2>3 DEF NoticeInv
    <2> QED
      BY <2>1, <2>4, <2>5
  <1> QED
    BY <1>1, <1>2, <1>3, InitDate, PTL DEF Spec
=============================================================================
