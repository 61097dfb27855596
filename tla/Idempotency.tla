----------------------------- MODULE Idempotency -----------------------------
(***************************************************************************)
(* Requests with an Idempotency-Key: core/idempotency.py over              *)
(* idempotency_repository.py, as used by the endpoints that create a row   *)
(* (POST /customers, /subscriptions, /usage_alerts and their like), and    *)
(* the worker's daily clean-up.                                            *)
(*                                                                         *)
(* A request is a key and the thing that it asks to create.  Some things   *)
(* have an identifier of the client's that is unique in its table          *)
(* (external_id, code); others, such as usage alerts, do not.  Clients     *)
(* retry a request until they are answered.                                *)
(***************************************************************************)
EXTENDS Integers, Sequences, FiniteSets

CONSTANTS
    Servers,         \* API processes
    Keys, Things,
    Unique,          \* the things with a unique identifier
    Requests,        \* the requests that clients make
    MaxDuplicates,   \* bound: requests sent beside a retry that was due
    MaxFaults        \* bound: lost replies, crashes of a process, clean-ups

ASSUME ConstantsAssumption ==
    /\ Requests \subseteq [key : Keys, thing : Things] /\ Requests # {}
    /\ Unique \subseteq Things
    /\ MaxDuplicates \in Nat /\ MaxFaults \in Nat

VARIABLES
    record,   \* the rows of table idempotency_records
    rows,     \* the rows created, by id, with the request of each
    proc,     \* the request that each process handles and how far it is
    told,     \* history: the replies that each request's client has received
    blurred,  \* history: keys whose requests overlapped or whose record expired
    counts    \* history: what the bounds count

vars == <<record, rows, proc, told, blurred, counts>>

Free == [st |-> "none", id |-> 0]
Pending == [st |-> "pending", id |-> 0]       \* response_status is NULL
Answered(id) == [st |-> "answered", id |-> id]

Conflict == -1   \* 409: "already exists"
Failed == -2     \* 500: a unique constraint was violated

Faults == counts.lost + counts.crash + counts.clean
At(s, step) == proc[s].pc = step
Idle == [pc |-> "idle", req |-> CHOOSE r \in Requests : TRUE, id |-> 0]
InFlight(k) == {s \in Servers : ~At(s, "idle") /\ proc[s].req.key = k}
Goto(s, step, id) == proc' = [proc EXCEPT ![s].pc = step, ![s].id = id]

-----------------------------------------------------------------------------
(* Decisions, each preceded by the mistake that a property notices. *)

\* check_idempotency: where a request goes from the record of its key
AfterCheckStuck(rec) ==
    IF rec.st = "answered" THEN "reply" ELSE "create"
AfterCheckAgain(rec) ==
    IF rec.st = "none" THEN "create" ELSE "exists"
AfterCheck(rec) ==
    CASE rec.st = "none" -> "create"
      [] rec.st = "pending" -> "exists"
      [] rec.st = "answered" -> "reply"

\* record_idempotency_response
RecordedForgotten(rec, id) == rec
Recorded(rec, id) == IF rec.st = "none" THEN rec ELSE Answered(id)

-----------------------------------------------------------------------------
(* A request arrives: a retry that is due, or another copy of it.  The      *)
(* record of its key is read.                                               *)

Due(r) ==
    /\ told[r] \subseteq {Failed}
    /\ ~\E s \in Servers : ~At(s, "idle") /\ proc[s].req = r

Receive(s, r) ==
    LET k == r.key IN
    /\ At(s, "idle")
    /\ \/ Due(r) /\ UNCHANGED counts
       \/ /\ ~Due(r) /\ counts.dup < MaxDuplicates
          /\ counts' = [counts EXCEPT !.dup = @ + 1]
    /\ blurred' = IF InFlight(k) = {} THEN blurred ELSE blurred \cup {k}
    /\ proc' = [proc EXCEPT ![s] =
                  [pc |-> AfterCheck(record[k]), req |-> r, id |-> record[k].id]]
    /\ UNCHANGED <<record, rows, told>>

\* IdempotencyRepository.create, under the table's unique constraint
CreateRecord(s) ==
    LET k == proc[s].req.key IN
    /\ At(s, "create")
    /\ IF record[k] = Free
       THEN /\ record' = [record EXCEPT ![k] = Pending]
            /\ Goto(s, "exists", 0)
       ELSE Goto(s, "reply", Failed) /\ UNCHANGED record
    /\ UNCHANGED <<rows, told, blurred, counts>>

ExistsWrong(r) == \E i \in DOMAIN rows : rows[i] = r
Exists(r) ==
    r.thing \in Unique /\ \E i \in DOMAIN rows : rows[i].thing = r.thing

\* The endpoint looks for the identifier, and raises HTTPException if it is taken.
Check(s) ==
    /\ At(s, "exists")
    /\ IF Exists(proc[s].req) THEN Goto(s, "reply", Conflict)
                                    ELSE Goto(s, "insert", 0)
    /\ UNCHANGED <<record, rows, told, blurred, counts>>

\* The endpoint's repository inserts the row.
Insert(s) ==
    /\ At(s, "insert")
    /\ IF Exists(proc[s].req)
       THEN Goto(s, "reply", Failed) /\ UNCHANGED rows
       ELSE /\ rows' = Append(rows, proc[s].req)
            /\ Goto(s, "record", Len(rows) + 1)
    /\ UNCHANGED <<record, told, blurred, counts>>

Record(s) ==
    LET k == proc[s].req.key IN
    /\ At(s, "record")
    /\ record' = [record EXCEPT ![k] = Recorded(@, proc[s].id)]
    /\ Goto(s, "reply", proc[s].id)
    /\ UNCHANGED <<rows, told, blurred, counts>>

\* The reply, which may be lost on its way
Reply(s) ==
    LET r == proc[s].req IN
    /\ At(s, "reply")
    /\ told' = [told EXCEPT ![r] = @ \cup {proc[s].id}]
    /\ proc' = [proc EXCEPT ![s] = Idle]
    /\ UNCHANGED <<record, rows, blurred, counts>>

Lose(s) ==
    /\ At(s, "reply")
    /\ Faults < MaxFaults
    /\ counts' = [counts EXCEPT !.lost = @ + 1]
    /\ proc' = [proc EXCEPT ![s] = Idle]
    /\ UNCHANGED <<record, rows, told, blurred>>

Crash(s) ==
    /\ ~At(s, "idle")
    /\ Faults < MaxFaults
    /\ counts' = [counts EXCEPT !.crash = @ + 1]
    /\ proc' = [proc EXCEPT ![s] = Idle]
    /\ UNCHANGED <<record, rows, told, blurred>>

(* cleanup_idempotency_records_task: the records of more than a day, also   *)
(* the one of a retry that has just been read.  Time is not modelled: any   *)
(* records may be that old.                                                 *)
Cleanup(old) ==
    /\ Faults < MaxFaults
    /\ counts' = [counts EXCEPT !.clean = @ + 1]
    /\ record' = [k \in Keys |-> IF k \in old THEN Free ELSE record[k]]
    /\ blurred' = blurred \cup old
    /\ UNCHANGED <<rows, proc, told>>

-----------------------------------------------------------------------------
Init ==
    /\ record = [k \in Keys |-> Free]
    /\ rows = <<>>
    /\ proc = [s \in Servers |-> Idle]
    /\ told = [r \in Requests |-> {}]
    /\ blurred = {}
    /\ counts = [dup |-> 0, lost |-> 0, crash |-> 0, clean |-> 0]

Handle(s) ==
    CreateRecord(s) \/ Check(s) \/ Insert(s) \/ Record(s) \/ Reply(s)

\* Clients that have been answered may rest.
Rest == (\A r \in Requests : told[r] \ {Failed} # {}) /\ UNCHANGED vars

Next ==
    \/ Rest
    \/ \E s \in Servers : \/ \E r \in Requests : Receive(s, r)
                          \/ Handle(s) \/ Lose(s) \/ Crash(s)
    \/ \E old \in SUBSET {k \in Keys : record[k] # Free} :
          old # {} /\ Cleanup(old)

Spec == Init /\ [][Next]_vars

\* Requests are handled, and clients retry until they are answered.
Fairness ==
    /\ \A s \in Servers : WF_vars(Handle(s))
    /\ \A r \in Requests :
         WF_vars(\E s \in Servers : Due(r) /\ Receive(s, r))
FairSpec == Spec /\ Fairness

-----------------------------------------------------------------------------
(* Properties *)

\* Every variable holds values of its type, records and replies name rows, and
\* the identifiers are unique.
TypeOK ==
    /\ record \in [Keys -> {Free, Pending} \cup {Answered(i) : i \in DOMAIN rows}]
    /\ rows \in Seq(Requests)
    /\ \A i, j \in DOMAIN rows :
         rows[i].thing = rows[j].thing /\ rows[i].thing \in Unique => i = j
    /\ proc \in [Servers ->
         [pc : {"idle", "create", "exists", "insert", "record", "reply"},
          req : Requests, id : {Conflict, Failed, 0} \cup DOMAIN rows]]
    /\ told \in [Requests -> SUBSET ({Conflict, Failed} \cup DOMAIN rows)]
    /\ blurred \subseteq Keys
    /\ counts \in [dup : 0..MaxDuplicates, lost : 0..MaxFaults,
                   crash : 0..MaxFaults, clean : 0..MaxFaults]

OfKey(k) == {r \in Requests : r.key = k}
Successes(r) == told[r] \ {Conflict, Failed}

\* Unless the requests of a key overlap, or its record expires, whatever success
\* a client was told of is on record: every further request with the key is told
\* the same, though processes crash between any two commits and replies are lost.
ToldIsRecorded ==
    \A k \in Keys \ blurred : \A r \in OfKey(k) : \A id \in Successes(r) :
        record[k] = Answered(id)

\* Unless requests of the key overlap, a recorded answer is never replaced.
AnswerIsFinal ==
    [][\A k \in Keys : record[k].st = "answered" /\ k \notin blurred'
          => record'[k] = record[k]]_vars

\* Unless the requests of a key overlap, its record expires or a process
\* crashes, it creates one row, however often it is sent again.
CreatedOnce ==
    counts.crash = 0 => \A k \in Keys \ blurred :
        Cardinality({i \in DOMAIN rows : rows[i].key = k}) <= 1

\* Under the same conditions, a client is never told of a conflict with what its
\* own request has created.
TakenByOther(r) ==
    \E i \in DOMAIN rows : rows[i].thing = r.thing /\ rows[i].key # r.key
ConflictIsForeign ==
    counts.crash = 0 => \A r \in Requests :
        Conflict \in told[r] /\ r.key \notin blurred => TakenByOther(r)

(* The inductive invariant behind them: what the one request of a key that  *)
(* is handled knows of the record, and where the request that created a row *)
(* has come to.                                                             *)
Handling(s) ==
    LET k == proc[s].req.key
        id == proc[s].id
    IN
    /\ At(s, "record") => id \in DOMAIN rows /\ rows[id].key = k
    /\ At(s, "reply") => id # 0
    /\ ~At(s, "idle") /\ k \notin blurred =>
         /\ \A t \in InFlight(k) : t = s
         /\ At(s, "create") => record[k] = Free
         /\ proc[s].pc \in {"exists", "insert", "record"} => record[k] = Pending
         /\ At(s, "reply") /\ id \notin {Conflict, Failed} => record[k] = Answered(id)

Accounted(i) ==
    rows[i].key \notin blurred =>
        \/ record[rows[i].key] = Answered(i)
        \/ \E s \in Servers : At(s, "record") /\ proc[s].id = i

IInv ==
    /\ TypeOK
    /\ \A s \in Servers : Handling(s)
    /\ ToldIsRecorded
    /\ counts.crash = 0 =>
         /\ \A i \in DOMAIN rows : Accounted(i)
         /\ \A s \in Servers :
              At(s, "reply") /\ proc[s].id = Conflict /\ proc[s].req.key \notin blurred =>
                  TakenByOther(proc[s].req)
    /\ ConflictIsForeign

\* Every request that its client retries is told of a success or of a conflict,
\* also when a process crashed and left the record of its key pending.
IsAnswered == \A r \in Requests : <>(told[r] \ {Failed} # {})

=============================================================================
