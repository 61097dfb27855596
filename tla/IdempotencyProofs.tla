------------------------- MODULE IdempotencyProofs -------------------------
(***************************************************************************)
(* For every number of API processes, keys, things and requests, whatever  *)
(* is lost, crashes or expires: what a client was told of stays on record, *)
(* and while the requests of a key do not overlap, one row is created.     *)
(***************************************************************************)
EXTENDS Idempotency, SequenceTheorems, FiniteSetTheorems, TLAPS

\* The rows: an insert adds one at the end.
LEMMA AppendRow ==
    ASSUME NEW r \in Requests, rows \in Seq(Requests), rows' = Append(rows, r)
    PROVE  /\ rows' \in Seq(Requests)
           /\ Len(rows) + 1 \notin DOMAIN rows
           /\ DOMAIN rows' = DOMAIN rows \cup {Len(rows) + 1}
           /\ rows'[Len(rows) + 1] = r
           /\ \A i \in DOMAIN rows : rows'[i] = rows[i]
  OBVIOUS

LEMMA RowIds == ASSUME TypeOK PROVE DOMAIN rows \subseteq Nat \ {0}
  BY DEF TypeOK

\* Where the step of a process leaves it, and the others.
LEMMA Moves ==
    ASSUME TypeOK, NEW s \in Servers
    PROVE  /\ proc[s].req \in Requests /\ proc[s].req.key \in Keys
           /\ \A step, id : Goto(s, step, id) =>
                /\ proc'[s].pc = step /\ proc'[s].id = id /\ proc'[s].req = proc[s].req
                /\ \A t \in Servers \ {s} : proc'[t] = proc[t]
           /\ proc' = [proc EXCEPT ![s] = Idle] =>
                /\ proc'[s].pc = "idle"
                /\ \A t \in Servers \ {s} : proc'[t] = proc[t]
  BY ConstantsAssumption DEF TypeOK, Goto, Idle

\* The type of what a process does after its step.
LEMMA GotoType ==
    ASSUME TypeOK, NEW s \in Servers, DOMAIN rows \subseteq DOMAIN rows',
           NEW step \in {"idle", "create", "exists", "insert", "record", "reply"},
           NEW id \in {Conflict, Failed, 0} \cup DOMAIN rows', Goto(s, step, id)
    PROVE  proc' \in [Servers ->
             [pc : {"idle", "create", "exists", "insert", "record", "reply"},
              req : Requests, id : {Conflict, Failed, 0} \cup DOMAIN rows']]
  <1> DEFINE p == [proc[s] EXCEPT !.pc = step, !.id = id]
             P == [pc : {"idle", "create", "exists", "insert", "record", "reply"},
                   req : Requests, id : {Conflict, Failed, 0} \cup DOMAIN rows']
  <1>1. proc \in [Servers -> P]
    BY DEF TypeOK
  <1>2. p \in P
    BY <1>1
  <1>3. proc' = [proc EXCEPT ![s] = p]
    BY <1>1 DEF Goto
  <1> QED
    BY <1>1, <1>2, <1>3

LEMMA IdleType ==
    ASSUME TypeOK, NEW s \in Servers, proc' = [proc EXCEPT ![s] = Idle],
           DOMAIN rows' = DOMAIN rows
    PROVE  proc' \in [Servers ->
             [pc : {"idle", "create", "exists", "insert", "record", "reply"},
              req : Requests, id : {Conflict, Failed, 0} \cup DOMAIN rows']]
  <1>1. Idle \in [pc : {"idle", "create", "exists", "insert", "record", "reply"},
                  req : Requests, id : {Conflict, Failed, 0} \cup DOMAIN rows']
    BY ConstantsAssumption DEF Idle
  <1> QED
    BY <1>1 DEF TypeOK

\* The key of a row.
LEMMA RowKey ==
    ASSUME TypeOK, NEW i \in DOMAIN rows
    PROVE  rows[i] \in Requests /\ rows[i].key \in Keys
  BY ConstantsAssumption DEF TypeOK

\* What a handled request knows is not changed by the step of another one.
LEMMA Others ==
    ASSUME TypeOK, \A t \in Servers : Handling(t), NEW s \in Servers, ~At(s, "idle"),
           \A t \in Servers \ {s} : proc'[t] = proc[t],
           proc'[s].pc = "idle" \/ proc'[s].req = proc[s].req,
           \A k \in Keys \ {proc[s].req.key} : record'[k] = record[k],
           UNCHANGED blurred,
           \A i \in DOMAIN rows : i \in DOMAIN rows' /\ rows'[i] = rows[i],
           NEW t \in Servers \ {s}
    PROVE  Handling(t)'
  <1> DEFINE k == proc[t].req.key
             id == proc[t].id
  <1>1. k \in Keys /\ Handling(t) /\ Handling(s) /\ proc'[t] = proc[t]
    BY Moves
  <1>2. At(t, "record") => id \in DOMAIN rows' /\ rows'[id].key = k
    BY <1>1 DEF Handling
  <1>3. ASSUME ~At(t, "idle"), k \notin blurred
        PROVE  /\ k # proc[s].req.key /\ record'[k] = record[k]
               /\ \A u \in Servers : ~(proc'[u].pc = "idle") /\ proc'[u].req.key = k => u = t
    <2>1. \A u \in Servers : ~At(u, "idle") /\ proc[u].req.key = k => u = t
      BY <1>1, <1>3 DEF Handling, InFlight
    <2>2. k # proc[s].req.key
      BY <2>1
    <2> QED
      BY <1>1, <2>1, <2>2 DEF At
  <1> QED
    BY <1>1, <1>2, <1>3 DEF Handling, InFlight, At

\* The shape of a handler's step: what is left to show of it.
LEMMA Step ==
    ASSUME IInv, TypeOK', NEW s \in Servers, ~At(s, "idle"),
           \A t \in Servers \ {s} : proc'[t] = proc[t],
           proc'[s].pc = "idle" \/ proc'[s].req = proc[s].req,
           \A k \in Keys \ {proc[s].req.key} : record'[k] = record[k],
           UNCHANGED blurred, counts'.crash = 0 => counts.crash = 0,
           \A i \in DOMAIN rows : i \in DOMAIN rows' /\ rows'[i] = rows[i],
           Handling(s)', ToldIsRecorded',
           counts'.crash = 0 =>
             /\ \A i \in DOMAIN rows' : Accounted(i)'
             /\ proc'[s].pc = "reply" /\ proc'[s].id = Conflict /\ proc[s].req.key \notin blurred
                  => TakenByOther(proc[s].req)
             /\ \A r \in Requests : Conflict \in told'[r] /\ r.key \notin blurred =>
                  Conflict \in told[r] \/ TakenByOther(r)
    PROVE  IInv'
  <1>1. \A t \in Servers : Handling(t)'
    BY Others DEF IInv
  <1>2. ASSUME NEW r, TakenByOther(r) PROVE TakenByOther(r)'
    BY <1>2 DEF TakenByOther
  <1>3. ASSUME counts'.crash = 0, NEW t \in Servers, proc'[t].pc = "reply",
               proc'[t].id = Conflict, proc'[t].req.key \notin blurred
        PROVE  TakenByOther(proc'[t].req)
    <2>1. CASE t = s
      BY <1>3, <2>1
    <2>2. CASE t # s
      BY <1>3, <2>2 DEF IInv, At
    <2> QED
      BY <2>1, <2>2
  <1>4. counts'.crash = 0 => \A t \in Servers :
          At(t, "reply")' /\ proc'[t].id = Conflict /\ proc'[t].req.key \notin blurred' =>
            TakenByOther(proc[t].req)'
    BY <1>3 DEF At, TakenByOther
  <1>5. ConflictIsForeign'
    BY <1>2 DEF IInv, ConflictIsForeign
  <1> QED
    BY <1>1, <1>4, <1>5 DEF IInv

\* The row of a key that is not blurred belongs to the one process that has
\* inserted it, or it is on record.
LEMMA NoRowYet ==
    ASSUME IInv, counts.crash = 0, NEW s \in Servers, ~At(s, "idle"), ~At(s, "record"),
           proc[s].req.key \notin blurred,
           NEW i \in DOMAIN rows, rows[i].key = proc[s].req.key
    PROVE  record[proc[s].req.key] = Answered(i)
  <1>1. Accounted(i)
    BY DEF IInv
  <1>2. ASSUME NEW t \in Servers, At(t, "record"), proc[t].id = i PROVE FALSE
    <2>1. t \in InFlight(proc[s].req.key)
      BY <1>2 DEF IInv, Handling, InFlight, At
    <2>2. t = s
      BY <2>1 DEF IInv, Handling
    <2> QED
      BY <1>2, <2>2
  <1> QED
    BY <1>1, <1>2 DEF Accounted

LEMMA CreateRecordStep == ASSUME IInv, NEW s \in Servers, CreateRecord(s) PROVE IInv'
  <1> DEFINE k == proc[s].req.key
  <1>1. TypeOK /\ Handling(s) /\ k \in Keys /\ ~At(s, "idle") /\ At(s, "create")
    BY Moves DEF IInv, CreateRecord, At
  <1>2. /\ \A t \in Servers \ {s} : proc'[t] = proc[t]
        /\ proc'[s].req = proc[s].req
        /\ UNCHANGED <<rows, told, blurred, counts>>
        /\ \/ /\ record[k] = Free /\ record' = [record EXCEPT ![k] = Pending]
              /\ proc'[s].pc = "exists" /\ proc'[s].id = 0 /\ Goto(s, "exists", 0)
           \/ /\ record[k] # Free /\ record' = record
              /\ proc'[s].pc = "reply" /\ proc'[s].id = Failed /\ Goto(s, "reply", Failed)
    BY <1>1, Moves DEF CreateRecord
  <1>3. \A j \in Keys \ {k} : record'[j] = record[j]
    BY <1>1, <1>2 DEF TypeOK
  <1>4. TypeOK'
    <2>1. record' \in [Keys -> {Free, Pending} \cup {Answered(i) : i \in DOMAIN rows'}]
      BY <1>1, <1>2 DEF TypeOK
    <2>2. proc' \in [Servers ->
             [pc : {"idle", "create", "exists", "insert", "record", "reply"},
              req : Requests, id : {Conflict, Failed, 0} \cup DOMAIN rows']]
      BY <1>1, <1>2, GotoType
    <2> QED
      BY <1>1, <1>2, <2>1, <2>2 DEF TypeOK
  <1>5. Handling(s)'
    BY <1>1, <1>2 DEF Handling, TypeOK, At, InFlight, Failed, Conflict
  <1>6. ToldIsRecorded'
    BY <1>1, <1>2 DEF IInv, ToldIsRecorded, TypeOK, OfKey, Successes, Free, Answered
  <1>7. \A i \in DOMAIN rows : counts.crash = 0 => Accounted(i)'
    <2> SUFFICES ASSUME NEW i \in DOMAIN rows, counts.crash = 0, rows[i].key \notin blurred
                 PROVE  Accounted(i)'
      BY <1>2 DEF Accounted
    <2>1. rows[i].key \in Keys /\ Accounted(i)
      BY RowKey DEF IInv
    <2>2. CASE record[rows[i].key] = Answered(i)
      BY <1>1, <1>2, <2>1, <2>2 DEF Accounted, TypeOK, Free, Answered
    <2>3. ASSUME NEW t \in Servers, At(t, "record"), proc[t].id = i PROVE Accounted(i)'
      BY <1>1, <1>2, <2>3 DEF Accounted, At
    <2> QED
      BY <2>1, <2>2, <2>3 DEF Accounted
  <1> QED
    BY <1>1, <1>2, <1>3, <1>4, <1>5, <1>6, <1>7, Step DEF Failed, Conflict

\* An accounted row stays so unless the record of its key, or the process that
\* is to record it, changes.
LEMMA StaysAccounted ==
    ASSUME NEW s \in Servers, ~At(s, "record"), NEW i \in DOMAIN rows, Accounted(i),
           \A t \in Servers \ {s} : proc'[t] = proc[t],
           rows'[i] = rows[i], UNCHANGED blurred,
           record[rows[i].key] = Answered(i) => record'[rows[i].key] = Answered(i)
    PROVE  Accounted(i)'
  BY DEF Accounted, At

\* The endpoint's look for the identifier.
LEMMA CheckStep == ASSUME IInv, NEW s \in Servers, Check(s) PROVE IInv'
  <1> DEFINE r == proc[s].req
             k == proc[s].req.key
  <1>1. /\ TypeOK /\ Handling(s) /\ k \in Keys /\ r \in Requests
        /\ At(s, "exists") /\ ~At(s, "idle") /\ ~At(s, "record")
    BY Moves DEF IInv, Check, At
  <1>2. CASE Exists(r)
    <2>1. /\ UNCHANGED <<record, rows, told, blurred, counts>> /\ Goto(s, "reply", Conflict)
          /\ proc'[s].pc = "reply" /\ proc'[s].id = Conflict /\ proc'[s].req = r
          /\ \A t \in Servers \ {s} : proc'[t] = proc[t]
      BY <1>1, <1>2, Moves DEF Check
    <2>2. TypeOK'
      BY <1>1, <2>1, GotoType DEF TypeOK
    <2>3. Handling(s)'
      BY <1>1, <2>1 DEF Handling, At, InFlight, Conflict, Failed
    <2>4. ToldIsRecorded'
      BY <2>1 DEF IInv, ToldIsRecorded, Successes
    <2>5. \A i \in DOMAIN rows : counts.crash = 0 => Accounted(i)'
      BY <1>1, <2>1, StaysAccounted DEF IInv
    <2>6. ASSUME counts.crash = 0, k \notin blurred PROVE TakenByOther(r)
      <3>1. PICK i \in DOMAIN rows : rows[i].thing = r.thing
        BY <1>2 DEF Exists
      <3>2. record[k] = Pending
        BY <1>1, <2>6 DEF Handling, At
      <3>3. ASSUME rows[i].key = k PROVE FALSE
        <4>1. record[k] = Answered(i)
          BY <1>1, <2>6, <3>3, NoRowYet
        <4> QED
          BY <3>2, <4>1 DEF Pending, Answered
      <3> QED
        BY <3>1, <3>3 DEF TakenByOther
    <2> QED
      BY <1>1, <2>1, <2>2, <2>3, <2>4, <2>5, <2>6, Step
  <1>3. CASE ~Exists(r)
    <2>1. /\ UNCHANGED <<record, rows, told, blurred, counts>> /\ Goto(s, "insert", 0)
          /\ proc'[s].pc = "insert" /\ proc'[s].id = 0 /\ proc'[s].req = r
          /\ \A t \in Servers \ {s} : proc'[t] = proc[t]
      BY <1>1, <1>3, Moves DEF Check
    <2>2. TypeOK'
      BY <1>1, <2>1, GotoType DEF TypeOK
    <2>3. Handling(s)'
      BY <1>1, <2>1 DEF Handling, At, InFlight
    <2>4. ToldIsRecorded'
      BY <2>1 DEF IInv, ToldIsRecorded, Successes
    <2>5. \A i \in DOMAIN rows : counts.crash = 0 => Accounted(i)'
      BY <1>1, <2>1, StaysAccounted DEF IInv
    <2> QED
      BY <1>1, <2>1, <2>2, <2>3, <2>4, <2>5, Step
  <1> QED
    BY <1>2, <1>3

\* The insert of the row.
LEMMA InsertStep == ASSUME IInv, NEW s \in Servers, Insert(s) PROVE IInv'
  <1> DEFINE r == proc[s].req
             k == proc[s].req.key
             n == Len(rows) + 1
  <1>1. /\ TypeOK /\ Handling(s) /\ k \in Keys /\ r \in Requests
        /\ At(s, "insert") /\ ~At(s, "idle") /\ ~At(s, "record")
    BY Moves DEF IInv, Insert, At
  <1>2. CASE Exists(r)
    <2>1. /\ UNCHANGED <<record, rows, told, blurred, counts>> /\ Goto(s, "reply", Failed)
          /\ proc'[s].pc = "reply" /\ proc'[s].id = Failed /\ proc'[s].req = r
          /\ \A t \in Servers \ {s} : proc'[t] = proc[t]
      BY <1>1, <1>2, Moves DEF Insert
    <2>2. TypeOK'
      BY <1>1, <2>1, GotoType DEF TypeOK
    <2>3. Handling(s)'
      BY <1>1, <2>1 DEF Handling, At, InFlight, Conflict, Failed
    <2>4. ToldIsRecorded'
      BY <2>1 DEF IInv, ToldIsRecorded, Successes
    <2>5. \A i \in DOMAIN rows : counts.crash = 0 => Accounted(i)'
      BY <1>1, <2>1, StaysAccounted DEF IInv
    <2> QED
      BY <1>1, <2>1, <2>2, <2>3, <2>4, <2>5, Step DEF Conflict, Failed
  <1>3. CASE ~Exists(r)
    <2>1. /\ UNCHANGED <<record, told, blurred, counts>> /\ Goto(s, "record", n)
          /\ rows' = Append(rows, r)
          /\ proc'[s].pc = "record" /\ proc'[s].id = n /\ proc'[s].req = r
          /\ \A t \in Servers \ {s} : proc'[t] = proc[t]
      BY <1>1, <1>3, Moves DEF Insert
    <2>2. /\ rows' \in Seq(Requests) /\ n \notin DOMAIN rows
          /\ DOMAIN rows' = DOMAIN rows \cup {n} /\ rows'[n] = r
          /\ \A i \in DOMAIN rows : rows'[i] = rows[i]
      BY <1>1, <2>1, AppendRow DEF TypeOK
    <2>3. TypeOK'
      <3>1. record' \in [Keys -> {Free, Pending} \cup {Answered(i) : i \in DOMAIN rows'}]
        BY <1>1, <2>1, <2>2 DEF TypeOK
      <3>2. told' \in [Requests -> SUBSET ({Conflict, Failed} \cup DOMAIN rows')]
        BY <1>1, <2>1, <2>2 DEF TypeOK
      <3>3. \A i, j \in DOMAIN rows' :
              rows'[i].thing = rows'[j].thing /\ rows'[i].thing \in Unique => i = j
        BY <1>1, <1>3, <2>2 DEF TypeOK, Exists
      <3>4. proc' \in [Servers ->
              [pc : {"idle", "create", "exists", "insert", "record", "reply"},
               req : Requests, id : {Conflict, Failed, 0} \cup DOMAIN rows']]
        BY <1>1, <2>1, <2>2, GotoType
      <3> QED
        BY <1>1, <2>1, <2>2, <3>1, <3>2, <3>3, <3>4 DEF TypeOK
    <2>4. Handling(s)'
      BY <1>1, <2>1, <2>2 DEF Handling, At, InFlight
    <2>5. ToldIsRecorded'
      BY <2>1 DEF IInv, ToldIsRecorded, Successes
    <2>6. ASSUME counts.crash = 0, NEW i \in DOMAIN rows' PROVE Accounted(i)'
      <3>1. CASE i = n
        BY <2>1, <3>1 DEF Accounted, At
      <3>2. CASE i \in DOMAIN rows
        BY <1>1, <2>1, <2>2, <2>6, <3>2, StaysAccounted DEF IInv
      <3> QED
        BY <2>2, <3>1, <3>2
    <2> QED
      BY <1>1, <2>1, <2>2, <2>3, <2>4, <2>5, <2>6, Step
  <1> QED
    BY <1>2, <1>3

\* record_idempotency_response
LEMMA RecordStep == ASSUME IInv, NEW s \in Servers, Record(s) PROVE IInv'
  <1> DEFINE k == proc[s].req.key
             id == proc[s].id
  <1>1. /\ TypeOK /\ Handling(s) /\ k \in Keys /\ At(s, "record") /\ ~At(s, "idle")
        /\ id \in DOMAIN rows /\ rows[id].key = k /\ id \in Nat \ {0}
    <2>1. /\ TypeOK /\ Handling(s) /\ k \in Keys /\ At(s, "record") /\ ~At(s, "idle")
      BY Moves DEF IInv, Record, At
    <2> QED
      BY <2>1, RowIds DEF Handling
  <1>2. /\ UNCHANGED <<rows, told, blurred, counts>> /\ Goto(s, "reply", id)
        /\ record' = [record EXCEPT ![k] = Recorded(@, id)]
        /\ proc'[s].pc = "reply" /\ proc'[s].id = id /\ proc'[s].req = proc[s].req
        /\ \A t \in Servers \ {s} : proc'[t] = proc[t]
    BY <1>1, Moves DEF Record
  <1>3. /\ \A j \in Keys \ {k} : record'[j] = record[j]
        /\ record'[k] = record[k] \/ record'[k] = Answered(id)
        /\ record[k] = Pending => record'[k] = Answered(id)
    BY <1>1, <1>2 DEF TypeOK, Recorded, Pending
  <1>4. TypeOK'
    <2>1. record' \in [Keys -> {Free, Pending} \cup {Answered(i) : i \in DOMAIN rows'}]
      BY <1>1, <1>2, <1>3 DEF TypeOK
    <2>2. proc' \in [Servers ->
            [pc : {"idle", "create", "exists", "insert", "record", "reply"},
             req : Requests, id : {Conflict, Failed, 0} \cup DOMAIN rows']]
      BY <1>1, <1>2, GotoType
    <2> QED
      BY <1>1, <1>2, <2>1, <2>2 DEF TypeOK
  <1>5. k \notin blurred => record[k] = Pending /\ record'[k] = Answered(id)
    BY <1>1, <1>3 DEF Handling, At
  <1>6. Handling(s)'
    BY <1>1, <1>2, <1>5 DEF Handling, At, InFlight
  <1>7. ToldIsRecorded'
    <2>1. SUFFICES ASSUME NEW j \in Keys \ blurred, NEW r \in OfKey(j), NEW a \in Successes(r)
                   PROVE  record'[j] = Answered(a)
      BY <1>2 DEF ToldIsRecorded, Successes, OfKey
    <2>2. record[j] = Answered(a)
      BY DEF IInv, ToldIsRecorded
    <2>3. j # k
      BY <1>5, <2>2 DEF Pending, Answered
    <2> QED
      BY <1>3, <2>2, <2>3
  <1>8. ASSUME counts.crash = 0, NEW i \in DOMAIN rows PROVE Accounted(i)'
    <2> SUFFICES ASSUME rows[i].key \notin blurred PROVE Accounted(i)'
      BY <1>2 DEF Accounted
    <2>1. rows[i].key \in Keys /\ Accounted(i)
      BY <1>1, <1>8, RowKey DEF IInv
    <2>2. CASE record[rows[i].key] = Answered(i)
      BY <1>2, <1>3, <1>5, <2>1, <2>2 DEF Accounted, Pending, Answered
    <2>3. CASE i = id
      BY <1>1, <1>2, <1>5, <2>3 DEF Accounted
    <2>4. ASSUME NEW t \in Servers \ {s}, At(t, "record"), proc[t].id = i PROVE Accounted(i)'
      BY <1>2, <2>4 DEF Accounted, At
    <2> QED
      BY <2>1, <2>2, <2>3, <2>4 DEF Accounted
  <1> QED
    BY <1>1, <1>2, <1>3, <1>4, <1>6, <1>7, <1>8, Step DEF Conflict

\* A reply reaches the client.
LEMMA ReplyStep == ASSUME IInv, NEW s \in Servers, Reply(s) PROVE IInv'
  <1> DEFINE r == proc[s].req
             k == proc[s].req.key
             id == proc[s].id
  <1>1. /\ TypeOK /\ Handling(s) /\ k \in Keys /\ r \in Requests
        /\ At(s, "reply") /\ ~At(s, "idle") /\ ~At(s, "record")
    BY Moves DEF IInv, Reply, At
  <1>2. /\ UNCHANGED <<record, rows, blurred, counts>>
        /\ told' = [told EXCEPT ![r] = @ \cup {id}]
        /\ proc' = [proc EXCEPT ![s] = Idle] /\ proc'[s].pc = "idle"
        /\ \A t \in Servers \ {s} : proc'[t] = proc[t]
    BY <1>1, Moves DEF Reply
  <1>3. /\ told'[r] = told[r] \cup {id}
        /\ \A q \in Requests \ {r} : told'[q] = told[q]
    BY <1>1, <1>2 DEF TypeOK
  <1>4. TypeOK'
    <2>1. id \in {Conflict, Failed} \cup DOMAIN rows
      BY <1>1 DEF TypeOK, Handling
    <2>2. told' \in [Requests -> SUBSET ({Conflict, Failed} \cup DOMAIN rows')]
      BY <1>1, <1>2, <2>1 DEF TypeOK
    <2>3. proc' \in [Servers ->
             [pc : {"idle", "create", "exists", "insert", "record", "reply"},
              req : Requests, id : {Conflict, Failed, 0} \cup DOMAIN rows']]
      BY <1>1, <1>2, IdleType DEF TypeOK
    <2> QED
      BY <1>1, <1>2, <2>2, <2>3 DEF TypeOK
  <1>5. Handling(s)'
    BY <1>2 DEF Handling, At
  <1>6. ToldIsRecorded'
    <2>1. SUFFICES ASSUME NEW j \in Keys \ blurred, NEW q \in Requests, q.key = j,
                          NEW a \in told'[q] \ {Conflict, Failed}
                   PROVE  record[j] = Answered(a)
      BY <1>2 DEF ToldIsRecorded, Successes, OfKey
    <2>2. CASE a \in told[q]
      BY <2>1, <2>2 DEF IInv, ToldIsRecorded, Successes, OfKey
    <2>3. CASE a \notin told[q]
      <3>1. q = r /\ a = id
        BY <1>3, <2>3
      <3> QED
        BY <1>1, <2>1, <3>1 DEF Handling
    <2> QED
      BY <2>2, <2>3
  <1>7. \A i \in DOMAIN rows : counts.crash = 0 => Accounted(i)'
    BY <1>1, <1>2, StaysAccounted DEF IInv
  <1>8. counts.crash = 0 => \A q \in Requests : Conflict \in told'[q] /\ q.key \notin blurred =>
          Conflict \in told[q] \/ TakenByOther(q)
    BY <1>1, <1>3 DEF IInv
  <1> QED
    BY <1>1, <1>2, <1>4, <1>5, <1>6, <1>7, <1>8, Step

\* A handler that ends without its client's knowing: what is left is the record.
LEMMA EndStep ==
    ASSUME IInv, NEW s \in Servers, ~At(s, "idle"), proc' = [proc EXCEPT ![s] = Idle],
           UNCHANGED <<record, rows, told, blurred>>,
           counts' \in [dup : 0..MaxDuplicates, lost : 0..MaxFaults,
                        crash : 0..MaxFaults, clean : 0..MaxFaults],
           counts'.crash = 0 => counts.crash = 0 /\ ~At(s, "record")
    PROVE  IInv'
  <1>1. TypeOK /\ Handling(s) /\ proc[s].req.key \in Keys
    BY Moves DEF IInv
  <1>2. /\ proc'[s].pc = "idle"
        /\ \A t \in Servers \ {s} : proc'[t] = proc[t]
    BY <1>1, Moves
  <1>3. TypeOK'
    <2>1. proc' \in [Servers ->
             [pc : {"idle", "create", "exists", "insert", "record", "reply"},
              req : Requests, id : {Conflict, Failed, 0} \cup DOMAIN rows']]
      BY <1>1, IdleType DEF TypeOK
    <2> QED
      BY <1>1, <2>1 DEF TypeOK
  <1>4. Handling(s)'
    BY <1>2 DEF Handling, At
  <1>5. ToldIsRecorded'
    BY DEF IInv, ToldIsRecorded, Successes
  <1>6. \A i \in DOMAIN rows : counts'.crash = 0 => Accounted(i)'
    BY <1>1, <1>2, StaysAccounted DEF IInv
  <1> QED
    BY <1>1, <1>2, <1>3, <1>4, <1>5, <1>6, Step

\* What the faults may still be.
LEMMA FaultCounts ==
    ASSUME TypeOK, Faults < MaxFaults
    PROVE  /\ counts.lost \in Nat /\ counts.lost + 1 \in 0..MaxFaults
           /\ counts.crash \in Nat /\ counts.crash + 1 \in 0..MaxFaults
           /\ counts.clean \in Nat /\ counts.clean + 1 \in 0..MaxFaults
  <1>1. counts.lost \in 0..MaxFaults /\ counts.crash \in 0..MaxFaults /\ counts.clean \in 0..MaxFaults
    BY DEF TypeOK
  <1> QED
    BY <1>1, ConstantsAssumption DEF Faults

LEMMA LoseStep == ASSUME IInv, NEW s \in Servers, Lose(s) PROVE IInv'
  <1>1. /\ At(s, "reply") /\ ~At(s, "idle") /\ ~At(s, "record")
        /\ UNCHANGED <<record, rows, told, blurred>> /\ proc' = [proc EXCEPT ![s] = Idle]
    BY DEF Lose, At
  <1>2. /\ counts' \in [dup : 0..MaxDuplicates, lost : 0..MaxFaults,
                        crash : 0..MaxFaults, clean : 0..MaxFaults]
        /\ counts'.crash = counts.crash
    <2>1. TypeOK /\ counts.lost + 1 \in 0..MaxFaults
      BY FaultCounts DEF Lose, IInv
    <2> QED
      BY <2>1 DEF Lose, TypeOK
  <1> QED
    BY <1>1, <1>2, EndStep

LEMMA CrashStep == ASSUME IInv, NEW s \in Servers, Crash(s) PROVE IInv'
  <1>1. /\ ~At(s, "idle")
        /\ UNCHANGED <<record, rows, told, blurred>> /\ proc' = [proc EXCEPT ![s] = Idle]
    BY DEF Crash
  <1>2. /\ counts' \in [dup : 0..MaxDuplicates, lost : 0..MaxFaults,
                        crash : 0..MaxFaults, clean : 0..MaxFaults]
        /\ counts'.crash # 0
    <2>1. TypeOK /\ counts.crash \in Nat /\ counts.crash + 1 \in 0..MaxFaults
      BY FaultCounts DEF Crash, IInv
    <2> QED
      BY <2>1 DEF Crash, TypeOK
  <1> QED
    BY <1>1, <1>2, EndStep

\* The daily clean-up.
LEMMA CleanupStep ==
    ASSUME IInv, NEW old \in SUBSET Keys, Cleanup(old) PROVE IInv'
  <1>1. TypeOK /\ counts.clean + 1 \in 0..MaxFaults
    BY FaultCounts DEF Cleanup, IInv
  <1>2. /\ UNCHANGED <<rows, proc, told>> /\ blurred' = blurred \cup old
        /\ \A k \in Keys : record'[k] = IF k \in old THEN Free ELSE record[k]
        /\ counts'.crash = counts.crash
    BY <1>1 DEF Cleanup, TypeOK
  <1>3. TypeOK'
    <2>1. record' \in [Keys -> {Free, Pending} \cup {Answered(i) : i \in DOMAIN rows'}]
      BY <1>1 DEF Cleanup, TypeOK
    <2>2. blurred' \subseteq Keys
      BY <1>1, <1>2 DEF TypeOK
    <2>3. counts' \in [dup : 0..MaxDuplicates, lost : 0..MaxFaults,
                       crash : 0..MaxFaults, clean : 0..MaxFaults]
      BY <1>1 DEF Cleanup, TypeOK
    <2> QED
      BY <1>1, <1>2, <2>1, <2>2, <2>3 DEF TypeOK
  <1>4. \A k \in Keys \ blurred' : k \notin blurred /\ record'[k] = record[k]
    BY <1>2
  <1>5. ASSUME NEW s \in Servers PROVE Handling(s)'
    <2>1. Handling(s) /\ proc[s].req.key \in Keys
      BY <1>1, Moves DEF IInv
    <2> QED
      BY <1>2, <1>4, <2>1 DEF Handling, At, InFlight
  <1>6. ToldIsRecorded'
    BY <1>2, <1>4 DEF IInv, ToldIsRecorded, Successes
  <1>7. ASSUME counts.crash = 0, NEW i \in DOMAIN rows PROVE Accounted(i)'
    <2>1. rows[i].key \in Keys /\ Accounted(i)
      BY <1>1, <1>7, RowKey DEF IInv
    <2> QED
      BY <1>2, <1>4, <2>1 DEF Accounted, At
  <1>8. ASSUME counts.crash = 0, NEW s \in Servers, At(s, "reply"), proc[s].id = Conflict,
               proc[s].req.key \notin blurred'
        PROVE  TakenByOther(proc[s].req)
    BY <1>2, <1>8 DEF IInv
  <1>9. ConflictIsForeign'
    BY <1>2 DEF IInv, ConflictIsForeign, TakenByOther
  <1>10. \A s \in Servers : At(s, "reply")' /\ proc'[s].id = Conflict
             /\ proc'[s].req.key \notin blurred' /\ counts'.crash = 0 => TakenByOther(proc[s].req)'
    BY <1>2, <1>8 DEF At, TakenByOther
  <1> QED
    BY <1>2, <1>3, <1>5, <1>6, <1>7, <1>9, <1>10 DEF IInv

\* A request arrives at a free process.
LEMMA ReceiveStep ==
    ASSUME IInv, NEW s \in Servers, NEW r \in Requests, Receive(s, r) PROVE IInv'
  <1> DEFINE k == r.key
             step == AfterCheck(record[k])
  <1>1. TypeOK /\ k \in Keys /\ At(s, "idle")
    BY ConstantsAssumption DEF IInv, Receive
  <1>2. /\ UNCHANGED <<record, rows, told>>
        /\ proc'[s].pc = step /\ proc'[s].req = r /\ proc'[s].id = record[k].id
        /\ \A t \in Servers \ {s} : proc'[t] = proc[t]
        /\ proc' = [proc EXCEPT ![s] = [pc |-> step, req |-> r, id |-> record[k].id]]
        /\ blurred' = IF InFlight(k) = {} THEN blurred ELSE blurred \cup {k}
        /\ blurred \subseteq blurred' /\ blurred' \subseteq blurred \cup {k}
    BY <1>1 DEF Receive, TypeOK
  <1>3. /\ counts'.crash = counts.crash
        /\ counts' \in [dup : 0..MaxDuplicates, lost : 0..MaxFaults,
                         crash : 0..MaxFaults, clean : 0..MaxFaults]
    <2>1. counts.dup \in 0..MaxDuplicates
      BY <1>1 DEF TypeOK
    <2>2. counts.dup < MaxDuplicates => counts.dup + 1 \in 0..MaxDuplicates
      BY <2>1, ConstantsAssumption
    <2> QED
      BY <1>1, <2>2 DEF Receive, TypeOK
  <1>4. \/ record[k] = Free /\ step = "create" /\ record[k].id = 0
        \/ record[k] = Pending /\ step = "exists" /\ record[k].id = 0
        \/ \E i \in DOMAIN rows : record[k] = Answered(i) /\ step = "reply" /\ record[k].id = i
    BY <1>1 DEF TypeOK, AfterCheck, Free, Pending, Answered
  <1>5. TypeOK'
    <2>1. [pc |-> step, req |-> r, id |-> record[k].id] \in
             [pc : {"idle", "create", "exists", "insert", "record", "reply"},
              req : Requests, id : {Conflict, Failed, 0} \cup DOMAIN rows]
      BY <1>4
    <2>2. proc' \in [Servers ->
             [pc : {"idle", "create", "exists", "insert", "record", "reply"},
              req : Requests, id : {Conflict, Failed, 0} \cup DOMAIN rows]]
      BY <1>1, <1>2, <2>1 DEF TypeOK
    <2> QED
      BY <1>1, <1>2, <1>3, <2>2 DEF TypeOK
  <1>6. Handling(s)'
    <2>1. proc'[s].pc = "reply" => proc'[s].id # 0 /\ record[k] = Answered(proc'[s].id)
      BY <1>1, <1>2, <1>4, RowIds
    <2>2. k \notin blurred' => \A t \in Servers \ {s} : At(t, "idle") \/ proc[t].req.key # k
      BY <1>2 DEF InFlight
    <2> QED
      BY <1>2, <1>4, <2>1, <2>2 DEF Handling, At, InFlight
  <1>7. ASSUME NEW t \in Servers \ {s} PROVE Handling(t)'
    <2>1. Handling(t) /\ proc'[t] = proc[t]
      BY <1>2 DEF IInv
    <2>2. CASE proc[t].req.key = k
      BY <1>2, <2>1, <2>2 DEF Handling, At, InFlight
    <2>3. CASE proc[t].req.key # k
      BY <1>2, <2>1, <2>3 DEF Handling, At, InFlight
    <2> QED
      BY <2>2, <2>3
  <1>8. ToldIsRecorded'
    BY <1>2 DEF IInv, ToldIsRecorded, Successes
  <1>9. ASSUME counts.crash = 0, NEW i \in DOMAIN rows PROVE Accounted(i)'
    <2>1. Accounted(i)
      BY <1>9 DEF IInv
    <2> QED
      BY <1>1, <1>2, <2>1 DEF Accounted, At
  <1>10. ASSUME counts.crash = 0, NEW t \in Servers, proc'[t].pc = "reply",
                proc'[t].id = Conflict, proc'[t].req.key \notin blurred'
         PROVE  TakenByOther(proc'[t].req)
    <2>1. t # s
      BY <1>1, <1>2, <1>4, <1>10, RowIds DEF Conflict
    <2> QED
      BY <1>2, <1>10, <2>1 DEF IInv, At
  <1>11. ConflictIsForeign'
    BY <1>2, <1>3 DEF IInv, ConflictIsForeign, TakenByOther
  <1>12. \A t \in Servers : At(t, "reply")' /\ proc'[t].id = Conflict
             /\ proc'[t].req.key \notin blurred' /\ counts'.crash = 0 => TakenByOther(proc[t].req)'
    BY <1>2, <1>3, <1>10 DEF At, TakenByOther
  <1> QED
    BY <1>2, <1>3, <1>5, <1>6, <1>7, <1>8, <1>9, <1>11, <1>12 DEF IInv

LEMMA InitInvariant == Init => IInv
  <1> SUFFICES ASSUME Init PROVE IInv
    OBVIOUS
  <1>1. Idle.pc = "idle" /\ Idle.req \in Requests
    BY ConstantsAssumption DEF Idle
  <1>2. TypeOK
    <2>1. rows \in Seq(Requests) /\ DOMAIN rows = {}
      BY DEF Init
    <2>2. Idle \in [pc : {"idle", "create", "exists", "insert", "record", "reply"},
                    req : Requests, id : {Conflict, Failed, 0} \cup DOMAIN rows]
      BY <1>1 DEF Idle
    <2> QED
      BY <2>1, <2>2, ConstantsAssumption DEF TypeOK, Init
  <1>3. ASSUME NEW s \in Servers PROVE At(s, "idle")
    BY <1>1 DEF Init, At
  <1>4. DOMAIN rows = {} /\ \A r \in Requests : told[r] = {}
    BY DEF Init
  <1>5. \A s \in Servers : Handling(s)
    BY <1>3 DEF Handling, At
  <1>6. ToldIsRecorded /\ ConflictIsForeign
    BY <1>4 DEF ToldIsRecorded, ConflictIsForeign, Successes, OfKey
  <1> QED
    BY <1>2, <1>3, <1>4, <1>5, <1>6 DEF IInv, At

LEMMA NextInvariant == ASSUME IInv, [Next]_vars PROVE IInv'
  <1>1. CASE UNCHANGED vars
    BY <1>1 DEF vars, IInv, TypeOK, Handling, At, InFlight, ToldIsRecorded, OfKey, Successes,
                Accounted, ConflictIsForeign, TakenByOther
  <1>2. CASE Rest
    BY <1>1, <1>2 DEF Rest
  <1>3. ASSUME NEW s \in Servers, Handle(s) \/ Lose(s) \/ Crash(s) PROVE IInv'
    BY <1>3, CreateRecordStep, CheckStep, InsertStep, RecordStep, ReplyStep, LoseStep, CrashStep
       DEF Handle
  <1>4. ASSUME NEW s \in Servers, NEW r \in Requests, Receive(s, r) PROVE IInv'
    BY <1>4, ReceiveStep
  <1>5. ASSUME NEW old \in SUBSET {k \in Keys : record[k] # Free}, Cleanup(old) PROVE IInv'
    <2>1. old \in SUBSET Keys
      OBVIOUS
    <2> QED
      BY <1>5, <2>1, CleanupStep
  <1> QED
    BY <1>1, <1>2, <1>3, <1>4, <1>5 DEF Next

-----------------------------------------------------------------------------
\* The invariant holds in every reachable state.
THEOREM Invariant == Spec => []IInv
  <1>1. Init => IInv
    BY InitInvariant
  <1>2. IInv /\ [Next]_vars => IInv'
    BY NextInvariant
  <1> QED
    BY <1>1, <1>2, PTL DEF Spec

\* Every variable of core/idempotency.py's requests keeps its type: the records
\* and the replies name rows, and the identifiers are unique.
THEOREM TypeCorrect == Spec => []TypeOK
  <1>1. IInv => TypeOK
    BY DEF IInv
  <1> QED
    BY <1>1, Invariant, PTL

\* What a client was told of, check_idempotency tells every later request with
\* the key, whatever crashes and whatever replies are lost.
THEOREM ToldStaysOnRecord == Spec => []ToldIsRecorded
  <1>1. IInv => ToldIsRecorded
    BY DEF IInv
  <1> QED
    BY <1>1, Invariant, PTL

\* No client is told of a conflict with the row that its own request created.
THEOREM ConflictsAreForeign == Spec => []ConflictIsForeign
  <1>1. IInv => ConflictIsForeign
    BY DEF IInv
  <1> QED
    BY <1>1, Invariant, PTL

\* A key creates one row: two rows of a key would both be on its record, or one
\* on it while a process is still to record the other.
THEOREM CreatesOnce == Spec => []CreatedOnce
  <1>1. IInv => CreatedOnce
    <2> SUFFICES ASSUME IInv, counts.crash = 0, NEW k \in Keys \ blurred
                 PROVE  Cardinality({i \in DOMAIN rows : rows[i].key = k}) <= 1
      BY DEF CreatedOnce
    <2> DEFINE Mine == {i \in DOMAIN rows : rows[i].key = k}
               Held(i) == \E s \in Servers : At(s, "record") /\ proc[s].id = i
    <2>1. \A i \in Mine : record[k] = Answered(i) \/ Held(i)
      BY DEF IInv, Accounted
    <2>2. ASSUME NEW i \in Mine, NEW s \in Servers, At(s, "record"), proc[s].id = i
          PROVE  /\ record[k] = Pending /\ s \in InFlight(k)
                 /\ \A t \in InFlight(k) : t = s
      BY <2>2 DEF IInv, Handling, At, InFlight
    <2>3. ASSUME NEW i \in Mine, NEW j \in Mine PROVE i = j
      <3>1. CASE Held(i) /\ Held(j)
        BY <2>2, <3>1
      <3>2. CASE record[k] = Answered(i) /\ record[k] = Answered(j)
        BY <3>2 DEF Answered
      <3>3. CASE (Held(i) \/ Held(j)) /\ (record[k] = Answered(i) \/ record[k] = Answered(j))
        BY <2>2, <3>3 DEF Answered, Pending
      <3> QED
        BY <2>1, <3>1, <3>2, <3>3
    <2>4. CASE Mine = {}
      BY <2>4, FS_EmptySet
    <2>5. ASSUME NEW i \in Mine PROVE Cardinality(Mine) = 1
      <3>1. Mine = {i}
        BY <2>3
      <3> HIDE DEF Mine
      <3> QED
        BY <3>1, FS_Singleton
    <2> QED
      BY <2>4, <2>5
  <1> QED
    BY <1>1, Invariant, PTL

\* record_idempotency_response never replaces an answer of a key whose requests
\* do not overlap: only the process that inserted the row comes to it.
THEOREM AnswersAreFinal == Spec => AnswerIsFinal
  <1> DEFINE Final == \A k \in Keys : record[k].st = "answered" /\ k \notin blurred'
                        => record'[k] = record[k]
  <1>1. ASSUME IInv, [Next]_vars PROVE Final
    <2> SUFFICES ASSUME NEW k \in Keys, record[k].st = "answered", k \notin blurred'
                 PROVE  record'[k] = record[k]
      OBVIOUS
    <2>1. TypeOK /\ record[k] # Free /\ record[k] # Pending
      BY <1>1 DEF IInv, Free, Pending
    <2>2. CASE UNCHANGED record
      BY <2>2
    <2>3. ASSUME NEW s \in Servers, CreateRecord(s) PROVE record'[k] = record[k]
      BY <2>1, <2>3 DEF CreateRecord, TypeOK
    <2>4. ASSUME NEW s \in Servers, Record(s) PROVE record'[k] = record[k]
      <3>1. At(s, "record") /\ k \notin blurred
        BY <2>4 DEF Record
      <3>2. proc[s].req.key # k
        BY <1>1, <2>1, <3>1 DEF IInv, Handling, At
      <3> QED
        BY <2>1, <2>4, <3>2 DEF Record, TypeOK
    <2>5. ASSUME NEW old \in SUBSET {j \in Keys : record[j] # Free}, Cleanup(old)
          PROVE  record'[k] = record[k]
      BY <2>5 DEF Cleanup
    <2> QED
      BY <1>1, <2>2, <2>3, <2>4, <2>5 DEF Next, vars, Rest, Handle, Receive, Check, Insert, Reply, Lose, Crash
  <1> QED
    BY <1>1, Invariant, PTL DEF Spec, AnswerIsFinal
=============================================================================
