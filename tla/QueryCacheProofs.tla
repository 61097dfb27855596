-------------------------- MODULE QueryCacheProofs --------------------------
(***************************************************************************)
(* For every set of subjects, every number of calls, repetitions and writes *)
(* of others: the cache is type correct, shows its user what the user was   *)
(* told of, and is a view of the server that never goes back.               *)
(***************************************************************************)
EXTENDS QueryCache, TLAPS

-----------------------------------------------------------------------------
(* What the parts of an action do to the requests.                           *)

\* The part of the invariant that the requests take part in, and their types.
Fetching ==
  /\ requests \subseteq [id : Ids, read : Nat]
  /\ current \in Ids \union {0} /\ attempts \in 0..Retries
  /\ promised \in Nat /\ asked \in Nat /\ overtaken \in BOOLEAN
  /\ promised <= told /\ asked <= told
  /\ \A r \in requests : r.read <= version
  /\ Awaited /\ Answers /\ InTime /\ NeverIdle /\ Promises

\* The rest of it.
Resting ==
  /\ \A f \in Flags : subject[f] \in BOOLEAN
  /\ version \in Nat /\ version >= 1
  /\ made \in 0..MaxCalls /\ pending \in Nat
  /\ calls \subseteq [id : 1..MaxCalls, at : Nat]
  /\ \A c \in calls : c.at <= version
  /\ here \in BOOLEAN /\ active \in BOOLEAN
  /\ data \in Nat /\ data <= version
  /\ invalid \in BOOLEAN /\ failed \in BOOLEAN
  /\ told \in Nat /\ told <= version

LEMMA Parts == (IInv => Fetching /\ Resting) /\ (Fetching' /\ Resting' => IInv')
  <1>1. IInv => Fetching /\ Resting
    BY DEF IInv, TypeOK, Written, Fetching, Resting
  <1>2. Fetching' /\ Resting' => IInv'
    BY DEF IInv, TypeOK, Written, Fetching, Resting
  <1> QED
    BY <1>1, <1>2

\* A started request has a number of its own, is awaited and has read nothing.
LEMMA Started ==
  ASSUME IInv, told' \in Nat, Start
  PROVE  /\ requests' \subseteq [id : Ids, read : Nat]
         /\ current' \in Ids /\ current' # 0
         /\ attempts' = 0 /\ attempts' \in 0..Retries
         /\ asked' = told' /\ overtaken' = FALSE
         /\ \A r, q \in requests' : r.id = q.id => r = q
         /\ \E r \in requests' : r.id = current'
         /\ \A r \in requests' : r.id = current' => r.read = 0
         /\ \A r \in requests' : r \in requests \/ r.read = 0
  <1>1. PICK id \in Ids : /\ id \in Free
                          /\ requests' = requests \union {[id |-> id, read |-> 0]}
                          /\ current' = id /\ attempts' = 0
                          /\ asked' = told' /\ overtaken' = FALSE
    BY DEF Start
  <1>2. \A r \in requests : r.id # id
    BY <1>1 DEF Free
  <1>3. \A r, q \in requests : r.id = q.id => r = q
    BY DEF IInv, Awaited
  <1>4. requests \subseteq [id : Ids, read : Nat] /\ Retries \in Nat /\ MaxCalls \in Nat
    BY BoundsAssumption DEF IInv, TypeOK
  <1>5. id # 0
    BY <1>4 DEF Ids
  <1>6. requests' \subseteq [id : Ids, read : Nat]
    BY <1>1, <1>4
  <1>7. \A r, q \in requests' : r.id = q.id => r = q
    BY <1>1, <1>2, <1>3
  <1>8. /\ \E r \in requests' : r.id = current'
        /\ \A r \in requests' : r.id = current' => r.read = 0
        /\ \A r \in requests' : r \in requests \/ r.read = 0
    <2>1. PICK new \in requests' : /\ new.id = id /\ new.read = 0
                                   /\ requests' = requests \union {new}
      BY <1>1
    <2>2. \A r \in requests' : r \in requests \/ r = new
      BY <2>1
    <2> QED
      BY <1>1, <1>2, <2>1, <2>2
  <1>9. attempts' = 0 /\ attempts' \in 0..Retries
    BY <1>1, <1>4
  <1> QED
    BY <1>1, <1>5, <1>6, <1>7, <1>8, <1>9, Zenon

\* A joined request is marked when it is older than what the user was told of.
LEMMA Joined ==
  ASSUME IInv, told' \in Nat, Join
  PROVE  /\ UNCHANGED <<requests, current, attempts, asked>>
         /\ overtaken' \in BOOLEAN
         /\ ~overtaken' /\ current # 0 => asked >= told'
  <1>1. overtaken' \in BOOLEAN /\ (~overtaken' /\ current # 0 => ~(asked < told'))
    BY Zenon DEF Join
  <1>2. asked \in Nat
    BY DEF IInv, TypeOK
  <1>3. UNCHANGED <<requests, current, attempts, asked>>
    BY DEF Join, fetchVars
  <1> QED
    BY <1>1, <1>2, <1>3

\* A mount awaits a request that is not older than it, joins one, or finds a
\* kept answer that is valid.
LEMMA Mounting ==
  ASSUME IInv, Mount, told' = told, active' \in BOOLEAN,
         UNCHANGED <<subject, version, shownVars>>
  PROVE  Fetching'
  <1>1. CASE promised' = told' /\ current = 0 /\ Start
    <2>1. told \in Nat /\ version \in Nat /\ \A r \in requests : r.read <= version
      BY DEF IInv, TypeOK, Written
    <2> QED
      BY <1>1, <2>1, Started
      DEF Fetching, Awaited, Answers, InTime, NeverIdle, Promises, shownVars
  <1>2. CASE promised' = told' /\ current # 0 /\ Join
    <2>1. told' \in Nat
      BY DEF IInv, TypeOK
    <2> QED
      BY <1>2, <2>1, Joined
      DEF IInv, TypeOK, Written, Fetching, Awaited, Answers, InTime, NeverIdle, Promises,
          shownVars
  <1>3. CASE /\ data # 0 /\ ~invalid
             /\ UNCHANGED <<fetchVars, promised, asked, overtaken>>
    BY <1>3
    DEF IInv, TypeOK, Written, Fetching, Awaited, Answers, InTime, NeverIdle, Promises,
        fetchVars, shownVars
  <1> QED
    BY <1>1, <1>2, <1>3 DEF Mount

\* A refresh starts a request after what its user was just told of, unless the
\* first one is under way.
LEMMA Refreshing ==
  ASSUME IInv, Refresh, told' \in Nat, told' >= told, active' \in BOOLEAN, active' => active,
         UNCHANGED <<subject, version, data, failed>>
  PROVE  Fetching' /\ invalid' \in BOOLEAN
  <1> USE DEF shownVars
  <1>1. CASE Start
    <2>1. told \in Nat /\ version \in Nat /\ \A r \in requests : r.read <= version
      BY DEF IInv, TypeOK, Written
    <2> QED
      BY <1>1, <2>1, Started
      DEF Refresh, Fetching, Awaited, Answers, InTime, NeverIdle, Promises
  <1>2. CASE ~(active /\ (current = 0 \/ data # 0)) /\ Join
    BY <1>2, Joined
    DEF IInv, TypeOK, Written, Fetching, Awaited, Answers, InTime, NeverIdle, Promises,
        Refresh
  <1> QED
    BY <1>1, <1>2 DEF Refresh

-----------------------------------------------------------------------------
(* The actions of the user.                                                  *)

LEMMA ReturnKeeps ==
  ASSUME IInv, Return PROVE IInv'
  <1>1. Resting'
    BY Parts DEF Return, Resting, callVars, shownVars
  <1>2. CASE active' = TRUE /\ Mount
    BY <1>1, <1>2, Parts, Mounting DEF Return
  <1>3. CASE UNCHANGED <<active, fetchVars, promised, asked, overtaken>>
    BY <1>1, <1>3, Parts
    DEF Return, Fetching, Awaited, Answers, InTime, NeverIdle, Promises, fetchVars, shownVars
  <1> QED
    BY <1>2, <1>3 DEF Return

LEMMA OpenKeeps ==
  ASSUME IInv, Open PROVE IInv'
  <1>1. Resting'
    BY Parts DEF Open, Resting, callVars, shownVars
  <1>2. Fetching'
    BY Mounting DEF Open
  <1> QED
    BY <1>1, <1>2, Parts

\* Leaving or closing only takes the query off the screen.
LEMMA HidingKeeps ==
  ASSUME IInv, Leave \/ Close PROVE IInv'
  <1>1. active' \in BOOLEAN /\ (active' => active)
    BY DEF Leave, Close, Gone, IInv, TypeOK
  <1>2. UNCHANGED <<subject, version, calls, made, fetchVars, shownVars, toldVars>>
    BY DEF Leave, Close, callVars
  <1>3. here' \in BOOLEAN /\ pending' \in Nat
    <2>1. here \in BOOLEAN /\ pending \in Nat
      BY DEF IInv, TypeOK
    <2>2. (here' = FALSE \/ here' = here) /\ (pending' = 0 \/ pending' = pending)
      BY DEF Leave, Close, Gone, callVars
    <2>3. here' \in BOOLEAN
      BY <2>1, <2>2, Zenon
    <2> QED
      BY <2>1, <2>2, <2>3
  <1>4. Resting'
    BY <1>1, <1>2, <1>3, Parts DEF Resting, shownVars, toldVars
  <1>5. Fetching'
    BY <1>1, <1>2, Parts
    DEF Fetching, Awaited, Answers, InTime, NeverIdle, Promises, fetchVars, shownVars, toldVars
  <1> QED
    BY <1>4, <1>5, Parts

LEMMA RefetchKeeps ==
  ASSUME IInv, Refetch PROVE IInv'
  <1>1. Resting'
    BY Parts DEF Refetch, Resting, callVars, shownVars
  <1>2. told' \in Nat /\ version \in Nat
    BY Parts DEF Refetch, Resting
  <1>3. Fetching'
    BY <1>2, Started, Parts
    DEF Refetch, Fetching, Awaited, Answers, InTime, NeverIdle, Promises, shownVars
  <1> QED
    BY <1>1, <1>3, Parts

LEMMA ClickKeeps ==
  ASSUME IInv, Click PROVE IInv'
  <1>1. MaxCalls \in Nat
    BY BoundsAssumption
  <1>2. Resting'
    BY <1>1, Parts DEF Click, Resting, shownVars, toldVars
  <1>3. Fetching'
    BY Parts
    DEF Click, Fetching, Awaited, Answers, InTime, NeverIdle, Promises,
        fetchVars, shownVars, toldVars
  <1> QED
    BY <1>2, <1>3, Parts

-----------------------------------------------------------------------------
(* The server.                                                               *)

\* A write leaves everything older than the new version.
LEMMA WriteKeeps ==
  ASSUME IInv, Commit \/ Foreign PROVE IInv'
  <1>1. version' = version + 1 /\ version \in Nat
    BY Parts DEF Commit, Foreign, Resting
  <1>2. UNCHANGED <<subject, made, pending, here, active, fetchVars, shownVars, toldVars>>
    BY DEF Commit, Foreign, callVars
  <1>3. calls' \subseteq [id : 1..MaxCalls, at : Nat] /\ \A c \in calls' : c.at <= version'
    <2>1. calls \subseteq [id : 1..MaxCalls, at : Nat] /\ \A c \in calls : c.at <= version
      BY Parts DEF Resting
    <2>2. CASE Foreign
      BY <1>1, <2>1, <2>2 DEF Foreign, callVars
    <2>3. CASE Commit
      BY <1>1, <2>1, <2>3 DEF Commit
    <2> QED
      BY <2>2, <2>3
  <1>4. Resting'
    BY <1>1, <1>2, <1>3, Parts DEF Resting, shownVars, toldVars
  <1>5. Fetching'
    BY <1>1, <1>2, Parts
    DEF Fetching, Awaited, Answers, InTime, NeverIdle, Promises, fetchVars, shownVars, toldVars
  <1> QED
    BY <1>4, <1>5, Parts

\* What the server answers is as new as anything.
LEMMA ServeKeeps ==
  ASSUME IInv, Serve PROVE IInv'
  <1>1. PICK r \in requests :
          requests' = (requests \ {r}) \union {[r EXCEPT !.read = version]}
    BY DEF Serve
  <1>2. UNCHANGED <<subject, version, callVars, here, active, current, attempts,
                    shownVars, toldVars>>
    BY DEF Serve
  <1>3. Resting'
    BY <1>2, Parts DEF Resting, callVars, shownVars, toldVars
  <1>4. PICK new \in requests' : /\ new = [id |-> r.id, read |-> version]
                                 /\ requests' = (requests \ {r}) \union {new}
    <2>1. r \in [id : Ids, read : Nat]
      BY Parts DEF Fetching
    <2>2. [r EXCEPT !.read = version] = [id |-> r.id, read |-> version]
      BY <2>1
    <2> QED
      BY <1>1, <2>2
  <1>5. version \in Nat /\ version >= data /\ version >= asked
    BY Parts DEF Resting, Fetching
  <1>6. requests' \subseteq [id : Ids, read : Nat] /\ \A q \in requests' : q.read <= version
    BY <1>4, <1>5, Parts DEF Fetching
  <1>7. Awaited'
    BY <1>2, <1>4, <1>5, Parts DEF Fetching, Awaited, shownVars, toldVars
  <1>8. Fetching'
    BY <1>2, <1>6, <1>7, Parts
    DEF Fetching, Answers, InTime, NeverIdle, Promises, shownVars, toldVars
  <1> QED
    BY <1>3, <1>8, Parts

-----------------------------------------------------------------------------
(* Answers.                                                                  *)

\* A call that is over leaves fewer calls, and a button for some of them.
LEMMA CallOver ==
  ASSUME IInv, NEW c \in calls, Answered(c)
  PROVE  /\ calls' \subseteq [id : 1..MaxCalls, at : Nat] /\ \A d \in calls' : d.at <= version
         /\ pending' \in Nat /\ UNCHANGED <<subject, version, made>>
         /\ c.at \in Nat /\ c.at <= version
  BY Parts DEF Answered, Resting

\* A success tells of what the server wrote, and asks for what it changed.
LEMMA SucceedKeeps ==
  ASSUME IInv, Succeed PROVE IInv'
  <1>1. PICK c \in calls :
          /\ Answered(c)
          /\ told' = Later(told, c.at)
          /\ \/ subject.refreshed /\ Refresh
             \/ /\ ~subject.refreshed
                /\ UNCHANGED <<invalid, promised, asked, overtaken, fetchVars>>
          /\ (here' = FALSE /\ active' = (subject.frame /\ active))
               \/ UNCHANGED <<here, active>>
          /\ UNCHANGED <<data, failed>>
    BY DEF Succeed, Gone
  <1>2. told' \in Nat /\ told' >= told /\ told' <= version
    BY <1>1, CallOver, Parts DEF Later, Resting
  <1>3. here' \in BOOLEAN /\ active' \in BOOLEAN /\ (active' => active)
    <2>1. here \in BOOLEAN /\ active \in BOOLEAN
      BY Parts DEF Resting
    <2>2. CASE here' = FALSE /\ active' = (subject.frame /\ active)
      <3>1. active' \in BOOLEAN /\ (active' => active)
        BY <2>1, <2>2
      <3> QED
        BY <2>2, <3>1, Zenon
    <2>3. CASE UNCHANGED <<here, active>>
      BY <2>1, <2>3
    <2> QED
      BY <1>1, <2>2, <2>3
  <1>4. UNCHANGED <<subject, version>>
    BY <1>1, CallOver
  <1>5. CASE Refresh
    <2>1. Fetching' /\ invalid' \in BOOLEAN
      BY <1>1, <1>2, <1>3, <1>4, <1>5, Refreshing
    <2>2. Resting'
      BY <1>1, <1>2, <1>3, <2>1, CallOver, Parts DEF Resting
    <2> QED
      BY <2>1, <2>2, Parts
  <1>6. CASE /\ ~subject.refreshed
             /\ UNCHANGED <<invalid, promised, asked, overtaken, fetchVars>>
    <2>1. Resting'
      BY <1>1, <1>2, <1>3, <1>6, CallOver, Parts DEF Resting
    <2>2. Fetching'
      BY <1>1, <1>2, <1>3, <1>4, <1>6, Parts
      DEF Fetching, Resting, Awaited, Answers, InTime, NeverIdle, Promises, fetchVars
    <2> QED
      BY <2>1, <2>2, Parts
  <1> QED
    BY <1>1, <1>5, <1>6

LEMMA FailKeeps ==
  ASSUME IInv, Fail PROVE IInv'
  <1>1. PICK c \in calls :
          Answered(c) /\ UNCHANGED <<here, active, fetchVars, shownVars, toldVars>>
    BY DEF Fail
  <1>2. Resting'
    BY <1>1, CallOver, Parts DEF Resting, shownVars, toldVars
  <1>3. Fetching'
    BY <1>1, CallOver, Parts
    DEF Fetching, Awaited, Answers, InTime, NeverIdle, Promises,
        fetchVars, shownVars, toldVars
  <1> QED
    BY <1>2, <1>3, Parts

\* The awaited answer is no older than what it replaces.
LEMMA AnswerKeeps ==
  ASSUME IInv, Answer PROVE IInv'
  <1>1. PICK r \in requests :
          /\ r.read # 0
          /\ requests' = requests \ {r}
          /\ \/ /\ Taken(r) /\ data' = r.read
                /\ invalid' = FALSE /\ failed' = FALSE /\ current' = 0
             \/ ~Taken(r) /\ UNCHANGED <<shownVars, current>>
          /\ UNCHANGED <<subject, version, callVars, here, active, attempts, toldVars>>
    BY DEF Answer
  <1>2. r \in [id : Ids, read : Nat] /\ r.read <= version /\ data \in Nat /\ asked \in Nat
    BY Parts DEF Fetching, Resting
  <1>3. CASE Taken(r)
    <2>1. UNCHANGED <<subject, version, calls, made, pending, here, active, attempts, toldVars>>
          /\ data' = r.read /\ invalid' = FALSE /\ failed' = FALSE /\ current' = 0
      BY <1>1, <1>3 DEF callVars
    <2>2. r.read >= asked /\ r.read # 0 /\ current # 0
      <3>1. r.id = current /\ MaxCalls \in Nat
        BY <1>3, BoundsAssumption DEF Taken
      <3> QED
        BY <1>1, <1>2, <3>1, Parts DEF Fetching, Awaited, Ids
    <2>3. Resting'
      BY <1>2, <2>1, Parts DEF Resting, toldVars
    <2>4. Fetching'
      <3>1. requests' \subseteq requests /\ \A q \in requests' : q.id \in Ids /\ q.id # 0
        BY <1>1, Parts, BoundsAssumption DEF Fetching, Ids
      <3>2. Awaited'
        BY <2>1, <3>1, Parts DEF Fetching, Awaited, toldVars
      <3>3. Answers' /\ InTime' /\ NeverIdle' /\ Promises'
        BY <2>1, <2>2, Parts
        DEF Fetching, Answers, InTime, NeverIdle, Promises, toldVars
      <3> QED
        BY <2>1, <3>1, <3>2, <3>3, Parts DEF Fetching, toldVars
    <2> QED
      BY <2>3, <2>4, Parts
  <1>4. CASE ~Taken(r)
    <2>1. UNCHANGED <<subject, version, calls, made, pending, here, active, attempts, toldVars,
                      data, invalid, failed, current>>
      BY <1>1, <1>4 DEF callVars, shownVars
    <2>2. Resting'
      BY <2>1, Parts DEF Resting, toldVars
    <2>3. Fetching'
      BY <1>1, <1>4, <2>1, Parts
      DEF Taken, Fetching, Awaited, Answers, InTime, NeverIdle, Promises, toldVars
    <2> QED
      BY <2>2, <2>3, Parts
  <1> QED
    BY <1>3, <1>4

\* A request that is lost is repeated, given up, or was of no interest.
LEMMA LoseKeeps ==
  ASSUME IInv, Lose PROVE IInv'
  <1>1. PICK r \in requests :
          /\ \/ /\ Taken(r) /\ active /\ attempts < Retries
                /\ requests' = (requests \ {r}) \union {[r EXCEPT !.read = 0]}
                /\ attempts' = attempts + 1 /\ asked' = told /\ overtaken' = FALSE
                /\ UNCHANGED <<current, failed>>
             \/ /\ requests' = requests \ {r}
                /\ current' = IF Taken(r) THEN 0 ELSE current
                /\ failed' = (failed \/ Taken(r))
                /\ UNCHANGED <<attempts, asked, overtaken>>
          /\ UNCHANGED <<subject, version, callVars, here, active, data, invalid,
                         told, promised>>
    BY DEF Lose, Repeats
  <1>2. failed' \in BOOLEAN
    <2>1. failed \in BOOLEAN
      BY Parts DEF Resting
    <2> QED
      BY <1>1, <2>1, Zenon
  <1>3. Resting'
    BY <1>1, <1>2, Parts DEF Resting, callVars
  <1>4. r \in [id : Ids, read : Nat] /\ told \in Nat /\ attempts \in Nat /\ Retries \in Nat
    BY Parts, BoundsAssumption DEF Fetching, Resting
  <1>5. CASE /\ Taken(r) /\ active /\ attempts < Retries
             /\ requests' = (requests \ {r}) \union {[r EXCEPT !.read = 0]}
             /\ attempts' = attempts + 1 /\ asked' = told /\ overtaken' = FALSE
             /\ UNCHANGED <<current, failed>>
    <2>1. PICK new \in requests' : /\ new = [id |-> r.id, read |-> 0]
                                   /\ requests' = (requests \ {r}) \union {new}
      <3>1. [r EXCEPT !.read = 0] = [id |-> r.id, read |-> 0]
        BY <1>4
      <3> QED
        BY <1>5, <3>1
    <2>2. /\ requests' \subseteq [id : Ids, read : Nat]
          /\ \A q \in requests' : q.read <= version
      BY <1>4, <2>1, Parts DEF Fetching, Resting
    <2>3. r.id = current /\ current' = current /\ current # 0
      BY <1>4, <1>5, BoundsAssumption DEF Taken, Ids
    <2>4. Awaited'
      <3>1. \A q \in requests' : q = new \/ (q \in requests /\ q # r)
        BY <2>1
      <3>2. \A q \in requests' : q.id = current' => q = new
        BY <2>3, <3>1, Parts DEF Fetching, Awaited
      <3>3. \A p, q \in requests' : p.id = q.id => p = q
        BY <2>1, <2>3, <3>1, <3>2, Parts DEF Fetching, Awaited
      <3>4. new.id = current' /\ new.read = 0
        BY <2>1, <2>3
      <3> QED
        BY <3>2, <3>3, <3>4 DEF Awaited
    <2>5. Fetching'
      <3>1. attempts' \in 0..Retries /\ asked' \in Nat /\ asked' = told' /\ promised' = promised
        BY <1>1, <1>4, <1>5
      <3>2. overtaken' = FALSE /\ overtaken' \in BOOLEAN
        BY <1>5, Zenon
      <3>3. promised' \in Nat /\ promised' <= told' /\ promised' <= asked' /\ asked' <= told'
        BY <1>1, <1>4, <3>1, Parts DEF Fetching
      <3>4. /\ current' \in Ids \union {0} /\ current' # 0
            /\ \A q \in requests' : q.read <= version'
        BY <1>1, <2>2, <2>3, Parts DEF Fetching
      <3>5. InTime' /\ Answers' /\ NeverIdle'
        BY <3>3, <3>4 DEF InTime, Answers, NeverIdle
      <3>6. Promises'
        BY <1>1, Parts DEF Fetching, Promises
      <3> QED
        BY <2>2, <2>4, <3>1, <3>2, <3>3, <3>4, <3>5, <3>6 DEF Fetching
    <2> QED
      BY <1>3, <2>5, Parts
  <1>6. CASE /\ requests' = requests \ {r}
             /\ current' = IF Taken(r) THEN 0 ELSE current
             /\ failed' = (failed \/ Taken(r))
             /\ UNCHANGED <<attempts, asked, overtaken>>
    <2>1. \/ r.id = current /\ current' = 0 /\ failed' = TRUE
          \/ r.id # current /\ current' = current /\ failed' = failed
      <3>1. failed \in BOOLEAN
        BY Parts DEF Resting
      <3> QED
        BY <1>6, <3>1, Zenon DEF Taken
    <2>2. \A q \in requests : q.id # 0
      BY Parts, BoundsAssumption DEF Fetching, Ids
    <2>3. Awaited'
      BY <1>1, <1>6, <2>1, <2>2, Parts DEF Fetching, Awaited
    <2>4. Fetching'
      BY <1>1, <1>6, <2>1, <2>3, Parts
      DEF Fetching, Answers, InTime, NeverIdle, Promises
    <2> QED
      BY <1>3, <2>4, Parts
  <1> QED
    BY <1>1, <1>5, <1>6

LEMMA CollectKeeps ==
  ASSUME IInv, Collect PROVE IInv'
  <1>1. Resting'
    <2>1. invalid' \in BOOLEAN /\ failed' \in BOOLEAN
      BY Zenon DEF Collect
    <2> QED
      BY <2>1, Parts DEF Collect, Resting, callVars, toldVars
  <1>2. Fetching'
    <2>1. \A q \in requests : q.id # 0 /\ q.read \in Nat
      BY Parts, BoundsAssumption DEF Fetching, Ids
    <2> QED
      BY <2>1, Parts
      DEF Collect, Fetching, Awaited, Answers, InTime, NeverIdle, Promises,
          fetchVars, toldVars
  <1> QED
    BY <1>1, <1>2, Parts

-----------------------------------------------------------------------------
(* The cache.                                                                *)

LEMMA InitHolds == Init => IInv
  <1> SUFFICES ASSUME Init PROVE IInv
    OBVIOUS
  <1>1. \A f \in Flags : subject[f] \in BOOLEAN
    BY SubjectsAssumption DEF Init
  <1>2. /\ here \in BOOLEAN /\ active \in BOOLEAN /\ invalid \in BOOLEAN
        /\ failed \in BOOLEAN /\ overtaken \in BOOLEAN
    BY Zenon DEF Init
  <1>3. TypeOK
    BY <1>1, <1>2, BoundsAssumption DEF Init, TypeOK
  <1>4. Written /\ Awaited /\ Answers /\ InTime /\ NeverIdle /\ Promises
    BY DEF Init, Written, Awaited, Answers, InTime, NeverIdle, Promises
  <1> QED
    BY <1>3, <1>4 DEF IInv

LEMMA StepKeeps == IInv /\ [Next]_vars => IInv'
  <1> SUFFICES ASSUME IInv, [Next]_vars PROVE IInv'
    OBVIOUS
  <1>1. CASE Return
    BY <1>1, ReturnKeeps
  <1>2. CASE Leave \/ Close
    BY <1>2, HidingKeeps
  <1>3. CASE Open
    BY <1>3, OpenKeeps
  <1>4. CASE Refetch
    BY <1>4, RefetchKeeps
  <1>5. CASE Click
    BY <1>5, ClickKeeps
  <1>6. CASE Commit \/ Foreign
    BY <1>6, WriteKeeps
  <1>7. CASE Serve
    BY <1>7, ServeKeeps
  <1>8. CASE Succeed
    BY <1>8, SucceedKeeps
  <1>9. CASE Fail
    BY <1>9, FailKeeps
  <1>10. CASE Answer
    BY <1>10, AnswerKeeps
  <1>11. CASE Lose
    BY <1>11, LoseKeeps
  <1>12. CASE Collect
    BY <1>12, CollectKeeps
  <1>13. CASE UNCHANGED vars
    <2>1. UNCHANGED <<subject, version, calls, made, pending, here, active, requests, current,
                      attempts, data, invalid, failed, told, promised, asked, overtaken>>
      BY <1>13 DEF vars, callVars, fetchVars, shownVars, toldVars
    <2>2. Resting'
      BY <2>1, Parts DEF Resting
    <2>3. Fetching'
      BY <2>1, Parts DEF Fetching, Awaited, Answers, InTime, NeverIdle, Promises
    <2> QED
      BY <2>2, <2>3, Parts
  <1> QED
    BY <1>1, <1>2, <1>3, <1>4, <1>5, <1>6, <1>7, <1>8, <1>9, <1>10, <1>11, <1>12, <1>13
    DEF Next

\* Requests and answers of every subject (main.tsx, useQuery and useMutation of
\* every screen) keep the inductive invariant.
THEOREM CacheInvariant == Spec => []IInv
  <1> QED
    BY InitHolds, StepKeeps, PTL DEF Spec

\* Every variable keeps its type, whatever the numbers of calls, repetitions
\* and writes.
THEOREM TypeCorrect == Spec => []TypeOK
  <1>1. IInv => TypeOK
    BY DEF IInv
  <1> QED
    BY <1>1, CacheInvariant, PTL

\* Once it has settled, a screen shows no less than its user was told of when
\* it was last entered, focused, polled or refreshed: the stale answers of a
\* query kept by the cache never survive a visit.
THEOREM AsOfVisitHolds == Spec => []AsOfVisit
  <1>1. IInv => AsOfVisit
    <2> SUFFICES ASSUME IInv, active, current = 0, ~failed, ~overtaken
                 PROVE  data >= promised
      BY DEF AsOfVisit, Settled
    <2>1. data # 0 /\ ~invalid
      BY DEF IInv, NeverIdle
    <2>2. data >= asked /\ asked >= promised
      BY <2>1 DEF IInv, Answers, InTime
    <2>3. data \in Nat /\ asked \in Nat /\ promised \in Nat
      BY DEF IInv, TypeOK
    <2> QED
      BY <2>2, <2>3
  <1> QED
    BY <1>1, CacheInvariant, PTL

\* A subject stays one of the subjects.
LEMMA SubjectKept == Spec => [](subject \in Subjects)
  <1>1. Init => subject \in Subjects
    BY DEF Init
  <1>2. subject \in Subjects /\ [Next]_vars => (subject \in Subjects)'
    BY DEF Next, vars, Return, Leave, Open, Close, Refetch, Click, Commit, Foreign, Serve,
           Succeed, Fail, Answer, Lose, Collect, Answered
  <1> QED
    BY <1>1, <1>2, PTL DEF Spec

\* When every call without a gap refreshes the query that shows its answer,
\* which the run checks of every call of the console, nobody who was told of
\* a success goes on seeing what was there before it.
THEOREM ReadYourWritesHolds ==
  ASSUME \A s \in Subjects : s.refreshed \/ s.gap
  PROVE  Spec => []ReadYourWrites
  <1>1. IInv /\ AsOfVisit /\ subject \in Subjects => ReadYourWrites
    BY DEF IInv, Promises, AsOfVisit, ReadYourWrites
  <1> QED
    BY <1>1, CacheInvariant, AsOfVisitHolds, SubjectKept, PTL

-----------------------------------------------------------------------------
(* The view of the server.                                                   *)

LEMMA InitMaps == Init => View!Init
  BY DEF Init, View!Init

\* A write of anybody is one write; an answer that is taken looks; a query
\* that is dropped forgets; everything else leaves the view alone.
LEMMA StepMaps == IInv /\ IInv' /\ [Next]_vars => [View!Next]_<<version, data>>
  <1> SUFFICES ASSUME IInv, IInv', [Next]_vars
               PROVE  View!Next \/ UNCHANGED <<version, data>>
    OBVIOUS
  <1>1. CASE Commit \/ Foreign
    BY <1>1 DEF Commit, Foreign, shownVars, View!Next, View!Write
  <1>2. CASE Answer
    <2>1. PICK r \in requests :
            /\ r.read # 0
            /\ (Taken(r) /\ data' = r.read) \/ data' = data
            /\ version' = version
      BY <1>2 DEF Answer, shownVars
    <2>2. data' = data \/ (data' >= data /\ data' <= version)
      BY <2>1 DEF IInv, Awaited, Written, Taken
    <2> QED
      BY <2>1, <2>2 DEF View!Next, View!Look
  <1>3. CASE Collect
    BY <1>3 DEF Collect, View!Next, View!Drop
  <1>4. CASE Return \/ Leave \/ Open \/ Close \/ Refetch \/ Click \/ Serve \/ Lose
    BY <1>4 DEF Return, Leave, Open, Close, Refetch, Click, Serve, Lose, shownVars
  <1>5. CASE Succeed \/ Fail
    BY <1>5 DEF Succeed, Fail, Answered, Refresh, shownVars
  <1>6. CASE UNCHANGED vars
    BY <1>6 DEF vars, shownVars
  <1> QED
    BY <1>1, <1>2, <1>3, <1>4, <1>5, <1>6 DEF Next

\* The cache implements a view that lags behind the server and never goes
\* back: replaced, repeated and late answers (queryFn of every useQuery) are
\* not shown over newer ones.
THEOREM ServerViewImplemented == Spec => IsServerView
  <1>1. IInv /\ IInv' /\ [Next]_vars => [View!Next]_<<version, data>>
    BY StepMaps
  <1> QED
    BY InitMaps, <1>1, CacheInvariant, PTL DEF Spec, IsServerView, View!Spec

=============================================================================
