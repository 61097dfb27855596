------------------------------ MODULE QueryCache ------------------------------
(***************************************************************************)
(* The browser's cache of answers.  Every screen reads through useQuery of  *)
(* @tanstack/react-query and writes through useMutation, with one           *)
(* QueryClient of default options for the whole application                 *)
(* (src/frontend/src/main.tsx).  The library is not part of the repository; *)
(* it is modelled as the screens use it: what starts a request, what        *)
(* cancels or joins one, what an answer and an error do.                    *)
(*                                                                          *)
(* One query and one call that changes its answer, as a screen has them: a  *)
(* subject.  The server's rows are a version number; an answer holds the    *)
(* version at which the server computed it, 0 stands for no answer.         *)
(***************************************************************************)
EXTENDS Naturals

CONSTANTS
  Subjects,    \* the pairs of a call and a query, see SubjectOf in Console
  Retries,     \* how often a failing request is repeated
  MaxCalls,    \* bound: the calls made from the screen
  MaxVersion   \* bound: the version that writes of others reach

\* Writes of others start from the first version.
ASSUME BoundsAssumption ==
  /\ Retries \in Nat /\ MaxCalls \in Nat /\ MaxVersion \in Nat \ {0}

Flags == {"refreshed", "gap", "always", "frame", "open", "leaves", "needs"}

ASSUME SubjectsAssumption ==
  \A s \in Subjects : \A f \in Flags : s[f] \in BOOLEAN

VARIABLES
  subject,     \* the pair looked at
  version,     \* of the server's rows
  calls,       \* calls under way: at is 0 before the server's commit
  made,        \* number of the last call
  pending,     \* the call whose button is disabled, or 0
  here,        \* the page of the call is on the screen
  active,      \* the query is mounted and enabled
  requests,    \* requests under way: read is 0 before the server's answer
  current,     \* the request whose answer the query awaits, or 0
  attempts,    \* how often it was repeated
  data,        \* the version shown, 0 when there is none
  invalid,     \* marked by an invalidation
  failed,      \* the last request ended in an error
  told,        \* the latest version the user was told of by a success
  promised,    \* told as of the last mount, refetch or refresh
  asked,       \* told as of the last request
  overtaken    \* that one was joined by a later mount or refresh

callVars  == <<calls, made, pending>>
fetchVars == <<requests, current, attempts>>
shownVars == <<data, invalid, failed>>
toldVars  == <<told, promised, asked, overtaken>>
vars == <<subject, version, callVars, here, active, fetchVars, shownVars, toldVars>>

\* Every request beyond the awaited one was cancelled by a call's success.
Ids == 1..(MaxCalls + 1)

-----------------------------------------------------------------------------
(* Requests.  A definition named ..Wrong, here and in the other modules, is  *)
(* not used: it is the mistake that a property notices.                      *)

Free == Ids \ {r.id : r \in requests}

\* A request is started, and with it ends what the last one left behind.
\* When there is one already, it is replaced: its answer is ignored.
Start ==
  \E id \in Ids :
    /\ id \in Free /\ \A k \in Free : id <= k
    /\ requests' = requests \union {[id |-> id, read |-> 0]}
    /\ current' = id
    /\ attempts' = 0
    /\ asked' = told'
    /\ overtaken' = FALSE

\* The request under way is joined, although it may be older than what the
\* user has been told of.
Join ==
  /\ overtaken' = (current # 0 /\ asked < told')
  /\ UNCHANGED <<fetchVars, asked>>

MountWrong ==
  /\ promised' = told'
  /\ IF current = 0 /\ data = 0 THEN Start ELSE Join

\* With staleTime 0 an answer is stale at once, and every mount asks again.
\* A kept answer is asked again when it was invalidated, or has grown old.
Mount ==
  \/ /\ promised' = told'
     /\ IF current = 0 THEN Start ELSE Join
  \/ /\ subject.freshness = "kept" /\ data # 0 /\ ~invalid
     /\ UNCHANGED <<fetchVars, promised, asked, overtaken>>

\* invalidateQueries marks the query; when it is active it also refetches it,
\* replacing the request under way, unless that is the first one.
Refresh ==
  /\ invalid' = TRUE
  /\ promised' = told'
  /\ IF active /\ (current = 0 \/ data # 0) THEN Start ELSE Join

-----------------------------------------------------------------------------
(* The user.                                                                 *)

\* The page of the call comes on the screen, and its query with it; a query
\* of the frame has been there all along.
Return ==
  /\ ~here
  /\ here' = TRUE
  /\ told' = told
  /\ IF subject.always /\ ~active
     THEN active' = TRUE /\ Mount
     ELSE UNCHANGED <<active, fetchVars, promised, asked, overtaken>>
  /\ UNCHANGED <<subject, version, callVars, shownVars>>

\* An unmounted button forgets that its call is pending.
Gone ==
  /\ here' = FALSE
  /\ active' = (subject.frame /\ active)

Leave ==
  /\ here
  /\ Gone
  /\ pending' = 0
  /\ UNCHANGED <<subject, version, calls, made, fetchVars, shownVars, toldVars>>

\* A dialog, a row or a tab enables its query.
Open ==
  /\ ~subject.always /\ ~active /\ (here \/ subject.frame)
  /\ active' = TRUE /\ told' = told
  /\ Mount
  /\ UNCHANGED <<subject, version, callVars, here, shownVars>>

Close ==
  /\ ~subject.always /\ active
  /\ active' = FALSE
  /\ UNCHANGED <<subject, version, callVars, here, fetchVars, shownVars, toldVars>>

\* The window is focused, or the interval of a polled query has passed.
Refetch ==
  /\ active /\ current = 0
  /\ told' = told /\ promised' = told
  /\ Start
  /\ UNCHANGED <<subject, version, callVars, here, active, shownVars>>

\* The button is disabled while its call is pending, unless it is "open"; on
\* a row it is there once there are rows.
Click ==
  /\ here /\ made < MaxCalls
  /\ subject.open \/ pending = 0
  /\ subject.needs => data # 0
  /\ calls' = calls \union {[id |-> made + 1, at |-> 0]}
  /\ made' = made + 1
  /\ pending' = made + 1
  /\ UNCHANGED <<subject, version, here, active, fetchVars, shownVars, toldVars>>

-----------------------------------------------------------------------------
(* The server.                                                               *)

Commit ==
  \E c \in calls :
    /\ c.at = 0
    /\ version' = version + 1
    /\ calls' = (calls \ {c}) \union {[c EXCEPT !.at = version + 1]}
    /\ UNCHANGED <<subject, made, pending, here, active, fetchVars, shownVars, toldVars>>

\* Another user, a webhook or a job.
Foreign ==
  /\ version < MaxVersion
  /\ version' = version + 1
  /\ UNCHANGED <<subject, callVars, here, active, fetchVars, shownVars, toldVars>>

Serve ==
  \E r \in requests :
    /\ r.read = 0
    /\ requests' = (requests \ {r}) \union {[r EXCEPT !.read = version]}
    /\ UNCHANGED <<subject, version, callVars, here, active, current, attempts,
                   shownVars, toldVars>>

-----------------------------------------------------------------------------
(* Answers.                                                                  *)

Answered(c) ==
  /\ calls' = calls \ {c}
  /\ pending' = IF pending = c.id THEN 0 ELSE pending
  /\ UNCHANGED <<subject, version, made>>

Later(a, b) == IF a > b THEN a ELSE b

\* onSuccess runs whether or not the screen that made the call is still
\* there: it invalidates, and may leave for another page.
Succeed ==
  \E c \in calls :
    /\ c.at # 0
    /\ Answered(c)
    /\ told' = Later(told, c.at)
    /\ IF subject.refreshed
       THEN Refresh
       ELSE UNCHANGED <<invalid, promised, asked, overtaken, fetchVars>>
    /\ IF subject.leaves /\ here THEN Gone ELSE UNCHANGED <<here, active>>
    /\ UNCHANGED <<data, failed>>

\* The request or its answer is lost, or refused: nothing is invalidated,
\* even if the server has committed.  Calls are not repeated.
Fail ==
  \E c \in calls :
    /\ Answered(c)
    /\ UNCHANGED <<here, active, fetchVars, shownVars, toldVars>>

\* Only the awaited answer is taken.
TakenWrong(r) == TRUE
Taken(r) == r.id = current

Answer ==
  \E r \in requests :
    /\ r.read # 0
    /\ requests' = requests \ {r}
    /\ IF Taken(r)
       THEN /\ data' = r.read /\ invalid' = FALSE /\ failed' = FALSE
            /\ current' = 0
       ELSE UNCHANGED <<shownVars, current>>
    /\ UNCHANGED <<subject, version, callVars, here, active, attempts, toldVars>>

Repeats == attempts < Retries

\* A request that fails is sent again, as long as something shows the query.
Lose ==
  \E r \in requests :
    /\ IF Taken(r) /\ active /\ Repeats
       THEN /\ requests' = (requests \ {r}) \union {[r EXCEPT !.read = 0]}
            /\ attempts' = attempts + 1 /\ asked' = told /\ overtaken' = FALSE
            /\ UNCHANGED <<current, failed>>
       ELSE /\ requests' = requests \ {r}
            /\ current' = IF Taken(r) THEN 0 ELSE current
            /\ failed' = (failed \/ Taken(r))
            /\ UNCHANGED <<attempts, asked, overtaken>>
    /\ UNCHANGED <<subject, version, callVars, here, active, data, invalid, told, promised>>

\* Five minutes after nothing shows it any more, a query is dropped.
Collect ==
  /\ ~active /\ current = 0 /\ data # 0
  /\ data' = 0 /\ invalid' = FALSE /\ failed' = FALSE
  /\ UNCHANGED <<subject, version, callVars, here, active, fetchVars, toldVars>>

-----------------------------------------------------------------------------
Init ==
  /\ subject \in Subjects
  /\ version = 1
  /\ calls = {} /\ made = 0 /\ pending = 0
  /\ here = FALSE /\ active = FALSE
  /\ requests = {} /\ current = 0 /\ attempts = 0
  /\ data = 0 /\ invalid = FALSE /\ failed = FALSE
  /\ told = 0 /\ promised = 0 /\ asked = 0 /\ overtaken = FALSE

Next ==
  \/ Return \/ Leave \/ Open \/ Close \/ Refetch \/ Click
  \/ Commit \/ Foreign \/ Serve
  \/ Succeed \/ Fail \/ Answer \/ Lose \/ Collect

Spec == Init /\ [][Next]_vars

\* The server answers what it is asked, and an answer or an error arrives.
\* Nothing is assumed of the user, of the other writers or of the polls.
Fairness == WF_vars(Serve) /\ WF_vars(Answer \/ Lose)

FairSpec == Spec /\ Fairness

-----------------------------------------------------------------------------
\* Every variable has the type that its comment gives it.
TypeOK ==
  /\ \A f \in Flags : subject[f] \in BOOLEAN
  /\ version \in Nat /\ made \in 0..MaxCalls /\ pending \in Nat
  /\ calls \subseteq [id : 1..MaxCalls, at : Nat]
  /\ here \in BOOLEAN /\ active \in BOOLEAN
  /\ requests \subseteq [id : Ids, read : Nat]
  /\ current \in Ids \union {0} /\ attempts \in 0..Retries
  /\ data \in Nat /\ invalid \in BOOLEAN /\ failed \in BOOLEAN
  /\ told \in Nat /\ promised \in Nat /\ asked \in Nat /\ overtaken \in BOOLEAN

(* The inductive invariant behind the properties that follow.                *)

\* Nothing is shown, answered or told that the server has not written.
Written ==
  /\ version >= 1
  /\ data <= version /\ told <= version
  /\ promised <= told /\ asked <= told
  /\ \A c \in calls : c.at <= version
  /\ \A r \in requests : r.read <= version

\* Requests are told apart by their numbers, and the awaited one is one of
\* them; its answer is no older than what is shown, nor than its question.
Awaited ==
  /\ \A r, q \in requests : r.id = q.id => r = q
  /\ current # 0 => \E r \in requests : r.id = current
  /\ \A r \in requests : r.id = current /\ r.read # 0 => r.read >= data /\ r.read >= asked

\* What is shown without an error answers the last request.
Answers == current = 0 /\ data # 0 /\ ~failed => data >= asked

\* A request that is awaited, or was answered, was made after the last mount
\* or refresh that wanted it, unless one of those joined it.
InTime ==
  ~overtaken /\ (current # 0 \/ (~invalid /\ data # 0)) => asked >= promised

\* A mounted query awaits an answer, or shows a valid one, or an error.
NeverIdle == active /\ current = 0 /\ ~failed => data # 0 /\ ~invalid

\* A call that refreshes the query leaves no gap between being told and it.
Promises == subject.refreshed => promised = told

IInv == TypeOK /\ Written /\ Awaited /\ Answers /\ InTime /\ NeverIdle /\ Promises

\* The screen shows an answer and awaits no other; after an error it says so.
Settled == active /\ current = 0 /\ ~failed

\* A user who was told that a call succeeded does not go on seeing what was
\* there before it, once the screen has settled: the success refreshes the
\* answers that the call changes (onSuccess of every useMutation).  It does
\* not hold of the gaps listed in Console, nor when the refresh joined the
\* first request of the query, which is not replaced.
ReadYourWrites ==
  Settled /\ ~subject.gap /\ ~overtaken => data >= told

\* Whatever its calls forget to refresh, a screen that is entered, focused or
\* polled shows what the user was told of before that.
AsOfVisit ==
  Settled /\ ~overtaken => data >= promised

\* A screen in use that shows less than its user was told of catches up, or
\* says that it could not.
Behind == active /\ ~subject.gap /\ ~overtaken /\ data < told
EventuallyCurrent == Behind ~> (~Behind \/ failed)

\* To a reader the cache is a view of the server that only moves forward,
\* however its requests are delayed, repeated, replaced and answered.
View == INSTANCE ServerView WITH written <- version, seen <- data
IsServerView == View!Spec
=============================================================================
