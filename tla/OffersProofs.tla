---------------------------- MODULE OffersProofs ----------------------------
(***************************************************************************)
(* For any rows, any number of calls and any kinds of items: what the      *)
(* tables of a kind say of each status by itself is enough for what the    *)
(* screens offer while rows move and calls are under way.                  *)
(*                                                                         *)
(* Then the same of the forms behind the buttons, an instance of Forms:    *)
(* what the code of each says by itself is enough for what it edits, what  *)
(* that starts from, and what is left in it.                               *)
(***************************************************************************)
EXTENDS Offers, FormState, TLAPS

\* A status that an offered action leaves is one that the screen knows.
LEMMA LeavesType ==
    ASSUME Closed(kind), NEW a \in Actions(kind), NEW r \in Rows
    PROVE  Leaves(a, r) \subseteq Statuses \union {"gone"}
  BY DEF Closed, Leaves, Statuses

\* A call without the rows that have moved, and one that has been answered.
Without(c, moved) == [c EXCEPT !.basis = @ \ moved, !.again = @ \ moved]
Answered(c) == [c EXCEPT !.served = TRUE, !.rows = {}, !.basis = {}, !.again = {}]
Moved == {r \in Rows : status'[r] # status[r]}

LEMMA AfterCall ==
    ASSUME NEW some \in SUBSET Calls, NEW moved \in SUBSET Rows, NEW e \in After(some, moved)
    PROVE  \E c \in some :
             /\ e = Without(c, moved)
             /\ e \in Calls
             /\ e.act = c.act /\ e.bulk = c.bulk /\ e.rows = c.rows
             /\ e.basis = c.basis \ moved /\ e.again = c.again \ moved
  <1>1. PICK c \in some : e = [c EXCEPT !.basis = @ \ moved, !.again = @ \ moved]
    BY DEF After
  <1> QED
    BY <1>1 DEF Calls, Without

\* A call whose row somebody else has moved.
LEMMA ForeignCall ==
    ASSUME TypeOK, NEW r \in Rows, NEW e \in After(calls, {r})
    PROVE  \E c \in calls :
             /\ e = Without(c, {r})
             /\ e.act = c.act /\ e.bulk = c.bulk /\ e.rows = c.rows
             /\ e.basis = c.basis \ {r} /\ e.again = c.again \ {r}
  <1>1. PICK c \in calls : e = [c EXCEPT !.basis = @ \ {r}, !.again = @ \ {r}]
    BY DEF After
  <1>2. c \in Calls
    BY DEF TypeOK
  <1>3. /\ e = Without(c, {r})
        /\ e.act = c.act /\ e.bulk = c.bulk /\ e.rows = c.rows
        /\ e.basis = c.basis \ {r} /\ e.again = c.again \ {r}
    BY <1>1, <1>2 DEF Calls, Without
  <1> QED
    BY <1>1, <1>3

\* A call, after its action or another one has been done to rows.
LEMMA RepeatedCall ==
    ASSUME NEW some \in SUBSET Calls, NEW a, NEW done \in SUBSET Rows,
           NEW e \in Repeated(some, a, done)
    PROVE  \E c \in some :
             /\ e \in Calls
             /\ e.act = c.act /\ e.bulk = c.bulk /\ e.rows = c.rows /\ e.basis = c.basis
             /\ e.again \subseteq c.again \union done
             /\ c.act # a => e = c
  <1>1. PICK c \in some :
          e = [c EXCEPT !.again = IF c.act = a /\ ~c.served
                                  THEN @ \union (c.rows \cap done) ELSE @]
    BY DEF Repeated
  <1> QED
    BY <1>1 DEF Calls

-----------------------------------------------------------------------------
(* Types *)

LEMMA SendType ==
    ASSUME TypeOK, NEW a \in Actions(kind), NEW bulk \in BOOLEAN,
           NEW rows \in SUBSET Rows, NEW basis \in SUBSET Rows, Send(a, bulk, rows, basis)
    PROVE  TypeOK'
  <1>1. PICK n \in 1..MaxCalls :
          calls' = calls \union
            {[act |-> a, n |-> n, bulk |-> bulk, rows |-> rows,
              basis |-> {r \in basis : shown[r] = status[r]},
              served |-> FALSE, again |-> {}]}
    BY DEF Send
  <1> DEFINE call == [act |-> a, n |-> n, bulk |-> bulk, rows |-> rows,
                      basis |-> {r \in basis : shown[r] = status[r]},
                      served |-> FALSE, again |-> {}]
  <1>2. call \in Calls
    BY DEF Calls
  <1>3. calls' \subseteq Calls
    BY <1>1, <1>2 DEF TypeOK
  <1> QED
    BY <1>3 DEF TypeOK, Send, Calls, Statuses

\* What the server has done to the rows and to the calls.
ServeCall(c, done, left) ==
    /\ done = {r \in c.rows : Accepts(c.act, r)}
    /\ left \in [done -> UNION {Leaves(c.act, r) : r \in done}]
    /\ \A r \in done : left[r] \in Leaves(c.act, r)
    /\ ~c.served
    /\ status' = [r \in Rows |-> IF r \in done THEN left[r] ELSE status[r]]
    /\ calls' = Repeated(After(calls \ {c}, {r \in Rows : status'[r] # status[r]}),
                         c.act, done)
                  \union {[c EXCEPT !.served = TRUE, !.rows = {},
                            !.basis = {}, !.again = {}]}
    /\ refused' = (refused \/ ~(c.basis \subseteq done))
    /\ doubled' = (doubled \/ (c.act \notin kind.repeatable /\ c.again \cap done # {}))
    /\ UNCHANGED <<kind, shown, selected>>

LEMMA ServeIs ==
    ASSUME Serve PROVE \E c \in calls : \E done, left : ServeCall(c, done, left)
  <1>1. PICK c \in calls :
          LET done == {r \in c.rows : Accepts(c.act, r)}
          IN  /\ ~c.served
              /\ \E left \in [done -> UNION {Leaves(c.act, r) : r \in done}] :
                   /\ \A r \in done : left[r] \in Leaves(c.act, r)
                   /\ status' = [r \in Rows |-> IF r \in done THEN left[r] ELSE status[r]]
              /\ calls' = Repeated(After(calls \ {c}, {r \in Rows : status'[r] # status[r]}),
                                   c.act, done)
                            \union {[c EXCEPT !.served = TRUE, !.rows = {},
                                      !.basis = {}, !.again = {}]}
              /\ refused' = (refused \/ ~(c.basis \subseteq done))
              /\ doubled' = (doubled \/ (c.act \notin kind.repeatable /\ c.again \cap done # {}))
              /\ UNCHANGED <<kind, shown, selected>>
    BY DEF Serve
  <1> DEFINE done == {r \in c.rows : Accepts(c.act, r)}
  <1>2. PICK left \in [done -> UNION {Leaves(c.act, r) : r \in done}] :
          /\ \A r \in done : left[r] \in Leaves(c.act, r)
          /\ status' = [r \in Rows |-> IF r \in done THEN left[r] ELSE status[r]]
    BY <1>1
  <1>3. ServeCall(c, done, left)
    BY <1>1, <1>2 DEF ServeCall
  <1> QED
    BY <1>3

\* A call after the server has answered one: that one, which has nothing left to
\* do, or another one, without what has moved and with what was done again.
LEMMA ServeCalls ==
    ASSUME TypeOK, NEW c \in calls, NEW done, NEW left, ServeCall(c, done, left)
    PROVE  \A e \in calls' :
             /\ e \in Calls
             /\ \/ /\ e = Answered(c)
                   /\ e.act = c.act /\ e.bulk = c.bulk /\ e.basis = {} /\ e.again = {}
                \/ \E d \in calls \ {c} :
                     /\ e.act = d.act /\ e.bulk = d.bulk /\ e.rows = d.rows
                     /\ e.basis = d.basis \ Moved
                     /\ e.again \subseteq (d.again \ Moved) \union done
                     /\ d.act # c.act => e = Without(d, Moved) /\ e.again = d.again \ Moved
  <1>1. done \in SUBSET Rows /\ Moved \in SUBSET Rows /\ calls \ {c} \in SUBSET Calls
    BY DEF TypeOK, ServeCall, Calls, Moved
  <1>2. After(calls \ {c}, Moved) \in SUBSET Calls
    BY <1>1, AfterCall
  <1>3. TAKE e \in calls'
  <1>4. e \in Repeated(After(calls \ {c}, Moved), c.act, done) \/ e = Answered(c)
    BY DEF ServeCall, Answered, Moved
  <1>5. CASE e = Answered(c)
    BY <1>5 DEF TypeOK, Calls, Answered
  <1>6. CASE e \in Repeated(After(calls \ {c}, Moved), c.act, done)
    <2>1. PICK f \in After(calls \ {c}, Moved) :
             /\ e \in Calls
             /\ e.act = f.act /\ e.bulk = f.bulk /\ e.rows = f.rows /\ e.basis = f.basis
             /\ e.again \subseteq f.again \union done
             /\ f.act # c.act => e = f
      BY <1>1, <1>2, <1>6, RepeatedCall
    <2>2. PICK d \in calls \ {c} :
             /\ f = Without(d, Moved)
             /\ f.act = d.act /\ f.bulk = d.bulk /\ f.rows = d.rows
             /\ f.basis = d.basis \ Moved /\ f.again = d.again \ Moved
      BY <1>1, <2>1, AfterCall
    <2>3. /\ e.act = d.act /\ e.bulk = d.bulk /\ e.rows = d.rows
          /\ e.basis = d.basis \ Moved
          /\ e.again \subseteq (d.again \ Moved) \union done
          /\ d.act # c.act => e = Without(d, Moved) /\ e.again = d.again \ Moved
      BY <2>1, <2>2
    <2> QED
      BY <2>1, <2>3
  <1> QED
    BY <1>4, <1>5, <1>6

LEMMA ServeType ==
    ASSUME TypeOK, Closed(kind), Serve
    PROVE  TypeOK'
  <1>1. PICK c \in calls : \E done, left : ServeCall(c, done, left)
    BY ServeIs
  <1>2. PICK done, left : ServeCall(c, done, left)
    BY <1>1
  <1>3. calls' \subseteq Calls
    BY <1>2, ServeCalls
  <1>4. c.act \in Actions(kind) /\ c.rows \subseteq Rows
    BY DEF TypeOK, Calls
  <1>5. \A r \in done : left[r] \in Statuses \union {"gone"}
    BY <1>2, <1>4, LeavesType DEF ServeCall
  <1>6. status' \in [Rows -> Statuses \union {"gone"}]
    BY <1>2, <1>5 DEF ServeCall, TypeOK
  <1>7. UNCHANGED <<kind, shown, selected>> /\ refused' \in BOOLEAN /\ doubled' \in BOOLEAN
    BY <1>2 DEF ServeCall
  <1> QED
    BY <1>3, <1>6, <1>7 DEF TypeOK, Calls, Statuses

LEMMA ClickSends ==
    ASSUME TypeOK, Click
    PROVE  \E r \in Rows : \E a \in kind.offers[shown[r]] :
             /\ shown[r] \in Statuses /\ a \in Actions(kind)
             /\ Enabled(a) /\ Send(a, FALSE, {r}, {r})
  BY DEF TypeOK, Click, Shown, Actions, Statuses

LEMMA BulkSends ==
    ASSUME TypeOK, ClickBulk
    PROVE  \E a \in kind.bulk :
             /\ a \in Actions(kind)
             /\ OfferedFor(a) \subseteq selected /\ OfferedFor(a) \subseteq Shown
             /\ Send(a, TRUE, selected, OfferedFor(a))
  BY DEF TypeOK, ClickBulk, OfferedFor, Actions

\* The types hold in every reachable state.
LEMMA NextType ==
    ASSUME TypeOK, Closed(kind), [Next]_vars
    PROVE  TypeOK'
  <1>1. CASE Answer
    BY <1>1 DEF Answer, TypeOK, Calls, Statuses
  <1>2. CASE Click
    <2>1. PICK r \in Rows : \E a \in kind.offers[shown[r]] :
             a \in Actions(kind) /\ Send(a, FALSE, {r}, {r})
      BY <1>2, ClickSends
    <2> QED
      BY <2>1, SendType
  <1>3. CASE ClickBulk
    <2>1. PICK a \in Actions(kind) :
             OfferedFor(a) \subseteq selected /\ Send(a, TRUE, selected, OfferedFor(a))
      BY <1>3, BulkSends
    <2>2. selected \in SUBSET Rows /\ OfferedFor(a) \in SUBSET Rows
      BY <2>1 DEF TypeOK
    <2> QED
      BY <2>1, <2>2, SendType
  <1>4. CASE Toggle \/ ToggleAll \/ Clear
    BY <1>4 DEF Toggle, ToggleAll, Clear, Selectable, Shown, TypeOK, Calls, Statuses
  <1>5. CASE Serve
    BY <1>5, ServeType
  <1>6. CASE Foreign
    <2>1. PICK r \in Rows, s \in Statuses \union {"gone"} :
             /\ status' = [status EXCEPT ![r] = s]
             /\ calls' = After(calls, {r})
             /\ UNCHANGED <<kind, shown, selected, refused, doubled>>
      BY <1>6 DEF Foreign
    <2>2. calls \in SUBSET Calls /\ {r} \in SUBSET Rows
      BY DEF TypeOK
    <2>3. calls' \subseteq Calls
      BY <2>1, <2>2, AfterCall
    <2> QED
      BY <2>1, <2>3 DEF TypeOK, Calls, Statuses
  <1>7. CASE Succeed \/ Fail
    BY <1>7 DEF Succeed, Fail, TypeOK, Calls, Statuses
  <1>8. CASE UNCHANGED vars
    BY <1>8 DEF vars, TypeOK, Calls, Statuses
  <1> QED
    BY <1>1, <1>2, <1>3, <1>4, <1>5, <1>6, <1>7, <1>8 DEF Next

\* Every variable keeps its type, if the actions leave statuses that are known.
THEOREM TypeCorrect ==
    ASSUME \A k \in Kinds : Closed(k)
    PROVE  Spec => []TypeOK
  <1>1. Init => TypeOK
    BY DEF Init, TypeOK, Statuses
  <1>2. TypeOK /\ [Next]_vars => TypeOK'
    BY NextType DEF TypeOK
  <1> QED
    BY <1>1, <1>2, PTL DEF Spec

-----------------------------------------------------------------------------
(* Offers *)

\* An action that is offered for the status of a row is accepted for that row.
LEMMA SendOffer ==
    ASSUME OfferInv, NEW a, NEW bulk, NEW rows, NEW basis,
           Send(a, bulk, rows, basis),
           \A r \in basis : r \in rows /\ (shown[r] = status[r] => Accepts(a, r))
    PROVE  OfferInv'
  <1>1. PICK n \in 1..MaxCalls :
          calls' = calls \union
            {[act |-> a, n |-> n, bulk |-> bulk, rows |-> rows,
              basis |-> {r \in basis : shown[r] = status[r]},
              served |-> FALSE, again |-> {}]}
    BY DEF Send
  <1>2. UNCHANGED <<kind, status, refused>>
    BY DEF Send
  <1> QED
    BY <1>1, <1>2 DEF OfferInv, Accepts

LEMMA NextOffer ==
    ASSUME TypeOK, OfferInv, Sound(kind), [Next]_vars
    PROVE  OfferInv'
  <1>1. CASE Answer \/ Toggle \/ ToggleAll \/ Clear
    BY <1>1 DEF Answer, Toggle, ToggleAll, Clear, OfferInv, Accepts
  <1>2. CASE Click
    <2>1. PICK r \in Rows : \E a \in kind.offers[shown[r]] :
             shown[r] \in Statuses /\ Send(a, FALSE, {r}, {r})
      BY <1>2, ClickSends
    <2>2. PICK a \in kind.offers[shown[r]] : Send(a, FALSE, {r}, {r})
      BY <2>1
    <2>3. PICK one : one = {r}
      OBVIOUS
    <2>4. \A q \in one : q \in one /\ (shown[q] = status[q] => Accepts(a, q))
      BY <2>1, <2>2, <2>3 DEF Sound, Statuses, Accepts
    <2>5. Send(a, FALSE, one, one)
      BY <2>2, <2>3
    <2> QED
      BY <2>4, <2>5, SendOffer
  <1>3. CASE ClickBulk
    <2>1. PICK a \in kind.bulk :
             OfferedFor(a) \subseteq selected /\ Send(a, TRUE, selected, OfferedFor(a))
      BY <1>3, BulkSends
    <2>2. \A r \in OfferedFor(a) : shown[r] = status[r] => Accepts(a, r)
      BY DEF OfferedFor, Shown, TypeOK, Sound, Statuses, Accepts
    <2> QED
      BY <2>1, <2>2, SendOffer
  <1>4. CASE Serve
    <2>1. PICK c \in calls : \E done, left : ServeCall(c, done, left)
      BY <1>4, ServeIs
    <2>2. PICK done, left : ServeCall(c, done, left)
      BY <2>1
    <2>3. ~refused'
      BY <2>2 DEF ServeCall, OfferInv
    <2>4. \A e \in calls' : \A r \in e.basis : r \in e.rows /\ Accepts(e.act, r)'
      <3> SUFFICES ASSUME NEW e \in calls', NEW r \in e.basis
                   PROVE  r \in e.rows /\ Accepts(e.act, r)'
        OBVIOUS
      <3>1. PICK d \in calls \ {c} :
               /\ e.act = d.act /\ e.rows = d.rows
               /\ e.basis = d.basis \ Moved
        BY <2>2, ServeCalls
      <3>2. r \in d.rows /\ Accepts(d.act, r) /\ r \in Rows /\ status'[r] = status[r]
        BY <3>1 DEF OfferInv, TypeOK, Calls, Moved
      <3> QED
        BY <2>2, <3>1, <3>2 DEF Accepts, ServeCall
    <2> QED
      BY <2>3, <2>4 DEF OfferInv
  <1>5. CASE Foreign
    <2>1. PICK r \in Rows, s \in Statuses \union {"gone"} :
             /\ status' = [status EXCEPT ![r] = s]
             /\ calls' = After(calls, {r})
             /\ UNCHANGED <<kind, shown, selected, refused, doubled>>
      BY <1>5 DEF Foreign
    <2>2. calls \in SUBSET Calls /\ {r} \in SUBSET Rows
      BY DEF TypeOK
    <2>3. \A q \in Rows \ {r} : status'[q] = status[q]
      BY <2>1 DEF TypeOK
    <2>4. ASSUME NEW e \in calls', NEW q \in e.basis
          PROVE  q \in e.rows /\ Accepts(e.act, q)'
      <3>3. PICK c \in calls :
               e.act = c.act /\ e.rows = c.rows /\ e.basis = c.basis \ {r}
        <4>1. e \in After(calls, {r}) /\ r \in Rows
          BY <2>1, <2>4
        <4>2. \E c \in calls :
             /\ e = Without(c, {r})
             /\ e.act = c.act /\ e.bulk = c.bulk /\ e.rows = c.rows
             /\ e.basis = c.basis \ {r} /\ e.again = c.again \ {r}
          BY <4>1, ForeignCall
        <4> QED
          BY <4>2
      <3>4. q \in c.rows /\ Accepts(c.act, q) /\ q \in Rows \ {r}
        BY <2>2, <2>4, <3>3 DEF OfferInv, Calls
      <3> QED
        BY <2>1, <2>3, <3>3, <3>4 DEF Accepts
    <2> QED
      BY <2>1, <2>4 DEF OfferInv
  <1>6. CASE Succeed \/ Fail
    BY <1>6 DEF Succeed, Fail, OfferInv, Accepts
  <1>7. CASE UNCHANGED vars
    BY <1>7 DEF vars, OfferInv, Accepts
  <1> QED
    BY <1>1, <1>2, <1>3, <1>4, <1>5, <1>6, <1>7 DEF Next

\* If the server accepts what is offered for each status, the console and the
\* portal are refused nothing but what has moved since: for any rows, users,
\* selections and numbers of calls.
THEOREM RefusedOnlyIfMovedHolds ==
    ASSUME \A k \in Kinds : Closed(k) /\ Sound(k)
    PROVE  Spec => []RefusedOnlyIfMoved
  <1>1. Init => OfferInv
    BY DEF Init, OfferInv
  <1>2. TypeOK /\ OfferInv /\ [Next]_vars => OfferInv'
    BY NextOffer DEF TypeOK
  <1>3. OfferInv => RefusedOnlyIfMoved
    BY DEF OfferInv, RefusedOnlyIfMoved
  <1>4. Spec => []TypeOK
    BY TypeCorrect
  <1> QED
    BY <1>1, <1>2, <1>3, <1>4, PTL DEF Spec

-----------------------------------------------------------------------------
(* Repetitions *)

\* A button that is disabled while its call is pending adds the only call.
LEMMA SendRepeat ==
    ASSUME RepeatInv, NEW a, NEW bulk, NEW rows, NEW basis,
           Send(a, bulk, rows, basis),
           bulk => a \in kind.bulk,
           Single(kind, a) => \A c \in calls : c.act # a
    PROVE  RepeatInv'
  <1>1. PICK call :
          calls' = calls \union {call} /\ call.act = a /\ call.bulk = bulk /\ call.again = {}
    <2>1. PICK n \in 1..MaxCalls :
            calls' = calls \union
              {[act |-> a, n |-> n, bulk |-> bulk, rows |-> rows,
                basis |-> {r \in basis : shown[r] = status[r]},
                served |-> FALSE, again |-> {}]}
      BY DEF Send
    <2>2. PICK call :
            call = [act |-> a, n |-> n, bulk |-> bulk, rows |-> rows,
                    basis |-> {r \in basis : shown[r] = status[r]},
                    served |-> FALSE, again |-> {}]
      OBVIOUS
    <2>3. calls' = calls \union {call} /\ call.act = a /\ call.bulk = bulk /\ call.again = {}
      BY <2>1, <2>2
    <2> QED
      BY <2>3
  <1>2. UNCHANGED <<kind, status, doubled>>
    BY DEF Send
  <1>3. ASSUME NEW c \in calls'
        PROVE  /\ c.bulk => c.act \in kind.bulk
               /\ \A r \in c.again : \E t \in kind.does[c.act] : t[2] = status[r]
               /\ Single(kind, c.act) =>
                    c.again = {} /\ \A d \in calls' : d.act = c.act => d = c
    <2>1. CASE c \in calls
      BY <1>1, <2>1 DEF RepeatInv
    <2>2. CASE c = call
      BY <1>1, <2>2
    <2> QED
      BY <1>1, <1>3, <2>1, <2>2
  <1> QED
    BY <1>2, <1>3 DEF RepeatInv, Single

LEMMA ServeRepeat ==
    ASSUME TypeOK, RepeatInv, Guarded(kind), Serve
    PROVE  RepeatInv'
  <1>1. PICK c \in calls : \E done, left : ServeCall(c, done, left)
    BY ServeIs
  <1>2. PICK done, left : ServeCall(c, done, left)
    BY <1>1
  <1>3. kind' = kind /\ c.act \in Actions(kind)
    BY <1>2 DEF ServeCall, TypeOK, Calls
  <1>4. ~doubled'
    <2>1. CASE Refuses(kind, c.act)
      <3>1. c.again \cap done = {}
        BY <1>2, <2>1 DEF RepeatInv, ServeCall, Accepts, Refuses
      <3> QED
        BY <1>2, <3>1 DEF ServeCall, RepeatInv
    <2>2. CASE Single(kind, c.act)
      BY <1>2, <2>2 DEF ServeCall, RepeatInv
    <2>3. CASE c.act \in kind.repeatable
      BY <1>2, <2>3 DEF ServeCall, RepeatInv
    <2> QED
      BY <1>3, <2>1, <2>2, <2>3 DEF Guarded
  <1> SUFFICES ASSUME NEW e \in calls'
               PROVE  /\ e.bulk => e.act \in kind.bulk
                      /\ \A r \in e.again : \E t \in kind.does[e.act] : t[2] = status'[r]
                      /\ Single(kind, e.act) =>
                           e.again = {} /\ \A f \in calls' : f.act = e.act => f = e
    BY <1>3, <1>4 DEF RepeatInv, Single
  <1> DEFINE Other(f, d) ==
               /\ f.act = d.act /\ f.bulk = d.bulk /\ f.rows = d.rows
               /\ f.basis = d.basis \ Moved
               /\ f.again \subseteq (d.again \ Moved) \union done
               /\ d.act # c.act => f = Without(d, Moved) /\ f.again = d.again \ Moved
  <1>5. \A f \in calls' :
          \/ f = Answered(c) /\ f.act = c.act /\ f.bulk = c.bulk /\ f.again = {}
          \/ \E d \in calls \ {c} : Other(f, d)
    BY <1>2, ServeCalls
  <1>6. CASE e = Answered(c) /\ e.act = c.act /\ e.bulk = c.bulk /\ e.again = {}
    <2>1. ASSUME Single(kind, e.act), NEW f \in calls', f.act = e.act PROVE f = e
      BY <1>5, <1>6, <2>1 DEF RepeatInv
    <2> QED
      BY <1>6, <2>1 DEF RepeatInv
  <1>7. ASSUME NEW d \in calls \ {c}, Other(e, d)
        PROVE  /\ e.bulk => e.act \in kind.bulk
               /\ \A r \in e.again : \E t \in kind.does[e.act] : t[2] = status'[r]
               /\ Single(kind, e.act) =>
                    e.again = {} /\ \A f \in calls' : f.act = e.act => f = e
    <2>1. e.bulk => e.act \in kind.bulk
      BY <1>7 DEF RepeatInv
    <2>2. ASSUME NEW r \in e.again PROVE \E t \in kind.does[e.act] : t[2] = status'[r]
      <3>1. CASE r \in d.again \ Moved
        <4>1. r \in Rows /\ status'[r] = status[r]
          BY <3>1 DEF Moved, TypeOK, Calls
        <4> QED
          BY <1>7, <3>1, <4>1 DEF RepeatInv
      <3>2. CASE r \notin d.again \ Moved
        <4>1. r \in done /\ d.act = c.act
          BY <1>7, <2>2, <3>2
        <4>2. r \in Rows
          BY <1>2, <4>1 DEF ServeCall, TypeOK, Calls
        <4>3. status'[r] \in Leaves(c.act, r)
          BY <1>2, <4>1, <4>2 DEF ServeCall
        <4> QED
          BY <1>7, <4>1, <4>3 DEF Leaves
      <3> QED
        BY <3>1, <3>2
    <2>3. ASSUME Single(kind, e.act)
          PROVE  e.again = {} /\ \A f \in calls' : f.act = e.act => f = e
      <3>1. d.act # c.act /\ d.again = {}
        BY <1>7, <2>3 DEF RepeatInv
      <3>2. e = Without(d, Moved) /\ e.again = {}
        BY <1>7, <3>1
      <3>3. ASSUME NEW f \in calls', f.act = e.act PROVE f = e
        <4>1. PICK g \in calls \ {c} : Other(f, g)
          BY <1>5, <1>7, <3>1, <3>3
        <4>2. g.act = d.act /\ Single(kind, d.act)
          BY <1>7, <2>3, <3>3, <4>1
        <4>3. g = d
          BY <4>2 DEF RepeatInv
        <4> QED
          BY <3>1, <3>2, <4>1, <4>3
      <3> QED
        BY <3>2, <3>3
    <2> QED
      BY <2>1, <2>2, <2>3
  <1> QED
    BY <1>5, <1>6, <1>7

LEMMA ForeignRepeat ==
    ASSUME TypeOK, RepeatInv, Foreign
    PROVE  RepeatInv'
  <1>1. PICK r \in Rows, s \in Statuses \union {"gone"} :
           /\ status' = [status EXCEPT ![r] = s]
           /\ calls' = After(calls, {r})
           /\ UNCHANGED <<kind, shown, selected, refused, doubled>>
    BY DEF Foreign
  <1>2. \A q \in Rows \ {r} : status'[q] = status[q]
    BY <1>1 DEF TypeOK
  <1> DEFINE Other(f, c) ==
               /\ f = Without(c, {r})
               /\ f.act = c.act /\ f.bulk = c.bulk /\ f.rows = c.rows
               /\ f.basis = c.basis \ {r} /\ f.again = c.again \ {r}
  <1>3. ASSUME NEW e \in calls' PROVE \E c \in calls : Other(e, c)
    <2>1. e \in After(calls, {r})
      BY <1>1, <1>3
    <2> QED
      BY <2>1, ForeignCall
  <1>4. ASSUME NEW e \in calls'
        PROVE  /\ e.bulk => e.act \in kind.bulk
               /\ \A q \in e.again : \E t \in kind.does[e.act] : t[2] = status'[q]
               /\ Single(kind, e.act) =>
                    e.again = {} /\ \A f \in calls' : f.act = e.act => f = e
    <2>1. PICK c \in calls : Other(e, c)
      BY <1>3, <1>4
    <2>2. ASSUME NEW q \in e.again PROVE \E t \in kind.does[e.act] : t[2] = status'[q]
      <3>1. q \in c.again /\ q \in Rows \ {r}
        BY <2>1, <2>2 DEF TypeOK, Calls
      <3> QED
        BY <1>2, <2>1, <3>1 DEF RepeatInv
    <2>3. ASSUME Single(kind, e.act), NEW f \in calls', f.act = e.act PROVE f = e
      <3>1. PICK d \in calls : Other(f, d)
        BY <1>3
      <3>2. d = c
        BY <2>1, <2>3, <3>1 DEF RepeatInv
      <3> QED
        BY <2>1, <3>1, <3>2
    <2> QED
      BY <2>1, <2>2, <2>3 DEF RepeatInv
  <1> QED
    BY <1>1, <1>4 DEF RepeatInv, Single

LEMMA NextRepeat ==
    ASSUME TypeOK, RepeatInv, Guarded(kind), [Next]_vars
    PROVE  RepeatInv'
  <1>1. CASE Answer \/ Toggle \/ ToggleAll \/ Clear
    BY <1>1 DEF Answer, Toggle, ToggleAll, Clear, RepeatInv
  <1>2. CASE Click
    <2>1. PICK r \in Rows : \E a \in kind.offers[shown[r]] : Enabled(a) /\ Send(a, FALSE, {r}, {r})
      BY <1>2, ClickSends
    <2>2. PICK a \in kind.offers[shown[r]] : Enabled(a) /\ Send(a, FALSE, {r}, {r})
      BY <2>1
    <2>3. Single(kind, a) => \A c \in calls : c.act # a
      BY <2>2 DEF Single, Enabled, RepeatInv
    <2>4. PICK one : one = {r}
      OBVIOUS
    <2>5. Send(a, FALSE, one, one)
      BY <2>2, <2>4
    <2> QED
      BY <2>3, <2>5, SendRepeat
  <1>3. CASE ClickBulk
    <2>1. PICK a \in kind.bulk : Send(a, TRUE, selected, OfferedFor(a))
      BY <1>3, BulkSends
    <2>2. ~Single(kind, a)
      BY DEF Single
    <2> QED
      BY <2>1, <2>2, SendRepeat
  <1>4. CASE Serve
    BY <1>4, ServeRepeat
  <1>5. CASE Foreign
    BY <1>5, ForeignRepeat
  <1>6. CASE Succeed \/ Fail
    BY <1>6 DEF Succeed, Fail, RepeatInv
  <1>7. CASE UNCHANGED vars
    BY <1>7 DEF vars, RepeatInv
  <1> QED
    BY <1>1, <1>2, <1>3, <1>4, <1>5, <1>6, <1>7 DEF Next

\* If what must not be done twice is refused in the status that it leaves, or is
\* behind a single button, nothing is done twice between a click and its answer:
\* for any rows, users and numbers of calls, whoever moves the rows meanwhile.
THEOREM NeverDoneTwiceHolds ==
    ASSUME \A k \in Kinds : Closed(k) /\ Guarded(k)
    PROVE  Spec => []NeverDoneTwice
  <1>1. Init => RepeatInv
    BY DEF Init, RepeatInv
  <1>2. TypeOK /\ RepeatInv /\ [Next]_vars => RepeatInv'
    BY NextRepeat DEF TypeOK
  <1>3. RepeatInv => NeverDoneTwice
    BY DEF RepeatInv, NeverDoneTwice
  <1>4. Spec => []TypeOK
    BY TypeCorrect
  <1> QED
    BY <1>1, <1>2, <1>3, <1>4, PTL DEF Spec

-----------------------------------------------------------------------------
(* Forms, for any items, any numbers of openings and of versions: what the   *)
(* code of each form says by itself is enough, whatever users save, however  *)
(* late the answers are, and whichever submissions outlive their opening.    *)

F == INSTANCE Forms

InputValues == [of : Items \union {None}, at : Nat,
                typed : F!Targets \union {None}, sent : BOOLEAN]

\* What the inputs can be set to.
LEMMA BlankInputs ==
    /\ F!Blank \in InputValues
    /\ F!Blank.of = None /\ F!Blank.at = 0 /\ F!Blank.typed = None /\ F!Blank.sent = FALSE
  BY DEF F!Blank, InputValues

LEMMA InputsFrom ==
    ASSUME NEW i \in Items, NEW v \in Nat
    PROVE  /\ F!From(i, v) \in InputValues
           /\ F!From(i, v).of = i /\ F!From(i, v).at = v
           /\ F!From(i, v).typed = None /\ F!From(i, v).sent = FALSE
  BY DEF F!From, F!Blank, InputValues

\* What is left of them when an opening ends.
LEMMA InputsLeft ==
    ASSUME inputs \in InputValues, NEW end
    PROVE  /\ F!InputsAfter(end) \in InputValues
           /\ \/ F!InputsAfter(end) = F!Blank
              \/ F!InputsAfter(end) = inputs
              \/ /\ F!InputsAfter(end).of = inputs.of
                 /\ F!InputsAfter(end).at = inputs.at
                 /\ F!InputsAfter(end).typed = inputs.typed
  <1>1. CASE end \in form.clears \/ (form.seeds = "key" /\ target \in Items)
    BY <1>1, BlankInputs DEF F!InputsAfter
  <1>2. CASE ~(end \in form.clears \/ (form.seeds = "key" /\ target \in Items))
    <2> DEFINE b == (inputs.sent \/ end = "success") /\ form.closes # "never"
    <2>1. F!InputsAfter(end) = [inputs EXCEPT !.sent = b]
      BY <1>2 DEF F!InputsAfter
    <2>2. b \in BOOLEAN
      OBVIOUS
    <2> HIDE DEF b
    <2> QED
      BY <2>1, <2>2 DEF InputValues
  <1> QED
    BY <1>1, <1>2

\* They stay but for what is said of their submission, unless the end clears
\* them or remounts the form.
LEMMA InputsKept ==
    ASSUME inputs \in InputValues, NEW end,
           ~(end \in form.clears \/ (form.seeds = "key" /\ target \in Items))
    PROVE  /\ F!InputsAfter(end).of = inputs.of
           /\ F!InputsAfter(end).at = inputs.at
           /\ F!InputsAfter(end).typed = inputs.typed
           /\ end # "success" \/ form.closes = "never" =>
                (F!InputsAfter(end).sent => inputs.sent)
  <1> DEFINE b == (inputs.sent \/ end = "success") /\ form.closes # "never"
  <1>1. F!InputsAfter(end) = [inputs EXCEPT !.sent = b]
    BY DEF F!InputsAfter
  <1>2. b \in BOOLEAN /\ (end # "success" \/ form.closes = "never" => (b => inputs.sent))
    OBVIOUS
  <1> HIDE DEF b
  <1> QED
    BY <1>1, <1>2 DEF InputValues

LEMMA FormInit ==
    ASSUME F!Init PROVE F!TypeOK
  BY BlankInputs DEF F!Init, F!TypeOK, InputValues

LEMMA EnterType ==
    ASSUME ItemsApart, F!TypeOK, F!Enter PROVE F!TypeOK'
  <1>1. item' \in Items \union {None}
    BY DEF F!Enter
  <1>2. inputs' \in InputValues
    <2>1. CASE F!Seeded(item')
      <3>1. item' \in Items /\ listed[item'] \in Nat
        BY <2>1 DEF F!Seeded, F!TypeOK
      <3> QED
        BY <2>1, <3>1, InputsFrom DEF F!Enter
    <2>2. CASE ~F!Seeded(item')
      BY <2>2, BlankInputs DEF F!Enter
    <2> QED
      BY <2>1, <2>2
  <1>3. target' \in F!Targets \union {None}
    BY DEF F!Enter, F!Seeded, F!Targets
  <1>4. floor' \in Nat
    BY <1>3 DEF F!Enter, F!Floor, F!TypeOK, F!Targets
  <1>5. opening' \in Nat /\ fetching' \in BOOLEAN /\ page' = TRUE
    BY DEF F!Enter, F!TypeOK
  <1>6. UNCHANGED <<form, saved, told, listed, subs, busy>>
    BY DEF F!Enter, F!serverVars
  <1> QED
    BY <1>1, <1>2, <1>3, <1>4, <1>5, <1>6 DEF F!TypeOK, InputValues

LEMMA AnswerType ==
    ASSUME ItemsApart, F!TypeOK, F!Answer PROVE F!TypeOK'
  <1>1. UNCHANGED <<form, saved, told, page, item, opening, floor, subs, busy>> /\ listed' = saved
    BY DEF F!Answer, F!serverVars, F!pageVars
  <1>2. /\ inputs' \in InputValues
        /\ target' \in F!Targets \union {None}
        /\ ~page => target' = None
    <2>1. CASE UNCHANGED <<inputs, target>>
      BY <2>1 DEF F!TypeOK, InputValues
    <2>2. CASE page /\ item \in Items /\ inputs' = F!From(item, saved[item])
                 /\ target' \in {item, target}
      <3>1. saved[item] \in Nat
        BY <2>2 DEF F!TypeOK
      <3> QED
        BY <2>2, <3>1, InputsFrom DEF F!TypeOK, F!Targets
    <2> QED
      BY <2>1, <2>2 DEF F!Answer
  <1>3. fetching' \in BOOLEAN
    BY DEF F!Answer
  <1> QED
    BY <1>1, <1>2, <1>3 DEF F!TypeOK, InputValues

LEMMA LeaveType ==
    ASSUME F!TypeOK, F!Leave PROVE F!TypeOK'
  <1> DEFINE Subs == [opening : Nat, n : F!Numbers, to : F!Targets, mine : BOOLEAN]
  <1>1. subs' \subseteq Subs
    <2> SUFFICES ASSUME NEW e \in subs' PROVE e \in Subs
      OBVIOUS
    <2>1. PICK s \in subs : e = [s EXCEPT !.mine = FALSE]
      BY DEF F!Leave
    <2>2. s \in Subs
      BY DEF F!TypeOK
    <2> QED
      BY <2>1, <2>2
  <1>2. /\ UNCHANGED <<form, saved, told, listed, fetching, opening, floor>>
        /\ page' = FALSE /\ item' = None /\ target' = None /\ busy' = FALSE
        /\ inputs' = F!Blank
    BY DEF F!Leave, F!Gone, F!serverVars
  <1> QED
    BY <1>1, <1>2, BlankInputs DEF F!TypeOK, InputValues

\* An opening of a dialog: its inputs are as they were, blank, or the item's.
LEMMA Opened ==
    ASSUME ItemsApart, F!TypeOK, F!Open
    PROVE  /\ page /\ target = None /\ target' \in F!Targets /\ F!Openable(target')
           /\ inputs' = F!InputsFor(target') /\ floor' = F!Floor(target')
           /\ inputs' \in InputValues
           /\ \/ inputs' = inputs
              \/ inputs' = F!Blank
              \/ target' \in Items /\ inputs' = F!From(target', listed[target'])
  <1>1. PICK t \in F!Targets : /\ F!Openable(t) /\ target' = t
                               /\ inputs' = F!InputsFor(t) /\ floor' = F!Floor(t)
    BY DEF F!Open
  <1>2. page /\ target = None
    BY DEF F!Open
  <1>3. \/ inputs' = inputs
        \/ inputs' = F!Blank
        \/ t \in Items /\ inputs' = F!From(t, listed[t])
    BY <1>1 DEF F!InputsFor
  <1>4. inputs' \in InputValues
    <2>1. CASE inputs' = inputs
      BY <2>1 DEF F!TypeOK, InputValues
    <2>2. CASE inputs' = F!Blank
      BY <2>2, BlankInputs
    <2>3. CASE t \in Items /\ inputs' = F!From(t, listed[t])
      <3>1. listed[t] \in Nat
        BY <2>3 DEF F!TypeOK
      <3> QED
        BY <2>3, <3>1, InputsFrom
    <2> QED
      BY <1>3, <2>1, <2>2, <2>3
  <1> QED
    BY <1>1, <1>2, <1>3, <1>4

LEMMA OpenType ==
    ASSUME ItemsApart, F!TypeOK, F!Open PROVE F!TypeOK'
  <1>1. page /\ target' \in F!Targets /\ inputs' \in InputValues /\ floor' = F!Floor(target')
    BY Opened
  <1>2. floor' \in Nat
    BY <1>1 DEF F!Floor, F!TypeOK
  <1>3. opening' \in Nat
    BY DEF F!Open, F!TypeOK
  <1>4. UNCHANGED <<form, saved, told, listed, fetching, page, item, subs, busy>>
    BY DEF F!Open, F!serverVars, F!pageVars
  <1> QED
    BY <1>1, <1>2, <1>3, <1>4 DEF F!TypeOK, InputValues

\* What was typed is for what the form is open for.
LEMMA Typed ==
    ASSUME F!TypeOK, F!Type
    PROVE  /\ inputs' \in InputValues
           /\ inputs'.of = inputs.of /\ inputs'.at = inputs.at
           /\ inputs'.typed = target /\ inputs'.sent = FALSE
           /\ target # None
  BY DEF F!TypeOK, F!Type, InputValues

LEMMA TypeType ==
    ASSUME F!TypeOK, F!Type PROVE F!TypeOK'
  <1>1. UNCHANGED <<form, saved, told, listed, fetching, page, item, target, opening, floor, subs, busy>>
    BY DEF F!Type, F!serverVars, F!pageVars, F!openVars
  <1> QED
    BY <1>1, Typed DEF F!TypeOK, InputValues

LEMMA DismissType ==
    ASSUME F!TypeOK, F!Dismiss PROVE F!TypeOK'
  <1>1. PICK end : inputs' = F!InputsAfter(end)
    BY DEF F!Dismiss
  <1>2. inputs' \in InputValues
    BY <1>1, InputsLeft DEF F!TypeOK, InputValues
  <1>3. UNCHANGED <<form, saved, told, listed, fetching, page, item, opening, floor, subs, busy>>
        /\ target' = None
    BY DEF F!Dismiss, F!serverVars, F!pageVars
  <1> QED
    BY <1>2, <1>3 DEF F!TypeOK, InputValues

LEMMA SubmitType ==
    ASSUME F!TypeOK, F!Submit PROVE F!TypeOK'
  <1> DEFINE Subs == [opening : Nat, n : F!Numbers, to : F!Targets, mine : BOOLEAN]
  <1>1. subs' \subseteq Subs
    <2>1. PICK n \in F!Numbers :
            subs' = subs \union {[opening |-> opening, n |-> n, to |-> target, mine |-> TRUE]}
      BY DEF F!Submit
    <2>2. [opening |-> opening, n |-> n, to |-> target, mine |-> TRUE] \in Subs
      BY <2>1 DEF F!Submit, F!TypeOK
    <2> QED
      BY <2>1, <2>2 DEF F!TypeOK
  <1>2. inputs' \in InputValues /\ target' \in {target, None}
    <2>1. F!InputsAfter("click") \in InputValues
      BY InputsLeft DEF F!TypeOK, InputValues
    <2> QED
      BY <2>1 DEF F!Submit, F!TypeOK, InputValues
  <1>3. UNCHANGED <<form, saved, told, listed, fetching, page, item, opening, floor>>
        /\ busy' = TRUE
    BY DEF F!Submit, F!serverVars, F!pageVars
  <1> QED
    BY <1>1, <1>2, <1>3 DEF F!TypeOK, InputValues

\* The answer to a submission that has saved its item.
LEMMA Saved ==
    ASSUME F!TypeOK, F!Succeed
    PROVE  /\ UNCHANGED <<form, listed, opening, floor>>
           /\ saved' \in [Items -> Nat] /\ told' \in [Items -> Nat]
           /\ subs' \subseteq subs /\ busy' \in BOOLEAN /\ fetching' \in BOOLEAN
           /\ fetching \/ (page /\ form.refreshed) => fetching'
           /\ \A i \in Items : \/ saved'[i] = saved[i] /\ told'[i] = told[i]
                               \/ saved'[i] = saved[i] + 1 /\ told'[i] = saved'[i]
           /\ inputs' \in InputValues
           /\ \/ page' = FALSE /\ item' = None /\ target' = None /\ inputs' = F!Blank
              \/ /\ UNCHANGED <<page, item>>
                 /\ UNCHANGED <<target, inputs>>
              \/ /\ UNCHANGED <<page, item>>
                 /\ target' = IF form.closes = "answer" THEN None ELSE target
                 /\ inputs' = F!InputsAfter("success")
                 /\ ~(form.closes = "answer" /\ form.seeds = "page" /\ page)
  <1>1. PICK s \in subs :
          /\ F!Over(s)
          /\ saved' = [i \in Items |-> IF i = s.to THEN saved[i] + 1 ELSE saved[i]]
          /\ told'  = [i \in Items |-> IF i = s.to THEN saved'[i] ELSE told[i]]
          /\ fetching' = (fetching \/ (page /\ form.refreshed))
          /\ IF form.closes = "answer" /\ F!IsPage /\ page
             THEN F!Gone
             ELSE /\ IF s.mine /\ form.closes = "answer" THEN target' = None ELSE target' = target
                  /\ inputs' = IF s.mine THEN F!InputsAfter("success") ELSE inputs
                  /\ UNCHANGED F!pageVars
          /\ UNCHANGED <<form, listed, opening, floor>>
    BY DEF F!Succeed
  <1>2. \A i \in Items : saved[i] \in Nat /\ told[i] \in Nat
    BY DEF F!TypeOK
  <1>3. saved' \in [Items -> Nat]
    BY <1>1, <1>2
  <1>4. told' \in [Items -> Nat]
    BY <1>1, <1>2, <1>3
  <1>5. \A i \in Items : \/ saved'[i] = saved[i] /\ told'[i] = told[i]
                         \/ saved'[i] = saved[i] + 1 /\ told'[i] = saved'[i]
    BY <1>1
  <1>6. subs' \subseteq subs /\ busy' \in BOOLEAN
    BY <1>1 DEF F!Over
  <1>7. fetching' \in BOOLEAN /\ (fetching \/ (page /\ form.refreshed) => fetching')
    BY <1>1
  <1>8. \/ page' = FALSE /\ item' = None /\ target' = None /\ inputs' = F!Blank
        \/ /\ UNCHANGED <<page, item>>
           /\ UNCHANGED <<target, inputs>>
        \/ /\ UNCHANGED <<page, item>>
           /\ target' = IF form.closes = "answer" THEN None ELSE target
           /\ inputs' = F!InputsAfter("success")
           /\ ~(form.closes = "answer" /\ form.seeds = "page" /\ page)
    BY <1>1 DEF F!Gone, F!pageVars, F!IsPage
  <1>9. inputs' \in InputValues
    BY <1>8, BlankInputs, InputsLeft DEF F!TypeOK, InputValues
  <1> QED
    BY <1>1, <1>3, <1>4, <1>5, <1>6, <1>7, <1>8, <1>9

LEMMA SucceedType ==
    ASSUME F!TypeOK, F!Succeed PROVE F!TypeOK'
  <1>1. /\ UNCHANGED <<form, listed, opening, floor>>
        /\ saved' \in [Items -> Nat] /\ told' \in [Items -> Nat]
        /\ subs' \subseteq subs /\ busy' \in BOOLEAN /\ fetching' \in BOOLEAN
        /\ inputs' \in InputValues
    BY Saved
  <1>2. \/ page' = FALSE /\ item' = None /\ target' = None
        \/ UNCHANGED <<page, item>> /\ target' \in {target, None}
    BY Saved
  <1> QED
    BY <1>1, <1>2 DEF F!TypeOK, InputValues

LEMMA FormNext ==
    ASSUME ItemsApart, F!TypeOK, [F!Next]_(F!vars) PROVE F!TypeOK'
  <1>1. CASE F!Enter
    BY <1>1, EnterType
  <1>2. CASE F!Answer
    BY <1>2, AnswerType
  <1>3. CASE F!Refetch
    BY <1>3 DEF F!Refetch, F!TypeOK, F!serverVars, F!pageVars, F!openVars
  <1>4. CASE F!Leave
    BY <1>4, LeaveType
  <1>5. CASE F!Foreign
    BY <1>5 DEF F!Foreign, F!TypeOK, F!pageVars, F!openVars
  <1>6. CASE F!Open
    BY <1>6, OpenType
  <1>7. CASE F!Type
    BY <1>7, TypeType
  <1>8. CASE F!Dismiss
    BY <1>8, DismissType
  <1>9. CASE F!Submit
    BY <1>9, SubmitType
  <1>10. CASE F!Succeed
    BY <1>10, SucceedType
  <1>11. CASE F!Fail
    BY <1>11 DEF F!Fail, F!Over, F!TypeOK, F!serverVars, F!pageVars, F!openVars
  <1>12. CASE UNCHANGED F!vars
    BY <1>12 DEF F!vars, F!TypeOK
  <1> QED
    BY <1>1, <1>2, <1>3, <1>4, <1>5, <1>6, <1>7, <1>8, <1>9, <1>10, <1>11, <1>12 DEF F!Next

\* Every variable of a form keeps its type, and nothing is open on a page that
\* is not there.
THEOREM FormTypeCorrect == F!Spec => []F!TypeOK
  <1>1. F!Init => F!TypeOK
    BY FormInit
  <1>2. F!TypeOK /\ [F!Next]_(F!vars) => F!TypeOK'
    BY FormNext, ItemsAssumption
  <1> QED
    BY <1>1, <1>2, PTL DEF F!Spec

-----------------------------------------------------------------------------
(* An edit starts from its item.                                             *)

LEMMA EditsOpen ==
    ASSUME ItemsApart, F!TypeOK, StartsFromItem(form), F!EditsInv, F!Open
    PROVE  F!EditsInv'
  <1> SUFFICES ASSUME form.edits, ~form.elsewhere
               PROVE  /\ target' \in Items => inputs'.of = target'
                      /\ form.seeds = "first" /\ item \in Items =>
                           /\ inputs'.of \in {None, item}
                           /\ listed[item] # 0 => inputs'.of = item
    BY DEF F!EditsInv, F!Open, F!serverVars, F!pageVars
  <1>1. F!Openable(target') /\ inputs' = F!InputsFor(target') /\ form.seeds # "page"
    BY Opened DEF F!Open, F!IsPage
  <1>2. CASE form.seeds = "first"
    <2>1. form.about = {"item"} /\ inputs' = inputs
      BY <1>1, <1>2 DEF StartsFromItem, F!InputsFor
    <2>2. target' \in Items => target' = item /\ listed[item] # 0
      BY <1>1, <2>1 DEF F!Openable, F!OfItem
    <2> QED
      BY <1>2, <2>1, <2>2 DEF F!EditsInv
  <1>3. CASE form.seeds \in {"key", "opening"}
    <2>1. ASSUME NEW t \in Items, target' = t PROVE inputs'.of = t
      <3>1. inputs' = F!From(t, listed[t]) /\ listed[t] \in Nat
        BY <1>1, <1>3, <2>1 DEF F!InputsFor, F!TypeOK
      <3> QED
        BY <3>1, InputsFrom
    <2> QED
      BY <1>3, <2>1
  <1> QED
    BY <1>1, <1>2, <1>3 DEF StartsFromItem

LEMMA EditsStep ==
    ASSUME ItemsApart, F!TypeOK, StartsFromItem(form), F!EditsInv, [F!Next]_(F!vars)
    PROVE  F!EditsInv'
  <1> USE DEF F!EditsInv
  <1>1. CASE F!Enter
    <2> SUFFICES ASSUME form.edits, ~form.elsewhere
                 PROVE  /\ target' \in Items => inputs'.of = target'
                        /\ form.seeds = "first" /\ item' \in Items =>
                             /\ inputs'.of \in {None, item'}
                             /\ listed[item'] # 0 => inputs'.of = item'
      BY <1>1 DEF F!Enter
    <2>1. item' \in Items \union {None}
      BY <1>1 DEF F!Enter
    <2>2. CASE F!Seeded(item')
      <3>1. item' \in Items /\ listed[item'] \in Nat
        BY <2>2 DEF F!Seeded, F!TypeOK
      <3>2. inputs'.of = item'
        BY <1>1, <2>2, <3>1, InputsFrom DEF F!Enter
      <3>3. target' \in {item', None}
        BY <1>1, <2>2, <3>1 DEF F!Enter, ItemsApart
      <3> QED
        BY <3>1, <3>2, <3>3 DEF ItemsApart
    <2>3. CASE ~F!Seeded(item')
      <3>1. inputs'.of = None /\ target' \in {New, None}
        BY <1>1, <2>3, BlankInputs DEF F!Enter
      <3>2. form.seeds = "first" /\ item' \in Items => listed[item'] = 0
        BY <2>3 DEF F!Seeded
      <3> QED
        BY <3>1, <3>2 DEF ItemsApart
    <2> QED
      BY <2>2, <2>3
  <1>2. CASE F!Answer
    <2> SUFFICES ASSUME form.edits, ~form.elsewhere
                 PROVE  /\ target' \in Items => inputs'.of = target'
                        /\ form.seeds = "first" /\ item \in Items => inputs'.of = item
      BY <1>2 DEF F!Answer, F!pageVars, ItemsApart
    <2>1. CASE page /\ item \in Items /\ form.seeds \in {"page", "first"} /\ inputs.of = None
      <3>1. saved[item] \in Nat /\ item \in Items /\ inputs' = F!From(item, saved[item])
        BY <1>2, <2>1 DEF F!Answer, F!TypeOK
      <3>2. inputs'.of = item
        BY <3>1, InputsFrom
      <3>3. target' = item \/ target' = target
        BY <1>2, <2>1 DEF F!Answer
      <3>4. target \in Items => FALSE
        BY <2>1 DEF ItemsApart
      <3> QED
        BY <3>2, <3>3, <3>4
    <2>2. CASE ~(page /\ item \in Items /\ form.seeds \in {"page", "first"} /\ inputs.of = None)
      <3>1. UNCHANGED <<inputs, target>>
        BY <1>2, <2>2 DEF F!Answer
      <3>2. form.seeds = "first" /\ item \in Items => page
        BY DEF F!TypeOK, ItemsApart
      <3> QED
        BY <2>2, <3>1, <3>2
    <2> QED
      BY <2>1, <2>2
  <1>3. CASE F!Refetch
    BY <1>3 DEF F!Refetch, F!pageVars, F!openVars
  <1>4. CASE F!Leave
    BY <1>4 DEF F!Leave, F!Gone, ItemsApart
  <1>5. CASE F!Foreign
    BY <1>5 DEF F!Foreign, F!pageVars, F!openVars
  <1>6. CASE F!Open
    BY <1>6, EditsOpen
  <1>7. CASE F!Type
    BY <1>7, Typed DEF F!Type, F!pageVars, F!openVars
  <1>8. CASE F!Dismiss
    <2>1. PICK end : inputs' = F!InputsAfter(end)
      BY <1>8 DEF F!Dismiss
    <2>2. form.edits /\ ~form.elsewhere /\ form.seeds = "first" => inputs'.of = inputs.of
      BY <2>1, InputsKept DEF StartsFromItem, F!TypeOK, InputValues
    <2> QED
      BY <1>8, <2>2 DEF F!Dismiss, F!pageVars, ItemsApart
  <1>9. CASE F!Submit
    <2>1. form.edits /\ ~form.elsewhere /\ form.seeds = "first" =>
            F!InputsAfter("click").of = inputs.of
      BY InputsKept DEF StartsFromItem, F!TypeOK, InputValues
    <2> QED
      BY <1>9, <2>1 DEF F!Submit, F!pageVars, ItemsApart
  <1>10. CASE F!Succeed
    <2>1. UNCHANGED <<form, listed>>
      BY <1>10, Saved
    <2>2. CASE page' = FALSE /\ item' = None /\ target' = None
      BY <2>1, <2>2 DEF ItemsApart
    <2>3. CASE UNCHANGED <<page, item>> /\ UNCHANGED <<target, inputs>>
      BY <2>1, <2>3
    <2>4. CASE /\ UNCHANGED <<page, item>>
               /\ target' = IF form.closes = "answer" THEN None ELSE target
               /\ inputs' = F!InputsAfter("success")
      <3>1. form.edits /\ ~form.elsewhere /\ (form.seeds = "first" \/ form.closes # "answer") =>
              inputs'.of = inputs.of
        BY <2>4, InputsKept DEF StartsFromItem, F!TypeOK, InputValues
      <3> QED
        BY <2>1, <2>4, <3>1 DEF ItemsApart
    <2> QED
      BY <1>10, Saved, <2>2, <2>3, <2>4
  <1>11. CASE F!Fail
    BY <1>11 DEF F!Fail, F!pageVars, F!openVars
  <1>12. CASE UNCHANGED F!vars
    BY <1>12 DEF F!vars
  <1> QED
    BY <1>1, <1>2, <1>3, <1>4, <1>5, <1>6, <1>7, <1>8, <1>9, <1>10, <1>11, <1>12 DEF F!Next

\* A form that is seeded at its openings, or by the answer about its page's
\* item, and that no late success empties, always edits the item it was opened
\* for, from that item's values.
THEOREM EditsTheRowHolds ==
    ASSUME \A f \in FormSubjects : StartsFromItem(f)
    PROVE  F!Spec => []EditsTheRow
  <1>1. F!Init => F!EditsInv
    BY BlankInputs, ItemsAssumption DEF F!Init, F!EditsInv, ItemsApart
  <1>2. F!TypeOK /\ F!EditsInv /\ [F!Next]_(F!vars) => F!EditsInv'
    <2>1. F!TypeOK => StartsFromItem(form)
      BY DEF F!TypeOK
    <2> QED
      BY <2>1, EditsStep, ItemsAssumption
  <1>3. F!EditsInv => EditsTheRow
    BY DEF F!EditsInv, EditsTheRow
  <1>4. F!Spec => []F!TypeOK
    BY FormTypeCorrect
  <1> QED
    BY <1>1, <1>2, <1>3, <1>4, PTL DEF F!Spec

-----------------------------------------------------------------------------
(* An edit starts from what the user has saved.                              *)

LEMMA OwnSucceed ==
    ASSUME ItemsApart, F!TypeOK, StartsFromItem(form), RefreshesItem(form),
           F!OwnInv, F!Succeed
    PROVE  F!OwnInv'
  <1>1. \A i \in Items : saved[i] \in Nat /\ told[i] \in Nat
    BY DEF F!TypeOK
  <1>2. \A i \in Items : told'[i] <= saved'[i]
    BY <1>1, Saved DEF F!OwnInv
  <1>3. UNCHANGED <<form, listed, floor>>
    BY Saved
  <1>4. page' => page
    BY Saved DEF F!TypeOK
  <1>5. ASSUME form.edits, ~form.elsewhere, ~form.cached, page', ~fetching', NEW i \in Items
        PROVE  told'[i] <= listed[i]
    BY <1>4, <1>5, Saved DEF RefreshesItem
  <1>6. ASSUME form.edits, ~form.elsewhere, ~form.cached, target' \in Items
        PROVE  target \in Items /\ inputs'.at = inputs.at
    <2>1. CASE UNCHANGED <<target, inputs>>
      BY <1>6, <2>1
    <2>2. CASE /\ target' = IF form.closes = "answer" THEN None ELSE target
               /\ inputs' = F!InputsAfter("success")
      <3>1. form.closes # "answer" /\ target \in Items
        BY <1>6, <2>2 DEF ItemsApart
      <3>2. "success" \notin form.clears /\ form.seeds # "key"
        BY <1>6, <3>1 DEF StartsFromItem
      <3> QED
        BY <2>2, <3>1, <3>2, InputsKept DEF F!TypeOK, InputValues
    <2> QED
      BY <1>6, Saved, <2>1, <2>2 DEF ItemsApart
  <1> QED
    BY <1>2, <1>3, <1>5, <1>6 DEF F!OwnInv

LEMMA OwnStep ==
    ASSUME ItemsApart, F!TypeOK, StartsFromItem(form), RefreshesItem(form),
           F!OwnInv, [F!Next]_(F!vars)
    PROVE  F!OwnInv'
  <1>1. CASE F!Enter
    <2>1. UNCHANGED <<form, saved, told, listed>> /\ fetching'
      BY <1>1 DEF F!Enter, F!serverVars
    <2>2. form.edits /\ ~form.elsewhere /\ ~form.cached => target' = None
      BY <1>1 DEF F!Enter, F!IsPage, RefreshesItem
    <2> QED
      BY <2>1, <2>2 DEF F!OwnInv, ItemsApart
  <1>2. CASE F!Answer
    <2>1. UNCHANGED <<form, saved, told, floor>> /\ listed' = saved
      BY <1>2 DEF F!Answer, F!serverVars
    <2>2. form.edits /\ ~form.elsewhere /\ ~form.cached => UNCHANGED <<inputs, target>>
      BY <1>2 DEF F!Answer, RefreshesItem
    <2> QED
      BY <2>1, <2>2 DEF F!OwnInv
  <1>3. CASE F!Refetch
    BY <1>3 DEF F!Refetch, F!OwnInv, F!serverVars, F!pageVars, F!openVars
  <1>4. CASE F!Leave
    BY <1>4 DEF F!Leave, F!Gone, F!OwnInv, ItemsApart, F!serverVars
  <1>5. CASE F!Foreign
    <2>1. PICK i \in Items : saved' = [saved EXCEPT ![i] = @ + 1]
      BY <1>5 DEF F!Foreign
    <2>2. \A j \in Items : told[j] \in Nat /\ saved[j] \in Nat /\ saved'[j] >= saved[j]
      BY <2>1 DEF F!TypeOK
    <2>3. \A j \in Items : told[j] <= saved'[j]
      BY <2>1, <2>2 DEF F!OwnInv, F!TypeOK
    <2> QED
      BY <1>5, <2>3 DEF F!Foreign, F!OwnInv, F!pageVars, F!openVars
  <1>6. CASE F!Open
    <2>1. UNCHANGED <<form, saved, told, listed, fetching, page>> /\ page
      BY <1>6 DEF F!Open, F!serverVars, F!pageVars
    <2>2. ASSUME form.edits, ~form.elsewhere, ~form.cached, target' \in Items
          PROVE  floor' <= inputs'.at
      <3>1. inputs' = F!From(target', listed[target']) /\ floor' = F!Floor(target')
        BY <1>6, <2>2, Opened DEF RefreshesItem, F!InputsFor
      <3>2. listed[target'] \in Nat /\ told[target'] \in Nat
        BY <2>2 DEF F!TypeOK
      <3>3. inputs'.at = listed[target']
        BY <2>2, <3>1, <3>2, InputsFrom
      <3>4. floor' <= listed[target']
        <4>1. CASE fetching
          BY <3>1, <3>2, <4>1 DEF F!Floor
        <4>2. CASE ~fetching
          BY <2>1, <2>2, <3>1, <4>2 DEF F!Floor, F!OwnInv
        <4> QED
          BY <4>1, <4>2
      <3> QED
        BY <3>3, <3>4
    <2> QED
      BY <2>1, <2>2 DEF F!OwnInv
  <1>7. CASE F!Type
    BY <1>7, Typed DEF F!Type, F!OwnInv, F!serverVars, F!pageVars, F!openVars
  <1>8. CASE F!Dismiss
    BY <1>8 DEF F!Dismiss, F!OwnInv, ItemsApart, F!serverVars, F!pageVars
  <1>9. CASE F!Submit
    BY <1>9 DEF F!Submit, F!OwnInv, ItemsApart, F!serverVars, F!pageVars
  <1>10. CASE F!Succeed
    BY <1>10, OwnSucceed
  <1>11. CASE F!Fail
    BY <1>11 DEF F!Fail, F!OwnInv, F!serverVars, F!pageVars, F!openVars
  <1>12. CASE UNCHANGED F!vars
    BY <1>12 DEF F!vars, F!OwnInv
  <1> QED
    BY <1>1, <1>2, <1>3, <1>4, <1>5, <1>6, <1>7, <1>8, <1>9, <1>10, <1>11, <1>12 DEF F!Next

\* If the success of its save also refreshes the list that it is seeded from,
\* a form that edits an item again starts from values that contain what its
\* user was told to have saved, unless that answer is still awaited.
THEOREM StartsFromOwnHolds ==
    ASSUME \A f \in FormSubjects : StartsFromItem(f) /\ RefreshesItem(f)
    PROVE  F!Spec => []StartsFromOwn
  <1>1. F!Init => F!OwnInv
    BY ItemsAssumption DEF F!Init, F!OwnInv, ItemsApart
  <1>2. F!TypeOK /\ F!OwnInv /\ [F!Next]_(F!vars) => F!OwnInv'
    <2>1. F!TypeOK => StartsFromItem(form) /\ RefreshesItem(form)
      BY DEF F!TypeOK
    <2> QED
      BY <2>1, OwnStep, ItemsAssumption
  <1>3. F!TypeOK /\ F!OwnInv => StartsFromOwn
    BY DEF F!OwnInv, StartsFromOwn, F!TypeOK
  <1>4. F!Spec => []F!TypeOK
    BY FormTypeCorrect
  <1> QED
    BY <1>1, <1>2, <1>3, <1>4, PTL DEF F!Spec

-----------------------------------------------------------------------------
(* Nothing is left over from another item.                                   *)

\* How a form is described does not change.
LEMMA SameForm ==
    ASSUME [F!Next]_(F!vars) PROVE form' = form
  BY DEF F!Next, F!vars, F!Enter, F!Answer, F!Refetch, F!Leave, F!Foreign, F!Open, F!Type,
         F!Dismiss, F!Submit, F!Succeed, F!Fail

\* What is typed is not changed by an end, and is not marked as sent but by a
\* success that neither clears it nor leaves the form open.
LEMMA LeftTyped ==
    ASSUME inputs \in InputValues, NEW end
    PROVE  /\ F!InputsAfter(end).typed \in {None, inputs.typed}
           /\ end # "success" \/ form.closes = "never" \/ end \in form.clears =>
                (F!InputsAfter(end).sent => inputs.sent)
  <1>1. CASE end \in form.clears \/ (form.seeds = "key" /\ target \in Items)
    BY <1>1, BlankInputs DEF F!InputsAfter
  <1>2. CASE ~(end \in form.clears \/ (form.seeds = "key" /\ target \in Items))
    BY <1>2, InputsKept
  <1> QED
    BY <1>1, <1>2

\* The ways in which such a form is described, one by one.
LEMMA PageLeftovers ==
    ASSUME ItemsApart, F!TypeOK, F!LeftoversInv, [F!Next]_(F!vars),
           form.seeds = "page", form.closes \in {"answer", "never"}
    PROVE  F!LeftoversInv'
  <1> USE DEF ItemsApart
  <1>0. form' = form
    BY SameForm
  <1> SUFFICES ASSUME ~form.keeps, target' # None
               PROVE  inputs'.typed \in {None, target'} /\ (target' = New => ~inputs'.sent)
    BY <1>0 DEF F!LeftoversInv
  <1>1. target # None => inputs.typed \in {None, target} /\ (target = New => ~inputs.sent)
    BY DEF F!LeftoversInv
  <1>2. CASE UNCHANGED <<target, inputs>>
    BY <1>1, <1>2
  <1>3. CASE F!Enter
    <2>1. CASE F!Seeded(item')
      <3>1. PICK i \in Items : item' = i
        BY <2>1 DEF F!Seeded
      <3>2. inputs' = F!From(i, listed[i]) /\ listed[i] \in Nat
        BY <1>3, <2>1, <3>1 DEF F!Enter, F!TypeOK
      <3> QED
        BY <3>2, InputsFrom
    <2>2. CASE ~F!Seeded(item')
      BY <1>3, <2>2, BlankInputs DEF F!Enter
    <2> QED
      BY <2>1, <2>2
  <1>4. CASE F!Answer
    <2>1. CASE item \in Items /\ inputs' = F!From(item, saved[item])
      <3>1. saved[item] \in Nat
        BY <2>1 DEF F!TypeOK
      <3> QED
        BY <2>1, <3>1, InputsFrom
    <2> QED
      BY <1>2, <1>4, <2>1 DEF F!Answer
  <1>5. CASE F!Leave
    BY <1>5 DEF F!Leave, F!Gone
  <1>6. CASE F!Type
    BY <1>6, Typed DEF F!Type, F!openVars
  <1>7. CASE F!Submit
    BY <1>2, <1>7 DEF F!Submit
  <1>8. CASE F!Succeed
    <2>1. CASE /\ target' = IF form.closes = "answer" THEN None ELSE target
               /\ inputs' = F!InputsAfter("success")
      <3>1. target' = target /\ form.closes = "never"
        BY <2>1
      <3>2. inputs'.typed \in {None, inputs.typed} /\ (inputs'.sent => inputs.sent)
        BY <2>1, <3>1, LeftTyped DEF F!TypeOK, InputValues
      <3> QED
        BY <1>1, <3>1, <3>2
    <2> QED
      BY <1>2, <1>8, <2>1, Saved
  <1> QED
    BY <1>2, <1>3, <1>4, <1>5, <1>6, <1>7, <1>8
       DEF F!Next, F!Refetch, F!Foreign, F!Open, F!Dismiss, F!Fail, F!vars, F!openVars, F!IsPage

LEMMA OpeningLeftovers ==
    ASSUME ItemsApart, F!TypeOK, F!LeftoversInv, [F!Next]_(F!vars),
           form.seeds = "opening", form.closes \in {"answer", "never"} \/ "new" \notin form.about
    PROVE  F!LeftoversInv'
  <1> USE DEF ItemsApart
  <1>0. form' = form
    BY SameForm
  <1> SUFFICES ASSUME ~form.keeps, target' # None
               PROVE  /\ inputs'.typed \in {None, target'} /\ (target' = New => ~inputs'.sent)
                      /\ target' = New => "new" \in form.about
    BY <1>0 DEF F!LeftoversInv
  <1>1. target # None => /\ inputs.typed \in {None, target} /\ (target = New => ~inputs.sent)
                         /\ target = New => "new" \in form.about
    BY DEF F!LeftoversInv
  <1>2. CASE UNCHANGED <<target, inputs>>
    BY <1>1, <1>2
  <1>3. CASE F!Enter
    BY <1>3 DEF F!Enter, F!IsPage
  <1>4. CASE F!Answer
    BY <1>2, <1>4 DEF F!Answer
  <1>5. CASE F!Leave
    BY <1>5 DEF F!Leave, F!Gone
  <1>6. CASE F!Open
    <2>1. F!Openable(target') /\ inputs' = F!InputsFor(target')
      BY <1>6, Opened
    <2>2. target' = New => "new" \in form.about
      BY <2>1 DEF F!Openable
    <2>3. inputs'.typed = None /\ inputs'.sent = FALSE
      <3>1. CASE inputs' = F!Blank
        BY <3>1, BlankInputs
      <3>2. ASSUME NEW i \in Items, inputs' = F!From(i, listed[i])
            PROVE  inputs'.typed = None /\ inputs'.sent = FALSE
        <4>1. listed[i] \in Nat
          BY DEF F!TypeOK
        <4> QED
          BY <3>2, <4>1, InputsFrom
      <3> QED
        BY <2>1, <3>1, <3>2 DEF F!InputsFor
    <2> QED
      BY <2>2, <2>3
  <1>7. CASE F!Type
    BY <1>1, <1>7, Typed DEF F!Type, F!openVars
  <1>8. CASE F!Submit
    BY <1>2, <1>8 DEF F!Submit
  <1>9. CASE F!Succeed
    <2>1. CASE /\ target' = IF form.closes = "answer" THEN None ELSE target
               /\ inputs' = F!InputsAfter("success")
      <3>1. target' = target /\ form.closes # "answer"
        BY <2>1
      <3>2. /\ inputs'.typed \in {None, inputs.typed}
            /\ form.closes = "never" => (inputs'.sent => inputs.sent)
        BY <2>1, LeftTyped DEF F!TypeOK, InputValues
      <3> QED
        BY <1>1, <3>1, <3>2
    <2> QED
      BY <1>2, <1>9, <2>1, Saved
  <1> QED
    BY <1>2, <1>3, <1>4, <1>5, <1>6, <1>7, <1>8, <1>9
       DEF F!Next, F!Refetch, F!Foreign, F!Dismiss, F!Fail, F!vars, F!openVars

LEMMA ItemLeftovers ==
    ASSUME ItemsApart, F!TypeOK, F!LeftoversInv, [F!Next]_(F!vars),
           form.seeds \in {"mount", "first"}, form.about = {"item"}
    PROVE  F!LeftoversInv'
  <1> USE DEF ItemsApart
  <1>0. form' = form
    BY SameForm
  <1>1. item' \in Items \union {None}
    BY FormNext DEF F!TypeOK
  <1> SUFFICES ASSUME ~form.keeps
               PROVE  target' \in {None, item'} /\ inputs'.typed \in {None, item'}
    BY <1>0, <1>1 DEF F!LeftoversInv
  <1>2. target \in {None, item} /\ inputs.typed \in {None, item}
    BY DEF F!LeftoversInv
  <1>3. CASE UNCHANGED <<item, target, inputs>>
    BY <1>2, <1>3
  <1>4. CASE F!Enter
    <2>1. target' = None
      BY <1>4 DEF F!Enter, F!IsPage
    <2>2. inputs'.typed = None
      <3>1. CASE F!Seeded(item')
        <4>1. PICK i \in Items : item' = i
          BY <3>1 DEF F!Seeded
        <4>2. inputs' = F!From(i, listed[i]) /\ listed[i] \in Nat
          BY <1>4, <3>1, <4>1 DEF F!Enter, F!TypeOK
        <4> QED
          BY <4>2, InputsFrom
      <3>2. CASE ~F!Seeded(item')
        BY <1>4, <3>2, BlankInputs DEF F!Enter
      <3> QED
        BY <3>1, <3>2
    <2> QED
      BY <2>1, <2>2
  <1>5. CASE F!Answer
    <2>1. target' = target /\ item' = item
      BY <1>5 DEF F!Answer, F!IsPage, F!pageVars
    <2>2. CASE item \in Items /\ inputs' = F!From(item, saved[item])
      <3>1. saved[item] \in Nat
        BY <2>2 DEF F!TypeOK
      <3> QED
        BY <1>2, <2>1, <2>2, <3>1, InputsFrom
    <2> QED
      BY <1>3, <1>5, <2>1, <2>2 DEF F!Answer
  <1>6. CASE F!Leave
    BY <1>6, BlankInputs DEF F!Leave, F!Gone
  <1>7. CASE F!Open
    <2>1. F!Openable(target') /\ item' = item
      BY <1>7, Opened DEF F!Open, F!pageVars
    <2>2. target' = item
      BY <2>1 DEF F!Openable
    <2>3. inputs' = inputs
      BY <1>7, Opened DEF F!InputsFor
    <2> QED
      BY <1>2, <2>1, <2>2, <2>3
  <1>8. CASE F!Type
    BY <1>2, <1>8, Typed DEF F!Type, F!openVars, F!pageVars
  <1>9. CASE F!Dismiss
    <2>1. PICK end : inputs' = F!InputsAfter(end)
      BY <1>9 DEF F!Dismiss
    <2>2. inputs'.typed \in {None, inputs.typed}
      BY <2>1, LeftTyped DEF F!TypeOK, InputValues
    <2> QED
      BY <1>2, <1>9, <2>2 DEF F!Dismiss, F!pageVars
  <1>10. CASE F!Submit
    <2>1. F!InputsAfter("click").typed \in {None, inputs.typed}
      BY LeftTyped DEF F!TypeOK, InputValues
    <2> QED
      BY <1>2, <1>10, <2>1 DEF F!Submit, F!pageVars
  <1>11. CASE F!Succeed
    <2>1. F!InputsAfter("success").typed \in {None, inputs.typed}
      BY LeftTyped DEF F!TypeOK, InputValues
    <2> QED
      BY <1>2, <1>11, <2>1, Saved, BlankInputs
  <1> QED
    BY <1>3, <1>4, <1>5, <1>6, <1>7, <1>8, <1>9, <1>10, <1>11
       DEF F!Next, F!Refetch, F!Foreign, F!Fail, F!vars, F!openVars, F!pageVars

LEMMA NewLeftovers ==
    ASSUME ItemsApart, F!TypeOK, F!LeftoversInv, [F!Next]_(F!vars),
           form.seeds = "mount", form.about = {"new"},
           form.closes = "never" \/ "success" \in form.clears
    PROVE  F!LeftoversInv'
  <1> USE DEF ItemsApart
  <1>0. form' = form
    BY SameForm
  <1> SUFFICES ASSUME ~form.keeps
               PROVE  /\ target' \in {None, New} /\ inputs'.typed \in {None, New}
                      /\ ~inputs'.sent
    BY <1>0 DEF F!LeftoversInv
  <1>1. target \in {None, New} /\ inputs.typed \in {None, New} /\ ~inputs.sent
    BY DEF F!LeftoversInv
  <1>2. CASE UNCHANGED <<target, inputs>>
    BY <1>1, <1>2
  <1>3. CASE F!Enter
    BY <1>3, BlankInputs DEF F!Enter, F!IsPage, F!Seeded
  <1>4. CASE F!Answer
    BY <1>2, <1>4 DEF F!Answer
  <1>5. CASE F!Leave
    BY <1>5, BlankInputs DEF F!Leave, F!Gone
  <1>6. CASE F!Open
    <2>1. F!Openable(target')
      BY <1>6, Opened
    <2>2. target' = New
      BY <2>1 DEF F!Openable, F!OfItem
    <2>3. inputs' = inputs
      BY <1>6, Opened DEF F!InputsFor
    <2> QED
      BY <1>1, <2>2, <2>3
  <1>7. CASE F!Type
    BY <1>1, <1>7, Typed DEF F!Type, F!openVars
  <1>8. CASE F!Dismiss
    <2>1. PICK end \in {"escape", "cancel"} : inputs' = F!InputsAfter(end)
      BY <1>8 DEF F!Dismiss
    <2>2. inputs'.typed \in {None, inputs.typed} /\ (inputs'.sent => inputs.sent)
      BY <2>1, LeftTyped DEF F!TypeOK, InputValues
    <2> QED
      BY <1>1, <1>8, <2>2 DEF F!Dismiss
  <1>9. CASE F!Submit
    <2>1. /\ F!InputsAfter("click").typed \in {None, inputs.typed}
          /\ F!InputsAfter("click").sent => inputs.sent
      BY LeftTyped DEF F!TypeOK, InputValues
    <2> QED
      BY <1>1, <1>9, <2>1 DEF F!Submit
  <1>10. CASE F!Succeed
    <2>1. /\ F!InputsAfter("success").typed \in {None, inputs.typed}
          /\ F!InputsAfter("success").sent => inputs.sent
      BY LeftTyped DEF F!TypeOK, InputValues
    <2> QED
      BY <1>1, <1>10, <2>1, Saved, BlankInputs
  <1> QED
    BY <1>2, <1>3, <1>4, <1>5, <1>6, <1>7, <1>8, <1>9, <1>10
       DEF F!Next, F!Refetch, F!Foreign, F!Fail, F!vars, F!openVars

LEMMA LeftoversStep ==
    ASSUME ItemsApart, F!TypeOK, F!LeftoversInv, [F!Next]_(F!vars),
           ~form.keeps => StartsAfresh(form)
    PROVE  F!LeftoversInv'
  <1>1. CASE form.keeps
    BY <1>1, SameForm DEF F!LeftoversInv
  <1>2. CASE StartsAfresh(form)
    BY <1>2, PageLeftovers, OpeningLeftovers, ItemLeftovers, NewLeftovers DEF StartsAfresh
  <1> QED
    BY <1>1, <1>2

\* A form that starts afresh at each opening, or that there is but one thing to
\* open for, shows nothing that was typed for another item and offers nothing
\* that has been created once more, however its openings, the answers and the
\* submissions that outlive them are interleaved.
THEOREM NoLeftoversHolds ==
    ASSUME \A f \in FormSubjects : ~f.keeps => StartsAfresh(f)
    PROVE  F!Spec => []NoLeftovers
  <1>1. F!Init => F!LeftoversInv
    BY BlankInputs, ItemsAssumption DEF F!Init, F!LeftoversInv, ItemsApart
  <1>2. F!TypeOK /\ F!LeftoversInv /\ [F!Next]_(F!vars) => F!LeftoversInv'
    <2>1. F!TypeOK => (~form.keeps => StartsAfresh(form))
      BY DEF F!TypeOK
    <2> QED
      BY <2>1, LeftoversStep, ItemsAssumption
  <1>3. F!LeftoversInv => NoLeftovers
    BY DEF F!LeftoversInv, NoLeftovers
  <1>4. F!Spec => []F!TypeOK
    BY FormTypeCorrect
  <1> QED
    BY <1>1, <1>2, <1>3, <1>4, PTL DEF F!Spec

=============================================================================
