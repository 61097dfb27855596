---------------------------- MODULE WalletsProofs ----------------------------
(***************************************************************************)
(* For every number of API processes, every set of wallets and rates, every *)
(* amount and bound: Wallets is type correct and no wallet at a rate of one *)
(* is overdrawn; and while operations do not overlap, what was settled was *)
(* taken, bills keep to the priority and the books are balanced.           *)
(***************************************************************************)
EXTENDS Wallets, TLAPS, WellFoundedInduction

-----------------------------------------------------------------------------
(* Operators *)

\* The first of some wallets is one of them: numbers are well ordered.
LEMMA FirstInSet ==
    ASSUME NEW S \in SUBSET Wallets, S # {}
    PROVE  First(S) \in S /\ \A v \in S : First(S) <= v
  <1>1. S \subseteq Nat
    BY ConstantsAssumption
  <1>2. PICK w \in S : \A v \in S : ~(v < w)
    <2>1. PICK w \in S : \A v \in S : <<v, w>> \notin OpToRel(<, Nat)
      BY <1>1, NatLessThanWellFounded, WFMin, Zenon
    <2> QED
      BY <1>1, <2>1, Zenon DEF OpToRel
  <1>3. \A v \in S : w <= v
    BY <1>1, <1>2
  <1> QED
    BY <1>3 DEF First

\* A column stores an integer, and a whole number of credits as it is.
LEMMA RoundedInt ==
    ASSUME NEW n \in Int, NEW r \in Nat \ {0}
    PROVE  Rounded(n, r) \in Int /\ (r = 1 => Rounded(n, r) = n)
  <1>1. (2 * n + r) \div (2 * r) \in Int /\ (r - 2 * n) \div (2 * r) \in Int
    OBVIOUS
  <1>2. r = 1 => /\ (2 * n + r) \div (2 * r) = n
                 /\ n < 0 => (r - 2 * n) \div (2 * r) = -n
    OBVIOUS
  <1> QED
    BY <1>1, <1>2 DEF Rounded

\* Cents of whole credits are whole.
LEMMA CentsInt ==
    ASSUME NEW b \in Int, NEW n \in Nat, NEW r \in Nat
    PROVE  n * r \in Nat /\ b * r \in Int
  OBVIOUS

\* What a top-up makes of a level balance is a level balance.
LEMMA AddedOK ==
    ASSUME NEW w \in Wallets, NEW b \in Balance, NEW c \in Nat, Level(b, w)
    PROVE  Added(b, c, Rate[w]) \in Balance /\ Level(Added(b, c, Rate[w]), w)
  <1> DEFINE r == Rate[w]
  <1>1. r \in Nat \ {0} /\ c * r \in Nat /\ (r = 1 => c * r = c)
    BY ConstantsAssumption, CentsInt
  <1>2. b.credits \in Int /\ b.cents \in Int /\ b.used \in Int
    BY DEF Balance
  <1>3. Added(b, c, r) = [credits |-> b.credits + c,
                          cents |-> b.cents + c * r, used |-> b.used]
    BY DEF Added
  <1> QED
    BY <1>1, <1>2, <1>3 DEF Level, Balance

\* So is what a deduction leaves of it, when it covers the deduction.
LEMMA DeductedOK ==
    ASSUME NEW w \in Wallets, NEW b \in Balance, NEW paid \in Nat,
           Level(b, w), Rate[w] = 1 => paid <= b.cents
    PROVE  /\ Deducted(b, paid, Rate[w]) \in Balance
           /\ Level(Deducted(b, paid, Rate[w]), w)
  <1> DEFINE r == Rate[w]
             n == b.credits * r - paid
  <1>1. /\ b.credits \in Int /\ b.cents \in Int /\ b.used \in Int
        /\ r \in Nat \ {0}
    BY ConstantsAssumption DEF Balance
  <1>2. n \in Int /\ (r = 1 => n = b.credits - paid)
    BY <1>1, CentsInt
  <1>3. Rounded(n, r) \in Int /\ (r = 1 => Rounded(n, r) = n)
    BY <1>1, <1>2, RoundedInt
  <1>4. Deducted(b, paid, r) = [credits |-> Rounded(n, r),
                                cents |-> b.cents - paid, used |-> b.used + paid]
    BY DEF Deducted
  <1> HIDE DEF n
  <1> QED
    BY <1>1, <1>2, <1>3, <1>4 DEF Level, Balance

\* The process that does nothing is one, and knows nothing.
LEMMA IdleOK == Idle \in Process /\ Idle.pc = "idle" /\ Covered(Idle)
  <1>1. (CHOOSE w \in Wallets : TRUE) \in Wallets
    BY ConstantsAssumption
  <1> QED
    BY <1>1 DEF Idle, Process, Steps, Nothing, Balance, Covered

\* What a process reads of a row is a level balance.
LEMMA ReadOK ==
    ASSUME TypeOK, NeverOverdrawn, NEW w \in Wallets
    PROVE  /\ BalanceOf(w) \in Balance /\ Level(BalanceOf(w), w)
           /\ BalanceOf(w).cents = wallet[w].cents
           /\ BalanceOf(w).credits = wallet[w].credits
  BY DEF TypeOK, NeverOverdrawn, BalanceOf, Balance, Row, Level

\* The next wallet of a bill has something to give, and the bill something to
\* ask.
LEMMA NextWalletOK ==
    ASSUME TypeOK, NeverOverdrawn,
           NEW todo \in SUBSET Wallets, NEW left \in Nat
    PROVE  NextWallet(todo, left) \in Process /\ Covered(NextWallet(todo, left))
  <1> DEFINE rich == {w \in todo : wallet[w].cents > 0}
             w == First(rich)
  <1>1. CASE left = 0 \/ rich = {}
    BY <1>1, IdleOK DEF NextWallet
  <1>2. CASE left # 0 /\ rich # {}
    <2>1. w \in rich
      BY <1>2, FirstInSet
    <2>2. /\ w \in Wallets /\ BalanceOf(w) \in Balance /\ Level(BalanceOf(w), w)
          /\ BalanceOf(w).cents > 0 /\ left > 0
      BY <1>2, <2>1, ReadOK
    <2>3. PICK v \in Wallets : v = w
      BY <2>2
    <2>4. PICK later \in SUBSET Wallets : later = {x \in todo : x > v}
      OBVIOUS
    <2> DEFINE r == [Idle EXCEPT !.pc = "deduct", !.w = v, !.left = left,
                                 !.todo = later, !.snap = BalanceOf(v)]
    <2>5. NextWallet(todo, left) = r
      BY <1>2, <2>3, <2>4, Zenon DEF NextWallet
    <2> HIDE DEF w, rich
    <2>6. /\ r \in Process /\ r.pc = "deduct" /\ r.w = v /\ r.left = left
          /\ r.snap = BalanceOf(v)
      BY <2>2, <2>3, <2>4, IdleOK DEF Process, Steps, Idle
    <2> HIDE DEF r
    <2>7. Covered(r)
      BY <2>2, <2>3, <2>6 DEF Covered
    <2> QED
      BY <2>5, <2>6, <2>7
  <1> QED
    BY <1>1, <1>2

-----------------------------------------------------------------------------
(* Parts of a step *)

\* A process goes on; what the others know does not depend on the rows.
LEMMA GotoOK ==
    ASSUME IInv, NEW s \in Servers, NEW r \in Process, Covered(r), Goto(s, r)
    PROVE  proc' \in [Servers -> Process] /\ \A t \in Servers : Covered(proc'[t])
  <1>1. proc \in [Servers -> Process] /\ \A t \in Servers : Covered(proc[t])
    BY DEF IInv, TypeOK
  <1>2. proc' \in [Servers -> Process]
    BY <1>1 DEF Goto
  <1>3. \A t \in Servers : proc'[t] = IF t = s THEN r ELSE proc[t]
    BY <1>1 DEF Goto
  <1> QED
    BY <1>1, <1>2, <1>3

\* The same with an operation that begins, which also counts.
LEMMA BeginOK ==
    ASSUME IInv, NEW s \in Servers, NEW r \in Process, Covered(r), Begin(s, r)
    PROVE  /\ proc' \in [Servers -> Process]
           /\ \A t \in Servers : Covered(proc'[t])
           /\ overlap' \in BOOLEAN /\ calls' \in 0..MaxCalls
  <1>1. Goto(s, r)
    BY DEF Begin, Goto
  <1>2. calls' \in 0..MaxCalls
    BY ConstantsAssumption DEF IInv, TypeOK, Begin
  <1>3. overlap' \in BOOLEAN
    BY Zenon DEF IInv, TypeOK, Begin
  <1> QED
    BY <1>1, <1>2, <1>3, GotoOK

\* Writing a level balance leaves every wallet level.
LEMMA SetBalanceOK ==
    ASSUME IInv, NEW w \in Wallets, NEW b \in Balance, Level(b, w),
           SetBalance(w, b)
    PROVE  wallet' \in [Wallets -> Row] /\ NeverOverdrawn'
  <1>1. wallet \in [Wallets -> Row] /\ NeverOverdrawn
    BY DEF IInv, TypeOK
  <1>2. b.credits \in Int /\ b.cents \in Int /\ b.used \in Int
    BY DEF Balance
  <1>3. wallet' \in [Wallets -> Row]
    BY <1>1, <1>2 DEF SetBalance, Row
  <1>4. ASSUME NEW v \in Wallets PROVE Level(wallet'[v], v)
    BY <1>1, <1>2 DEF SetBalance, Row, NeverOverdrawn, Level
  <1> QED
    BY <1>3, <1>4 DEF NeverOverdrawn, Level

\* So does changing a status alone.
LEMMA StatusOK ==
    ASSUME IInv, NEW w \in Wallets, NEW st \in {"active", "terminated"},
           wallet' = [wallet EXCEPT ![w].st = st]
    PROVE  wallet' \in [Wallets -> Row] /\ NeverOverdrawn'
  <1>1. wallet \in [Wallets -> Row] /\ NeverOverdrawn
    BY DEF IInv, TypeOK
  <1>2. wallet' \in [Wallets -> Row]
    BY <1>1 DEF Row
  <1>3. ASSUME NEW v \in Wallets PROVE Level(wallet'[v], v)
    BY <1>1 DEF Row, NeverOverdrawn, Level
  <1> QED
    BY <1>2, <1>3 DEF NeverOverdrawn, Level

\* The fields of a process in some step.
LEMMA ProcessType ==
    ASSUME IInv, NEW s \in Servers
    PROVE  /\ proc[s] \in Process /\ Covered(proc[s])
           /\ proc[s].w \in Wallets /\ proc[s].to \in Wallets
           /\ proc[s].amt \in Nat /\ proc[s].left \in Nat
           /\ proc[s].todo \in SUBSET Wallets /\ proc[s].snap \in Balance
           /\ Rate[proc[s].w] \in Nat /\ Rate[proc[s].to] \in Nat
  BY ConstantsAssumption DEF IInv, TypeOK, Process

\* Nothing else of the invariant depends on the state.
LEMMA Assembled ==
    ASSUME wallet' \in [Wallets -> Row] /\ NeverOverdrawn',
           proc' \in [Servers -> Process] /\ \A t \in Servers : Covered(proc'[t]),
           ledger' \in [Wallets -> Totals], expired' \subseteq Wallets,
           overlap' \in BOOLEAN,
           calls' \in 0..MaxCalls, crashes' \in 0..MaxCrashes
    PROVE  IInv'
  BY DEF IInv, TypeOK

-----------------------------------------------------------------------------
(* The invariant *)

\* Initially nothing is owned and nobody does anything.
LEMMA InitOK == ASSUME Init PROVE IInv
  <1>1. TypeOK
    <2>1. wallet \in [Wallets -> Row] /\ ledger \in [Wallets -> Totals]
      BY DEF Init, Row, Totals
    <2>2. proc \in [Servers -> Process] /\ expired \subseteq Wallets
      BY IdleOK DEF Init
    <2>3. calls \in 0..MaxCalls /\ crashes \in 0..MaxCrashes
      BY ConstantsAssumption DEF Init
    <2>4. overlap \in BOOLEAN
      BY Zenon DEF Init
    <2> QED
      BY <2>1, <2>2, <2>3, <2>4 DEF TypeOK
  <1>2. NeverOverdrawn
    BY DEF Init, NeverOverdrawn, Level
  <1>3. \A s \in Servers : Covered(proc[s])
    BY IdleOK DEF Init
  <1> QED
    BY <1>1, <1>2, <1>3 DEF IInv

\* An operation that begins.
LEMMA ArriveOK ==
    ASSUME IInv, NEW s \in Servers, Arrive(s)
    PROVE  IInv'
  <1>0. /\ wallet \in [Wallets -> Row] /\ NeverOverdrawn /\ TypeOK
        /\ ledger \in [Wallets -> Totals] /\ expired \subseteq Wallets
        /\ crashes \in 0..MaxCrashes
        /\ Credits \subseteq Nat /\ Bills \subseteq Nat
    BY ConstantsAssumption DEF IInv, TypeOK
  <1>1. ASSUME NEW w \in Wallets, NEW c \in Credits \cup {0}, Create(s, w, c)
        PROVE  IInv'
    <2> DEFINE r == IF c > 0 THEN [Idle EXCEPT !.pc = "inbound", !.w = w, !.amt = c]
                             ELSE Idle
    <2>1. r \in Process /\ Covered(r)
      BY <1>0, IdleOK DEF Process, Steps, Idle, Covered
    <2>2. Begin(s, r)
      BY <1>1, Zenon DEF Create
    <2> HIDE DEF r
    <2> QED
      BY <1>0, <1>1, <2>1, <2>2, BeginOK, StatusOK, Assembled DEF Create
  <1>2. ASSUME NEW w \in Wallets, NEW c \in Credits, TopUp(s, w, c)
        PROVE  IInv'
    <2> DEFINE r == [Idle EXCEPT !.pc = "inbound", !.w = w, !.amt = c]
    <2>1. r \in Process /\ Covered(r)
      BY <1>0, IdleOK DEF Process, Steps, Idle, Covered
    <2>2. Begin(s, r)
      BY <1>2, Zenon DEF TopUp
    <2> HIDE DEF r
    <2> QED
      BY <1>0, <1>2, <2>1, <2>2, BeginOK, Assembled DEF TopUp, NeverOverdrawn
  <1>3. ASSUME NEW w \in Wallets, NEW v \in Wallets, NEW c \in Credits,
               Transfer(s, w, v, c)
        PROVE  IInv'
    <2> DEFINE r == [Idle EXCEPT !.pc = "take", !.w = w, !.to = v, !.amt = c,
                                 !.snap = BalanceOf(w)]
    <2>1. /\ BalanceOf(w) \in Balance /\ Level(BalanceOf(w), w)
          /\ BalanceOf(w).credits >= c
      BY <1>0, <1>3, ReadOK DEF Transfer, Sufficient
    <2>2. /\ r \in Process /\ r.pc = "take" /\ r.w = w /\ r.amt = c
          /\ r.snap = BalanceOf(w)
      BY <1>0, <2>1, IdleOK DEF Process, Steps, Idle
    <2>3. Begin(s, r)
      BY <1>3, Zenon DEF Transfer
    <2> HIDE DEF r
    <2>4. Covered(r)
      BY <2>1, <2>2 DEF Covered
    <2> QED
      BY <1>0, <1>3, <2>2, <2>3, <2>4, BeginOK, Assembled
         DEF Transfer, NeverOverdrawn
  <1>4. ASSUME NEW w \in Wallets, Terminate(s, w)
        PROVE  IInv'
    BY <1>0, <1>4, IdleOK, BeginOK, StatusOK, Assembled DEF Terminate
  <1>5. ASSUME NEW bill \in Bills, Consume(s, bill)
        PROVE  IInv'
    <2> DEFINE usable == {w \in Wallets : Usable(w)}
    <2>1. /\ NextWallet(usable, bill) \in Process
          /\ Covered(NextWallet(usable, bill))
      BY <1>0, NextWalletOK
    <2>2. Begin(s, NextWallet(usable, bill))
      BY <1>5, Zenon DEF Consume
    <2> HIDE DEF usable
    <2> QED
      BY <1>0, <1>5, <2>1, <2>2, BeginOK, Assembled DEF Consume, NeverOverdrawn
  <1> QED
    BY <1>1, <1>2, <1>3, <1>4, <1>5 DEF Arrive

\* An operation that goes on: one commit of it.
LEMMA ContinueOK ==
    ASSUME IInv, NEW s \in Servers, Continue(s)
    PROVE  IInv'
  <1> DEFINE r == proc[s]
  <1>0. /\ wallet \in [Wallets -> Row] /\ NeverOverdrawn /\ TypeOK
        /\ ledger \in [Wallets -> Totals] /\ expired \subseteq Wallets
        /\ overlap \in BOOLEAN
        /\ calls \in 0..MaxCalls /\ crashes \in 0..MaxCrashes
    BY DEF IInv, TypeOK
  <1>a. /\ r \in Process /\ Covered(r) /\ r.w \in Wallets /\ r.to \in Wallets
        /\ r.amt \in Nat /\ r.left \in Nat /\ r.todo \in SUBSET Wallets
        /\ r.snap \in Balance
    BY ProcessType
  <1>b. /\ r.amt * Rate[r.w] \in Nat /\ r.amt * Rate[r.to] \in Nat
        /\ Rate[r.w] = 1 => r.amt * Rate[r.w] = r.amt
    BY <1>a, ProcessType, CentsInt
  <1> HIDE DEF r
  <1>1. CASE Inbound(s)
    <2> DEFINE q == [r EXCEPT !.pc = "add", !.snap = BalanceOf(r.w)]
    <2>1. ledger' \in [Wallets -> Totals]
      BY <1>0, <1>1, <1>a, <1>b DEF Inbound, Totals, r
    <2>2. BalanceOf(r.w) \in Balance /\ Level(BalanceOf(r.w), r.w)
      BY <1>0, <1>a, ReadOK
    <2>3. q \in Process /\ q.pc = "add" /\ q.snap = BalanceOf(r.w) /\ q.w = r.w
      BY <1>a, <2>2 DEF Process, Steps
    <2>4. Goto(s, q)
      BY <1>1, Zenon DEF Inbound, r
    <2> HIDE DEF q
    <2>5. Covered(q)
      BY <2>2, <2>3 DEF Covered
    <2> QED
      BY <1>0, <1>1, <2>1, <2>3, <2>4, <2>5, GotoOK, Assembled
         DEF Inbound, history, NeverOverdrawn
  <1>2. CASE Add(s)
    <2> DEFINE b == Added(r.snap, r.amt, Rate[r.w])
    <2>1. Level(r.snap, r.w)
      BY <1>2, <1>a DEF Add, At, Covered, r
    <2>2. b \in Balance /\ Level(b, r.w)
      BY <1>a, <2>1, AddedOK
    <2>3. SetBalance(r.w, b) /\ Goto(s, Idle)
      BY <1>2, Zenon DEF Add, r
    <2> HIDE DEF b
    <2> QED
      BY <1>0, <1>2, <1>a, <2>2, <2>3, SetBalanceOK, IdleOK, GotoOK, Assembled
         DEF Add, history
  <1>3. CASE Deduct(s)
    <2> DEFINE paid == Consumable(r.snap, r.left)
               b == Deducted(r.snap, paid, Rate[r.w])
               q == [r EXCEPT !.pc = "outbound", !.amt = paid]
    <2>1. /\ Level(r.snap, r.w) /\ r.snap.cents > 0 /\ r.left > 0
          /\ r.snap.cents \in Int
      BY <1>3, <1>a DEF Deduct, At, Covered, r, Balance
    <2>2. paid \in Nat /\ paid <= r.snap.cents /\ paid <= r.left
      BY <1>a, <2>1 DEF Consumable, Smaller
    <2>3. SetBalance(r.w, b) /\ Goto(s, q)
      BY <1>3, Zenon DEF Deduct, r
    <2> HIDE DEF paid
    <2>4. b \in Balance /\ Level(b, r.w)
      BY <1>a, <2>1, <2>2, DeductedOK
    <2>5. q \in Process /\ q.pc = "outbound" /\ q.amt = paid /\ q.left = r.left
      BY <1>a, <2>2 DEF Process, Steps
    <2> HIDE DEF b, q
    <2>6. Covered(q)
      BY <2>2, <2>5 DEF Covered
    <2> QED
      BY <1>0, <1>3, <1>a, <2>3, <2>4, <2>5, <2>6, SetBalanceOK, GotoOK, Assembled
         DEF Deduct, history
  <1>4. CASE Outbound(s)
    <2> DEFINE q == [r EXCEPT !.pc = "settle"]
    <2>1. ledger' \in [Wallets -> Totals]
      BY <1>0, <1>4, <1>a DEF Outbound, Totals, r
    <2>2. /\ q \in Process /\ q.pc = "settle" /\ q.amt = r.amt /\ q.left = r.left
          /\ r.amt <= r.left
      BY <1>4, <1>a DEF Outbound, At, Covered, Process, Steps, r
    <2>3. Goto(s, q)
      BY <1>4, Zenon DEF Outbound, r
    <2> HIDE DEF q
    <2>4. Covered(q)
      BY <2>2 DEF Covered
    <2> QED
      BY <1>0, <1>4, <2>1, <2>2, <2>3, <2>4, GotoOK, Assembled
         DEF Outbound, history, NeverOverdrawn
  <1>5. CASE Settle(s)
    <2> DEFINE q == NextWallet(r.todo, r.left - r.amt)
    <2>1. ledger' \in [Wallets -> Totals]
      BY <1>0, <1>5, <1>a DEF Settle, Totals, r
    <2>2. r.left - r.amt \in Nat
      BY <1>5, <1>a DEF Settle, At, Covered, r
    <2>3. q \in Process /\ Covered(q)
      BY <1>0, <1>a, <2>2, NextWalletOK
    <2>4. Goto(s, q)
      BY <1>5, Zenon DEF Settle, r
    <2> HIDE DEF q
    <2> QED
      BY <1>0, <1>5, <2>1, <2>3, <2>4, GotoOK, Assembled
         DEF Settle, history, NeverOverdrawn
  <1>6. CASE Take(s)
    <2> DEFINE b == Deducted(r.snap, r.amt * Rate[r.w], Rate[r.w])
               q == [r EXCEPT !.pc = "sent"]
    <2>1. /\ Level(r.snap, r.w) /\ r.snap.credits >= r.amt
      BY <1>6, <1>a DEF Take, At, Covered, r
    <2>2. Rate[r.w] = 1 => r.amt * Rate[r.w] <= r.snap.cents
      BY <1>a, <1>b, <2>1 DEF Level, Balance
    <2>3. SetBalance(r.w, b) /\ Goto(s, q)
      BY <1>6, Zenon DEF Take, r
    <2>4. b \in Balance /\ Level(b, r.w)
      BY <1>a, <1>b, <2>1, <2>2, DeductedOK
    <2>5. q \in Process /\ q.pc = "sent"
      BY <1>a DEF Process, Steps
    <2> HIDE DEF b, q
    <2>6. Covered(q)
      BY <2>5 DEF Covered
    <2> QED
      BY <1>0, <1>6, <1>a, <2>3, <2>4, <2>5, <2>6, SetBalanceOK, GotoOK, Assembled
         DEF Take, history
  <1>7. CASE Sent(s)
    <2> DEFINE q == [r EXCEPT !.pc = "give", !.snap = BalanceOf(r.to)]
    <2>1. ledger' \in [Wallets -> Totals]
      BY <1>0, <1>7, <1>a, <1>b DEF Sent, Totals, r
    <2>2. BalanceOf(r.to) \in Balance /\ Level(BalanceOf(r.to), r.to)
      BY <1>0, <1>a, ReadOK
    <2>3. q \in Process /\ q.pc = "give" /\ q.snap = BalanceOf(r.to) /\ q.to = r.to
      BY <1>a, <2>2 DEF Process, Steps
    <2>4. Goto(s, q)
      BY <1>7, Zenon DEF Sent, r
    <2> HIDE DEF q
    <2>5. Covered(q)
      BY <2>2, <2>3 DEF Covered
    <2> QED
      BY <1>0, <1>7, <2>1, <2>3, <2>4, <2>5, GotoOK, Assembled
         DEF Sent, history, NeverOverdrawn
  <1>8. CASE Give(s)
    <2> DEFINE b == Added(r.snap, r.amt, Rate[r.to])
               q == [r EXCEPT !.pc = "received"]
    <2>1. Level(r.snap, r.to)
      BY <1>8, <1>a DEF Give, At, Covered, r
    <2>2. b \in Balance /\ Level(b, r.to)
      BY <1>a, <2>1, AddedOK
    <2>3. SetBalance(r.to, b) /\ Goto(s, q)
      BY <1>8, Zenon DEF Give, r
    <2>4. q \in Process /\ q.pc = "received"
      BY <1>a DEF Process, Steps
    <2> HIDE DEF b, q
    <2>5. Covered(q)
      BY <2>4 DEF Covered
    <2> QED
      BY <1>0, <1>8, <1>a, <2>2, <2>3, <2>4, <2>5, SetBalanceOK, GotoOK, Assembled
         DEF Give, history
  <1>9. CASE Received(s)
    <2>1. ledger' \in [Wallets -> Totals]
      BY <1>0, <1>9, <1>a, <1>b DEF Received, Totals, r
    <2>2. Goto(s, Idle)
      BY <1>9, Zenon DEF Received, r
    <2> QED
      BY <1>0, <1>9, <2>1, <2>2, IdleOK, GotoOK, Assembled
         DEF Received, history, NeverOverdrawn
  <1> QED
    BY <1>1, <1>2, <1>3, <1>4, <1>5, <1>6, <1>7, <1>8, <1>9 DEF Continue

\* A process that crashes forgets what it was doing; the rows stay.
LEMMA CrashOK ==
    ASSUME IInv, NEW s \in Servers, Crash(s)
    PROVE  IInv'
  <1>1. crashes' \in 0..MaxCrashes
    BY ConstantsAssumption DEF IInv, TypeOK, Crash
  <1>2. Goto(s, Idle)
    BY DEF Crash
  <1> QED
    BY <1>1, <1>2, IdleOK, GotoOK, Assembled DEF IInv, TypeOK, Crash, NeverOverdrawn

\* Time passes for a wallet, or nothing happens at all.
LEMMA OtherwiseOK ==
    ASSUME IInv, UNCHANGED vars \/ \E w \in Wallets : Expire(w)
    PROVE  IInv'
  BY DEF IInv, TypeOK, NeverOverdrawn, vars, Expire, history

\* The inductive invariant holds of every behaviour: every row is of its type,
\* no wallet at a rate of one is overdrawn, and what the processes have read
\* covers what they are about to take.
THEOREM WalletInvariant == Spec => []IInv
  <1>1. IInv /\ [Next]_vars => IInv'
    BY ArriveOK, ContinueOK, CrashOK, OtherwiseOK DEF Next, Rest
  <1> QED
    BY <1>1, InitOK, PTL DEF Spec

\* No wallet at the default rate is overdrawn, however many processes top it up,
\* consume it, transfer from it and crash, overwriting each other's balances
\* (WalletRepository.deduct_balance and update_balance).
THEOREM WalletsNeverOverdrawn == Spec => []NeverOverdrawn
  <1>1. IInv => NeverOverdrawn
    BY DEF IInv
  <1> QED
    BY <1>1, WalletInvariant, PTL

-----------------------------------------------------------------------------
(* One operation at a time *)

\* The numbers of a wallet.
LEMMA Numbers ==
    ASSUME IInv, NEW w \in Wallets
    PROVE  /\ wallet[w].credits \in Int /\ wallet[w].cents \in Int /\ wallet[w].used \in Int
           /\ ledger[w].in \in Nat /\ ledger[w].out \in Nat /\ ledger[w].settled \in Nat
  BY DEF IInv, TypeOK, Row, Totals

\* Writing a balance changes one row, and not its status.
LEMMA Written ==
    ASSUME IInv, NEW w \in Wallets, NEW b \in Balance, SetBalance(w, b)
    PROVE  /\ wallet'[w].st = wallet[w].st /\ wallet'[w].cents = b.cents
           /\ wallet'[w].used = b.used
           /\ \A v \in Wallets \ {w} : wallet'[v] = wallet[v]
  <1>1. wallet \in [Wallets -> Row]
    BY DEF IInv, TypeOK
  <1> QED
    BY <1>1 DEF SetBalance, Row

\* A process goes on and the others stay.
LEMMA Went ==
    ASSUME IInv, NEW s \in Servers, NEW r, Goto(s, r)
    PROVE  proc'[s] = r /\ \A t \in Servers \ {s} : proc'[t] = proc[t]
  BY DEF IInv, TypeOK, Goto

\* Once operations overlap nothing is claimed any more.
LEMMA Overlapped == overlap' => SerialInv'
  BY DEF SerialInv, TakenBeforeSettled, BalanceIsLedgers

\* What is known of the one process that runs.
LEMMA Running ==
    ASSUME IInv, SerialInv, ~overlap, NEW s \in Servers, ~At(s, "idle")
    PROVE  /\ \A t \in Servers \ {s} : At(t, "idle")
           /\ Current(s) /\ Billing(s) /\ Entered(s)
           /\ crashes = 0 => Books(s)
           /\ wallet[proc[s].w].st = "active"
           /\ \A w \in Wallets : /\ ledger[w].settled <= ledger[w].out
                                 /\ ledger[w].out <= wallet[w].used
  BY DEF SerialInv, Alone, Current, Entered, At, TakenBeforeSettled

\* The invariant follows from that of the process that took the step.
LEMMA Serially ==
    ASSUME IInv', NEW s \in Servers,
           \A t \in Servers \ {s} : proc'[t].pc = "idle",
           Current(s)', Billing(s)', Entered(s)', crashes' = 0 => Books(s)',
           \A w \in Wallets : /\ ledger'[w].settled <= ledger'[w].out
                              /\ ledger'[w].out <= wallet'[w].used
    PROVE  SerialInv'
  <1>1. Alone'
    BY DEF Alone, At
  <1>2. \A t \in Servers : Current(t)' /\ Billing(t)' /\ Entered(t)'
    <2> SUFFICES ASSUME NEW t \in Servers, proc'[t].pc = "idle"
                 PROVE  Current(t)' /\ Billing(t)' /\ Entered(t)'
      OBVIOUS
    <2> QED
      BY DEF Current, Billing, Entered
  <1>3. TakenBeforeSettled'
    BY DEF TakenBeforeSettled
  <1>4. ASSUME crashes' = 0, proc'[s].pc = "idle", NEW w \in Wallets
        PROVE  wallet'[w].cents = ledger'[w].in - ledger'[w].out
    <2>1. wallet'[w].cents = ledger'[w].in - ledger'[w].out + Entering(s, w)'
      BY <1>4 DEF Books
    <2>2. Entering(s, w)' = 0
      BY <1>4 DEF Entering
    <2>3. ledger'[w].in \in Nat /\ ledger'[w].out \in Nat
      BY DEF IInv, TypeOK, Totals
    <2> QED
      BY <2>1, <2>2, <2>3
  <1>5. BalanceIsLedgers'
    BY <1>4 DEF BalanceIsLedgers, At
  <1> QED
    BY <1>1, <1>2, <1>3, <1>5 DEF SerialInv

\* A process that has come to its end.
LEMMA SeriallyIdle ==
    ASSUME IInv', NEW s \in Servers, proc'[s] = Idle,
           \A t \in Servers \ {s} : proc'[t].pc = "idle",
           crashes' = 0 =>
             \A w \in Wallets : wallet'[w].cents = ledger'[w].in - ledger'[w].out,
           \A w \in Wallets : /\ ledger'[w].settled <= ledger'[w].out
                              /\ ledger'[w].out <= wallet'[w].used
    PROVE  SerialInv'
  <1>1. proc'[s].pc = "idle"
    BY IdleOK
  <1>2. Current(s)' /\ Billing(s)' /\ Entered(s)'
    BY <1>1 DEF Current, Billing, Entered
  <1>3. \A w \in Wallets : Entering(s, w)' = 0 /\ ledger'[w].in \in Nat /\ ledger'[w].out \in Nat
    BY <1>1 DEF Entering, IInv, TypeOK, Totals
  <1>4. crashes' = 0 => Books(s)'
    BY <1>3 DEF Books
  <1> QED
    BY <1>2, <1>4, Serially

\* The next wallet of a bill is the first of those that can still give; the
\* wallets that it passes by are empty.
LEMMA NextBilled ==
    ASSUME IInv, NEW todo \in SUBSET Wallets, NEW left \in Nat,
           \A w \in todo : wallet[w].st = "active",
           left > 0 => PassedBy(todo)
    PROVE  LET q == NextWallet(todo, left) IN
           \/ q = Idle
           \/ /\ q.pc = "deduct" /\ q.w \in Wallets /\ q.snap = BalanceOf(q.w)
              /\ wallet[q.w].st = "active"
              /\ \A w \in q.todo : wallet[w].st = "active" /\ q.w < w
              /\ PassedBy(q.todo \cup {q.w})
  <1> DEFINE rich == {w \in todo : wallet[w].cents > 0}
             f == First(rich)
             q == NextWallet(todo, left)
  <1>1. CASE left = 0 \/ rich = {}
    BY <1>1 DEF NextWallet
  <1>2. CASE left # 0 /\ rich # {}
    <2>1. f \in rich /\ \A v \in rich : f <= v
      BY <1>2, FirstInSet
    <2>2. PICK v \in Wallets : v = f
      BY <2>1
    <2>3. PICK later \in SUBSET Wallets : later = {x \in todo : x > v}
      OBVIOUS
    <2>4. q = [Idle EXCEPT !.pc = "deduct", !.w = v, !.left = left,
                           !.todo = later, !.snap = BalanceOf(v)]
      BY <1>2, <2>2, <2>3, Zenon DEF NextWallet
    <2>5. q.pc = "deduct" /\ q.w = v /\ q.todo = later /\ q.snap = BalanceOf(v)
      BY <2>4 DEF Idle
    <2>6. ASSUME NEW w \in Wallets \ (later \cup {v}), Usable(w) PROVE wallet[w].cents <= 0
      <3>1. CASE w \notin todo
        BY <1>2, <2>6, <3>1 DEF PassedBy
      <3>2. CASE w \in todo
        <4>1. w \in Nat /\ v \in Nat /\ wallet[w].cents \in Int
          BY ConstantsAssumption, Numbers
        <4>2. w \notin rich
          BY <2>1, <2>2, <2>3, <2>6, <3>2, <4>1
        <4> QED
          BY <3>2, <4>1, <4>2
      <3> QED
        BY <3>1, <3>2
    <2>7. \A w \in later : wallet[w].st = "active" /\ v < w
      BY <2>3, ConstantsAssumption
    <2>8. wallet[v].st = "active"
      BY <2>1, <2>2
    <2> HIDE DEF rich, f, q
    <2>9. PassedBy(later \cup {v})
      BY <2>6 DEF PassedBy
    <2> QED
      BY <2>5, <2>7, <2>8, <2>9 DEF q
  <1> QED
    BY <1>1, <1>2

\* An operation begins while nothing else runs.
LEMMA ArriveSerial ==
    ASSUME IInv, IInv', SerialInv, NEW s \in Servers, Arrive(s)
    PROVE  SerialInv'
  <1> SUFFICES ASSUME ~overlap' PROVE SerialInv'
    BY Overlapped
  <1>0. /\ Credits \subseteq Nat /\ Bills \subseteq Nat
        /\ wallet \in [Wallets -> Row] /\ proc \in [Servers -> Process]
    BY ConstantsAssumption DEF IInv, TypeOK
  <1> DEFINE Calm ==
        /\ \A t \in Servers : At(t, "idle")
        /\ crashes = 0 => \A w \in Wallets : wallet[w].cents = ledger[w].in - ledger[w].out
        /\ \A w \in Wallets : /\ ledger[w].settled <= ledger[w].out
                              /\ ledger[w].out <= wallet[w].used
  <1>1. ASSUME NEW r, Begin(s, r)
        PROVE  /\ Calm /\ proc'[s] = r
               /\ \A t \in Servers \ {s} : proc'[t].pc = "idle"
    <2>1. ~overlap /\ \A t \in Servers : At(t, "idle")
      BY <1>1 DEF Begin
    <2>2. Goto(s, r)
      BY <1>1 DEF Begin, Goto
    <2> QED
      BY <2>1, <2>2, Went DEF SerialInv, BalanceIsLedgers, TakenBeforeSettled, At
  <1>2. ASSUME NEW r \in Process, Begin(s, r), r.pc \in {"idle", "inbound", "take", "deduct"},
               UNCHANGED <<ledger, crashes>>,
               \A w \in Wallets : /\ wallet'[w].cents = wallet[w].cents
                                  /\ wallet'[w].used = wallet[w].used,
               Current(s)', Billing(s)'
        PROVE  SerialInv'
    <2>1. Calm /\ proc'[s] = r /\ \A t \in Servers \ {s} : proc'[t].pc = "idle"
      BY <1>1, <1>2
    <2>2. \A w \in Wallets : Entering(s, w)' = 0 /\ ledger[w].in \in Nat /\ ledger[w].out \in Nat
      BY <1>2, <2>1, Numbers DEF Entering
    <2>3. crashes' = 0 => Books(s)'
      BY <1>2, <2>1, <2>2 DEF Books
    <2>4. Entered(s)'
      BY <1>2, <2>1, <2>3 DEF Entered
    <2> QED
      BY <1>2, <2>1, <2>3, <2>4, Serially
  <1>3. ASSUME NEW w \in Wallets, NEW c \in Credits \cup {0}, Create(s, w, c)
        PROVE  SerialInv'
    <2> DEFINE r == IF c > 0 THEN [Idle EXCEPT !.pc = "inbound", !.w = w, !.amt = c]
                             ELSE Idle
    <2>1. r \in Process /\ r.pc \in {"idle", "inbound"} /\ (r.pc = "inbound" => r.w = w)
      BY <1>0, IdleOK DEF Process, Steps, Idle
    <2>2. Begin(s, r) /\ UNCHANGED <<ledger, crashes>>
      BY <1>3, Zenon DEF Create
    <2> HIDE DEF r
    <2>3. /\ wallet'[w].st = "active"
          /\ \A v \in Wallets : /\ wallet'[v].cents = wallet[v].cents
                                /\ wallet'[v].used = wallet[v].used
      BY <1>0, <1>3 DEF Create, Row
    <2>4. proc'[s] = r
      BY <1>1, <2>2
    <2>5. Current(s)' /\ Billing(s)'
      BY <2>1, <2>3, <2>4 DEF Current, Billing
    <2> QED
      BY <1>2, <2>1, <2>2, <2>3, <2>5
  <1>4. ASSUME NEW w \in Wallets, NEW c \in Credits, TopUp(s, w, c)
        PROVE  SerialInv'
    <2> DEFINE r == [Idle EXCEPT !.pc = "inbound", !.w = w, !.amt = c]
    <2>1. r \in Process /\ r.pc = "inbound" /\ r.w = w
      BY <1>0, IdleOK DEF Process, Steps, Idle
    <2>2. Begin(s, r) /\ UNCHANGED <<wallet, ledger, crashes>> /\ wallet[w].st = "active"
      BY <1>4, Zenon DEF TopUp
    <2> HIDE DEF r
    <2>3. proc'[s] = r
      BY <1>1, <2>2
    <2>4. Current(s)' /\ Billing(s)'
      BY <2>1, <2>2, <2>3 DEF Current, Billing
    <2> QED
      BY <1>2, <2>1, <2>2, <2>4
  <1>5. ASSUME NEW w \in Wallets, NEW v \in Wallets, NEW c \in Credits, Transfer(s, w, v, c)
        PROVE  SerialInv'
    <2> DEFINE r == [Idle EXCEPT !.pc = "take", !.w = w, !.to = v, !.amt = c,
                                 !.snap = BalanceOf(w)]
    <2>1. BalanceOf(w) \in Balance
      BY ReadOK DEF IInv
    <2>2. r \in Process /\ r.pc = "take" /\ r.w = w /\ r.to = v /\ r.snap = BalanceOf(w)
      BY <1>0, <2>1, IdleOK DEF Process, Steps, Idle
    <2>3. /\ Begin(s, r) /\ UNCHANGED <<wallet, ledger, crashes>>
          /\ wallet[w].st = "active" /\ wallet[v].st = "active" /\ w # v
      BY <1>5, Zenon DEF Transfer
    <2> HIDE DEF r
    <2>4. proc'[s] = r
      BY <1>1, <2>3
    <2>5. Current(s)' /\ Billing(s)'
      BY <2>2, <2>3, <2>4 DEF Current, Billing, BalanceOf
    <2> QED
      BY <1>2, <2>2, <2>3, <2>5
  <1>6. ASSUME NEW w \in Wallets, Terminate(s, w)
        PROVE  SerialInv'
    <2>1. \A v \in Wallets : wallet'[v].cents = wallet[v].cents /\ wallet'[v].used = wallet[v].used
      BY <1>0, <1>6 DEF Terminate, Row
    <2>2. Begin(s, Idle) /\ UNCHANGED <<ledger, crashes>>
      BY <1>6 DEF Terminate
    <2>3. proc'[s] = Idle
      BY <1>1, <2>2
    <2>4. Current(s)' /\ Billing(s)'
      BY <2>3, IdleOK DEF Current, Billing
    <2> QED
      BY <1>2, <2>1, <2>2, <2>4, IdleOK
  <1>7. ASSUME NEW bill \in Bills, Consume(s, bill)
        PROVE  SerialInv'
    <2> DEFINE usable == {w \in Wallets : Usable(w)}
               r == NextWallet(usable, bill)
    <2>1. r \in Process
      BY <1>0, NextWalletOK DEF IInv
    <2>2. \/ r = Idle
          \/ /\ r.pc = "deduct" /\ r.w \in Wallets /\ r.snap = BalanceOf(r.w)
             /\ wallet[r.w].st = "active"
             /\ \A w \in r.todo : wallet[w].st = "active" /\ r.w < w
             /\ PassedBy(r.todo \cup {r.w})
      <3>1. (\A w \in usable : wallet[w].st = "active") /\ PassedBy(usable)
        BY DEF Usable, PassedBy
      <3> HIDE DEF usable
      <3> QED
        BY <1>0, <3>1, NextBilled DEF usable
    <2>3. Begin(s, r) /\ UNCHANGED <<wallet, expired, ledger, crashes>>
      BY <1>7, Zenon DEF Consume
    <2> HIDE DEF r
    <2>4. proc'[s] = r
      BY <1>1, <2>3
    <2>5. r.pc \in {"idle", "deduct"}
      BY <2>2, IdleOK
    <2>6. Current(s)'
      BY <2>2, <2>3, <2>4, <2>5, IdleOK DEF Current, BalanceOf
    <2>7. Billing(s)'
      BY <2>2, <2>3, <2>4, <2>5, IdleOK DEF Billing, PassedBy, Usable
    <2> QED
      BY <1>2, <2>1, <2>3, <2>5, <2>6, <2>7
  <1> QED
    BY <1>3, <1>4, <1>5, <1>6, <1>7 DEF Arrive

\* A top-up: the transaction is entered, then the balance is written.
LEMMA InboundSerial ==
    ASSUME IInv, IInv', SerialInv, NEW s \in Servers, Inbound(s)
    PROVE  SerialInv'
  <1> SUFFICES ASSUME ~overlap PROVE SerialInv'
    BY Overlapped DEF Inbound, history
  <1> DEFINE r == proc[s]
             w == proc[s].w
  <1>1. PICK m \in Nat : m = r.amt * Rate[w]
    BY ProcessType, CentsInt
  <1>2. /\ \A t \in Servers \ {s} : At(t, "idle")
        /\ w \in Wallets /\ wallet[w].st = "active"
        /\ crashes = 0 => Books(s)
        /\ \A v \in Wallets : ledger[v].settled <= ledger[v].out /\ ledger[v].out <= wallet[v].used
    BY Running, ProcessType DEF Inbound, At
  <1>3. /\ proc'[s] = [r EXCEPT !.pc = "add", !.snap = BalanceOf(w)]
        /\ \A t \in Servers \ {s} : proc'[t] = proc[t]
        /\ UNCHANGED <<wallet, crashes>>
        /\ ledger' = [ledger EXCEPT ![w].in = @ + m]
    BY <1>1, Went DEF Inbound, history
  <1>4. /\ proc'[s].pc = "add" /\ proc'[s].snap = BalanceOf(w) /\ proc'[s].w = w
        /\ proc'[s].amt = r.amt
    BY <1>3, ProcessType DEF Process
  <1>5. /\ ledger'[w].in = ledger[w].in + m /\ ledger'[w].out = ledger[w].out
        /\ ledger'[w].settled = ledger[w].settled
        /\ \A v \in Wallets \ {w} : ledger'[v] = ledger[v]
    BY <1>2, <1>3 DEF IInv, TypeOK, Totals
  <1>6. Current(s)' /\ Billing(s)'
    BY <1>2, <1>3, <1>4 DEF Current, Billing, BalanceOf
  <1>7. \A v \in Wallets : /\ Entering(s, v) = 0
                           /\ Entering(s, v)' = IF v = w THEN -m ELSE 0
    BY <1>1, <1>4 DEF Entering, Inbound, At
  <1>8. crashes' = 0 => Books(s)'
    BY <1>2, <1>3, <1>5, <1>7, Numbers DEF Books
  <1>9. Entered(s)'
    BY <1>4, <1>8 DEF Entered
  <1> QED
    BY <1>2, <1>3, <1>5, <1>6, <1>8, <1>9, Serially DEF At

LEMMA AddSerial ==
    ASSUME IInv, IInv', SerialInv, NEW s \in Servers, Add(s)
    PROVE  SerialInv'
  <1> SUFFICES ASSUME ~overlap PROVE SerialInv'
    BY Overlapped DEF Add, history
  <1> DEFINE r == proc[s]
             w == proc[s].w
             b == Added(r.snap, r.amt, Rate[w])
  <1>1. PICK m \in Nat : m = r.amt * Rate[w]
    BY ProcessType, CentsInt
  <1>2. /\ \A t \in Servers \ {s} : At(t, "idle")
        /\ w \in Wallets /\ r.snap = BalanceOf(w) /\ r.pc = "add"
        /\ crashes = 0 => Books(s)
        /\ \A v \in Wallets : ledger[v].settled <= ledger[v].out /\ ledger[v].out <= wallet[v].used
    BY Running, ProcessType DEF Add, At, Current
  <1>3. /\ proc'[s] = Idle
        /\ \A t \in Servers \ {s} : proc'[t] = proc[t]
        /\ UNCHANGED <<ledger, crashes>> /\ SetBalance(w, b)
    BY Went DEF Add, history
  <1>4. b \in Balance /\ b.cents = wallet[w].cents + m /\ b.used = wallet[w].used
    <2>1. b \in Balance
      BY <1>2, ProcessType, AddedOK DEF Covered
    <2> QED
      BY <1>1, <1>2, <2>1 DEF Added, BalanceOf
  <1> HIDE DEF b
  <1>5. /\ wallet'[w].cents = wallet[w].cents + m /\ wallet'[w].used = wallet[w].used
        /\ \A v \in Wallets \ {w} : wallet'[v] = wallet[v]
    BY <1>2, <1>3, <1>4, Written
  <1>6. \A v \in Wallets : Entering(s, v) = IF v = w THEN -m ELSE 0
    BY <1>1, <1>2 DEF Entering
  <1>7. crashes' = 0 =>
          \A v \in Wallets : wallet'[v].cents = ledger'[v].in - ledger'[v].out
    BY <1>2, <1>3, <1>5, <1>6, Numbers DEF Books
  <1> QED
    BY <1>2, <1>3, <1>5, <1>7, SeriallyIdle DEF At

\* A bill: the balance is written, the transaction is entered and then the
\* settlement.
LEMMA DeductSerial ==
    ASSUME IInv, IInv', SerialInv, NEW s \in Servers, Deduct(s)
    PROVE  SerialInv'
  <1> SUFFICES ASSUME ~overlap PROVE SerialInv'
    BY Overlapped DEF Deduct, history
  <1> DEFINE r == proc[s]
             w == proc[s].w
  <1>1. /\ \A t \in Servers \ {s} : At(t, "idle")
        /\ w \in Wallets /\ r.snap = BalanceOf(w) /\ r.pc = "deduct"
        /\ wallet[w].st = "active" /\ Billing(s)
        /\ crashes = 0 => Books(s)
        /\ \A v \in Wallets : ledger[v].settled <= ledger[v].out /\ ledger[v].out <= wallet[v].used
    BY Running, ProcessType DEF Deduct, At, Current
  <1>2. /\ r \in Process /\ r.snap \in Balance /\ r.left \in Nat /\ Level(r.snap, w)
        /\ r.snap.cents > 0 /\ r.snap.cents = wallet[w].cents /\ r.snap.used = wallet[w].used
        /\ wallet[w].cents \in Int
    BY <1>1, ProcessType, Numbers DEF Covered, BalanceOf
  <1>3. PICK paid \in Nat : /\ paid = Consumable(r.snap, r.left)
                            /\ paid <= wallet[w].cents /\ paid <= r.left
                            /\ paid < r.left => paid = wallet[w].cents
    BY <1>2 DEF Consumable, Smaller
  <1> DEFINE b == Deducted(r.snap, paid, Rate[w])
  <1>4. /\ proc'[s] = [r EXCEPT !.pc = "outbound", !.amt = paid]
        /\ \A t \in Servers \ {s} : proc'[t] = proc[t]
        /\ UNCHANGED <<ledger, expired, crashes>> /\ SetBalance(w, b)
    <2>1. /\ Goto(s, [r EXCEPT !.pc = "outbound", !.amt = Consumable(r.snap, r.left)])
          /\ SetBalance(w, Deducted(r.snap, Consumable(r.snap, r.left), Rate[w]))
      BY Zenon DEF Deduct
    <2>2. Goto(s, [r EXCEPT !.pc = "outbound", !.amt = paid]) /\ SetBalance(w, b)
      BY <1>3, <2>1, Zenon
    <2>3. UNCHANGED <<ledger, expired, crashes>>
      BY DEF Deduct, history
    <2> QED
      BY <2>2, <2>3, Went
  <1>5. /\ proc'[s].pc = "outbound" /\ proc'[s].amt = paid /\ proc'[s].w = w
        /\ proc'[s].todo = r.todo /\ proc'[s].left = r.left
    <2>1. PICK q \in Process : q = r
      BY <1>2
    <2>2. [q EXCEPT !.pc = "outbound", !.amt = paid] \in Process
      BY DEF Process, Steps
    <2>3. proc'[s] = [q EXCEPT !.pc = "outbound", !.amt = paid]
      BY <1>4, <2>1
    <2> QED
      BY <2>1, <2>2, <2>3 DEF Process
  <1>6. b \in Balance /\ b.cents = wallet[w].cents - paid /\ b.used = wallet[w].used + paid
    <2>1. b \in Balance
      BY <1>1, <1>2, <1>3, DeductedOK
    <2> QED
      BY <1>2, <2>1 DEF Deducted
  <1> HIDE DEF b
  <1>7. /\ wallet'[w].cents = wallet[w].cents - paid /\ wallet'[w].used = wallet[w].used + paid
        /\ wallet'[w].st = wallet[w].st
        /\ \A v \in Wallets \ {w} : wallet'[v] = wallet[v]
    BY <1>1, <1>4, <1>6, Written
  <1>8. \A v \in Wallets : wallet'[v].st = wallet[v].st
    BY <1>7
  <1>9. Current(s)'
    BY <1>1, <1>5, <1>8 DEF Current
  <1>10. Billing(s)'
    <2>1. \A v \in r.todo : v \in Wallets /\ wallet[v].st = "active" /\ w < v
      BY <1>1, ProcessType DEF Billing
    <2>2. PassedBy(r.todo \cup {w})
      BY <1>1 DEF Billing
    <2>3. \A v \in Wallets \ (r.todo \cup {w}) : Usable(v)' => wallet'[v].cents <= 0
      <3>1. ASSUME NEW v \in Wallets \ (r.todo \cup {w}), Usable(v)' PROVE wallet'[v].cents <= 0
        <4>1. wallet'[v] = wallet[v] /\ expired' = expired
          BY <1>4, <1>7
        <4>2. Usable(v)
          BY <3>1, <4>1 DEF Usable
        <4> QED
          BY <2>2, <4>1, <4>2 DEF PassedBy
      <3> QED
        BY <3>1
    <2>4. paid < r.left => wallet'[w].cents <= 0
      BY <1>2, <1>3, <1>7
    <2> QED
      BY <1>5, <1>8, <2>1, <2>3, <2>4 DEF Billing, PassedBy
  <1>11. \A v \in Wallets : /\ Entering(s, v) = 0
                            /\ Entering(s, v)' = IF v = w THEN -paid ELSE 0
    BY <1>1, <1>5 DEF Entering
  <1>12. crashes' = 0 => Books(s)'
    BY <1>1, <1>4, <1>7, <1>11, Numbers DEF Books
  <1>13. \A v \in Wallets : ledger'[v].settled <= ledger'[v].out /\ ledger'[v].out <= wallet'[v].used
    BY <1>1, <1>4, <1>7, Numbers
  <1>14. Entered(s)'
    <2>1. ledger'[w].out <= wallet'[w].used + (-paid)
      BY <1>1, <1>4, <1>7, Numbers
    <2> QED
      BY <1>1, <1>5, <1>11, <1>12, <2>1 DEF Entered
  <1> QED
    BY <1>1, <1>4, <1>9, <1>10, <1>12, <1>13, <1>14, Serially DEF At

LEMMA OutboundSerial ==
    ASSUME IInv, IInv', SerialInv, NEW s \in Servers, Outbound(s)
    PROVE  SerialInv'
  <1> SUFFICES ASSUME ~overlap PROVE SerialInv'
    BY Overlapped DEF Outbound, history
  <1> DEFINE r == proc[s]
             w == proc[s].w
             m == proc[s].amt
  <1>1. /\ \A t \in Servers \ {s} : At(t, "idle")
        /\ w \in Wallets /\ r.pc = "outbound" /\ m \in Nat /\ r \in Process
        /\ wallet[w].st = "active" /\ Billing(s) /\ Entered(s)
        /\ crashes = 0 => Books(s)
        /\ \A v \in Wallets : ledger[v].settled <= ledger[v].out /\ ledger[v].out <= wallet[v].used
    BY Running, ProcessType DEF Outbound, At
  <1>2. /\ proc'[s] = [r EXCEPT !.pc = "settle"]
        /\ \A t \in Servers \ {s} : proc'[t] = proc[t]
        /\ UNCHANGED <<wallet, expired, crashes>>
        /\ ledger' = [ledger EXCEPT ![w].out = @ + m]
    BY Went DEF Outbound, history
  <1>3. /\ proc'[s].pc = "settle" /\ proc'[s].amt = m /\ proc'[s].w = w
        /\ proc'[s].todo = r.todo /\ proc'[s].left = r.left
    BY <1>1, <1>2 DEF Process
  <1>4. /\ ledger'[w].in = ledger[w].in /\ ledger'[w].out = ledger[w].out + m
        /\ ledger'[w].settled = ledger[w].settled
        /\ \A v \in Wallets \ {w} : ledger'[v] = ledger[v]
    BY <1>1, <1>2 DEF IInv, TypeOK, Totals
  <1>5. \A v \in Wallets : /\ Entering(s, v) = IF v = w THEN -m ELSE 0
                           /\ Entering(s, v)' = 0
    BY <1>1, <1>3 DEF Entering
  <1>6. Current(s)'
    BY <1>1, <1>2, <1>3 DEF Current
  <1>7. Billing(s)'
    BY <1>1, <1>2, <1>3 DEF Billing, PassedBy, Usable
  <1>8. crashes' = 0 => Books(s)'
    BY <1>1, <1>2, <1>4, <1>5, Numbers DEF Books
  <1>9. ledger[w].out <= wallet[w].used + (-m)
    BY <1>1, <1>5 DEF Entered
  <1>10. \A v \in Wallets : ledger'[v].settled <= ledger'[v].out /\ ledger'[v].out <= wallet'[v].used
    BY <1>1, <1>2, <1>4, <1>9, Numbers
  <1>11. ledger'[w].settled + m <= ledger'[w].out
    BY <1>1, <1>4, Numbers
  <1>12. Entered(s)'
    BY <1>3, <1>8, <1>11 DEF Entered
  <1> QED
    BY <1>1, <1>2, <1>6, <1>7, <1>8, <1>10, <1>12, Serially DEF At

LEMMA SettleSerial ==
    ASSUME IInv, IInv', SerialInv, NEW s \in Servers, Settle(s)
    PROVE  SerialInv'
  <1> SUFFICES ASSUME ~overlap PROVE SerialInv'
    BY Overlapped DEF Settle, history
  <1> DEFINE r == proc[s]
             w == proc[s].w
             m == proc[s].amt
             q == NextWallet(r.todo, r.left - m)
  <1>1. /\ \A t \in Servers \ {s} : At(t, "idle")
        /\ w \in Wallets /\ r.pc = "settle" /\ m \in Nat /\ r \in Process
        /\ wallet[w].st = "active" /\ Billing(s) /\ Entered(s)
        /\ crashes = 0 => Books(s)
        /\ \A v \in Wallets : ledger[v].settled <= ledger[v].out /\ ledger[v].out <= wallet[v].used
    BY Running, ProcessType DEF Settle, At
  <1>2. m <= r.left /\ r.left \in Nat /\ r.todo \in SUBSET Wallets /\ r.left - m \in Nat
    BY <1>1, ProcessType DEF Covered
  <1>3. /\ proc'[s] = q
        /\ \A t \in Servers \ {s} : proc'[t] = proc[t]
        /\ UNCHANGED <<wallet, expired, crashes>>
        /\ ledger' = [ledger EXCEPT ![w].settled = @ + m]
    BY Went DEF Settle, history
  <1>4. /\ ledger'[w].in = ledger[w].in /\ ledger'[w].out = ledger[w].out
        /\ ledger'[w].settled = ledger[w].settled + m
        /\ \A v \in Wallets \ {w} : ledger'[v] = ledger[v]
    BY <1>1, <1>3 DEF IInv, TypeOK, Totals
  <1>5. \/ q = Idle
        \/ /\ q.pc = "deduct" /\ q.w \in Wallets /\ q.snap = BalanceOf(q.w)
           /\ wallet[q.w].st = "active"
           /\ \A v \in q.todo : wallet[v].st = "active" /\ q.w < v
           /\ PassedBy(q.todo \cup {q.w})
    <2>1. \A v \in r.todo : wallet[v].st = "active"
      BY <1>1 DEF Billing
    <2>2. ASSUME r.left - m > 0 PROVE PassedBy(r.todo)
      <3>1. PassedBy(r.todo \cup {w}) /\ wallet[w].cents <= 0
        BY <1>1, <1>2, <2>2 DEF Billing
      <3> QED
        BY <3>1 DEF PassedBy
    <2> QED
      BY <1>2, <2>1, <2>2, NextBilled
  <1> HIDE DEF q
  <1>6. proc'[s].pc \in {"idle", "deduct"}
    BY <1>3, <1>5, IdleOK
  <1>7. \A v \in Wallets : Entering(s, v) = 0 /\ Entering(s, v)' = 0
    BY <1>1, <1>6 DEF Entering
  <1>8. Current(s)'
    BY <1>3, <1>5, <1>6, IdleOK DEF Current, BalanceOf
  <1>9. Billing(s)'
    BY <1>3, <1>5, <1>6, IdleOK DEF Billing, PassedBy, Usable
  <1>10. crashes' = 0 => Books(s)'
    BY <1>1, <1>3, <1>4, <1>7, Numbers DEF Books
  <1>11. ledger[w].settled + m <= ledger[w].out
    BY <1>1 DEF Entered
  <1>12. \A v \in Wallets : ledger'[v].settled <= ledger'[v].out /\ ledger'[v].out <= wallet'[v].used
    BY <1>1, <1>3, <1>4, <1>11, Numbers
  <1>13. Entered(s)'
    BY <1>6, <1>10 DEF Entered
  <1> QED
    BY <1>1, <1>3, <1>8, <1>9, <1>10, <1>12, <1>13, Serially DEF At

\* A transfer: deduction, outbound transaction, addition and inbound one.
LEMMA TakeSerial ==
    ASSUME IInv, IInv', SerialInv, NEW s \in Servers, Take(s)
    PROVE  SerialInv'
  <1> SUFFICES ASSUME ~overlap PROVE SerialInv'
    BY Overlapped DEF Take, history
  <1> DEFINE r == proc[s]
             w == proc[s].w
  <1>1. PICK m \in Nat : m = r.amt * Rate[w]
    BY ProcessType, CentsInt
  <1> DEFINE b == Deducted(r.snap, m, Rate[w])
  <1>2. /\ \A t \in Servers \ {s} : At(t, "idle")
        /\ w \in Wallets /\ r.snap = BalanceOf(w) /\ r.pc = "take" /\ r \in Process
        /\ wallet[w].st = "active" /\ wallet[r.to].st = "active" /\ w # r.to /\ r.to \in Wallets
        /\ crashes = 0 => Books(s)
        /\ \A v \in Wallets : ledger[v].settled <= ledger[v].out /\ ledger[v].out <= wallet[v].used
    BY Running, ProcessType DEF Take, At, Current
  <1>3. /\ proc'[s] = [r EXCEPT !.pc = "sent"]
        /\ \A t \in Servers \ {s} : proc'[t] = proc[t]
        /\ UNCHANGED <<ledger, crashes>> /\ SetBalance(w, b)
    BY <1>1, Went DEF Take, history
  <1>4. /\ proc'[s].pc = "sent" /\ proc'[s].amt = r.amt /\ proc'[s].w = w /\ proc'[s].to = r.to
    BY <1>2, <1>3 DEF Process
  <1>5. b \in Balance /\ b.cents = wallet[w].cents - m /\ b.used = wallet[w].used + m
    <2>1. r.snap \in Balance /\ Level(r.snap, w) /\ r.snap.credits >= r.amt
          /\ r.amt \in Nat /\ r.snap.credits \in Int
      BY <1>2, ProcessType DEF Covered, Balance
    <2>2. Rate[w] = 1 => m <= r.snap.cents
      BY <1>1, <2>1 DEF Level
    <2>3. b \in Balance
      BY <1>2, <2>1, <2>2, DeductedOK
    <2> QED
      BY <1>2, <2>3 DEF Deducted, BalanceOf
  <1> HIDE DEF b
  <1>6. /\ wallet'[w].cents = wallet[w].cents - m /\ wallet'[w].used = wallet[w].used + m
        /\ \A v \in Wallets \ {w} : wallet'[v] = wallet[v]
        /\ \A v \in Wallets : wallet'[v].st = wallet[v].st
    BY <1>2, <1>3, <1>5, Written
  <1>7. Current(s)' /\ Billing(s)'
    BY <1>2, <1>4, <1>6 DEF Current, Billing
  <1>8. \A v \in Wallets : /\ Entering(s, v) = 0
                           /\ Entering(s, v)' = IF v = w THEN -m ELSE 0
    BY <1>1, <1>2, <1>4 DEF Entering
  <1>9. crashes' = 0 => Books(s)'
    BY <1>2, <1>3, <1>6, <1>8, Numbers DEF Books
  <1>10. \A v \in Wallets : ledger'[v].settled <= ledger'[v].out /\ ledger'[v].out <= wallet'[v].used
    BY <1>2, <1>3, <1>6, Numbers
  <1>11. Entered(s)'
    <2>1. ledger'[w].out <= wallet'[w].used + (-m)
      BY <1>2, <1>3, <1>6, Numbers
    <2> QED
      BY <1>2, <1>4, <1>8, <1>9, <2>1 DEF Entered
  <1> QED
    BY <1>2, <1>3, <1>7, <1>9, <1>10, <1>11, Serially DEF At

LEMMA SentSerial ==
    ASSUME IInv, IInv', SerialInv, NEW s \in Servers, Sent(s)
    PROVE  SerialInv'
  <1> SUFFICES ASSUME ~overlap PROVE SerialInv'
    BY Overlapped DEF Sent, history
  <1> DEFINE r == proc[s]
             w == proc[s].w
  <1>1. PICK m \in Nat : m = r.amt * Rate[w]
    BY ProcessType, CentsInt
  <1>2. /\ \A t \in Servers \ {s} : At(t, "idle")
        /\ w \in Wallets /\ r.pc = "sent" /\ r \in Process
        /\ wallet[w].st = "active" /\ wallet[r.to].st = "active" /\ w # r.to /\ r.to \in Wallets
        /\ Entered(s)
        /\ crashes = 0 => Books(s)
        /\ \A v \in Wallets : ledger[v].settled <= ledger[v].out /\ ledger[v].out <= wallet[v].used
    BY Running, ProcessType DEF Sent, At, Current
  <1>3. /\ proc'[s] = [r EXCEPT !.pc = "give", !.snap = BalanceOf(r.to)]
        /\ \A t \in Servers \ {s} : proc'[t] = proc[t]
        /\ UNCHANGED <<wallet, crashes>>
        /\ ledger' = [ledger EXCEPT ![w].out = @ + m]
    BY <1>1, Went DEF Sent, history
  <1>4. /\ proc'[s].pc = "give" /\ proc'[s].snap = BalanceOf(r.to)
        /\ proc'[s].w = w /\ proc'[s].to = r.to
    BY <1>2, <1>3 DEF Process
  <1>5. /\ ledger'[w].in = ledger[w].in /\ ledger'[w].out = ledger[w].out + m
        /\ ledger'[w].settled = ledger[w].settled
        /\ \A v \in Wallets \ {w} : ledger'[v] = ledger[v]
    BY <1>2, <1>3 DEF IInv, TypeOK, Totals
  <1>6. Current(s)' /\ Billing(s)'
    BY <1>2, <1>3, <1>4 DEF Current, Billing, BalanceOf
  <1>7. \A v \in Wallets : /\ Entering(s, v) = IF v = w THEN -m ELSE 0
                           /\ Entering(s, v)' = 0
    BY <1>1, <1>2, <1>4 DEF Entering
  <1>8. crashes' = 0 => Books(s)'
    BY <1>2, <1>3, <1>5, <1>7, Numbers DEF Books
  <1>9. ledger[w].out <= wallet[w].used + (-m)
    BY <1>2, <1>7 DEF Entered
  <1>10. \A v \in Wallets : ledger'[v].settled <= ledger'[v].out /\ ledger'[v].out <= wallet'[v].used
    BY <1>2, <1>3, <1>5, <1>9, Numbers
  <1>11. Entered(s)'
    BY <1>4, <1>8 DEF Entered
  <1> QED
    BY <1>2, <1>3, <1>6, <1>8, <1>10, <1>11, Serially DEF At

LEMMA GiveSerial ==
    ASSUME IInv, IInv', SerialInv, NEW s \in Servers, Give(s)
    PROVE  SerialInv'
  <1> SUFFICES ASSUME ~overlap PROVE SerialInv'
    BY Overlapped DEF Give, history
  <1> DEFINE r == proc[s]
             w == proc[s].to
             b == Added(r.snap, r.amt, Rate[w])
  <1>1. PICK m \in Nat : m = r.amt * Rate[w]
    BY ProcessType, CentsInt
  <1>2. /\ \A t \in Servers \ {s} : At(t, "idle")
        /\ w \in Wallets /\ r.snap = BalanceOf(w) /\ r.pc = "give" /\ r \in Process
        /\ wallet[w].st = "active" /\ wallet[r.w].st = "active" /\ w # r.w /\ r.w \in Wallets
        /\ crashes = 0 => Books(s)
        /\ \A v \in Wallets : ledger[v].settled <= ledger[v].out /\ ledger[v].out <= wallet[v].used
    BY Running, ProcessType DEF Give, At, Current
  <1>3. /\ proc'[s] = [r EXCEPT !.pc = "received"]
        /\ \A t \in Servers \ {s} : proc'[t] = proc[t]
        /\ UNCHANGED <<ledger, crashes>> /\ SetBalance(w, b)
    BY Went DEF Give, history
  <1>4. /\ proc'[s].pc = "received" /\ proc'[s].amt = r.amt
        /\ proc'[s].w = r.w /\ proc'[s].to = w
    BY <1>2, <1>3 DEF Process
  <1>5. b \in Balance /\ b.cents = wallet[w].cents + m /\ b.used = wallet[w].used
    <2>1. b \in Balance
      BY <1>2, ProcessType, AddedOK DEF Covered
    <2> QED
      BY <1>1, <1>2, <2>1 DEF Added, BalanceOf
  <1> HIDE DEF b
  <1>6. /\ wallet'[w].cents = wallet[w].cents + m /\ wallet'[w].used = wallet[w].used
        /\ \A v \in Wallets \ {w} : wallet'[v] = wallet[v]
        /\ \A v \in Wallets : wallet'[v].st = wallet[v].st
    BY <1>2, <1>3, <1>5, Written
  <1>7. Current(s)' /\ Billing(s)'
    BY <1>2, <1>4, <1>6 DEF Current, Billing
  <1>8. \A v \in Wallets : /\ Entering(s, v) = 0
                           /\ Entering(s, v)' = IF v = w THEN m ELSE 0
    BY <1>1, <1>2, <1>4 DEF Entering
  <1>9. crashes' = 0 => Books(s)'
    BY <1>2, <1>3, <1>6, <1>8, Numbers DEF Books
  <1>10. \A v \in Wallets : ledger'[v].settled <= ledger'[v].out /\ ledger'[v].out <= wallet'[v].used
    BY <1>2, <1>3, <1>6, Numbers
  <1>11. Entered(s)'
    BY <1>4, <1>9 DEF Entered
  <1> QED
    BY <1>2, <1>3, <1>7, <1>9, <1>10, <1>11, Serially DEF At

LEMMA ReceivedSerial ==
    ASSUME IInv, IInv', SerialInv, NEW s \in Servers, Received(s)
    PROVE  SerialInv'
  <1> SUFFICES ASSUME ~overlap PROVE SerialInv'
    BY Overlapped DEF Received, history
  <1> DEFINE r == proc[s]
             w == proc[s].to
  <1>1. PICK m \in Nat : m = r.amt * Rate[w]
    BY ProcessType, CentsInt
  <1>2. /\ \A t \in Servers \ {s} : At(t, "idle")
        /\ w \in Wallets /\ r.pc = "received"
        /\ crashes = 0 => Books(s)
        /\ \A v \in Wallets : ledger[v].settled <= ledger[v].out /\ ledger[v].out <= wallet[v].used
    BY Running, ProcessType DEF Received, At
  <1>3. /\ proc'[s] = Idle
        /\ \A t \in Servers \ {s} : proc'[t] = proc[t]
        /\ UNCHANGED <<wallet, crashes>>
        /\ ledger' = [ledger EXCEPT ![w].in = @ + m]
    BY <1>1, Went DEF Received, history
  <1>4. /\ ledger'[w].in = ledger[w].in + m /\ ledger'[w].out = ledger[w].out
        /\ ledger'[w].settled = ledger[w].settled
        /\ \A v \in Wallets \ {w} : ledger'[v] = ledger[v]
    BY <1>2, <1>3 DEF IInv, TypeOK, Totals
  <1>5. \A v \in Wallets : Entering(s, v) = IF v = w THEN m ELSE 0
    BY <1>1, <1>2 DEF Entering
  <1>6. crashes' = 0 =>
          \A v \in Wallets : wallet'[v].cents = ledger'[v].in - ledger'[v].out
    BY <1>2, <1>3, <1>4, <1>5, Numbers DEF Books
  <1>7. \A v \in Wallets : ledger'[v].settled <= ledger'[v].out /\ ledger'[v].out <= wallet'[v].used
    BY <1>2, <1>3, <1>4
  <1> QED
    BY <1>2, <1>3, <1>6, <1>7, SeriallyIdle DEF At

\* A crash loses what was to be entered, and never what was taken.
LEMMA CrashSerial ==
    ASSUME IInv, IInv', SerialInv, NEW s \in Servers, Crash(s)
    PROVE  SerialInv'
  <1> SUFFICES ASSUME ~overlap PROVE SerialInv'
    BY Overlapped DEF Crash
  <1>1. /\ \A t \in Servers \ {s} : At(t, "idle")
        /\ \A v \in Wallets : ledger[v].settled <= ledger[v].out /\ ledger[v].out <= wallet[v].used
    BY Running DEF Crash
  <1>2. /\ proc'[s] = Idle /\ \A t \in Servers \ {s} : proc'[t] = proc[t]
        /\ UNCHANGED <<wallet, ledger>> /\ crashes' # 0
    BY Went DEF Crash, IInv, TypeOK
  <1> QED
    BY <1>1, <1>2, SeriallyIdle DEF At

\* Expiry takes wallets from the usable ones; otherwise nothing happens.
LEMMA OtherwiseSerial ==
    ASSUME SerialInv, UNCHANGED vars \/ \E w \in Wallets : Expire(w)
    PROVE  SerialInv'
  <1>1. UNCHANGED <<wallet, ledger, proc, overlap, crashes>> /\ expired \subseteq expired'
    BY DEF vars, Expire, history
  <1>2. \A t \in Servers : Current(t) /\ Billing(t) /\ Entered(t) =>
                             Current(t)' /\ Billing(t)' /\ Entered(t)'
    BY <1>1 DEF Current, Billing, Entered, PassedBy, Usable, BalanceOf, Books, Entering
  <1> QED
    BY <1>1, <1>2 DEF SerialInv, Alone, At, TakenBeforeSettled, BalanceIsLedgers

LEMMA NextSerial ==
    ASSUME IInv, IInv', SerialInv, [Next]_vars PROVE SerialInv'
  <1>1. ASSUME NEW s \in Servers, Continue(s) PROVE SerialInv'
    BY <1>1, InboundSerial, AddSerial, DeductSerial, OutboundSerial, SettleSerial,
       TakeSerial, SentSerial, GiveSerial, ReceivedSerial DEF Continue
  <1> QED
    BY <1>1, ArriveSerial, CrashSerial, OtherwiseSerial DEF Next, Rest

\* While operations do not overlap, the one that runs has read what the rows
\* are, and the books are balanced but for what it is about to enter.
THEOREM SerialInvariant == Spec => []SerialInv
  <1>1. Init => SerialInv
    BY IdleOK DEF Init, SerialInv, Alone, Current, Billing, Entered, At, TakenBeforeSettled,
                  BalanceIsLedgers
  <1>2. IInv /\ IInv' /\ SerialInv /\ [Next]_vars => SerialInv'
    BY NextSerial
  <1> QED
    BY <1>1, <1>2, WalletInvariant, PTL DEF Spec

\* A crash between the commits of consume_credits or transfer_credits costs the
\* customer, never the shop.
THEOREM TakenFirst == Spec => []TakenBeforeSettled
  <1>1. SerialInv => TakenBeforeSettled
    BY DEF SerialInv
  <1> QED
    BY <1>1, SerialInvariant, PTL

\* Without a crash the balance is that of the transactions, at every rate.
THEOREM BooksBalance == Spec => []BalanceIsLedgers
  <1>1. SerialInv => BalanceIsLedgers
    BY DEF SerialInv
  <1> QED
    BY <1>1, SerialInvariant, PTL

\* consume_credits takes from a wallet when the usable ones before it are empty.
THEOREM PriorityKept == Spec => PriorityRespected
  <1> DEFINE Respected ==
        \A s \in Servers : ~overlap /\ Deduct(s) =>
          \A w \in Wallets : w < proc[s].w /\ Usable(w) => wallet[w].cents <= 0
  <1>1. ASSUME IInv, SerialInv PROVE Respected
    <2> SUFFICES ASSUME NEW s \in Servers, ~overlap, Deduct(s),
                        NEW w \in Wallets, w < proc[s].w, Usable(w)
                 PROVE  wallet[w].cents <= 0
      OBVIOUS
    <2>1. Billing(s) /\ proc[s].pc = "deduct" /\ proc[s].w \in Nat /\ w \in Nat
      BY <1>1, ConstantsAssumption, Running, ProcessType DEF Deduct, At
    <2>2. w \notin proc[s].todo /\ w # proc[s].w
      BY <2>1 DEF Billing
    <2> QED
      BY <2>1, <2>2 DEF Billing, PassedBy
  <1> QED
    BY <1>1, WalletInvariant, SerialInvariant, PTL DEF PriorityRespected

\* A terminated wallet and its ledger stay as they are.
THEOREM TerminatedStays == Spec => TerminatedIsFrozen
  <1> DEFINE Frozen ==
        \A w \in Wallets : ~overlap /\ wallet[w].st = "terminated"
          => wallet'[w] = wallet[w] /\ ledger'[w] = ledger[w]
  <1>1. ASSUME IInv, SerialInv, [Next]_vars PROVE Frozen
    <2> SUFFICES ASSUME NEW w \in Wallets, ~overlap, wallet[w].st = "terminated"
                 PROVE  wallet'[w] = wallet[w] /\ ledger'[w] = ledger[w]
      OBVIOUS
    <2>1. wallet \in [Wallets -> Row] /\ ledger \in [Wallets -> Totals]
      BY <1>1 DEF IInv, TypeOK
    <2>2. CASE UNCHANGED <<wallet, ledger>>
      BY <2>2
    <2>3. ASSUME NEW s \in Servers, Arrive(s)
          PROVE  wallet'[w] = wallet[w] /\ ledger'[w] = ledger[w]
      BY <2>1, <2>3 DEF Arrive, Create, TopUp, Transfer, Terminate, Consume
    <2>4. ASSUME NEW s \in Servers, Continue(s)
          PROVE  wallet'[w] = wallet[w] /\ ledger'[w] = ledger[w]
      <3>1. ~At(s, "idle")
        BY <2>4 DEF Continue, Inbound, Add, Deduct, Outbound, Settle, Take, Sent, Give, Received, At
      <3>2. /\ Current(s) /\ w # proc[s].w
            /\ proc[s].pc \in {"give", "received"} => w # proc[s].to
        BY <1>1, <3>1, Running DEF Current
      <3>3. CASE Inbound(s) \/ Outbound(s) \/ Settle(s) \/ Sent(s)
        BY <2>1, <3>2, <3>3 DEF Inbound, Outbound, Settle, Sent
      <3>4. CASE Received(s)
        BY <2>1, <3>2, <3>4 DEF Received, At
      <3>5. CASE Add(s) \/ Deduct(s) \/ Take(s)
        BY <2>1, <3>2, <3>5 DEF Add, Deduct, Take, SetBalance
      <3>6. CASE Give(s)
        BY <2>1, <3>2, <3>6 DEF Give, SetBalance, At
      <3> QED
        BY <2>4, <3>3, <3>4, <3>5, <3>6 DEF Continue
    <2> QED
      BY <1>1, <2>2, <2>3, <2>4 DEF Next, Rest, vars, Crash, Expire
  <1> QED
    BY <1>1, WalletInvariant, SerialInvariant, PTL DEF Spec, TerminatedIsFrozen
=============================================================================
