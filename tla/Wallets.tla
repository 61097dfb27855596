------------------------------- MODULE Wallets -------------------------------
(***************************************************************************)
(* The prepaid wallets of one customer: services/wallet_service.py over    *)
(* wallet_repository.py and wallet_transaction_repository.py, as called by *)
(* routers/wallets.py, the portal and invoice finalization.                *)
(*                                                                         *)
(* Every commit is a step.  proc[s].pc names the next commit of process s. *)
(* A commit of this code expires the rows its session holds, so that each  *)
(* write is based on what the row was after the process's previous commit: *)
(* proc[s].snap.  Credits and cents are counted in units of the columns'   *)
(* last decimal.                                                           *)
(***************************************************************************)
EXTENDS Integers, FiniteSets

CONSTANTS
    Servers,     \* API processes
    Wallets,     \* wallet ids, in the order of priority and created_at
    Rate,        \* rate_amount: cents per credit
    Credits,     \* what clients grant, top up and transfer
    Bills,       \* what invoices ask of the wallets, in cents
    MaxCalls,    \* bound: operations that begin
    MaxCrashes   \* bound: crashes of a process

ASSUME ConstantsAssumption ==
    /\ Wallets \subseteq Nat /\ Wallets # {}
    /\ Rate \in [Wallets -> Nat \ {0}]
    /\ Credits \subseteq Nat \ {0} /\ Bills \subseteq Nat \ {0}
    /\ MaxCalls \in Nat /\ MaxCrashes \in Nat

VARIABLES
    wallet,    \* the rows of table wallets
    expired,   \* the wallets whose expiration_at has passed
    ledger,    \* the totals of each wallet's transactions and settlements
    proc,      \* what each process is doing
    overlap,   \* history: two operations have run at the same time
    calls,     \* history: operations so far
    crashes    \* history: crashes so far

vars == <<wallet, expired, ledger, proc, overlap, calls, crashes>>

Row == [st : {"none", "active", "terminated"},
        credits : Int,   \* credits_balance
        cents : Int,     \* balance_cents
        used : Int]      \* consumed_amount_cents

\* In cents: inbound and outbound transactions, WALLET_CREDIT settlements.
Totals == [in : Nat, out : Nat, settled : Nat]

Balance == [credits : Int, cents : Int, used : Int]
BalanceOf(w) == [credits |-> wallet[w].credits, cents |-> wallet[w].cents,
                 used |-> wallet[w].used]
Nothing == [credits |-> 0, cents |-> 0, used |-> 0]

Steps == {"idle", "inbound", "add", "deduct", "outbound", "settle",
          "take", "sent", "give", "received"}
Process == [pc : Steps,
            w : Wallets, to : Wallets,   \* the wallet, and where it transfers
            amt : Nat,                   \* credits, or cents taken for a bill
            left : Nat,                  \* what the bill still asks for
            todo : SUBSET Wallets,       \* wallets not yet considered
            snap : Balance]
Idle == [pc |-> "idle", w |-> CHOOSE w \in Wallets : TRUE,
         to |-> CHOOSE w \in Wallets : TRUE, amt |-> 0, left |-> 0,
         todo |-> {}, snap |-> Nothing]

-----------------------------------------------------------------------------
(* Balances *)

\* n / r as the column stores it
Rounded(n, r) == IF n >= 0 THEN (2 * n + r) \div (2 * r)
                           ELSE -((r - 2 * n) \div (2 * r))

\* WalletRepository.update_balance and deduct_balance write what they read,
\* plus or minus an amount.
AddedWrong(b, c, r) ==
    [credits |-> b.credits + c, cents |-> b.cents + c, used |-> b.used]
Added(b, c, r) ==
    [credits |-> b.credits + c, cents |-> b.cents + c * r, used |-> b.used]
DeductedWrong(b, paid, r) ==
    [credits |-> Rounded(b.credits * r - paid, r),
     cents |-> b.cents - paid, used |-> b.used]
Deducted(b, paid, r) ==
    [credits |-> Rounded(b.credits * r - paid, r),
     cents |-> b.cents - paid, used |-> b.used + paid]
SetBalance(w, b) ==
    wallet' = [wallet EXCEPT ![w].credits = b.credits, ![w].cents = b.cents,
                             ![w].used = b.used]

Smaller(a, b) == IF a <= b THEN a ELSE b
\* ORDER BY priority, created_at
FirstWrong(S) == CHOOSE w \in S : \A v \in S : w >= v
First(S) == CHOOSE w \in S : \A v \in S : w <= v

-----------------------------------------------------------------------------
(* Decisions, each preceded by the mistake that a property notices. *)

\* get_active_by_customer_id: active and not expired
UsableWrong(w) == wallet[w].st # "none"
Usable(w) == wallet[w].st = "active" /\ w \notin expired

ConsumableWrong(b, left) == left
Consumable(b, left) == Smaller(b.cents, left)

\* the credits are checked, the cents follow
Sufficient(w, c) == wallet[w].credits >= c

-----------------------------------------------------------------------------
At(s, step) == proc[s].pc = step
Begin(s, record) ==
    /\ At(s, "idle")
    /\ calls < MaxCalls
    /\ calls' = calls + 1
    /\ overlap' = (overlap \/ \E t \in Servers \ {s} : ~At(t, "idle"))
    /\ proc' = [proc EXCEPT ![s] = record]
Goto(s, record) == proc' = [proc EXCEPT ![s] = record]
history == <<overlap, calls, crashes>>

(* POST /wallets: the row, then a top-up with the initial credits *)

Create(s, w, c) ==
    /\ wallet[w].st = "none"
    /\ wallet' = [wallet EXCEPT ![w].st = "active"]
    /\ Begin(s, IF c > 0 THEN [Idle EXCEPT !.pc = "inbound", !.w = w, !.amt = c]
                         ELSE Idle)
    /\ UNCHANGED <<expired, ledger, crashes>>

(* POST /wallets/{id}/top_up, also of the portal: the transaction, then the *)
(* balance                                                                  *)

TopUp(s, w, c) ==
    /\ wallet[w].st = "active"
    /\ Begin(s, [Idle EXCEPT !.pc = "inbound", !.w = w, !.amt = c])
    /\ UNCHANGED <<wallet, expired, ledger, crashes>>

Inbound(s) ==
    LET r == proc[s] IN
    /\ At(s, "inbound")
    /\ ledger' = [ledger EXCEPT ![r.w].in = @ + r.amt * Rate[r.w]]
    /\ Goto(s, [r EXCEPT !.pc = "add", !.snap = BalanceOf(r.w)])
    /\ UNCHANGED <<wallet, expired, history>>

Add(s) ==
    LET r == proc[s] IN
    /\ At(s, "add")
    /\ SetBalance(r.w, Added(r.snap, r.amt, Rate[r.w]))
    /\ Goto(s, Idle)
    /\ UNCHANGED <<expired, ledger, history>>

(* consume_credits: the usable wallets are listed once; for each that has a *)
(* balance, the deduction, the transaction and the settlement follow        *)

NextWallet(todo, left) ==
    LET rich == {w \in todo : wallet[w].cents > 0} IN
    IF left = 0 \/ rich = {} THEN Idle
    ELSE [Idle EXCEPT !.pc = "deduct", !.w = First(rich), !.left = left,
                      !.todo = {w \in todo : w > First(rich)},
                      !.snap = BalanceOf(First(rich))]

Consume(s, bill) ==
    /\ Begin(s, NextWallet({w \in Wallets : Usable(w)}, bill))
    /\ UNCHANGED <<wallet, expired, ledger, crashes>>

Deduct(s) ==
    LET r == proc[s]
        paid == Consumable(r.snap, r.left)
    IN
    /\ At(s, "deduct")
    /\ SetBalance(r.w, Deducted(r.snap, paid, Rate[r.w]))
    /\ Goto(s, [r EXCEPT !.pc = "outbound", !.amt = paid])
    /\ UNCHANGED <<expired, ledger, history>>

Outbound(s) ==
    LET r == proc[s] IN
    /\ At(s, "outbound")
    /\ ledger' = [ledger EXCEPT ![r.w].out = @ + r.amt]
    /\ Goto(s, [r EXCEPT !.pc = "settle"])
    /\ UNCHANGED <<wallet, expired, history>>

Settle(s) ==
    LET r == proc[s] IN
    /\ At(s, "settle")
    /\ ledger' = [ledger EXCEPT ![r.w].settled = @ + r.amt]
    /\ Goto(s, NextWallet(r.todo, r.left - r.amt))
    /\ UNCHANGED <<wallet, expired, history>>

-----------------------------------------------------------------------------
(* POST /wallets/transfer: deduction, outbound transaction, addition and    *)
(* inbound transaction                                                      *)

Transfer(s, w, v, c) ==
    /\ w # v
    /\ wallet[w].st = "active" /\ wallet[v].st = "active"
    /\ Sufficient(w, c)
    /\ Begin(s, [Idle EXCEPT !.pc = "take", !.w = w, !.to = v, !.amt = c,
                             !.snap = BalanceOf(w)])
    /\ UNCHANGED <<wallet, expired, ledger, crashes>>

Take(s) ==
    LET r == proc[s] IN
    /\ At(s, "take")
    /\ SetBalance(r.w, Deducted(r.snap, r.amt * Rate[r.w], Rate[r.w]))
    /\ Goto(s, [r EXCEPT !.pc = "sent"])
    /\ UNCHANGED <<expired, ledger, history>>

Sent(s) ==
    LET r == proc[s] IN
    /\ At(s, "sent")
    /\ ledger' = [ledger EXCEPT ![r.w].out = @ + r.amt * Rate[r.w]]
    /\ Goto(s, [r EXCEPT !.pc = "give", !.snap = BalanceOf(r.to)])
    /\ UNCHANGED <<wallet, expired, history>>

Give(s) ==
    LET r == proc[s] IN
    /\ At(s, "give")
    /\ SetBalance(r.to, Added(r.snap, r.amt, Rate[r.to]))
    /\ Goto(s, [r EXCEPT !.pc = "received"])
    /\ UNCHANGED <<expired, ledger, history>>

Received(s) ==
    LET r == proc[s] IN
    /\ At(s, "received")
    /\ ledger' = [ledger EXCEPT ![r.to].in = @ + r.amt * Rate[r.to]]
    /\ Goto(s, Idle)
    /\ UNCHANGED <<wallet, expired, history>>

(* DELETE /wallets/{id} *)

Terminate(s, w) ==
    /\ wallet[w].st = "active"
    /\ wallet' = [wallet EXCEPT ![w].st = "terminated"]
    /\ Begin(s, Idle)
    /\ UNCHANGED <<expired, ledger, crashes>>

Expire(w) ==
    /\ w \notin expired
    /\ expired' = expired \cup {w}
    /\ UNCHANGED <<wallet, ledger, proc, history>>

Crash(s) ==
    /\ ~At(s, "idle")
    /\ crashes < MaxCrashes
    /\ crashes' = crashes + 1
    /\ Goto(s, Idle)
    /\ UNCHANGED <<wallet, expired, ledger, overlap, calls>>

-----------------------------------------------------------------------------

Init ==
    /\ wallet = [w \in Wallets |->
                    [st |-> "none", credits |-> 0, cents |-> 0, used |-> 0]]
    /\ expired = {}
    /\ ledger = [w \in Wallets |-> [in |-> 0, out |-> 0, settled |-> 0]]
    /\ proc = [s \in Servers |-> Idle]
    /\ overlap = FALSE /\ calls = 0 /\ crashes = 0

Arrive(s) ==
    \/ \E w \in Wallets :
         \/ \E c \in Credits \cup {0} : Create(s, w, c)
         \/ \E c \in Credits : TopUp(s, w, c)
         \/ \E v \in Wallets, c \in Credits : Transfer(s, w, v, c)
         \/ Terminate(s, w)
    \/ \E bill \in Bills : Consume(s, bill)

Continue(s) ==
    \/ Inbound(s) \/ Add(s)
    \/ Deduct(s) \/ Outbound(s) \/ Settle(s)
    \/ Take(s) \/ Sent(s) \/ Give(s) \/ Received(s)

\* Nobody has to call: a deadlock is an operation that cannot go on.
Rest == (\A s \in Servers : At(s, "idle")) /\ UNCHANGED vars

Next ==
    \/ Rest
    \/ \E s \in Servers : Arrive(s) \/ Continue(s) \/ Crash(s)
    \/ \E w \in Wallets : Expire(w)

Spec == Init /\ [][Next]_vars

-----------------------------------------------------------------------------
(* Properties *)

\* Every variable holds values of its type.
TypeOK ==
    /\ wallet \in [Wallets -> Row]
    /\ expired \subseteq Wallets
    /\ ledger \in [Wallets -> Totals]
    /\ proc \in [Servers -> Process]
    /\ overlap \in BOOLEAN
    /\ calls \in 0..MaxCalls /\ crashes \in 0..MaxCrashes

Level(b, w) == Rate[w] = 1 => b.cents >= 0 /\ b.credits = b.cents

\* No wallet at the default rate of one is ever overdrawn, by any number of
\* processes that overwrite each other's balances and crash: what a process
\* takes is bounded by the balance it writes over, though transfers look at the
\* credits and invoices at the cents.
NeverOverdrawn == \A w \in Wallets : Level(wallet[w], w)

(* The inductive invariant behind it: what a process has read is such a     *)
(* balance, and covers what the process is about to take.                   *)
Covered(r) ==
    /\ r.pc = "deduct" => r.snap.cents > 0 /\ r.left > 0
    /\ r.pc \in {"deduct", "take", "add"} => Level(r.snap, r.w)
    /\ r.pc = "give" => Level(r.snap, r.to)
    /\ r.pc = "take" => r.snap.credits >= r.amt
    /\ r.pc \in {"outbound", "settle"} => r.amt <= r.left

IInv == TypeOK /\ NeverOverdrawn /\ \A s \in Servers : Covered(proc[s])

\* While operations do not overlap, a crash loses the customer's money and
\* never the shop's: what was settled was entered in the ledger before, and
\* what was entered as outbound was taken before.
TakenBeforeSettled == ~overlap => \A w \in Wallets :
    /\ ledger[w].settled <= ledger[w].out
    /\ ledger[w].out <= wallet[w].used

\* While operations do not overlap, an invoice takes from a wallet only when all
\* usable wallets before it are empty.
PriorityRespected ==
    [][\A s \in Servers : ~overlap /\ Deduct(s) =>
          \A w \in Wallets : w < proc[s].w /\ Usable(w) => wallet[w].cents <= 0]_vars

\* While operations do not overlap, neither a bill, a top-up nor the other end of
\* a transfer touches a terminated wallet.
TerminatedIsFrozen ==
    [][\A w \in Wallets : ~overlap /\ wallet[w].st = "terminated"
          => wallet'[w] = wallet[w] /\ ledger'[w] = ledger[w]]_vars

\* wallet_service.py:101, a top-up "creates an inbound transaction and updates
\* balance": while nothing overlaps and nothing has crashed, the balance is that
\* of the transactions, which is what the balance timeline shows.
BalanceIsLedgers ==
    (~overlap /\ crashes = 0 /\ \A s \in Servers : At(s, "idle")) =>
        \A w \in Wallets : wallet[w].cents = ledger[w].in - ledger[w].out

(* The inductive invariant behind these, while operations do not overlap:   *)
(* one process runs at most, what it has read is what the rows are, and the *)
(* books are balanced but for what it is about to enter.                    *)
Alone == \A s, t \in Servers : ~At(s, "idle") /\ ~At(t, "idle") => s = t

Current(s) ==
    LET r == proc[s] IN
    /\ r.pc \in {"add", "deduct", "take"} => r.snap = BalanceOf(r.w)
    /\ r.pc = "give" => r.snap = BalanceOf(r.to)
    /\ r.pc # "idle" => wallet[r.w].st = "active"
    /\ r.pc \in {"take", "sent", "give", "received"} =>
         r.w # r.to /\ wallet[r.to].st = "active"

\* What a bill has passed by is empty or cannot be used.
PassedBy(todo) == \A w \in Wallets \ todo : Usable(w) => wallet[w].cents <= 0
Billing(s) ==
    LET r == proc[s] IN
    r.pc \in {"deduct", "outbound", "settle"} =>
        /\ \A w \in r.todo : wallet[w].st = "active" /\ r.w < w
        /\ PassedBy(r.todo \cup {r.w})
        /\ r.pc # "deduct" /\ r.amt < r.left => wallet[r.w].cents <= 0

\* By how much a process has made a balance differ from the transactions.
Entering(s, w) ==
    LET r == proc[s] IN
    CASE r.pc \in {"add", "sent"} /\ r.w = w -> -(r.amt * Rate[w])
      [] r.pc = "outbound" /\ r.w = w -> -r.amt
      [] r.pc = "received" /\ r.to = w -> r.amt * Rate[w]
      [] OTHER -> 0
Books(s) ==
    \A w \in Wallets : wallet[w].cents = ledger[w].in - ledger[w].out + Entering(s, w)
Entered(s) ==
    LET r == proc[s] IN
    /\ crashes = 0 /\ r.pc # "idle" => Books(s)
    /\ r.pc \in {"outbound", "sent"} =>
         ledger[r.w].out <= wallet[r.w].used + Entering(s, r.w)
    /\ r.pc = "settle" => ledger[r.w].settled + r.amt <= ledger[r.w].out

SerialInv ==
    /\ ~overlap => Alone /\ \A s \in Servers : Current(s) /\ Billing(s) /\ Entered(s)
    /\ TakenBeforeSettled
    /\ BalanceIsLedgers

=============================================================================
