---------------------------- MODULE PaidCallBudget ----------------------------
(* The durable paid-call budget that every actor of an issue shares            *)
(* (src/src/main/adapters/sqlite-paid-call-budget.ts).  A row is reserved      *)
(* under an idempotency key before the provider is called, and is charged the  *)
(* whole allowance until a receipt settles it at what the call really cost.    *)
(* Reserve and settle are each one BEGIN IMMEDIATE transaction.  The three     *)
(* dimensions of the policy (dollars, input tokens, output tokens) are limited *)
(* by the same comparisons; one amount stands for them.                        *)
EXTENDS Integers, FiniteSets, Functions

CONSTANTS
    MaxPaidCalls,   \* policy.maxPaidCalls
    MaxCharge,      \* policy.maxUsd, maxInputTokens and maxOutputTokens
    Allowance       \* PaidCallAllowance: what one call reserves

ASSUME BudgetAssumption ==
    /\ MaxPaidCalls \in Nat /\ MaxCharge \in Nat
    /\ Allowance \in Nat \ {0}

VARIABLE
    rows            \* paid_call_reservations, by idempotency key

Active == [status |-> "active", amount |-> Allowance]
\* mutant: the settled amount is what differs from the reservation
SettledByDifference(cost) == [status |-> "settled", amount |-> cost - Allowance]
Settled(cost) == [status |-> "settled", amount |-> cost]
Row == [status: {"active", "settled"}, amount: Nat]

(* snapshotInTransaction *)
PaidCalls == Cardinality(DOMAIN rows)
Charged(table) == SumFunction([k \in DOMAIN table |-> table[k].amount])

With(table, k, value) ==
    [x \in DOMAIN table \cup {k} |-> IF x = k THEN value ELSE table[x]]

\* mutant: what the new call reserves is not counted
AdmitsUncounted(k) ==
    /\ k \notin DOMAIN rows
    /\ PaidCalls + 1 <= MaxPaidCalls
    /\ Charged(rows) <= MaxCharge

(* reserve: a key is reserved once, and only within every limit. *)
Admits(k) ==
    /\ k \notin DOMAIN rows
    /\ PaidCalls + 1 <= MaxPaidCalls
    /\ Charged(rows) + Allowance <= MaxCharge

Reserve(k) == Admits(k) /\ rows' = With(rows, k, Active)

(* settle, for a complete receipt of an active row.  The receipt is committed  *)
(* even when it exceeds the reservation or the budget; the caller is told.     *)
Settle(k, cost) ==
    /\ k \in DOMAIN rows
    /\ rows[k].status = "active"
    /\ rows' = With(rows, k, Settled(cost))

Exceeds(k, cost) ==
    \/ cost > Allowance
    \/ Charged(With(rows, k, Settled(cost))) > MaxCharge

BudgetInit == rows = << >>
-------------------------------------------------------------------------------
CallsAreBounded == PaidCalls <= MaxPaidCalls

(* Beyond what single calls overran their own reservation, the budget holds.  *)
ChargeIsBounded ==
    SumFunction([k \in DOMAIN rows |-> IF rows[k].amount <= Allowance THEN rows[k].amount
                                       ELSE Allowance]) <= MaxCharge
===============================================================================
