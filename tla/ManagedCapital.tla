--------------------------- MODULE ManagedCapital ---------------------------
(***************************************************************************)
(* The money of the strategy (managed_account.py): the cash that is        *)
(* reconstructed from the `orders` rows, the cost basis of the core ledger,*)
(* the HWM75 risk budget, and the transaction that reserves a BUY against  *)
(* all of them, while fills, cancellations, the ledger and a restart go on *)
(* in other threads and the dry-run broker keeps a cash balance of its own.*)
(*                                                                         *)
(* A share costs a whole number of price units; one unit is Scale amounts  *)
(* of money and its fee is FeeRate amounts. An action is one database      *)
(* transaction or one broker call. Which thread performs it, and that no   *)
(* fill is lost or applied twice, is the subject of OrderLedger.           *)
(***************************************************************************)
EXTENDS Integers, FiniteSets, Functions

CONSTANTS
    Buys, Sells,     \* client order ids
    Symbols,
    Symbol,          \* [Buys \cup Sells -> Symbols]
    Qty,             \* [Buys \cup Sells -> shares ordered]
    Limit,           \* [Buys \cup Sells -> limit price]
    Prices,          \* market prices at which the broker may fill
    Close,           \* [Symbols -> price at the close of the completed session]
    Scale, FeeRate,  \* amounts per price unit, and the fee on it
    InitialCapital,  \* V322Policy.initial_capital
    PriorProfit,     \* realized before the modelled orders: cash beyond the budget
    PartialFills,    \* TRUE: a quote may fill a part of an order; FALSE: DryRunBroker
    MaxCrashes       \* bound on the crashes of one behaviour

Orders == Buys \cup Sells

ASSUME CapitalAssumption ==
    /\ Buys \cap Sells = {}
    /\ IsFiniteSet(Buys) /\ IsFiniteSet(Sells) /\ IsFiniteSet(Symbols)
    /\ Symbol \in [Orders -> Symbols]
    /\ Qty \in [Orders -> Nat \ {0}] /\ Limit \in [Orders -> Nat \ {0}]
    /\ Prices \subseteq Nat \ {0} /\ Close \in [Symbols -> Nat]
    /\ Scale \in Nat \ {0} /\ FeeRate \in 0..Scale
    /\ InitialCapital \in Nat /\ PriorProfit \in Nat
    /\ PartialFills \in BOOLEAN /\ MaxCrashes \in Nat

VARIABLES
    \* SQLite
    status, filled, gross,      \* orders: status, filled_qty, filled_qty * average price
    applied, appliedGross,      \* core_fill_progress
    qty, basis,                 \* core_positions: shares and cost_basis (in amounts)
    highWater, budget,          \* system_state: HIGH_WATER_KEY, RISK_BUDGET_KEY
    \* the dry-run broker
    bStatus, bFilled, bGross, buyingPower,
    \* threads
    pc,          \* of the handler that executes a BUY or the run that sells
    seenPower,   \* broker.get_buying_power as read before the reservation
    seenCash,    \* the cash an allocation run has read, or -1
    phase, crashes

dbVars == <<status, filled, gross, applied, appliedGross, qty, basis>>
hwmVars == <<highWater, budget>>
brokerVars == <<bStatus, bFilled, bGross, buyingPower>>
threadVars == <<pc, seenPower, seenCash>>
vars == <<dbVars, hwmVars, brokerVars, threadVars, phase, crashes>>

Least(x, y) == IF x <= y THEN x ELSE y
Greatest(x, y) == IF x >= y THEN x ELSE y

-----------------------------------------------------------------------------
(* The figures of managed_account.py *)

\* _raw_managed_cash_from_connection: every fill of every row, with its fee.
RawCash ==
    InitialCapital + PriorProfit
      - SumFunction([o \in Buys |-> (Scale + FeeRate) * gross[o]])
      + SumFunction([o \in Sells |-> (Scale - FeeRate) * gross[o]])

\* _managed_cost_basis_from_connection, of the core ledger: positions of the retired
\* direct strategy and SGOV (IdleCash, off in strategy.yaml) are not held here.
Invested == SumFunction(basis)

RowOpen(o) == status[o] \in {"CREATED", "PENDING", "UNKNOWN"}

\* What the rest of a BUY costs at its limit, with the fee.
Unfilled(o) == (Scale + FeeRate) * (Qty[o] - filled[o]) * Limit[o]

\* Mutant of Reserved: rows without a broker id reserve nothing.
ReservedOfPending ==
    SumFunction([o \in Buys |-> IF status[o] = "PENDING" THEN Unfilled(o) ELSE 0])

\* _reserved_open_buy_from_connection: what the open BUYs can still cost.
Reserved ==
    SumFunction([o \in Buys |-> IF RowOpen(o) THEN Unfilled(o) ELSE 0])

Required(o) == (Scale + FeeRate) * Qty[o] * Limit[o]

Available(power) ==
    Greatest(0, Least(power, Least(RawCash - Reserved, budget - Invested - Reserved)))

\* hwm_risk_budget: a quarter of every gain over the initial capital stays out (a
\* fraction of an amount is dropped).
HwmRiskBudget(high, equity) ==
    Greatest(0, Least(equity,
        InitialCapital + (3 * Greatest(0, high - InitialCapital)) \div 4))

Init ==
    /\ status = [o \in Orders |-> "NONE"]
    /\ filled = [o \in Orders |-> 0] /\ gross = [o \in Orders |-> 0]
    /\ applied = [o \in Orders |-> 0] /\ appliedGross = [o \in Orders |-> 0]
    /\ qty = [s \in Symbols |-> 0] /\ basis = [s \in Symbols |-> 0]
    /\ highWater = InitialCapital + PriorProfit
    /\ budget = HwmRiskBudget(highWater, InitialCapital + PriorProfit)
    /\ bStatus = [o \in Orders |-> "NONE"]
    /\ bFilled = [o \in Orders |-> 0] /\ bGross = [o \in Orders |-> 0]
    /\ buyingPower = InitialCapital + PriorProfit
    /\ pc = [o \in Orders |-> "idle"]
    /\ seenPower = [o \in Orders |-> 0]
    /\ seenCash = -1
    /\ phase = "up" /\ crashes = 0

-----------------------------------------------------------------------------
(* Reserving and placing an order *)

\* reserve_buy_order_with_managed_cash asks the broker before its transaction.
ReadBuyingPower(o) ==
    /\ phase = "up" /\ o \in Buys
    /\ pc[o] = "idle" /\ status[o] = "NONE"
    /\ pc' = [pc EXCEPT ![o] = "reserve"]
    /\ seenPower' = [seenPower EXCEPT ![o] = buyingPower]
    /\ UNCHANGED <<dbVars, hwmVars, brokerVars, seenCash, phase, crashes>>

\* The transaction: the row is inserted only when the money is there, otherwise
\* it raises and the signal can be approved again.
ReserveBuy(o) ==
    /\ phase = "up" /\ pc[o] = "reserve"
    /\ IF Required(o) <= Available(seenPower[o])
       THEN /\ status' = [status EXCEPT ![o] = "CREATED"]
            /\ pc' = [pc EXCEPT ![o] = "place"]
       ELSE /\ pc' = [pc EXCEPT ![o] = "idle"]
            /\ UNCHANGED status
    /\ UNCHANGED <<filled, gross, applied, appliedGross, qty, basis, hwmVars, brokerVars,
                   seenPower, seenCash, phase, crashes>>

\* _sell_core: a SELL of shares the ledger has, reserved without a money check. An
\* allocation run sells only when no SELL is open, and each symbol once.
ReserveSell(o) ==
    /\ phase = "up" /\ o \in Sells
    /\ status[o] = "NONE" /\ Qty[o] <= qty[Symbol[o]]
    /\ \A p \in Sells : Symbol[p] = Symbol[o] => ~RowOpen(p)
    /\ status' = [status EXCEPT ![o] = "CREATED"]
    /\ pc' = [pc EXCEPT ![o] = "place"]
    /\ UNCHANGED <<filled, gross, applied, appliedGross, qty, basis, hwmVars, brokerVars,
                   seenPower, seenCash, phase, crashes>>

PlaceOrder(o) ==
    /\ phase = "up" /\ pc[o] = "place"
    /\ bStatus' = [bStatus EXCEPT ![o] = "PENDING"]
    /\ pc' = [pc EXCEPT ![o] = "placed"]
    /\ UNCHANGED <<dbVars, hwmVars, bFilled, bGross, buyingPower, seenPower, seenCash,
                   phase, crashes>>

\* place_order raises: the row becomes UNKNOWN, which is still open and reserved.
PlaceOrderFails(o) ==
    /\ phase = "up" /\ pc[o] = "place"
    /\ status' = [status EXCEPT ![o] = "UNKNOWN"]
    /\ pc' = [pc EXCEPT ![o] = "idle"]
    /\ UNCHANGED <<filled, gross, applied, appliedGross, qty, basis, hwmVars, brokerVars,
                   seenPower, seenCash, phase, crashes>>

-----------------------------------------------------------------------------
(* The broker *)

\* How many shares a quote may fill.
Fillable(o) == IF PartialFills THEN 1..(Qty[o] - bFilled[o]) ELSE {Qty[o] - bFilled[o]}

Crosses(o, p) == IF o \in Buys THEN p <= Limit[o] ELSE p >= Limit[o]

\* Mutant of BrokerFills: a market price beyond the limit fills the order.
BrokerFillsAtMarket(o, n, p) ==
    /\ phase = "up" /\ bStatus[o] = "PENDING"
    /\ n \in Fillable(o) /\ p \in Prices
    /\ bFilled' = [bFilled EXCEPT ![o] = @ + n]
    /\ bGross' = [bGross EXCEPT ![o] = @ + n * p]
    /\ bStatus' = [bStatus EXCEPT ![o] = IF bFilled'[o] = Qty[o] THEN "DONE" ELSE @]
    /\ buyingPower' = IF o \in Buys THEN buyingPower - Scale * n * p
                                    ELSE buyingPower + Scale * n * p
    /\ UNCHANGED <<dbVars, hwmVars, threadVars, phase, crashes>>

\* _apply_fill: n more shares at price p; the broker's cash moves without a fee.
BrokerFills(o, n, p) ==
    /\ phase = "up" /\ bStatus[o] = "PENDING"
    /\ n \in Fillable(o) /\ p \in Prices /\ Crosses(o, p)
    /\ bFilled' = [bFilled EXCEPT ![o] = @ + n]
    /\ bGross' = [bGross EXCEPT ![o] = @ + n * p]
    /\ bStatus' = [bStatus EXCEPT ![o] = IF bFilled'[o] = Qty[o] THEN "DONE" ELSE @]
    /\ buyingPower' = IF o \in Buys THEN buyingPower - Scale * n * p
                                    ELSE buyingPower + Scale * n * p
    /\ UNCHANGED <<dbVars, hwmVars, threadVars, phase, crashes>>

\* The monitor cancels an expired BUY, the settle loop any open order.
CancelOrder(o) ==
    /\ phase = "up" /\ bStatus[o] = "PENDING"
    /\ bStatus' = [bStatus EXCEPT ![o] = "DONE"]
    /\ UNCHANGED <<dbVars, hwmVars, bFilled, bGross, buyingPower, threadVars, phase, crashes>>

-----------------------------------------------------------------------------
(* The ledger *)

\* update_order with the broker's answer (submit, refresh_order).
UpdateOrder(o) ==
    /\ phase = "up" /\ bStatus[o] # "NONE" /\ RowOpen(o) /\ status[o] # "UNKNOWN"
    /\ status' = [status EXCEPT ![o] = bStatus[o]]
    /\ filled' = [filled EXCEPT ![o] = bFilled[o]]
    /\ gross' = [gross EXCEPT ![o] = bGross[o]]
    /\ pc' = [pc EXCEPT ![o] = "idle"]
    /\ UNCHANGED <<applied, appliedGross, qty, basis, hwmVars, brokerVars, seenPower, seenCash,
                   phase, crashes>>

\* Mutant of ApplyCoreFill: a SELL takes the cumulative proceeds off the cost basis.
ApplyCoreFillAtProceeds(o) ==
    LET s == Symbol[o]
        n == filled[o] - applied[o]
    IN  /\ n > 0
        /\ applied' = [applied EXCEPT ![o] = filled[o]]
        /\ appliedGross' = [appliedGross EXCEPT ![o] = gross[o]]
        /\ IF o \in Buys
           THEN /\ qty' = [qty EXCEPT ![s] = @ + n]
                /\ basis' = [basis EXCEPT ![s] = @ + Scale * (gross[o] - appliedGross[o])]
           ELSE /\ n <= qty[s]
                /\ qty' = [qty EXCEPT ![s] = @ - n]
                /\ basis' = [basis EXCEPT ![s] = @ - Scale * (gross[o] - appliedGross[o])]
        /\ UNCHANGED <<status, filled, gross, hwmVars, brokerVars, threadVars, phase, crashes>>

\* The average price is a Decimal: what it makes of the cost of the rest is the whole
\* amount below or above.
Rounded(x, y) == {x \div y, (x + y - 1) \div y}

\* apply_core_fill: cost basis grows by the notional of the increment, or shrinks
\* at the average cost; cost basis carries no fee.
ApplyCoreFill(o) ==
    LET s == Symbol[o]
        n == filled[o] - applied[o]
    IN  /\ n > 0
        /\ applied' = [applied EXCEPT ![o] = filled[o]]
        /\ appliedGross' = [appliedGross EXCEPT ![o] = gross[o]]
        /\ IF o \in Buys
           THEN /\ qty' = [qty EXCEPT ![s] = @ + n]
                /\ basis' = [basis EXCEPT ![s] = @ + Scale * (gross[o] - appliedGross[o])]
           ELSE /\ n <= qty[s]
                /\ qty' = [qty EXCEPT ![s] = @ - n]
                /\ \E c \in Rounded(basis[s] * (qty[s] - n), qty[s]) :
                      basis' = [basis EXCEPT ![s] = c]
        /\ UNCHANGED <<status, filled, gross, hwmVars, brokerVars, threadVars, phase, crashes>>

-----------------------------------------------------------------------------
(* The completed-session equity (run_allocation, when the session is new) *)

MarketValue == SumFunction([s \in Symbols |-> (Scale - FeeRate) * qty[s] * Close[s]])

\* _completed_marked_equity reads the cash in one transaction ...
ReadCash ==
    /\ phase = "up" /\ seenCash = -1
    /\ seenCash' = RawCash
    /\ UNCHANGED <<dbVars, hwmVars, brokerVars, pc, seenPower, phase, crashes>>

\* ... the shares in the next, and record_v322_equity stores the outcome.
RecordEquity ==
    /\ phase = "up" /\ seenCash # -1
    /\ LET equity == Greatest(0, seenCash + MarketValue)
       IN  /\ highWater' = Greatest(Greatest(highWater, equity), InitialCapital)
           /\ budget' = HwmRiskBudget(highWater', equity)
    /\ seenCash' = -1
    /\ UNCHANGED <<dbVars, brokerVars, pc, seenPower, phase, crashes>>

-----------------------------------------------------------------------------
(* Crash and start-up *)

Crash ==
    /\ phase = "up" /\ crashes < MaxCrashes
    /\ phase' = "recover" /\ crashes' = crashes + 1
    /\ bStatus' = [o \in Orders |-> "NONE"]
    /\ bFilled' = [o \in Orders |-> 0] /\ bGross' = [o \in Orders |-> 0]
    /\ buyingPower' = 0
    /\ pc' = [o \in Orders |-> "idle"]
    /\ seenPower' = [o \in Orders |-> 0]
    /\ seenCash' = -1
    /\ UNCHANGED <<dbVars, hwmVars>>

\* Mutant of Restore: the broker starts again with the configured capital.
RestoreFullCapital ==
    /\ phase = "recover"
    /\ \A o \in Orders : filled[o] = applied[o]
    /\ phase' = "up"
    /\ bStatus' = [o \in Orders |->
                      IF status[o] = "PENDING" /\ filled[o] = 0 THEN "PENDING" ELSE "NONE"]
    /\ buyingPower' = InitialCapital
    /\ UNCHANGED <<dbVars, hwmVars, bFilled, bGross, threadVars, crashes>>

\* Once every fill is applied: restore_dry_run_holdings gives the broker the
\* reconstructed cash, restore_dry_run_orders the open rows without a fill.
Restore ==
    /\ phase = "recover"
    /\ \A o \in Orders : filled[o] = applied[o]
    /\ phase' = "up"
    /\ bStatus' = [o \in Orders |->
                      IF status[o] = "PENDING" /\ filled[o] = 0 THEN "PENDING" ELSE "NONE"]
    /\ buyingPower' = Greatest(0, RawCash)
    /\ UNCHANGED <<dbVars, hwmVars, bFilled, bGross, threadVars, crashes>>

-----------------------------------------------------------------------------
Next ==
    \/ \E o \in Orders :
          \/ ReadBuyingPower(o) \/ ReserveBuy(o) \/ ReserveSell(o) \/ PlaceOrder(o) \/ PlaceOrderFails(o)
          \/ CancelOrder(o) \/ UpdateOrder(o) \/ ApplyCoreFill(o)
          \/ \E n \in 1..Qty[o], p \in Prices : BrokerFills(o, n, p)
    \/ ReadCash \/ RecordEquity
    \/ Crash \/ Restore

Spec == Init /\ [][Next]_vars

-----------------------------------------------------------------------------
(* Properties *)

TypeOK ==
    /\ status \in [Orders -> {"NONE", "CREATED", "PENDING", "UNKNOWN", "DONE"}]
    /\ bStatus \in [Orders -> {"NONE", "PENDING", "DONE"}]
    /\ \A o \in Orders :
          /\ applied[o] \in 0..filled[o] /\ filled[o] \in 0..Qty[o] /\ bFilled[o] \in 0..Qty[o]
          /\ gross[o] \in Nat /\ bGross[o] \in Nat /\ appliedGross[o] \in 0..gross[o]
    /\ qty \in [Symbols -> Nat] /\ basis \in [Symbols -> Nat]
    /\ highWater \in Nat /\ budget \in Nat /\ buyingPower \in Int
    /\ pc \in [Orders -> {"idle", "reserve", "place", "placed"}]
    /\ phase \in {"up", "recover"}

\* Two approvals executed at once never spend the same money: whatever has been
\* filled, at the worst price every open BUY can still be paid in full from the
\* strategy's own cash.
CashCoversReservations == RawCash - Reserved >= 0

\* Shares the broker can still buy: placed orders and rows about to be placed.
BrokerCommitment ==
    SumFunction([o \in Buys |-> IF bStatus[o] = "PENDING" \/ pc[o] = "place"
                                THEN Scale * (Qty[o] - bFilled[o]) * Limit[o] ELSE 0])

\* The broker's own cash, which the reservation reads before its transaction and
\* a restart rebuilds from the rows, also suffices for every order it may fill.
BrokerCashCoversOrders == phase = "up" => buyingPower >= BrokerCommitment

\* What the strategy has at risk: cost of the shares in the ledger and of fills
\* not yet applied, and all that open BUYs can still cost.
Exposure ==
    Invested + Reserved
      + Scale * SumFunction([o \in Buys |-> gross[o] - appliedGross[o]])

\* docs/infra/SECURITY.md:61: a new BUY does not exceed the risk budget.
NewBuyWithinBudget ==
    [][\A o \in Buys : status[o] = "NONE" /\ status'[o] = "CREATED" => Exposure' <= budget]_vars
=============================================================================
