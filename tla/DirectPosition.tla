--------------------------- MODULE DirectPosition ---------------------------
(***************************************************************************)
(* What the scheduler does with a direct position of the H40 cycle: the    *)
(* take-profit half of OrderMonitor.run_once with PositionManager and      *)
(* TakeProfitManager, one symbol, one transaction at a time.               *)
(*                                                                         *)
(* V3.2.2 refuses new direct BUYs (V322_DIRECT_SIGNAL_DISABLED), so the    *)
(* cycles here are those an earlier version left: a BUY is pending, with   *)
(* the take-profit orders canceled, and from then on only the scheduler's  *)
(* thread, the broker, and a crash act. The broker's orders are kept next  *)
(* to the rows; prices only decide what fills. The four buying stages      *)
(* behave alike: HOLDING is any of them, PARTIAL is PARTIAL_TP_1.          *)
(***************************************************************************)
EXTENDS Integers, Sequences, FiniteSets, Functions

CONSTANTS
    MaxQty,        \* bound on the shares held or bought at the beginning
    Fraction,      \* take_profit.tp1_fraction as <<numerator, denominator>>
    RemainderExit, \* take_profit.remainder_exit.enabled
    MaxOrders,     \* bound on order rows
    MaxFaults      \* bound on crashes, failed placements and failed price requests

ASSUME PositionAssumption ==
    /\ MaxQty \in Nat \ {0} /\ MaxOrders \in Nat \ {0} /\ MaxFaults \in Nat
    /\ Fraction[1] \in Nat /\ Fraction[2] \in Nat \ {0} /\ Fraction[1] <= Fraction[2]
    /\ RemainderExit \in BOOLEAN

VARIABLES
    pos,       \* the row of positions: [state, qty]
    plan,      \* the latest row of tp_plans: [active, target, filled], by leg
    rows,      \* orders, each with what the broker knows of it
    hold,      \* shares the broker holds
    m,         \* where run_once is, and its local variables
    overfilled,\* the broker has reported a fill of shares it did not hold
    crashes, failures

vars == <<pos, plan, rows, hold, m, overfilled, crashes, failures>>

Legs == {"TP1", "TP2"}
Least(x, y) == IF x <= y THEN x ELSE y
Greatest(x, y) == IF x >= y THEN x ELSE y

\* calculate_take_profit: the first leg is the fraction rounded up, the second the rest.
TP1Quantity(n) == Greatest(1, Least(n, (n * Fraction[1] + Fraction[2] - 1) \div Fraction[2]))
Target(n) == [leg \in Legs |-> IF leg = "TP1" THEN TP1Quantity(n) ELSE n - TP1Quantity(n)]

NewPlan(n) == [active |-> TRUE, target |-> Target(n), filled |-> [leg \in Legs |-> 0]]
NoPlan == [active |-> FALSE, target |-> [leg \in Legs |-> 0], filled |-> [leg \in Legs |-> 0]]

\* Mutant of Left: what the leg has sold already is offered again.
LeftOfTarget(leg) == plan.target[leg]

\* What the leg of a plan has left to sell.
Left(leg) == plan.target[leg] - plan.filled[leg]

Row(purpose, n, base) ==
    [purpose |-> purpose, qty |-> n, base |-> base, status |-> "OPEN", filled |-> 0,
     applied |-> FALSE, bStatus |-> "OPEN", bFilled |-> 0]

Idle == [pc |-> "idle", todo |-> {}, cur |-> 0, delta |-> 0, fills |-> {}, job |-> "pass",
         tp1 |-> FALSE, recover |-> FALSE, exit |-> FALSE]

\* execute has canceled the take-profit orders, moved the position to its waiting
\* state and submitted a BUY of b shares.
Waiting(b, n, base, p) ==
    /\ pos = [state |-> "WAITING", qty |-> n]
    /\ plan = p
    /\ rows = <<Row("BUY", b, base)>>
    /\ hold = n

Init ==
    /\ \E b \in 1..MaxQty :
          \/ Waiting(b, 0, "EMPTY", NoPlan)
          \/ \E n \in 1..MaxQty : Waiting(b, n, "HOLDING", NewPlan(n))
          \/ \E n \in 2..MaxQty :
                /\ Target(n)["TP2"] > 0
                /\ Waiting(b, Target(n)["TP2"], "PARTIAL",
                           [NewPlan(n) EXCEPT !.filled["TP1"] = Target(n)["TP1"]])
    /\ m = Idle /\ overfilled = FALSE
    /\ crashes = 0 /\ failures = 0

-----------------------------------------------------------------------------
(* Control *)

At(pc) == m.pc = pc
Goto(pc) == m' = [m EXCEPT !.pc = pc]

\* run_once returns, or an exception leaves it: what it had still to do is forgotten.
Leave == m' = Idle

\* Open rows with a broker id; an UNKNOWN row never got one.
OpenRow(i) == rows[i].status = "OPEN"
TakeProfits == {i \in DOMAIN rows : rows[i].purpose # "BUY"}
OpenTakeProfits == {i \in TakeProfits : OpenRow(i)}

\* repository.open_orders() returns UNKNOWN rows too.
Listed(i) == rows[i].status \in {"OPEN", "UNKNOWN"}

\* Mutant of Stored: an order that has ended counts as filled.
StoredAsFilled(row) ==
    [row EXCEPT !.status = row.bStatus, !.filled = IF row.bStatus = "OPEN" THEN row.bFilled ELSE row.qty]

\* refresh_order stores what the broker says.
Stored(row) == [row EXCEPT !.status = row.bStatus, !.filled = row.bFilled]

\* broker.cancel_order: nothing happens to an order that has ended.
Canceled(row) == [row EXCEPT !.bStatus = IF @ = "OPEN" THEN "CANCELED" ELSE @]

-----------------------------------------------------------------------------
(* The pass over the open rows *)

Begin ==
    /\ At("idle")
    /\ \E i \in DOMAIN rows : Listed(i)
    /\ m' = [Idle EXCEPT !.pc = "rows", !.todo = {i \in DOMAIN rows : OpenRow(i)}]
    /\ UNCHANGED <<pos, plan, rows, hold, overfilled, crashes, failures>>

RefreshRow(i) ==
    /\ At("rows") /\ i \in m.todo /\ rows[i].bStatus # "GONE"
    /\ rows' = [rows EXCEPT ![i] = Stored(@)]
    /\ m' = [m EXCEPT !.pc = IF rows[i].purpose = "BUY" THEN "buy" ELSE "sell",
                      !.todo = @ \ {i}, !.cur = i, !.job = "pass"]
    /\ UNCHANGED <<pos, plan, hold, overfilled, crashes, failures>>

\* _handle_missing_broker_order
MissingRow(i) ==
    /\ At("rows") /\ i \in m.todo /\ rows[i].bStatus = "GONE"
    /\ pos' = [pos EXCEPT !.state = "SAFE"]
    /\ m' = [m EXCEPT !.todo = @ \ {i}]
    /\ UNCHANGED <<plan, rows, hold, overfilled, crashes, failures>>

\* The price that get_order asks for is not available.
RefreshFails ==
    /\ At("rows") /\ \E i \in m.todo : rows[i].bStatus = "OPEN"
    /\ crashes + failures < MaxFaults
    /\ failures' = failures + 1
    /\ Leave
    /\ UNCHANGED <<pos, plan, rows, hold, overfilled, crashes>>

\* The dry-run broker finds fewer shares than the order would sell, and raises, but only
\* after it has recorded the fill (_fill_remaining_order, _apply_fill).
Overfills(i) ==
    /\ At("rows") /\ i \in m.todo
    /\ rows[i].purpose # "BUY" /\ rows[i].bStatus = "OPEN" /\ rows[i].qty - rows[i].bFilled > hold
    /\ rows' = [rows EXCEPT ![i].bStatus = "FILLED", ![i].bFilled = rows[i].qty]
    /\ overfilled' = TRUE
    /\ Leave
    /\ UNCHANGED <<pos, plan, hold, crashes, failures>>

-----------------------------------------------------------------------------
(* A BUY *)

BuyGoesOn ==
    /\ At("buy") /\ rows[m.cur].status = "OPEN"
    /\ Goto("rows")
    /\ UNCHANGED <<pos, plan, rows, hold, overfilled, crashes, failures>>

\* Mutant of CancelLateBuy: only a BUY without any fill is late.
CancelLateBuyIfUnfilled ==
    /\ At("buy") /\ rows[m.cur].status = "OPEN" /\ rows[m.cur].filled = 0
    /\ rows' = [rows EXCEPT ![m.cur] = Stored(Canceled(@))]
    /\ UNCHANGED <<pos, plan, hold, m, overfilled, crashes, failures>>

\* buy_fill_timeout_seconds have passed: the rest is canceled, and the row refreshed.
CancelLateBuy ==
    /\ At("buy") /\ rows[m.cur].status = "OPEN" /\ rows[m.cur].filled > 0
    /\ rows' = [rows EXCEPT ![m.cur] = Stored(Canceled(@))]
    /\ UNCHANGED <<pos, plan, hold, m, overfilled, crashes, failures>>

BuyEnded == rows[m.cur].status \in {"FILLED", "CANCELED"}

\* Mutant of BoughtPlan: the plan is made for the shares just bought.
BoughtPlanOfFill == NewPlan(rows[m.cur].filled)

BoughtPlan == NewPlan(pos.qty + rows[m.cur].filled)

\* apply_buy_fill: the plan of the whole position replaces the active one ...
CreatePlan ==
    /\ At("buy") /\ BuyEnded /\ rows[m.cur].filled > 0
    /\ IF pos.state = "WAITING"
       THEN plan' = BoughtPlan /\ Goto("bought")
       ELSE Leave /\ UNCHANGED plan
    /\ UNCHANGED <<pos, rows, hold, overfilled, crashes, failures>>

\* ... then the position moves ...
AddShares ==
    /\ At("bought")
    /\ pos' = [state |-> "HOLDING", qty |-> pos.qty + rows[m.cur].filled]
    /\ Goto("markBuy")
    /\ UNCHANGED <<plan, rows, hold, overfilled, crashes, failures>>

MarkApplied(i) == rows' = [rows EXCEPT ![i].applied = TRUE]

\* ... then the row is marked, and take-profit orders follow.
MarkBuy ==
    /\ At("markBuy")
    /\ MarkApplied(m.cur)
    /\ Goto("placeTP1")
    /\ UNCHANGED <<pos, plan, hold, overfilled, crashes, failures>>

\* _restore_unfilled_buy: back to the state before, from whatever state.
RestoreUnfilled ==
    /\ At("buy") /\ BuyEnded /\ rows[m.cur].filled = 0
    /\ pos' = [pos EXCEPT !.state = rows[m.cur].base]
    /\ Goto("markUnfilled")
    /\ UNCHANGED <<plan, rows, hold, overfilled, crashes, failures>>

MarkUnfilled ==
    /\ At("markUnfilled")
    /\ MarkApplied(m.cur)
    /\ Goto(IF rows[m.cur].base # "EMPTY" /\ plan.active THEN "placeTP1" ELSE "rows")
    /\ UNCHANGED <<pos, plan, hold, overfilled, crashes, failures>>

-----------------------------------------------------------------------------
(* A take-profit fill (apply_sell_fill) *)

Leg(i) == IF rows[i].purpose = "TP1" THEN "TP1" ELSE "TP2"

\* Mutant of LegFilled: an order placed again for the rest counts from zero.
LegFilledOfOrder(i) == Least(plan.target[Leg(i)], rows[i].filled)

\* The leg's cumulative fill: an order for less than the target continues earlier ones.
LegFilled(i) ==
    LET target == plan.target[Leg(i)]
    IN  Least(target, Greatest(0, target - rows[i].qty) + rows[i].filled)

\* Mutant of Delta: the cumulative fill is taken out of the position every time.
DeltaCumulative(i) == LegFilled(i)

Delta(i) == LegFilled(i) - plan.filled[Leg(i)]

\* Mutant of Unfinished: an order that sold something is not placed again.
UnfinishedIfUnfilled(i) == rows[i].filled = 0

\* An order that ended has not sold the whole leg.
Unfinished(i) == rows[i].filled < plan.target[Leg(i)]

\* Where a fill that was applied, or none, leads in the pass ...
AfterSell(i) ==
    LET canceled == rows[i].status = "CANCELED"
    IN  [m EXCEPT !.pc = "rows",
                  !.tp1 = @ \/ (/\ rows[i].purpose = "TP1" /\ rows[i].filled > 0
                                /\ pos'.state = "PARTIAL"),
                  !.exit = @ \/ (canceled /\ rows[i].purpose = "EXIT"),
                  !.recover = @ \/ (/\ canceled /\ rows[i].purpose # "EXIT" /\ plan'.active
                                    /\ Unfinished(i))]

\* ... or in the settlement of all take-profit orders.
Applied(i) == IF m.job = "pass" THEN AfterSell(i) ELSE [m EXCEPT !.pc = "credit"]

NothingSold ==
    /\ At("sell") /\ (rows[m.cur].filled = 0 \/ rows[m.cur].applied)
    /\ UNCHANGED <<pos, plan, rows, hold, overfilled, crashes, failures>>
    /\ m' = Applied(m.cur)

\* update_tp_fills, or one of the checks before it raises.
FillPlan ==
    /\ At("sell") /\ rows[m.cur].filled > 0 /\ ~rows[m.cur].applied
    /\ IF plan.active /\ Delta(m.cur) \in 0..pos.qty
       THEN /\ plan' = [plan EXCEPT !.filled[Leg(m.cur)] = LegFilled(m.cur)]
            /\ m' = [m EXCEPT !.pc = "sold", !.delta = Delta(m.cur)]
       ELSE Leave /\ UNCHANGED plan
    /\ UNCHANGED <<pos, rows, hold, overfilled, crashes, failures>>

StateAfterSell(n) ==
    IF rows[m.cur].purpose = "TP1" /\ Left("TP1") > 0 THEN pos.state
    ELSE IF n = 0 THEN "EMPTY"
    ELSE IF rows[m.cur].purpose = "TP1" THEN "PARTIAL" ELSE pos.state

\* transition_position
RemoveShares ==
    /\ At("sold")
    /\ pos' = [state |-> StateAfterSell(pos.qty - m.delta), qty |-> pos.qty - m.delta]
    /\ Goto("markSell")
    /\ UNCHANGED <<plan, rows, hold, overfilled, crashes, failures>>

\* The plan of a closed position is inactive, and a row that has ended is marked: two
\* transactions that a crash between them leaves to nobody, for the row has ended.
MarkSell ==
    /\ At("markSell")
    /\ plan' = [plan EXCEPT !.active = pos.state # "EMPTY" /\ @]
    /\ rows' = [rows EXCEPT ![m.cur].applied = rows[m.cur].status # "OPEN"]
    /\ UNCHANGED <<pos, hold, overfilled, crashes, failures>>
    /\ m' = Applied(m.cur)

-----------------------------------------------------------------------------
(* After the pass: what it has noticed, one job after the other *)

PassDone ==
    /\ At("rows") /\ m.todo = {}
    /\ Goto("jobs")
    /\ UNCHANGED <<pos, plan, rows, hold, overfilled, crashes, failures>>

\* Every job begins with cancel_open_tp_orders.
Settle(job) ==
    m' = [m EXCEPT !.pc = "settle", !.job = job, !.todo = OpenTakeProfits,
                   !.tp1 = FALSE, !.recover = @ /\ job = "exit", !.exit = @ /\ job # "exit"]

\* _refresh_tp2_after_tp1; a recovery that is due as well is dropped.
RefreshAfterTP1 ==
    /\ At("jobs") /\ m.tp1
    /\ Settle("tp1")
    /\ UNCHANGED <<pos, plan, rows, hold, overfilled, crashes, failures>>

\* _recover_standard_tp
RecoverTakeProfits ==
    /\ At("jobs") /\ ~m.tp1 /\ m.recover
    /\ Settle("recover")
    /\ UNCHANGED <<pos, plan, rows, hold, overfilled, crashes, failures>>

\* _recover_remainder_exit
RecoverExit ==
    /\ At("jobs") /\ ~m.tp1 /\ ~m.recover /\ m.exit
    /\ Settle("exit")
    /\ UNCHANGED <<pos, plan, rows, hold, overfilled, crashes, failures>>

NoJob == ~m.tp1 /\ ~m.recover /\ ~m.exit

\* _switch_due_remainder_exits: enough sessions have passed since the first leg. An
\* order whose placement failed counts for it, though the settlement skips its row.
SwitchToExit ==
    /\ At("jobs") /\ NoJob /\ m.job # "switch" /\ RemainderExit
    /\ pos.state = "PARTIAL" /\ pos.qty > 0
    /\ \A i \in TakeProfits : Listed(i) => rows[i].purpose # "EXIT"
    /\ \E i \in TakeProfits : Listed(i) /\ rows[i].purpose = "TP2"
    /\ Settle("switch")
    /\ UNCHANGED <<pos, plan, rows, hold, overfilled, crashes, failures>>

Done ==
    /\ At("jobs") /\ NoJob
    /\ Leave
    /\ UNCHANGED <<pos, plan, rows, hold, overfilled, crashes, failures>>

SettledRow(row) == [Stored(Canceled(row)) EXCEPT !.applied = @ \/ row.bFilled = 0]

\* One order: canceled, refreshed, and marked when it has sold nothing. The refresh of
\* an order that the broker does not know raises.
SettleRow(i) ==
    /\ At("settle") /\ i \in m.todo
    /\ IF rows[i].bStatus = "GONE"
       THEN Leave /\ UNCHANGED rows
       ELSE /\ rows' = [rows EXCEPT ![i] = SettledRow(@)]
            /\ m' = [m EXCEPT !.todo = @ \ {i},
                              !.fills = IF rows[i].bFilled > 0 THEN @ \cup {i} ELSE @]
    /\ UNCHANGED <<pos, plan, hold, overfilled, crashes, failures>>

Settled ==
    /\ At("settle") /\ m.todo = {}
    /\ Goto("credit")
    /\ UNCHANGED <<pos, plan, rows, hold, overfilled, crashes, failures>>

CreditFill(i) ==
    /\ At("credit") /\ i \in m.fills
    /\ m' = [m EXCEPT !.pc = "sell", !.cur = i, !.fills = @ \ {i}]
    /\ UNCHANGED <<pos, plan, rows, hold, overfilled, crashes, failures>>

Remainder == pos.state = "PARTIAL" /\ pos.qty > 0 /\ plan.active

\* What is left is offered again, as the job says.
Replace ==
    /\ At("credit") /\ m.fills = {}
    /\ Goto(IF m.job = "recover" /\ pos.qty > 0 /\ plan.active THEN "placeTP1"
            ELSE IF m.job = "tp1" /\ Remainder THEN "placeTP1"
            ELSE IF m.job \in {"exit", "switch"} /\ Remainder THEN "placeExit"
            ELSE "jobs")
    /\ UNCHANGED <<pos, plan, rows, hold, overfilled, crashes, failures>>

-----------------------------------------------------------------------------
(* Placing take-profit orders *)

Placed == IF m.job = "pass" THEN "rows" ELSE "jobs"

\* OrderManager.submit: the order is open, or filled at once (the market is above its
\* price), or place_order raises and the row is UNKNOWN: no price, or too few shares.
Submit(purpose, n, next) ==
    /\ Len(rows) < MaxOrders
    /\ LET row == Row(purpose, n, "EMPTY")
       IN  \/ /\ rows' = Append(rows, row)
              /\ Goto(next)
              /\ UNCHANGED <<hold, overfilled, failures>>
           \/ /\ n <= hold
              /\ rows' = Append(rows, Stored([row EXCEPT !.bStatus = "FILLED", !.bFilled = n]))
              /\ hold' = hold - n
              /\ Goto(next)
              /\ UNCHANGED <<overfilled, failures>>
           \/ /\ IF n > hold THEN overfilled' = TRUE /\ UNCHANGED failures
                 ELSE /\ crashes + failures < MaxFaults
                      /\ failures' = failures + 1 /\ UNCHANGED overfilled
              /\ rows' = Append(rows, [row EXCEPT !.status = "UNKNOWN", !.bStatus = "GONE"])
              /\ Leave
              /\ UNCHANGED hold

\* place_orders: one order per leg that has something left.
PlaceTP1 ==
    /\ At("placeTP1")
    /\ IF Left("TP1") > 0 THEN Submit("TP1", Left("TP1"), "placeTP2")
       ELSE Goto("placeTP2") /\ UNCHANGED <<rows, hold, overfilled, failures>>
    /\ UNCHANGED <<pos, plan, crashes>>

PlaceTP2 ==
    /\ At("placeTP2")
    /\ IF Left("TP2") > 0 THEN Submit("TP2", Left("TP2"), Placed)
       ELSE Goto(Placed) /\ UNCHANGED <<rows, hold, overfilled, failures>>
    /\ UNCHANGED <<pos, plan, crashes>>

\* place_remainder_exit: one order for the whole position.
PlaceExit ==
    /\ At("placeExit")
    /\ Submit("EXIT", pos.qty, "jobs")
    /\ UNCHANGED <<pos, plan, crashes>>

-----------------------------------------------------------------------------
(* The broker, reconciliation, and the process *)

\* An order fills, in part or to the end; a SELL of more than is held raises instead.
BrokerFills(i, n) ==
    /\ rows[i].bStatus = "OPEN" /\ n \in 1..(rows[i].qty - rows[i].bFilled)
    /\ IF rows[i].purpose = "BUY" THEN hold' = hold + n ELSE n <= hold /\ hold' = hold - n
    /\ rows' = [rows EXCEPT ![i].bFilled = @ + n,
                            ![i].bStatus = IF rows[i].bFilled + n = rows[i].qty THEN "FILLED" ELSE @]
    /\ UNCHANGED <<pos, plan, m, overfilled, crashes, failures>>

\* An order ends at the broker: its day is over, or its owner cancels it.
BrokerCancels(i) ==
    /\ rows[i].bStatus = "OPEN"
    /\ rows' = [rows EXCEPT ![i] = Canceled(@)]
    /\ UNCHANGED <<pos, plan, hold, m, overfilled, crashes, failures>>

\* ReconciliationService.run: to V3.2.2 every direct position is an error. The bot
\* calls it at the start and in every round; here it may come between any two passes.
Reconcile ==
    /\ At("idle")
    /\ \/ pos.qty > 0 \/ pos.state # "EMPTY" \/ plan.active \/ hold # pos.qty
       \/ \E i \in DOMAIN rows : rows[i].status = "UNKNOWN"
    /\ pos' = [pos EXCEPT !.state = "SAFE"]
    /\ UNCHANGED <<plan, rows, hold, m, overfilled, crashes, failures>>

\* The broker of a new process holds what the ledger says, and knows the open rows
\* that have not filled (restore_dry_run_holdings, restore_dry_run_orders).
Restored(row) ==
    [row EXCEPT !.bStatus = IF row.status # "OPEN" THEN @
                            ELSE IF row.filled = 0 THEN "OPEN" ELSE "GONE",
                !.bFilled = row.filled]

Crash ==
    /\ crashes + failures < MaxFaults
    /\ crashes' = crashes + 1
    /\ hold' = pos.qty
    /\ rows' = [i \in DOMAIN rows |-> Restored(rows[i])]
    /\ m' = Idle
    /\ UNCHANGED <<pos, plan, overfilled, failures>>

-----------------------------------------------------------------------------
Step ==
    \/ \E i \in m.todo : RefreshRow(i) \/ MissingRow(i) \/ SettleRow(i)
    \/ BuyGoesOn \/ CancelLateBuy \/ CreatePlan \/ AddShares \/ MarkBuy
    \/ RestoreUnfilled \/ MarkUnfilled
    \/ NothingSold \/ FillPlan \/ RemoveShares \/ MarkSell
    \/ PassDone \/ RefreshAfterTP1 \/ RecoverTakeProfits \/ RecoverExit \/ SwitchToExit \/ Done
    \/ Settled \/ (\E i \in m.fills : CreditFill(i)) \/ Replace
    \/ PlaceTP1 \/ PlaceTP2 \/ PlaceExit

Next ==
    \/ Begin \/ Step \/ RefreshFails \/ \E i \in m.todo : Overfills(i)
    \/ \E i \in DOMAIN rows : BrokerCancels(i) \/ \E n \in 1..rows[i].qty : BrokerFills(i, n)
    \/ Reconcile \/ Crash

Spec == Init /\ [][Next]_vars

\* The scheduler's loop comes back and a pass goes on; a partly filled BUY is
\* canceled once its time is over.
Fairness == WF_vars(Begin) /\ WF_vars(Step) /\ SF_vars(CancelLateBuy)

FairSpec == Spec /\ Fairness

-----------------------------------------------------------------------------
(* Properties *)

\* The types: neither the position nor a leg of its plan ever becomes negative, though
\* a fill is cumulative and an order may be placed again for a rest.
TypeOK ==
    /\ pos \in [state : {"EMPTY", "WAITING", "HOLDING", "PARTIAL", "SAFE"}, qty : 0..2 * MaxQty]
    /\ plan.active \in BOOLEAN
    /\ \A leg \in Legs : plan.filled[leg] \in 0..plan.target[leg] /\ plan.target[leg] \in Nat
    /\ Len(rows) <= MaxOrders
    /\ \A i \in DOMAIN rows :
          /\ rows[i].purpose \in {"BUY", "TP1", "TP2", "EXIT"}
          /\ rows[i].status \in {"OPEN", "FILLED", "CANCELED", "UNKNOWN"}
          /\ rows[i].bStatus \in {"OPEN", "FILLED", "CANCELED", "GONE"}
          /\ rows[i].filled \in 0..rows[i].bFilled /\ rows[i].bFilled \in 0..rows[i].qty
    /\ hold \in 0..2 * MaxQty
    /\ m.delta \in 0..2 * MaxQty /\ overfilled \in BOOLEAN

\* The take-profit orders that are open never offer more than the position has, whatever
\* is canceled, filled, placed again, or lost in between.
SellsWithinPosition ==
    SumFunction([i \in OpenTakeProfits |-> rows[i].qty - rows[i].filled]) <= pos.qty

UnappliedBuys == {i \in DOMAIN rows : rows[i].purpose = "BUY" /\ ~rows[i].applied}

\* No share is taken out of the position twice: it never falls below what the broker
\* holds, apart from BUY fills that are still to come and fills the broker made up.
NoShareSoldTwice ==
    overfilled \/ hold <= pos.qty + SumFunction([i \in UnappliedBuys |-> rows[i].bFilled])

\* Between two passes the position is what the broker holds, but for fills the pass has
\* not seen and those of orders that were filled when they were placed, which no pass
\* ever looks at (place_orders drops the receipt, open_orders the row).
PositionDiffersByFillsInFlight ==
    At("idle") /\ crashes = 0 /\ ~overfilled
        => pos.qty + SumFunction([i \in UnappliedBuys |-> rows[i].bFilled])
             = hold + SumFunction([i \in {j \in TakeProfits : ~rows[j].applied} |->
                                      IF OpenRow(i) THEN rows[i].bFilled - rows[i].filled
                                      ELSE rows[i].bFilled])

\* Position and plan are stored in two transactions, and agree between any two passes
\* of a process that has not been interrupted.
PositionIsWhatThePlanHasLeft ==
    At("idle") /\ crashes = 0
        => pos.qty = IF plan.active THEN Left("TP1") + Left("TP2") ELSE 0

\* After a pass, every share the broker holds for a position is under a take-profit
\* order, unless an earlier pass failed or the position is in SAFE_MODE: orders that
\* end without the bot are placed again, through partial fills of either leg.
EveryShareIsOffered ==
    At("idle") /\ crashes + failures = 0 /\ ~overfilled /\ pos.state \in {"HOLDING", "PARTIAL"}
        => hold <= SumFunction([i \in OpenTakeProfits |-> rows[i].qty - rows[i].bFilled])

\* A BUY that has begun to fill, or has ended, does not keep the position waiting
\* (buy_fill_timeout_seconds), unless a pass failed.
BuySettles ==
    []<>(\/ pos.state # "WAITING" \/ crashes + failures > 0 \/ overfilled
         \/ rows[1].status = "OPEN" /\ rows[1].filled = 0)
=============================================================================
