---------------------------- MODULE OrderLedger ----------------------------
(***************************************************************************)
(* The life of a core allocation order: the rows of the `orders` table,    *)
(* the core ledger (`core_positions` and `core_fill_progress`) and the     *)
(* in-memory dry-run broker, driven by the threads of the bot:             *)
(*                                                                         *)
(*   - OrderManager.submit and refresh_order,                              *)
(*   - OrderMonitor.run_once for core orders,                              *)
(*   - PortfolioService._cancel_open_core_orders ("settle") and _sell_core,*)
(*   - the start-up sequence of bot.main after a crash.                    *)
(*                                                                         *)
(* Telegram handlers and the scheduler run in different threads and share  *)
(* no lock beyond one database transaction, so an action is one database   *)
(* transaction or one broker call; everything a thread remembers between   *)
(* two of them is in pc, op, job, rStatus, rFilled, prior and todo.        *)
(* Fill prices and fees are left out: an order is its share counts.        *)
(***************************************************************************)
EXTENDS Integers, FiniteSets, Functions

CONSTANTS
    Orders,        \* client order ids
    Symbols,       \* traded symbols
    Workers,       \* telebot handler threads
    Scheduler,     \* the scheduler thread
    Side,          \* [Orders -> {"BUY", "SELL"}]
    Symbol,        \* [Orders -> Symbols]
    Qty,           \* [Orders -> shares ordered]
    InitialQty,    \* [Symbols -> shares in the core ledger at first start]
    PartialFills,  \* TRUE: a quote may fill a part of an order; FALSE: DryRunBroker
    MaxCrashes,    \* bound on the crashes of one behaviour
    NoOrder        \* the job of a thread that has none

Threads == Workers \cup {Scheduler}

OpenStatuses == {"CREATED", "SUBMITTED", "PENDING", "PARTIAL_FILLED",
                 "PENDING_CANCEL", "PENDING_REPLACE", "UNKNOWN"}
TerminalStatuses == {"FILLED", "CANCELED", "REJECTED", "REPLACED"}
AllStatuses == OpenStatuses \cup TerminalStatuses

\* A symbol has one SELL id: it is derived from the generation of the target,
\* and one generation is modelled (Allocation models their succession).
ASSUME OrdersAssumption ==
    /\ NoOrder \notin Orders /\ IsFiniteSet(Orders)
    /\ Scheduler \notin Workers
    /\ Side \in [Orders -> {"BUY", "SELL"}]
    /\ Symbol \in [Orders -> Symbols]
    /\ Qty \in [Orders -> Nat \ {0}]
    /\ InitialQty \in [Symbols -> Nat]
    /\ PartialFills \in BOOLEAN
    /\ MaxCrashes \in Nat
    /\ \A o, p \in Orders :
          Side[o] = "SELL" /\ Side[p] = "SELL" /\ Symbol[o] = Symbol[p] => o = p

VARIABLES
    \* SQLite: survives a crash
    status,     \* orders.status, "NONE" when there is no row
    filled,     \* orders.filled_qty
    brokerId,   \* orders.broker_order_id is set
    applied,    \* core_fill_progress.applied_filled_qty
    core,       \* core_positions.qty
    \* the dry-run broker: lost in a crash
    bStatus,    \* status of the broker's order, "NONE" when it has none
    bFilled,    \* its cumulative filled quantity
    held,       \* DryRunBroker.holdings
    \* the process
    phase,      \* "up", or "recover" from a crash to the end of start-up
    safe,       \* SAFE_MODE of the portfolio: sticky
    crashes,
    \* threads: lost in a crash
    pc, op, job, rStatus, rFilled, prior, todo

dbVars == <<status, filled, brokerId, applied, core>>
brokerVars == <<bStatus, bFilled, held>>
procVars == <<phase, safe, crashes>>
threadVars == <<pc, op, job, rStatus, rFilled, prior, todo>>
vars == <<dbVars, brokerVars, procVars, threadVars>>

Open(o) == status[o] \in OpenStatuses
BrokerOpen(o) == bStatus[o] \in {"PENDING", "PARTIAL_FILLED"}

Init ==
    /\ status = [o \in Orders |-> "NONE"]
    /\ filled = [o \in Orders |-> 0]
    /\ brokerId = [o \in Orders |-> FALSE]
    /\ applied = [o \in Orders |-> 0]
    /\ core = InitialQty
    /\ bStatus = [o \in Orders |-> "NONE"]
    /\ bFilled = [o \in Orders |-> 0]
    /\ held = InitialQty
    /\ phase = "up" /\ safe = FALSE /\ crashes = 0
    /\ pc = [t \in Threads |-> "idle"]
    /\ op = [t \in Threads |-> "none"]
    /\ job = [t \in Threads |-> NoOrder]
    /\ rStatus = [t \in Threads |-> "NONE"]
    /\ rFilled = [t \in Threads |-> 0]
    /\ prior = [t \in Threads |-> [o \in Orders |-> 0]]
    /\ todo = [t \in Threads |-> {}]

-----------------------------------------------------------------------------
(* Threads *)

Goto(t, where) == pc' = [pc EXCEPT ![t] = where]

\* The thread goes on with the same order and the same locals.
Continue(t, where) == Goto(t, where) /\ UNCHANGED <<op, job, rStatus, rFilled, prior, todo>>

\* The handler returns or its exception reaches the caller: locals are gone.
Finish(t) ==
    /\ Goto(t, "idle")
    /\ op' = [op EXCEPT ![t] = "none"]
    /\ job' = [job EXCEPT ![t] = NoOrder]
    /\ rStatus' = [rStatus EXCEPT ![t] = "NONE"]
    /\ rFilled' = [rFilled EXCEPT ![t] = 0]
    /\ prior' = [prior EXCEPT ![t] = [o \in Orders |-> 0]]
    /\ todo' = [todo EXCEPT ![t] = {}]

\* A loop over open_orders() goes on with its next row.
NextRow(t, loop) ==
    /\ Goto(t, "scan")
    /\ op' = [op EXCEPT ![t] = loop]
    /\ job' = [job EXCEPT ![t] = NoOrder]
    /\ rStatus' = [rStatus EXCEPT ![t] = "NONE"]
    /\ rFilled' = [rFilled EXCEPT ![t] = 0]
    /\ UNCHANGED <<prior, todo>>

\* What a thread does once the receipt of its job is stored and applied.
Resume(t) ==
    \/ op[t] = "submit"  /\ Finish(t)
    \/ op[t] = "monitor" /\ Continue(t, "after")
    \/ op[t] = "expire"  /\ NextRow(t, "monitor")
    \/ op[t] \in {"settle", "resettle"} /\ NextRow(t, "settle")

\* A SELL whose receipt is final with shares left: SAFE_MODE for every caller.
IncompleteSell(t) ==
    /\ Side[job[t]] = "SELL"
    /\ rStatus[t] \in TerminalStatuses
    /\ rFilled[t] < Qty[job[t]]

\* Mutant of HasNewFill: only a complete fill is applied.
HasNewFillWhenDone(t, n) == rStatus[t] = "FILLED" /\ n > prior[t][job[t]]

\* The receipt's cumulative quantity calls for apply_core_fill: the monitor
\* compares it with the quantity of the row it read, the others with zero.
HasNewFill(t, n) ==
    IF op[t] \in {"monitor", "expire"} THEN n > prior[t][job[t]] ELSE n > 0

-----------------------------------------------------------------------------
(* The dry-run broker (broker.py) *)

FillLevels(o) ==
    {bFilled[o], Qty[o]} \cup (IF PartialFills THEN bFilled[o]..Qty[o] ELSE {})

FilledStatus(o, n) ==
    IF n = Qty[o] THEN "FILLED" ELSE IF n = 0 THEN "PENDING" ELSE "PARTIAL_FILLED"

\* Mutant of BrokerFill: the cumulative fill moves the shares again.
BrokerFillCumulative(o, n) ==
    /\ bFilled' = [bFilled EXCEPT ![o] = n]
    /\ bStatus' = [bStatus EXCEPT ![o] = FilledStatus(o, n)]
    /\ held' = [held EXCEPT ![Symbol[o]] = IF Side[o] = "BUY" THEN @ + n ELSE @ - n]

\* The order's cumulative fill becomes n and only the increment moves shares.
BrokerFill(o, n) ==
    /\ bFilled' = [bFilled EXCEPT ![o] = n]
    /\ bStatus' = [bStatus EXCEPT ![o] = FilledStatus(o, n)]
    /\ held' = [held EXCEPT ![Symbol[o]] =
                   IF Side[o] = "BUY" THEN @ + (n - bFilled[o]) ELSE @ - (n - bFilled[o])]

-----------------------------------------------------------------------------
(* The ledger (database.py) *)

\* Mutant of UpdateAllowed: the last receipt wins.
UpdateAlways(o, st, n) == n <= Qty[o]

\* update_order's checks: a terminal status is final, fills never shrink.
UpdateAllowed(o, st, n) ==
    /\ status[o] \in TerminalStatuses => st = status[o]
    /\ n >= filled[o]
    /\ n <= Qty[o]

\* The increment of the row over its progress row.
FillDelta(o) == filled[o] - applied[o]

Oversold(o) == Side[o] = "SELL" /\ FillDelta(o) > core[Symbol[o]]

\* Mutant of ApplyFill: the cumulative quantity is added on every call.
ApplyFillCumulative(o) ==
    /\ applied' = [applied EXCEPT ![o] = filled[o]]
    /\ core' = [core EXCEPT ![Symbol[o]] =
                   IF Side[o] = "BUY" THEN @ + filled[o] ELSE @ - filled[o]]
    /\ UNCHANGED <<status, filled, brokerId>>

\* apply_core_fill: position and progress row move together, in one transaction.
ApplyFill(o) ==
    /\ applied' = [applied EXCEPT ![o] = filled[o]]
    /\ core' = [core EXCEPT ![Symbol[o]] =
                   IF Side[o] = "BUY" THEN @ + FillDelta(o) ELSE @ - FillDelta(o)]
    /\ UNCHANGED <<status, filled, brokerId>>

-----------------------------------------------------------------------------
(* OrderManager.submit and its callers *)

StartSubmit(t, o) ==
    /\ Goto(t, "lookup")
    /\ op' = [op EXCEPT ![t] = "submit"]
    /\ job' = [job EXCEPT ![t] = o]
    /\ UNCHANGED <<dbVars, brokerVars, procVars, rStatus, rFilled, prior, todo>>

\* AllocationTradingService._execute_core_buy: the id is built from the approval,
\* which is consumed once, so no other thread submits the same BUY. (What makes
\* the approval executable is in CoreBuying: here any BUY may be executed.)
ExecuteBuy(t, o) ==
    /\ phase = "up" /\ pc[t] = "idle" /\ t \in Workers
    /\ Side[o] = "BUY" /\ status[o] = "NONE"
    /\ \A u \in Threads : job[u] # o
    /\ StartSubmit(t, o)

\* The SELL pass of run_allocation and _sell_core: the scheduler, or a worker
\* that confirmed an onboarding stage. Open SELLs are looked for once, before the
\* loop over the symbols: the SELL of another symbol may be open by now.
DecideSell(t, o) ==
    /\ phase = "up" /\ pc[t] = "idle" /\ ~safe
    /\ Side[o] = "SELL"
    /\ ~Open(o)
    /\ Qty[o] <= core[Symbol[o]]
    /\ StartSubmit(t, o)

\* get_order_by_client_id: no row, a row the broker knows (kept: its local
\* receipt is what submit falls back to), or a row whose broker id is not stored
\* (its local receipt is returned and reports no fill).
LookupOrder(t) ==
    /\ phase = "up" /\ pc[t] = "lookup"
    /\ \/ /\ status[job[t]] = "NONE"
          /\ Continue(t, "reserve")
          /\ UNCHANGED procVars
       \/ /\ status[job[t]] # "NONE" /\ brokerId[job[t]]
          /\ Goto(t, "fetch")
          /\ rStatus' = [rStatus EXCEPT ![t] = status[job[t]]]
          /\ rFilled' = [rFilled EXCEPT ![t] = filled[job[t]]]
          /\ UNCHANGED <<procVars, op, job, prior, todo>>
       \/ /\ status[job[t]] # "NONE" /\ ~brokerId[job[t]]
          /\ Finish(t)
          /\ safe' = (safe \/ status[job[t]] = "UNKNOWN")
          /\ UNCHANGED <<phase, crashes>>
    /\ UNCHANGED <<dbVars, brokerVars>>

\* INSERT OR IGNORE INTO orders; the loser raises, which for a SELL is SAFE_MODE.
ReserveOrder(t) ==
    /\ phase = "up" /\ pc[t] = "reserve"
    /\ IF status[job[t]] = "NONE"
       THEN /\ status' = [status EXCEPT ![job[t]] = "CREATED"]
            /\ Continue(t, "place")
            /\ UNCHANGED procVars
       ELSE /\ Finish(t)
            /\ safe' = TRUE
            /\ UNCHANGED <<status, phase, crashes>>
    /\ UNCHANGED <<filled, brokerId, applied, core, brokerVars>>

\* broker.place_order stores the order and fills it when the quote crosses.
PlaceOrder(t) ==
    /\ phase = "up" /\ pc[t] = "place"
    /\ \E n \in FillLevels(job[t]) :
          /\ BrokerFill(job[t], n)
          /\ rFilled' = [rFilled EXCEPT ![t] = n]
    /\ rStatus' = [rStatus EXCEPT ![t] = bStatus'[job[t]]]
    /\ Goto(t, "record")
    /\ UNCHANGED <<dbVars, procVars, op, job, prior, todo>>

\* place_order raises before it stores anything (no quote): the row becomes
\* UNKNOWN and both callers enter SAFE_MODE.
PlaceOrderFails(t) ==
    /\ phase = "up" /\ pc[t] = "place"
    /\ status' = [status EXCEPT ![job[t]] = "UNKNOWN"]
    /\ safe' = TRUE
    /\ Finish(t)
    /\ UNCHANGED <<filled, brokerId, applied, core, brokerVars, phase, crashes>>

\* update_order with the receipt of place_order, which carries the broker id.
RecordPlacement(t) ==
    /\ phase = "up" /\ pc[t] = "record"
    /\ UpdateAllowed(job[t], rStatus[t], rFilled[t])
    /\ status' = [status EXCEPT ![job[t]] = rStatus[t]]
    /\ filled' = [filled EXCEPT ![job[t]] = rFilled[t]]
    /\ brokerId' = [brokerId EXCEPT ![job[t]] = TRUE]
    /\ IF rFilled[t] > 0
       THEN Continue(t, "apply")
       ELSE Finish(t)
    /\ UNCHANGED <<applied, core, brokerVars, procVars>>

-----------------------------------------------------------------------------
(* Refreshing an order: OrderManager.refresh_order, and submit of a known id *)

\* MarketDataDryRunBroker.get_order fills a pending order when the quote crosses.
FetchOrder(t) ==
    /\ phase = "up" /\ pc[t] = "fetch" /\ bStatus[job[t]] # "NONE"
    /\ IF BrokerOpen(job[t])
       THEN \E n \in FillLevels(job[t]) :
               /\ BrokerFill(job[t], n)
               /\ rFilled' = [rFilled EXCEPT ![t] = n]
       ELSE /\ rFilled' = [rFilled EXCEPT ![t] = bFilled[job[t]]]
            /\ UNCHANGED brokerVars
    /\ rStatus' = [rStatus EXCEPT ![t] = bStatus'[job[t]]]
    /\ Goto(t, "persist")
    /\ UNCHANGED <<dbVars, procVars, op, job, prior, todo>>

\* get_order raises: KeyError when a crash took the broker's order, or no quote
\* for an order that is still pending. The monitor treats a lost order as
\* SAFE_MODE and goes on, and lets a failed quote abort its pass; submit falls
\* back to the row it read, whose fills _sell_core applies; the settle loop raises.
FetchFails(t) ==
    /\ phase = "up" /\ pc[t] = "fetch"
    /\ bStatus[job[t]] = "NONE" \/ BrokerOpen(job[t])
    /\ \/ op[t] = "monitor" /\ bStatus[job[t]] = "NONE" /\ NextRow(t, "monitor") /\ safe' = TRUE
       \/ op[t] = "monitor" /\ bStatus[job[t]] # "NONE" /\ Finish(t) /\ UNCHANGED safe
       \/ op[t] = "expire" /\ NextRow(t, "monitor") /\ safe' = TRUE
       \/ /\ op[t] = "submit"
          /\ IF rFilled[t] > 0 THEN Continue(t, "apply") ELSE Finish(t)
          /\ safe' = (safe \/ rStatus[t] = "UNKNOWN" \/ IncompleteSell(t))
       \/ op[t] \in {"settle", "resettle"} /\ Finish(t) /\ safe' = TRUE
    /\ UNCHANGED <<dbVars, brokerVars, phase, crashes>>

\* update_order with a refreshed receipt, and the caller's next step.
StoreReceipt(t) ==
    /\ phase = "up" /\ pc[t] = "persist"
    /\ UpdateAllowed(job[t], rStatus[t], rFilled[t])
    /\ status' = [status EXCEPT ![job[t]] = rStatus[t]]
    /\ filled' = [filled EXCEPT ![job[t]] = rFilled[t]]
    /\ IF op[t] = "settle" /\ rStatus[t] \notin TerminalStatuses
       THEN Continue(t, "cancel")
       ELSE IF HasNewFill(t, rFilled[t])
            THEN Continue(t, "apply")
            ELSE Resume(t)
    /\ safe' = (safe \/ (pc'[t] = "idle" /\ IncompleteSell(t)))
    /\ UNCHANGED <<brokerId, applied, core, brokerVars, phase, crashes>>

\* update_order refuses a receipt older than the row (StateConflictError). It
\* ends the monitor's pass; the others have caught it as SAFE_MODE.
ReceiptConflict(t) ==
    /\ phase = "up" /\ pc[t] = "persist"
    /\ ~UpdateAllowed(job[t], rStatus[t], rFilled[t])
    /\ IF op[t] = "monitor" THEN Finish(t) /\ UNCHANGED safe
       ELSE /\ safe' = TRUE
            /\ IF op[t] = "expire" THEN NextRow(t, "monitor") ELSE Finish(t)
    /\ UNCHANGED <<dbVars, brokerVars, phase, crashes>>

\* repository.apply_core_fill; a SELL larger than the ledger raises instead.
ApplyCoreFill(t) ==
    /\ phase = "up" /\ pc[t] = "apply"
    /\ IF Oversold(job[t])
       THEN Finish(t) /\ UNCHANGED dbVars
       ELSE ApplyFill(job[t]) /\ Resume(t)
    /\ safe' = (safe \/ (pc'[t] = "idle" /\ IncompleteSell(t)))
    /\ UNCHANGED <<brokerVars, phase, crashes>>

-----------------------------------------------------------------------------
(* OrderMonitor.run_once and _handle_core_order *)

\* open_orders() is read once per pass, with the quantities it holds then.
ReadOpenOrders(t, loop, rows) ==
    /\ phase = "up" /\ pc[t] = "idle"
    /\ Goto(t, "scan")
    /\ op' = [op EXCEPT ![t] = loop]
    /\ prior' = [prior EXCEPT ![t] = filled]
    /\ todo' = [todo EXCEPT ![t] = {<<o, brokerId[o]>> : o \in rows}]
    /\ UNCHANGED <<dbVars, brokerVars, procVars, job, rStatus, rFilled>>

MonitorBegin ==
    ReadOpenOrders(Scheduler, "monitor", {o \in Orders : Open(o) /\ brokerId[o]})

\* The next row of a pass; a settled row read without a broker id is SAFE_MODE.
TakeRow(t, o) ==
    /\ phase = "up" /\ pc[t] = "scan" /\ <<o, TRUE>> \in todo[t]
    /\ Goto(t, "fetch")
    /\ job' = [job EXCEPT ![t] = o]
    /\ todo' = [todo EXCEPT ![t] = @ \ {<<o, TRUE>>}]
    /\ UNCHANGED <<dbVars, brokerVars, procVars, op, rStatus, rFilled, prior>>

RowWithoutBrokerId(t, o) ==
    /\ phase = "up" /\ pc[t] = "scan" /\ <<o, FALSE>> \in todo[t]
    /\ Finish(t)
    /\ safe' = TRUE
    /\ UNCHANGED <<dbVars, brokerVars, phase, crashes>>

PassDone(t) ==
    /\ phase = "up" /\ pc[t] = "scan" /\ todo[t] = {}
    /\ Finish(t)
    /\ UNCHANGED <<dbVars, brokerVars, procVars>>

\* After the fill: a BUY still open past the validity of its signal is canceled
\* (whether it is past is the environment's choice), a SELL that ended short of
\* its quantity is SAFE_MODE. Reopening the signal is in CoreBuying.
MonitorAfterFill(t) ==
    /\ phase = "up" /\ pc[t] = "after"
    /\ \/ /\ Side[job[t]] = "BUY" /\ rStatus[t] \notin TerminalStatuses
          /\ Goto(t, "cancel")
          /\ op' = [op EXCEPT ![t] = "expire"]
          /\ prior' = [prior EXCEPT ![t][job[t]] = rFilled[t]]
          /\ UNCHANGED <<safe, job, rStatus, rFilled, todo>>
       \/ /\ NextRow(t, "monitor")
          /\ safe' = (safe \/ IncompleteSell(t))
    /\ UNCHANGED <<dbVars, brokerVars, phase, crashes>>

-----------------------------------------------------------------------------
(* PortfolioService._cancel_open_core_orders, run when the target changes *)

SettleBegin(t) == ReadOpenOrders(t, "settle", {o \in Orders : Open(o)})

\* broker.cancel_order leaves a filled order alone; the order is refreshed next.
CancelOrder(t) ==
    /\ phase = "up" /\ pc[t] = "cancel"
    /\ bStatus' = [bStatus EXCEPT ![job[t]] = IF BrokerOpen(job[t]) THEN "CANCELED" ELSE @]
    /\ op' = [op EXCEPT ![t] = IF @ = "expire" THEN "expire" ELSE "resettle"]
    /\ Goto(t, "fetch")
    /\ UNCHANGED <<dbVars, bFilled, held, procVars, job, rStatus, rFilled, prior, todo>>

-----------------------------------------------------------------------------
(* Crash and start-up (bot.main) *)

Crash ==
    /\ phase = "up" /\ crashes < MaxCrashes
    /\ phase' = "recover" /\ crashes' = crashes + 1
    /\ bStatus' = [o \in Orders |-> "NONE"]
    /\ bFilled' = [o \in Orders |-> 0]
    /\ held' = [s \in Symbols |-> 0]
    /\ pc' = [t \in Threads |-> "idle"]
    /\ op' = [t \in Threads |-> "none"]
    /\ job' = [t \in Threads |-> NoOrder]
    /\ rStatus' = [t \in Threads |-> "NONE"]
    /\ rFilled' = [t \in Threads |-> 0]
    /\ prior' = [t \in Threads |-> [o \in Orders |-> 0]]
    /\ todo' = [t \in Threads |-> {}]
    /\ UNCHANGED <<dbVars, safe>>

\* recover_unapplied_core_fills: one transaction per order.
RecoverFill(o) ==
    /\ phase = "recover" /\ filled[o] # applied[o] /\ ~Oversold(o)
    /\ ApplyFill(o)
    /\ UNCHANGED <<brokerVars, procVars, threadVars>>

\* restore_dry_run_orders brings back the open orders without a fill ...
Restorable(o) ==
    /\ brokerId[o] /\ filled[o] = 0
    /\ status[o] \in {"CREATED", "SUBMITTED", "PENDING"}

\* Mutant of StartupMismatch: open rows are not compared with the broker.
StartupMismatchUnknownOnly == \E o \in Orders : status[o] = "UNKNOWN"

\* ... and the start-up reconciliation flags what the broker does not confirm.
StartupMismatch == \E o \in Orders : Open(o) /\ (status[o] = "UNKNOWN" \/ ~Restorable(o))

\* Mutant of RestoreBroker: it does not wait for the recovery of the fills.
RestoreBeforeRecovery ==
    /\ phase = "recover"
    /\ phase' = "up"
    /\ held' = core
    /\ bStatus' = [o \in Orders |-> IF Restorable(o) THEN "PENDING" ELSE "NONE"]
    /\ safe' = (safe \/ StartupMismatch)
    /\ UNCHANGED <<dbVars, bFilled, crashes, threadVars>>

\* restore_dry_run_holdings, restore_dry_run_orders, ReconciliationService.run.
RestoreBroker ==
    /\ phase = "recover"
    /\ \A o \in Orders : filled[o] = applied[o]
    /\ phase' = "up"
    /\ held' = core
    /\ bStatus' = [o \in Orders |-> IF Restorable(o) THEN "PENDING" ELSE "NONE"]
    /\ safe' = (safe \/ StartupMismatch)
    /\ UNCHANGED <<dbVars, bFilled, crashes, threadVars>>

-----------------------------------------------------------------------------
Step(t) ==
    \/ LookupOrder(t) \/ ReserveOrder(t) \/ PlaceOrder(t) \/ PlaceOrderFails(t)
    \/ RecordPlacement(t) \/ FetchOrder(t) \/ FetchFails(t) \/ StoreReceipt(t)
    \/ ReceiptConflict(t) \/ ApplyCoreFill(t) \/ PassDone(t) \/ MonitorAfterFill(t)
    \/ CancelOrder(t)
    \/ \E o \in Orders : TakeRow(t, o) \/ RowWithoutBrokerId(t, o)

Startup == RestoreBroker \/ \E o \in Orders : RecoverFill(o)

Next ==
    \/ \E t \in Threads : Step(t) \/ SettleBegin(t)
    \/ \E t \in Threads, o \in Orders : ExecuteBuy(t, o) \/ DecideSell(t, o)
    \/ MonitorBegin
    \/ Crash
    \/ Startup

Spec == Init /\ [][Next]_vars

\* The operating system runs every thread, and a crashed bot is started again
\* (systemd restarts the unit); nobody is obliged to begin an order or a pass.
Fairness == WF_vars(Startup) /\ \A t \in Threads : WF_vars(Step(t))

FairSpec == Spec /\ Fairness

-----------------------------------------------------------------------------
(* Properties *)

RowTypes ==
    /\ status \in [Orders -> AllStatuses \cup {"NONE"}]
    /\ filled \in [Orders -> Nat] /\ applied \in [Orders -> Nat]
    /\ brokerId \in [Orders -> BOOLEAN]
    /\ core \in [Symbols -> Nat]

BrokerTypes ==
    /\ bStatus \in [Orders -> AllStatuses \cup {"NONE"}]
    /\ bFilled \in [Orders -> Nat] /\ held \in [Symbols -> Int]

ProcessTypes == phase \in {"up", "recover"} /\ safe \in BOOLEAN /\ crashes \in 0..MaxCrashes

ThreadTypes ==
    /\ pc \in [Threads -> {"idle", "lookup", "reserve", "place", "record", "fetch",
                           "persist", "apply", "after", "cancel", "scan"}]
    /\ op \in [Threads -> {"none", "submit", "monitor", "expire", "settle", "resettle"}]
    /\ job \in [Threads -> Orders \cup {NoOrder}]
    /\ rStatus \in [Threads -> AllStatuses \cup {"NONE"}]
    /\ rFilled \in [Threads -> Nat]
    /\ prior \in [Threads -> [Orders -> Nat]]
    /\ todo \in [Threads -> SUBSET (Orders \X BOOLEAN)]

\* Types; the core ledger is never negative, which no statement of the code
\* restates: it rests on apply_core_fill's check and its exact increment.
TypeOK == RowTypes /\ BrokerTypes /\ ProcessTypes /\ ThreadTypes

\* Thread t is bound to call apply_core_fill for o: it is about to, or it is
\* canceling o in the settle loop, which applies what the last refresh reports.
WillApply(t, o) ==
    /\ job[t] = o
    /\ \/ pc[t] = "apply"
       \/ op[t] = "settle" /\ pc[t] = "cancel"
       \/ op[t] = "resettle" /\ pc[t] \in {"fetch", "persist"}

\* A fill stored in `orders` but not yet in the core ledger is never left behind:
\* while the bot runs, some thread is bound to apply exactly that order. (A
\* terminal row is never monitored again, so a fill nobody applies would stay
\* out of the ledger until the next restart.)
NoStrandedFill ==
    \A o \in Orders :
        phase = "up" /\ filled[o] # applied[o] => \E t \in Threads : WillApply(t, o)

\* The core ledger always has the shares that a submitted SELL can still take,
\* whatever else is in flight: apply_core_fill's oversell error is unreachable.
LedgerCoversSells ==
    \A o \in Orders :
        Side[o] = "SELL" /\ status[o] # "NONE" => Qty[o] - applied[o] <= core[Symbol[o]]

\* So has the broker, for every SELL it holds or is about to be given, although
\* its holdings are rebuilt from the ledger at a restart.
BrokerCoversSells ==
    \A o \in Orders :
        /\ Side[o] = "SELL" /\ phase = "up"
        /\ BrokerOpen(o) \/ \E t \in Threads : pc[t] = "place" /\ job[t] = o
        => Qty[o] - bFilled[o] <= held[Symbol[o]]

\* An open row the broker does not hold (its order was lost in a crash, or its
\* placement failed) is never silent: the portfolio is in SAFE_MODE, unless a
\* thread is placing that very order.
LostOrdersAreNoticed ==
    \A o \in Orders :
        phase = "up" /\ Open(o) /\ bStatus[o] = "NONE" /\ ~safe =>
            \E t \in Threads : pc[t] = "place" /\ job[t] = o

\* The shares of symbol s that the quantities n of the orders have moved.
Moved(s, n) ==
    SumFunction([o \in Orders |->
        IF Symbol[o] # s THEN 0 ELSE IF Side[o] = "BUY" THEN n[o] ELSE -n[o]])

\* Exactly once: the shares of the core ledger are the initial ones plus the
\* applied fills of every order, through retries, duplicate refreshes and crashes.
LedgerIsAppliedFills == \A s \in Symbols : core[s] = InitialQty[s] + Moved(s, applied)

\* What the broker executed of the orders it holds and nobody applied yet.
InFlight == [o \in Orders |-> IF bStatus[o] = "NONE" THEN 0 ELSE bFilled[o] - applied[o]]

\* While the bot runs, broker and ledger differ by exactly the fills in flight.
\* With no thread at work they therefore agree, which is what reconciliation demands.
BrokerDiffersByFillsInFlight ==
    phase = "up" => \A s \in Symbols : held[s] = core[s] + Moved(s, InFlight)

\* What no interleaving of stale receipts, retries and crashes may do to a row:
\* reopen a final status, lose a fill, or forget shares the ledger counted.
RowsNeverRegress ==
    [][\A o \in Orders :
          /\ status[o] \in TerminalStatuses => status'[o] = status[o]
          /\ status[o] # "NONE" => status'[o] # "NONE"
          /\ filled'[o] >= filled[o]
          /\ applied'[o] >= applied[o]]_vars

\* Every stored fill reaches the core ledger, across crashes as well: fills are
\* bounded and never undone, so what is applied in the end is what is stored.
FillsReachLedger == []<>(\A o \in Orders : applied[o] = filled[o])

\* The abstract ledger this module implements: rows report fills, apply_core_fill
\* credits them, everything else is a stutter.
Abstract == INSTANCE ExactlyOnceLedger
    WITH reported <- filled, credited <- applied, position <- core

\* The orders table and the core ledger, under every interleaving of handlers,
\* monitor, settle loop and crashes, do no more than report and credit each fill
\* once (database.py, order_manager.py, order_monitor.py, bot.py).
ImplementsExactlyOnce == Abstract!Spec
=============================================================================
