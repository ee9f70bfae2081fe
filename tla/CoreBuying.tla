----------------------------- MODULE CoreBuying -----------------------------
(***************************************************************************)
(* From a core target to a BUY of one symbol: the allocation run offers a  *)
(* gap as a signal, the operator approves it twice in Telegram, and the    *)
(* reservation transaction has the last word:                              *)
(*                                                                         *)
(*   - the target of one symbol in PortfolioService.run_allocation,        *)
(*   - TradingService.create_review_approval, consume_review, execute and  *)
(*     AllocationTradingService._build_quote, _execute_core_buy,           *)
(*   - the signals and approvals of database.py,                           *)
(*   - what OrderMonitor does to the signal of a BUY that ends early.      *)
(*                                                                         *)
(* Handlers run in Telegram threads, the allocation run and the monitor in *)
(* the scheduler; what a handler read is in its record h. Prices and money *)
(* are left out (ManagedCapital has them): a quote or a reservation may    *)
(* fail for them at any time. Broker and ledger of one order are in        *)
(* OrderLedger: here a row's fills are applied by an action of their own.  *)
(***************************************************************************)
EXTENDS Integers, FiniteSets, Functions

CONSTANTS
    Handlers,      \* Telegram threads
    Approvals,     \* approval ids; the BUY row of an EXECUTION approval has its id
    MaxGeneration, \* bound on the target changes of one behaviour
    MaxTarget,     \* bound on target quantities
    MaxCrashes,    \* bound on the crashes of one behaviour
    NoApproval     \* the approval of a handler that has none

ASSUME BuyingAssumption ==
    /\ NoApproval \notin Approvals /\ IsFiniteSet(Approvals)
    /\ MaxGeneration \in Nat \ {0} /\ MaxTarget \in Nat /\ MaxCrashes \in Nat

Generations == 1..MaxGeneration

VARIABLES
    \* core_positions: signal_trade_date (0 before the first), weight > 0, target_qty, qty
    generation, trendActive, target, core,
    frozen,      \* TARGET_QTY_GENERATION_KEY names this generation
    started,     \* its next exchange session has started
    signal,      \* [Generations -> status]: one signal per trade date of the target
    overdue,     \* [Generations -> valid_until has passed]
    planned,     \* [Generations -> shares of planned_budget]
    approval,    \* [Approvals -> [status, stage, signal, quantity]]
    order,       \* [Approvals -> the BUY row: [status, signal, qty, filled, applied]]
    safe,        \* SAFE_MODE of the portfolio: sticky
    h,           \* [Handlers -> what the thread is doing and has read]
    settling,    \* the BUY whose signal the monitor is about to settle
    alloc,       \* where the allocation run is
    base,        \* history: shares held or ordered when the target was frozen
    crashes

coreVars == <<generation, trendActive, target, core, frozen, started>>
signalVars == <<signal, overdue, planned>>
vars == <<coreVars, signalVars, approval, order, safe, h, settling, alloc, base, crashes>>

Least(x, y) == IF x <= y THEN x ELSE y
Greatest(x, y) == IF x >= y THEN x ELSE y

NoRow == [status |-> "NONE", signal |-> 0, qty |-> 0, filled |-> 0, applied |-> 0]
Unused == [status |-> "NONE", stage |-> "REVIEW", signal |-> 0, quantity |-> 0]
Idle == [pc |-> "idle", op |-> "none", approval |-> NoApproval, signal |-> 0,
         plan |-> 0, want |-> 0, quantity |-> 0, outcome |-> "ACTIVE"]

Init ==
    /\ generation = 0 /\ trendActive = FALSE /\ target = 0 /\ core = 0
    /\ frozen = FALSE /\ started = FALSE
    /\ signal = [g \in Generations |-> "NONE"]
    /\ overdue = [g \in Generations |-> FALSE]
    /\ planned = [g \in Generations |-> 0]
    /\ approval = [a \in Approvals |-> Unused]
    /\ order = [a \in Approvals |-> NoRow]
    /\ safe = FALSE
    /\ h = [t \in Handlers |-> Idle]
    /\ settling = NoApproval
    /\ alloc = "idle"
    /\ base = 0 /\ crashes = 0

\* Open rows: CREATED has no broker id yet (or never got one), UNKNOWN never will.
RowOpen(a) == order[a].status \in {"CREATED", "PENDING", "UNKNOWN"}

\* Mutant of Committed: an order counts until it ends, not until it is applied.
CommittedWhileOpen ==
    SumFunction([a \in Approvals |-> IF RowOpen(a) THEN order[a].qty - order[a].filled ELSE 0])

\* _committed_core_buy_quantity: shares ordered or filled but not in the ledger.
Committed ==
    SumFunction([a \in Approvals |-> IF RowOpen(a) THEN order[a].qty - order[a].applied
                                                   ELSE order[a].filled - order[a].applied])

-----------------------------------------------------------------------------
(* Signals (database.py, TradingService._active_signal) *)

MarkSignal(g, status) == signal' = [signal EXCEPT ![g] = status]

\* _active_signal and _signal_gate_failure let the signal pass ...
SignalPasses(g) ==
    signal[g] = "ACTIVE" /\ ~overdue[g] /\ ~safe /\ trendActive

\* ... or refuse it, marking one that was still active.
RefuseSignal(g) ==
    signal' = [signal EXCEPT ![g] = IF @ # "ACTIVE" THEN @
                                    ELSE IF overdue[g] THEN "EXPIRED" ELSE "INVALID"]

\* The handler returns or its exception reaches Telegram.
Return(t) == h' = [h EXCEPT ![t] = Idle]

Continue(t, pc) == h' = [h EXCEPT ![t].pc = pc]

-----------------------------------------------------------------------------
(* The two approvals *)

\* create_review_approval, for the button under a signal.
CreateReview(g) ==
    /\ IF SignalPasses(g)
       THEN /\ \E a \in Approvals :
                  /\ approval[a].status = "NONE"
                  /\ approval' = [approval EXCEPT ![a] =
                         [status |-> "ACTIVE", stage |-> "REVIEW", signal |-> g, quantity |-> 0]]
            /\ UNCHANGED signal
       ELSE RefuseSignal(g) /\ UNCHANGED approval
    /\ UNCHANGED <<coreVars, overdue, planned, order, safe, h, settling, alloc, base, crashes>>

\* Mutant of Consumable: a token that has been used can be used again.
ConsumableAgain(a, stage) ==
    approval[a].status \in {"ACTIVE", "USED"} /\ approval[a].stage = stage

\* consume_approval's checks; an approval past its time is refused and stays as it
\* is, which a handler that never consumes it stands for.
Consumable(a, stage) == approval[a].status = "ACTIVE" /\ approval[a].stage = stage

\* A token is consumed once, and then the handler builds its quote.
Consume(t, a, stage, op) ==
    /\ h[t].pc = "idle" /\ Consumable(a, stage)
    /\ approval' = [approval EXCEPT ![a].status = "USED"]
    /\ h' = [h EXCEPT ![t] = [Idle EXCEPT !.pc = "quote", !.op = op, !.approval = a,
                                          !.signal = approval[a].signal]]
    /\ UNCHANGED <<coreVars, signalVars, order, safe, settling, alloc, base, crashes>>

ConsumeReview(t, a) == Consume(t, a, "REVIEW", "review")
ConsumeExecution(t, a) == Consume(t, a, "EXECUTION", "execute")

\* cancel_approval cancels every live approval of the signal.
CancelApproval(a) ==
    /\ approval[a].status = "ACTIVE"
    /\ approval' = [b \in Approvals |->
           IF approval[b].status = "ACTIVE" /\ approval[b].signal = approval[a].signal
           THEN [approval[b] EXCEPT !.status = "CANCELED"] ELSE approval[b]]
    /\ UNCHANGED <<coreVars, signalVars, order, safe, h, settling, alloc, base, crashes>>

-----------------------------------------------------------------------------
(* The quote (AllocationTradingService._build_quote): three transactions *)

\* The signal passes, and its plan is the quote's from here on.
QuoteSignal(t) ==
    /\ h[t].pc = "quote"
    /\ IF SignalPasses(h[t].signal)
       THEN /\ h' = [h EXCEPT ![t].pc = "target", ![t].plan = planned[h[t].signal]]
            /\ UNCHANGED signal
       ELSE Return(t) /\ RefuseSignal(h[t].signal)
    /\ UNCHANGED <<coreVars, overdue, planned, approval, order, safe, settling, alloc, base, crashes>>

\* The next session of the signal has started: of an older generation it always has.
SessionReached(g) == g < generation \/ started

\* get_core_position; a target of zero is replaced by the plan of the signal.
QuoteTarget(t) ==
    /\ h[t].pc = "target" /\ SessionReached(h[t].signal)
    /\ h' = [h EXCEPT ![t].pc = "committed",
                      ![t].want = (IF target <= 0 THEN h[t].plan ELSE target) - core]
    /\ UNCHANGED <<coreVars, signalVars, approval, order, safe, settling, alloc, base, crashes>>

Quotable(t) == Least(h[t].plan, h[t].want - Committed)

\* The price decides how much of that is affordable. The review issues an
\* EXECUTION approval for the quantity; the execution goes on only if nothing
\* changed since.
QuoteQuantity(t) ==
    /\ h[t].pc = "committed"
    /\ \E n \in 1..Quotable(t) :
          \/ /\ h[t].op = "review"
             /\ \E a \in Approvals :
                   /\ approval[a].status = "NONE"
                   /\ approval' = [approval EXCEPT ![a] =
                          [status |-> "ACTIVE", stage |-> "EXECUTION",
                           signal |-> h[t].signal, quantity |-> n]]
             /\ Return(t)
          \/ /\ h[t].op = "execute" /\ n = approval[h[t].approval].quantity
             /\ h' = [h EXCEPT ![t].pc = "recheck", ![t].quantity = n,
                               ![t].plan = 0, ![t].want = 0]
             /\ UNCHANGED approval
    /\ UNCHANGED <<coreVars, signalVars, order, safe, settling, alloc, base, crashes>>

\* No quote, or not the approved one: wrong session, no money, nothing left to buy.
QuoteFails(t) ==
    /\ h[t].pc \in {"target", "committed"}
    /\ Return(t)
    /\ UNCHANGED <<coreVars, signalVars, approval, order, safe, settling, alloc, base, crashes>>

-----------------------------------------------------------------------------
(* Executing the BUY (TradingService.execute, _execute_core_buy) *)

\* The signal once more, then session and trend.
Recheck(t) ==
    /\ h[t].pc = "recheck"
    /\ IF SignalPasses(h[t].signal)
       THEN Continue(t, "reserve") /\ UNCHANGED signal
       ELSE Return(t) /\ RefuseSignal(h[t].signal)
    /\ UNCHANGED <<coreVars, overdue, planned, approval, order, safe, settling, alloc, base, crashes>>

\* reserve_buy_order_with_managed_cash: a target of zero with a positive weight is
\* computed anew from the budget and the limit price.
ReservationTargets == IF target = 0 /\ trendActive THEN 0..MaxTarget ELSE {target}

\* Mutant of Remaining: what is ordered already is not subtracted.
RemainingIgnoringOrders(goal) == Greatest(0, goal - core)

Remaining(goal) == Greatest(0, goal - core - Committed)

Reserve(t) ==
    /\ h[t].pc = "reserve"
    /\ \E goal \in ReservationTargets : h[t].quantity <= Remaining(goal)
    /\ order' = [order EXCEPT ![h[t].approval] =
           [status |-> "CREATED", signal |-> h[t].signal, qty |-> h[t].quantity,
            filled |-> 0, applied |-> 0]]
    /\ Continue(t, "place")
    /\ UNCHANGED <<coreVars, signalVars, approval, safe, settling, alloc, base, crashes>>

\* Too many shares or too little money: no row, and the signal is reopened.
ReserveFails(t) ==
    /\ h[t].pc = "reserve"
    /\ h' = [h EXCEPT ![t].pc = "mark", ![t].outcome = "ACTIVE"]
    /\ UNCHANGED <<coreVars, signalVars, approval, order, safe, settling, alloc, base, crashes>>

\* place_order and update_order: pending, filled, or ended early. An incomplete
\* final order reopens the signal, any other leaves it PROCESSED.
Place(t) ==
    /\ h[t].pc = "place"
    /\ LET a == h[t].approval
       IN  \E n \in 0..order[a].qty, done \in BOOLEAN :
              /\ n = order[a].qty => done
              /\ order' = [order EXCEPT ![a].filled = n,
                                        ![a].status = IF done THEN "DONE" ELSE "PENDING"]
              /\ h' = [h EXCEPT ![t].pc = "mark",
                                ![t].outcome = IF done /\ n < order[a].qty THEN "ACTIVE"
                                                                           ELSE "PROCESSED"]
    /\ UNCHANGED <<coreVars, signalVars, approval, safe, settling, alloc, base, crashes>>

\* place_order raises: the row is UNKNOWN, SAFE_MODE, and so is the signal.
PlaceFails(t) ==
    /\ h[t].pc = "place"
    /\ order' = [order EXCEPT ![h[t].approval].status = "UNKNOWN"]
    /\ safe' = TRUE
    /\ MarkSignal(h[t].signal, "UNKNOWN")
    /\ Return(t)
    /\ UNCHANGED <<coreVars, overdue, planned, approval, settling, alloc, base, crashes>>

\* mark_signal writes whatever the signal has become meanwhile.
MarkExecuted(t) ==
    /\ h[t].pc = "mark"
    /\ MarkSignal(h[t].signal, h[t].outcome)
    /\ Return(t)
    /\ UNCHANGED <<coreVars, overdue, planned, approval, order, safe, settling, alloc, base, crashes>>

-----------------------------------------------------------------------------
(* Orders while they are open *)

\* Mutant of ApplyFill: the cumulative quantity of the row is credited every time.
ApplyFillCumulative(a) ==
    /\ order[a].applied < order[a].filled
    /\ core' = core + order[a].filled
    /\ order' = [order EXCEPT ![a].applied = @ + order[a].filled]
    /\ UNCHANGED <<generation, trendActive, target, frozen, started, signalVars, approval, safe,
                   h, settling, alloc, base, crashes>>

\* apply_core_fill, by whoever stored the fill or by the start-up recovery.
ApplyFill(a) ==
    /\ order[a].applied < order[a].filled
    /\ core' = core + (order[a].filled - order[a].applied)
    /\ order' = [order EXCEPT ![a].applied = order[a].filled]
    /\ UNCHANGED <<generation, trendActive, target, frozen, started, signalVars, approval, safe,
                   h, settling, alloc, base, crashes>>

\* The monitor refreshes a pending BUY: it fills further, or ends (filled, rejected,
\* or canceled because its signal is overdue).
MonitorRefresh(a) ==
    /\ order[a].status = "PENDING" /\ settling = NoApproval
    /\ \E n \in order[a].filled..order[a].qty, done \in BOOLEAN :
          /\ n = order[a].qty => done
          /\ order' = [order EXCEPT ![a].filled = n,
                                    ![a].status = IF done THEN "DONE" ELSE "PENDING"]
          /\ settling' = IF done /\ n < order[a].qty THEN a ELSE NoApproval
    /\ UNCHANGED <<coreVars, signalVars, approval, safe, h, alloc, base, crashes>>

\* ... and then reopens the signal of a BUY that ended early, or closes it.
MonitorSettles ==
    /\ settling # NoApproval
    /\ LET g == order[settling].signal
       IN  MarkSignal(g, IF ~overdue[g] /\ trendActive THEN "ACTIVE" ELSE "EXPIRED")
    /\ settling' = NoApproval
    /\ UNCHANGED <<coreVars, overdue, planned, approval, order, safe, h, alloc, base, crashes>>

-----------------------------------------------------------------------------
(* The allocation run, for this symbol *)

AllocGoto(pc) == alloc' = pc

\* Mutant of SignalsHaveLapsed: a signal is valid for one session more.
SomeSignalsLapsed ==
    \A g \in Generations : signal[g] # "NONE" /\ g < generation => overdue[g]

\* A target changes five minutes after the close of a session or later, and a signal
\* of a run before that is valid until this close at most (latest_completed_session
\* and next_session_close): every signal has lapsed by then.
SignalsHaveLapsed == \A g \in Generations : signal[g] # "NONE" => overdue[g]

\* A completed session changed the weights: every active signal is invalid.
AllocInvalidate ==
    /\ alloc = "idle" /\ settling = NoApproval /\ ~safe /\ generation < MaxGeneration
    /\ SignalsHaveLapsed
    /\ signal' = [g \in Generations |-> IF signal[g] = "ACTIVE" THEN "INVALID" ELSE signal[g]]
    /\ AllocGoto("settle")
    /\ UNCHANGED <<coreVars, overdue, planned, approval, order, safe, h, settling, base, crashes>>

\* _cancel_open_core_orders; a row without a broker id cannot be canceled.
AllocSettle ==
    /\ alloc = "settle"
    /\ IF \E a \in Approvals : order[a].status \in {"CREATED", "UNKNOWN"}
       THEN safe' = TRUE /\ AllocGoto("idle") /\ UNCHANGED <<order, core>>
       ELSE /\ order' = [a \in Approvals |->
                   IF RowOpen(a) THEN [order[a] EXCEPT !.status = "DONE", !.applied = order[a].filled]
                                 ELSE order[a]]
            /\ core' = core + SumFunction([a \in Approvals |-> order'[a].applied - order[a].applied])
            /\ AllocGoto("target")
            /\ UNCHANGED safe
    /\ UNCHANGED <<generation, trendActive, target, frozen, started, signalVars, approval, h,
                   settling, base, crashes>>

\* set_core_target with the new weight and no quantity, and an empty generation key.
AllocSetTarget ==
    /\ alloc = "target"
    /\ generation' = generation + 1
    /\ trendActive' \in BOOLEAN
    /\ target' = 0 /\ frozen' = FALSE /\ started' = FALSE
    /\ AllocGoto("idle")
    /\ UNCHANGED <<core, signalVars, approval, order, safe, h, settling, base, crashes>>

SessionStarts ==
    /\ generation > 0 /\ ~started
    /\ started' = TRUE
    /\ UNCHANGED <<generation, trendActive, target, core, frozen, signalVars, approval, order,
                   safe, h, settling, alloc, base, crashes>>

\* In the next session the quantity is fixed once from budget and prices.
AllocFreeze ==
    /\ alloc = "idle" /\ settling = NoApproval /\ ~safe
    /\ generation > 0 /\ started /\ ~frozen
    /\ target' \in IF trendActive THEN 0..MaxTarget ELSE {0}
    /\ frozen' = TRUE
    /\ base' = core + Committed
    /\ UNCHANGED <<generation, trendActive, core, started, signalVars, approval, order, safe, h,
                   settling, alloc, crashes>>

\* The automatic SELL of what exceeds the target, done before any BUY is offered.
AllocSell ==
    /\ alloc = "idle" /\ settling = NoApproval /\ ~safe /\ frozen /\ core > target
    /\ core' = target
    /\ base' = target + Committed
    /\ UNCHANGED <<generation, trendActive, target, frozen, started, signalVars, approval, order,
                   safe, h, settling, alloc, crashes>>

Gap == Greatest(0, target - core - Committed)

\* Mutant of Reactivatable: a processed signal is taken for a fulfilled one.
ReactivatableUnlessProcessed(status) == status \notin {"ACTIVE", "UNKNOWN", "PROCESSED"}

\* create_core_buy_signal(reactivate_existing=True) takes up every other signal.
Reactivatable(status) == status \notin {"ACTIVE", "UNKNOWN"}

\* _apply_target(allow_buy=True): a gap is offered by a new or a reopened signal,
\* whose old approvals are canceled.
AllocOffer ==
    /\ alloc = "idle" /\ settling = NoApproval /\ ~safe /\ frozen /\ core <= target
    /\ Gap > 0 /\ Reactivatable(signal[generation])
    /\ MarkSignal(generation, "ACTIVE")
    /\ overdue' = [overdue EXCEPT ![generation] = FALSE]
    /\ planned' = [planned EXCEPT ![generation] = Gap]
    /\ approval' = [a \in Approvals |->
           IF approval[a].status = "ACTIVE" /\ approval[a].signal = generation
           THEN [approval[a] EXCEPT !.status = "CANCELED"] ELSE approval[a]]
    /\ UNCHANGED <<coreVars, order, safe, h, settling, alloc, base, crashes>>

SignalLapses(g) ==
    /\ signal[g] # "NONE" /\ ~overdue[g]
    /\ overdue' = [overdue EXCEPT ![g] = TRUE]
    /\ UNCHANGED <<coreVars, signal, planned, approval, order, safe, h, settling, alloc, base, crashes>>

ExpireStaleSignals ==
    /\ \E g \in Generations : signal[g] = "ACTIVE" /\ overdue[g]
    /\ signal' = [g \in Generations |->
           IF signal[g] = "ACTIVE" /\ overdue[g] THEN "EXPIRED" ELSE signal[g]]
    /\ UNCHANGED <<coreVars, overdue, planned, approval, order, safe, h, settling, alloc, base, crashes>>

\* ReconciliationService.run of the scheduler meets a row or a fill that a handler
\* is still working on, and takes it for a mismatch. (A run that begins with a
\* clean reconciliation may meet such a row later: its steps have no guard for it.)
ReconciliationAlarm ==
    /\ alloc = "idle" /\ settling = NoApproval /\ ~safe
    /\ \E a \in Approvals :
          order[a].status \in {"CREATED", "UNKNOWN"} \/ order[a].applied < order[a].filled
    /\ safe' = TRUE
    /\ UNCHANGED <<coreVars, signalVars, approval, order, h, settling, alloc, base, crashes>>

\* The threads are gone; the start-up reconciliation flags rows the broker lost.
Crash ==
    /\ crashes < MaxCrashes
    /\ crashes' = crashes + 1
    /\ h' = [t \in Handlers |-> Idle]
    /\ settling' = NoApproval /\ alloc' = "idle"
    /\ safe' = (safe \/ \E a \in Approvals :
                           /\ RowOpen(a)
                           /\ order[a].status # "PENDING" \/ order[a].filled > 0)
    /\ UNCHANGED <<coreVars, signalVars, approval, order, base>>

-----------------------------------------------------------------------------
HandlerStep(t) ==
    \/ QuoteSignal(t) \/ QuoteTarget(t) \/ QuoteQuantity(t) \/ QuoteFails(t) \/ Recheck(t)
    \/ Reserve(t) \/ ReserveFails(t) \/ Place(t) \/ PlaceFails(t) \/ MarkExecuted(t)

AllocStep ==
    \/ AllocSettle \/ AllocSetTarget \/ AllocFreeze \/ AllocSell \/ AllocOffer

Next ==
    \/ \E t \in Handlers : HandlerStep(t)
    \/ \E t \in Handlers, a \in Approvals : ConsumeReview(t, a) \/ ConsumeExecution(t, a)
    \/ \E g \in Generations : (signal[g] # "NONE" /\ CreateReview(g)) \/ SignalLapses(g)
    \/ \E a \in Approvals : CancelApproval(a) \/ ApplyFill(a) \/ MonitorRefresh(a)
    \/ MonitorSettles \/ ExpireStaleSignals
    \/ AllocInvalidate \/ AllocStep \/ SessionStarts \/ ReconciliationAlarm
    \/ Crash

Spec == Init /\ [][Next]_vars

\* The scheduler calls the allocation run and the monitor for ever, handlers that
\* have begun go on, stored fills are applied (OrderLedger); the operator, the
\* clock and the market are not obliged to anything.
Fairness ==
    /\ WF_vars(AllocStep) /\ WF_vars(MonitorSettles) /\ WF_vars(ExpireStaleSignals)
    /\ \A t \in Handlers : WF_vars(HandlerStep(t))
    /\ \A a \in Approvals : WF_vars(ApplyFill(a))

FairSpec == Spec /\ Fairness

-----------------------------------------------------------------------------
(* Properties *)

TypeOK ==
    /\ generation \in 0..MaxGeneration /\ trendActive \in BOOLEAN /\ safe \in BOOLEAN
    /\ target \in 0..MaxTarget /\ core \in Nat /\ base \in Nat
    /\ frozen \in BOOLEAN /\ started \in BOOLEAN
    /\ signal \in [Generations -> {"NONE", "ACTIVE", "PROCESSED", "INVALID", "EXPIRED", "UNKNOWN"}]
    /\ planned \in [Generations -> 0..MaxTarget]
    /\ \A a \in Approvals :
          /\ approval[a].status \in {"NONE", "ACTIVE", "USED", "CANCELED"}
          /\ order[a].status \in {"NONE", "CREATED", "PENDING", "UNKNOWN", "DONE"}
          /\ order[a].applied \in 0..order[a].filled /\ order[a].filled \in 0..order[a].qty
    /\ settling \in Approvals \cup {NoApproval}
    /\ alloc \in {"idle", "settle", "target"}

\* However many approvals of a signal are executed at once, and whatever a quote
\* read in between, shares held and ordered never exceed the frozen target (or
\* what was held and ordered already when it was frozen or sold down). A target
\* frozen at zero shares with a positive weight binds nobody: the reservation
\* computes another one.
NeverOverbuys ==
    frozen /\ ~(target = 0 /\ trendActive) => core + Committed <= Greatest(target, base)

\* Two confirmations per BUY: an order exists only for a consumed EXECUTION
\* approval and its quantity, and a signal never has more orders than reviews
\* the operator has confirmed.
BuysAreApprovedTwice ==
    /\ \A a \in Approvals :
          order[a].status # "NONE" =>
             /\ approval[a].status = "USED" /\ approval[a].stage = "EXECUTION"
             /\ approval[a].signal = order[a].signal /\ approval[a].quantity = order[a].qty
    /\ \A g \in Generations :
          Cardinality({a \in Approvals : order[a].signal = g})
             <= Cardinality({a \in Approvals : /\ approval[a].signal = g
                                               /\ approval[a].stage = "REVIEW"
                                               /\ approval[a].status = "USED"})

\* A gap to a frozen target is not forgotten (docs/JDSS_FINAL_SPEC.md:102): its
\* signal can be approved again, unless the gap closes, the target changes or the
\* portfolio is in SAFE_MODE.
GapIsOffered ==
    \A g \in Generations :
        (frozen /\ generation = g /\ Gap > 0)
            ~> (signal[g] = "ACTIVE" \/ Gap = 0 \/ generation # g \/ ~frozen \/ safe)

\* A BUY reserved while a changed target still waits for its next session can only be
\* that of a handler that passed its last check before the signal lapsed and was
\* stalled until after the change; a signal that is valid, offered again or reopened by
\* the monitor or a handler included, is never executed against a target whose
\* quantity is not frozen (portfolio_service.py:151-152). The reservation alone would
\* not refuse it, for it computes a target in place of the zero.
BuysMeetFrozenTargets ==
    [][\A a \in Approvals :
          order[a].status = "NONE" /\ order'[a].status = "CREATED"
             => frozen \/ overdue[order'[a].signal]]_vars
=============================================================================
