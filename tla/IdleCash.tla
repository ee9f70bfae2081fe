------------------------------ MODULE IdleCash ------------------------------
(***************************************************************************)
(* Idle cash in SGOV (IdleCashManager) and the two-step approval that      *)
(* waits for it: a review that lacks cash sells SGOV and leaves an intent, *)
(* the scheduler resumes the intent when the sale is done and offers the   *)
(* execution, and cash nobody needs is put back into SGOV.                 *)
(*                                                                         *)
(* One share of SGOV costs one unit and there are no fees; profit is none, *)
(* so the risk budget is the capital (ManagedCapital has both). The        *)
(* strategy's own BUY of a signal is one step to open and one to end       *)
(* (CoreBuying, OrderLedger). strategy.yaml ships with idle_cash.enabled   *)
(* false: this is the program with the option on, in an open session.      *)
(***************************************************************************)
EXTENDS Integers, Sequences, FiniteSets, Functions

CONSTANTS
    Signals,      \* BUY signals
    NoSignal,
    Handlers,     \* Telegram threads
    Need,         \* the cash a signal's BUY takes
    Capital,      \* the strategy's cash
    MaxOrders,    \* bound on SGOV order rows
    MaxApprovals, \* bound on execution approvals
    MaxFaults     \* bound on crashes, failed placements, lost prices and
                  \* signals that expire

ASSUME CashAssumption ==
    /\ Need \in [Signals -> Nat \ {0}] /\ NoSignal \notin Signals /\ IsFiniteSet(Signals)
    /\ Capital \in Nat /\ MaxOrders \in Nat \ {0} /\ MaxApprovals \in Nat /\ MaxFaults \in Nat

VARIABLES
    rows,       \* SGOV orders, each with what the broker knows of it
    managed,    \* idle_cash_state.managed_qty
    hold,       \* SGOV the broker holds
    overfilled, \* shares in fills the broker recorded without having them
    intents,    \* cash_release_intents: [status, own], own its execution_approval_id
    approvals,  \* EXECUTION approvals: [signal, status], ENDED when canceled or expired
    entry,      \* the strategy's BUY of a signal
    done, past, \* signals processed; signals whose valid_until is over
    safe,       \* idle_cash_safe_mode
    th,         \* where each thread is
    turn,       \* the scheduler's next job
    faults, crashed

sgov == <<rows, managed, hold, overfilled>>
offers == <<intents, approvals>>
buys == <<entry, done, past>>
env == <<turn, faults, crashed>>
vars == <<sgov, offers, buys, safe, th, env>>

Scheduler == "scheduler"
Threads == {Scheduler} \cup Handlers
Least(x, y) == IF x <= y THEN x ELSE y
Greatest(x, y) == IF x >= y THEN x ELSE y

\* What a thread does (job), its next step, the signal, the rows it goes through, the
\* row whose fill it applies next, the signals still to resume, a number.
Idle == [job |-> "none", at |-> "idle", s |-> NoSignal, todo |-> {}, cur |-> 0, list |-> {}, n |-> 0]

Row(side, s, n) ==
    [side |-> side, signal |-> s, qty |-> n, status |-> "OPEN", filled |-> 0, applied |-> 0,
     broker |-> "OPEN"]

\* An earlier sweep, filled and applied.
Swept(n) ==
    [Row("BUY", NoSignal, n) EXCEPT !.status = "FILLED", !.filled = n, !.applied = n,
                                    !.broker = "FILLED"]

Init ==
    /\ \E n \in {0, Capital} :
          /\ rows = IF n = 0 THEN <<>> ELSE <<Swept(n)>>
          /\ managed = n /\ hold = n
    /\ overfilled = 0
    /\ intents = [s \in Signals |-> [status |-> "NONE", own |-> 0]]
    /\ approvals = <<>>
    /\ entry = [s \in Signals |-> "none"]
    /\ done = {} /\ past = {}
    /\ safe = FALSE
    /\ th = [t \in Threads |-> Idle]
    /\ turn = "monitor" /\ faults = 0 /\ crashed = FALSE

-----------------------------------------------------------------------------
(* Cash *)

Sides(side) == {i \in DOMAIN rows : rows[i].side = side}
OpenRows == {i \in DOMAIN rows : rows[i].status \in {"OPEN", "UNKNOWN"}}
Entries(status) == {s \in Signals : entry[s] = status}

\* What n shares of an order bring: a SELL brings cash, a BUY takes it.
Proceeds(row, n) == IF row.side = "SELL" THEN n ELSE 0 - n

\* The cash of the strategy's BUYs that have a status.
Bought(status) == SumFunction([s \in Signals |-> IF entry[s] = status THEN Need[s] ELSE 0])

RawCash ==
    Capital + SumFunction([i \in DOMAIN rows |-> Proceeds(rows[i], rows[i].filled)]) - Bought("filled")

Invested == managed + Bought("filled")

\* The unfilled rest of an open BUY.
Rest(row) ==
    IF row.side = "BUY" /\ row.status \in {"OPEN", "UNKNOWN"} THEN row.qty - row.filled ELSE 0

Reserved == SumFunction([i \in DOMAIN rows |-> Rest(rows[i])]) + Bought("open")

\* get_buying_power: fills move it, as they are stored, but not those the broker made up.
BrokerCash == RawCash - overfilled

\* Cash that other signals' execution approvals wait for.
Promised(s) ==
    SumFunction([x \in Signals |-> IF x # s /\ intents[x].status = "AWAITING" /\ x \notin past
                                   THEN Need[x] ELSE 0])

\* available_managed_cash
Available(s) ==
    LET promised == Promised(s)
        ledger == Least(RawCash, Capital - Invested) - Reserved
    IN  Greatest(0, Least(ledger, BrokerCash) - promised)

\* Mutant of Reservable: what other open BUYs have reserved is not taken off.
ReservableIgnoringOrders == Greatest(0, Least(Least(RawCash, Capital - Invested), BrokerCash))

\* What reserve_buy_order_with_managed_cash lets a BUY have, in its transaction.
Reservable == Greatest(0, Least(Least(RawCash, Capital - Invested) - Reserved, BrokerCash))

-----------------------------------------------------------------------------
(* Control *)

At(t, at) == th[t].at = at
Sig(t) == th[t].s
Live(s) == s \notin done /\ s \notin past /\ entry[s] = "none"

\* The open rows of a table that have a broker id.
Known(table) == {i \in DOMAIN table : table[i].status = "OPEN"}

\* Where a thread is once it has gone through its rows: ensure_buying_power cancels the
\* open sweeps after its refresh, and then looks at the cash.
AfterRows(record, table) ==
    LET refreshed == record.at = "refresh" /\ record.todo = {} /\ record.cur = 0
        sweeps == IF refreshed /\ record.s # NoSignal
                  THEN [record EXCEPT !.at = "sweeps", !.todo = {i \in Known(table) : table[i].side = "BUY"}]
                  ELSE record
    IN  IF sweeps.todo # {} \/ sweeps.cur # 0 THEN sweeps
        ELSE IF sweeps.at = "sweeps" THEN [sweeps EXCEPT !.at = "cash"]
        ELSE IF sweeps.at = "release" THEN [sweeps EXCEPT !.at = "cancel"]
        ELSE IF refreshed /\ sweeps.job = "resume" THEN [sweeps EXCEPT !.at = "pending"]
        ELSE IF refreshed /\ sweeps.job = "sweep" THEN [sweeps EXCEPT !.at = "free"]
        ELSE IF sweeps.at = "bought" \/ sweeps.job = "monitor" THEN Idle
        ELSE sweeps

Become(t, record) == th' = [th EXCEPT ![t] = record]
Advance(t, record, table) == Become(t, AfterRows(record, table))
Goto(t, at) == Become(t, [th[t] EXCEPT !.at = at])

\* A job ends, or an exception leaves it.
Leave(t) == th' = [th EXCEPT ![t] = Idle]

\* A quote has ended: the resuming scheduler goes on with the next intent.
Return(t) ==
    Become(t, IF th[t].job = "resume" THEN [Idle EXCEPT !.job = "resume", !.at = "list", !.list = th[t].list]
              ELSE Idle)

\* A thread that has met a bound of the model stays there.
Stop(t) == Become(t, [Idle EXCEPT !.at = "bound"])
BoundMet == \E t \in Threads : At(t, "bound")

\* update_cash_release_intent; most callers ignore that there is none.
SetIntent(s, status, id) ==
    intents' = IF intents[s].status = "NONE" THEN intents
               ELSE [intents EXCEPT ![s] = [status |-> status, own |-> id]]

\* A fill that the broker has made up, when it is stored.
MadeUp(row) == IF row.status = "OPEN" /\ row.broker = "FILLED" THEN row.qty ELSE 0

\* The dry-run broker fills a whole order or nothing, and only when it is asked for it
\* (get_order): what it knows beyond the row is how the order has ended.
Stored(row) == [row EXCEPT !.status = row.broker, !.filled = IF row.broker = "FILLED" THEN row.qty ELSE @]
Filled(row) == Stored([row EXCEPT !.broker = "FILLED"])
Canceled(row) == Stored([row EXCEPT !.broker = IF @ = "OPEN" THEN "CANCELED" ELSE @])

-----------------------------------------------------------------------------
(* Refreshing SGOV orders *)

\* get_order fills an order the market has reached, and refresh_order stores what it
\* says. The monitor does this with every open order and applies no SGOV fill.
Refresh(t, i) ==
    /\ At(t, "refresh") /\ th[t].cur = 0 /\ i \in th[t].todo
    /\ \/ /\ rows' = [rows EXCEPT ![i] = Stored(@)]
          /\ overfilled' = overfilled + MadeUp(rows[i]) /\ UNCHANGED hold
       \/ /\ rows[i].broker = "OPEN" /\ (rows[i].side = "SELL" => rows[i].qty <= hold)
          /\ rows' = [rows EXCEPT ![i] = Filled(@)]
          /\ hold' = (IF rows[i].side = "BUY" THEN hold + rows[i].qty ELSE hold - rows[i].qty)
          /\ UNCHANGED overfilled
    /\ Advance(t, [th[t] EXCEPT !.todo = @ \ {i}, !.cur = IF th[t].job = "monitor" THEN 0 ELSE i], rows')
    /\ UNCHANGED <<managed, offers, buys, safe, env>>

\* A price is not available, and the job ends: get_order asks for one to see whether an
\* order fills, a quote and run_once begin with one, and so does the sale.
AsksPrice(t) ==
    \/ At(t, "refresh") /\ th[t].cur = 0 /\ \E i \in th[t].todo : rows[i].broker = "OPEN"
    \/ At(t, "list") /\ th[t].list # {}
    \/ th[t].at \in {"sell", "surplus"}

PriceFails(t) ==
    /\ AsksPrice(t)
    /\ faults < MaxFaults /\ faults' = faults + 1
    /\ Leave(t)
    /\ UNCHANGED <<sgov, offers, buys, safe, turn, crashed>>

\* The dry-run broker finds fewer shares than the order would sell, and raises, but only
\* after it has recorded the fill (_fill_remaining_order, _apply_fill).
Overfills(t, i) ==
    /\ At(t, "refresh") /\ th[t].cur = 0 /\ i \in th[t].todo
    /\ rows[i].side = "SELL" /\ rows[i].broker = "OPEN" /\ rows[i].qty > hold
    /\ rows' = [rows EXCEPT ![i].broker = "FILLED"]
    /\ Leave(t)
    /\ UNCHANGED <<managed, hold, overfilled, offers, buys, safe, env>>

\* Mutant of Unapplied: the order's cumulative fill.
UnappliedCumulative(i) == rows[i].filled

Unapplied(i) == rows[i].filled - rows[i].applied

\* Mutant of Oversold: a SELL of more than is managed goes through.
OversoldNever(i) == FALSE

Oversold(i) == rows[i].side = "SELL" /\ Unapplied(i) > managed

\* apply_idle_cash_fill, in one transaction; a SELL of more than is managed raises.
ApplyFill(t) ==
    LET i == th[t].cur
    IN  /\ i # 0
        /\ IF Oversold(i)
           THEN Leave(t) /\ UNCHANGED <<rows, managed>>
           ELSE /\ managed' = IF rows[i].side = "BUY" THEN managed + Unapplied(i) ELSE managed - Unapplied(i)
                /\ rows' = [rows EXCEPT ![i].applied = rows[i].filled]
                /\ Advance(t, [th[t] EXCEPT !.cur = 0], rows')
        /\ UNCHANGED <<hold, overfilled, offers, buys, safe, env>>

\* An order that get_order left open is late (reprice_after_seconds): it is canceled and
\* refreshed once more. Nothing was there to apply in between.
Reprice(t, i) ==
    /\ At(t, "refresh") /\ th[t].job # "monitor" /\ th[t].cur = 0 /\ i \in th[t].todo
    /\ rows[i].broker = "OPEN"
    /\ rows' = [rows EXCEPT ![i] = Canceled(@)]
    /\ Advance(t, [th[t] EXCEPT !.todo = @ \ {i}, !.cur = i], rows')
    /\ UNCHANGED <<managed, hold, overfilled, offers, buys, safe, env>>

\* _cancel_open_sweep_buys and cancel_entry_release_orders, one order.
CancelRow(t, i) ==
    /\ th[t].at \in {"sweeps", "release"} /\ th[t].cur = 0 /\ i \in th[t].todo
    /\ rows' = [rows EXCEPT ![i] = Canceled(@)]
    /\ overfilled' = overfilled + MadeUp(rows[i])
    /\ Advance(t, [th[t] EXCEPT !.todo = @ \ {i}, !.cur = i], rows')
    /\ UNCHANGED <<managed, hold, offers, buys, safe, env>>

-----------------------------------------------------------------------------
(* A quote that may release cash (_build_quote, ensure_buying_power) *)

\* Mutant of Refused: the intent is left to be resumed again.
RefusedKept(t) == UNCHANGED intents /\ Return(t)

\* A quote is refused (ApprovalError): to the resuming scheduler that ends the intent.
Refused(t) ==
    /\ IF th[t].job = "resume" THEN SetIntent(Sig(t), "CANCELED", 0) ELSE UNCHANGED intents
    /\ Return(t)

Active(s) == intents[s].status \in {"WAITING", "AWAITING"}

EnoughCash(t) ==
    /\ At(t, "cash") /\ Available(Sig(t)) >= Need[Sig(t)]
    /\ Goto(t, "quote")
    /\ UNCHANGED <<sgov, offers, buys, safe, env>>

\* What is missing is computed from the cash read here, what is sold bounded by the SGOV
\* read after it.
LackOfCash(t) ==
    /\ At(t, "cash") /\ Available(Sig(t)) < Need[Sig(t)]
    /\ Become(t, [th[t] EXCEPT !.at = "lack", !.n = Need[Sig(t)] - Available(Sig(t))])
    /\ UNCHANGED <<sgov, offers, buys, safe, env>>

NothingToRelease(t) ==
    /\ At(t, "lack") /\ (safe \/ managed = 0)
    /\ Refused(t)
    /\ UNCHANGED <<sgov, approvals, buys, safe, env>>

\* upsert_cash_release_intent: an intent that is active keeps its status.
StartRelease(t) ==
    LET s == Sig(t)
    IN  /\ At(t, "lack") /\ ~safe /\ managed > 0
        /\ intents' = [intents EXCEPT ![s] = IF Active(s) THEN @ ELSE [status |-> "WAITING", own |-> 0]]
        /\ Become(t, [th[t] EXCEPT !.at = "open", !.n = Least(@, managed)])
        /\ UNCHANGED <<sgov, approvals, buys, safe, env>>

\* IdleCashReleasePending while another SGOV order is open.
OtherOrders(t) ==
    /\ At(t, "open")
    /\ IF OpenRows # {} THEN Return(t) ELSE Goto(t, "sell")
    /\ UNCHANGED <<sgov, offers, buys, safe, env>>

\* OrderManager.submit: the order is open, filled at once, or place_order raises, also
\* when a SELL that would fill is for more shares than there are.
Place(t, row, next) ==
    \/ /\ rows' = Append(rows, row)
       /\ Advance(t, [th[t] EXCEPT !.at = next, !.n = 0], rows') /\ UNCHANGED <<hold, faults>>
    \/ /\ row.side = "SELL" => row.qty <= hold
       /\ rows' = Append(rows, Filled(row))
       /\ hold' = IF row.side = "BUY" THEN hold + row.qty ELSE hold - row.qty
       /\ Advance(t, [th[t] EXCEPT !.at = next, !.n = 0, !.cur = Len(rows) + 1], rows')
       /\ UNCHANGED faults
    \/ /\ IF row.side = "SELL" /\ row.qty > hold THEN UNCHANGED faults
          ELSE faults < MaxFaults /\ faults' = faults + 1
       /\ rows' = Append(rows, [row EXCEPT !.status = "UNKNOWN", !.broker = "GONE"])
       /\ Leave(t) /\ UNCHANGED hold

\* The bound on rows ends the session for the thread that meets it.
Submit(t, side, n, next) ==
    /\ IF Len(rows) < MaxOrders THEN Place(t, Row(side, Sig(t), n), next)
       ELSE Stop(t) /\ UNCHANGED <<rows, hold, faults>>
    /\ UNCHANGED <<managed, overfilled, offers, buys, safe, turn, crashed>>

Sell(t) == At(t, "sell") /\ Submit(t, "SELL", th[t].n, "sold")

\* The sale was filled when it was placed, or its proceeds are awaited: the dry-run
\* broker rejects and cancels no order by itself, so that branch is not here.
Sold(t) ==
    /\ At(t, "sold") /\ th[t].cur = 0
    /\ IF Available(Sig(t)) >= Need[Sig(t)] THEN Goto(t, "quote") ELSE Return(t)
    /\ UNCHANGED <<sgov, offers, buys, safe, env>>

\* _build_quote looks at the cash once more.
Quote(t) ==
    /\ At(t, "quote")
    /\ IF Available(Sig(t)) >= Need[Sig(t)] THEN Goto(t, "issue") /\ UNCHANGED intents ELSE Refused(t)
    /\ UNCHANGED <<sgov, approvals, buys, safe, env>>

\* _issue_execution_approval: two transactions.
Issue(t) ==
    /\ At(t, "issue")
    /\ IF Len(approvals) < MaxApprovals
       THEN /\ approvals' = Append(approvals, [signal |-> Sig(t), status |-> "ACTIVE"])
            /\ Become(t, [th[t] EXCEPT !.at = "bind", !.n = Len(approvals) + 1])
       ELSE Stop(t) /\ UNCHANGED approvals
    /\ UNCHANGED <<sgov, intents, buys, safe, env>>

Bind(t) ==
    /\ At(t, "bind")
    /\ SetIntent(Sig(t), "AWAITING", th[t].n)
    /\ Return(t)
    /\ UNCHANGED <<sgov, approvals, buys, safe, env>>

-----------------------------------------------------------------------------
(* The scheduler's jobs, in the order of its loop *)

NextJob == [monitor |-> "resume", resume |-> "reconcile", reconcile |-> "sweep", sweep |-> "monitor"]

\* The monitor's pass, refresh_orders before the intents are resumed, run_once.
StartJob ==
    /\ At(Scheduler, "idle") /\ turn # "reconcile"
    /\ turn' = NextJob[turn]
    /\ Advance(Scheduler, [Idle EXCEPT !.job = turn, !.at = "refresh", !.todo = Known(rows)], rows)
    /\ UNCHANGED <<sgov, offers, buys, safe, faults, crashed>>

\* ReconciliationService.run, the part about SGOV.
Reconcile ==
    /\ At(Scheduler, "idle") /\ turn = "reconcile"
    /\ turn' = NextJob[turn]
    /\ safe' = (\/ managed > hold
                \/ \E i \in OpenRows : rows[i].broker # "OPEN")
    /\ UNCHANGED <<sgov, offers, buys, th, faults, crashed>>

\* Mutant of Ended: an intent whose approval was used waits for its execution.
EndedUnlessUsed(s) == approvals[intents[s].own].status = "ENDED"

\* The approval an intent waits for can no longer be used.
Ended(s) == approvals[intents[s].own].status # "ACTIVE"

\* pending_cash_release_intents, in one transaction.
PendingIntents ==
    /\ At(Scheduler, "pending")
    /\ intents' = [s \in Signals |->
                     [intents[s] EXCEPT !.status = IF intents[s].status = "AWAITING" /\ Ended(s) THEN "CANCELED"
                                                   ELSE IF Active(s) /\ s \in past THEN "EXPIRED" ELSE @]]
    /\ Become(Scheduler, [th[Scheduler] EXCEPT !.at = "list",
                             !.list = {s \in Signals \ past : intents[s].status = "WAITING"}])
    /\ UNCHANGED <<sgov, approvals, buys, safe, env>>

\* The next intent, if there is one: its quote begins like that of a review.
Resume(s) ==
    /\ At(Scheduler, "list") /\ s \in th[Scheduler].list
    /\ LET rest == th[Scheduler].list \ {s}
       IN  IF Live(s)
           THEN /\ Advance(Scheduler, [Idle EXCEPT !.job = "resume", !.at = "refresh", !.s = s,
                                                  !.todo = Known(rows), !.list = rest], rows)
                /\ UNCHANGED intents
           ELSE /\ SetIntent(s, "CANCELED", 0)
                /\ Advance(Scheduler, [th[Scheduler] EXCEPT !.list = rest], rows)
    /\ UNCHANGED <<sgov, approvals, buys, safe, env>>

Resumed ==
    /\ At(Scheduler, "list") /\ th[Scheduler].list = {}
    /\ Leave(Scheduler)
    /\ UNCHANGED <<sgov, offers, buys, safe, env>>

\* run_once looks whether anything or anybody waits for the cash ...
Free ==
    /\ ~safe /\ OpenRows = {} /\ Entries("open") = {}
    /\ \A a \in DOMAIN approvals : approvals[a].status # "ACTIVE"
    /\ \A s \in Signals \ past : ~Active(s)

Surplus == Least(Greatest(0, RawCash + managed) - managed, Available(NoSignal))

SweepBegins ==
    /\ At(Scheduler, "free")
    /\ IF Free THEN Goto(Scheduler, "surplus") ELSE Leave(Scheduler)
    /\ UNCHANGED <<sgov, offers, buys, safe, env>>

\* ... and then how much there is, with a price.
SweepDecides ==
    /\ At(Scheduler, "surplus")
    /\ IF Surplus > 0
       THEN Become(Scheduler, [th[Scheduler] EXCEPT !.at = "buy", !.n = Surplus])
       ELSE Leave(Scheduler)
    /\ UNCHANGED <<sgov, offers, buys, safe, env>>

\* The reservation refuses what the cash no longer covers: an exception.
SweepBuy ==
    /\ At(Scheduler, "buy")
    /\ IF th[Scheduler].n <= Reservable
       THEN Submit(Scheduler, "BUY", th[Scheduler].n, "bought")
       ELSE Leave(Scheduler) /\ UNCHANGED <<sgov, offers, buys, safe, env>>

-----------------------------------------------------------------------------
(* The operator *)

\* consume_review, with a review approval of any age.
Review(t, s) ==
    /\ At(t, "idle") /\ Live(s)
    /\ Advance(t, [Idle EXCEPT !.job = "review", !.at = "refresh", !.s = s, !.todo = Known(rows)], rows)
    /\ UNCHANGED <<sgov, offers, buys, safe, env>>

\* execute consumes the approval ...
Execute(t, a) ==
    /\ At(t, "idle") /\ approvals[a].status = "ACTIVE"
    /\ approvals' = [approvals EXCEPT ![a].status = "USED"]
    /\ Become(t, [Idle EXCEPT !.job = "execute", !.at = "compare", !.s = approvals[a].signal])
    /\ UNCHANGED <<sgov, intents, buys, safe, env>>

Canceling(t) == SetIntent(Sig(t), "CANCELED", 0) /\ Leave(t)

\* ... quotes again, without a release: the cash may be gone, or the price has moved ...
Compare(t) ==
    /\ At(t, "compare")
    /\ \/ /\ Live(Sig(t)) /\ Available(Sig(t)) >= Need[Sig(t)]
          /\ Goto(t, "submit") /\ UNCHANGED intents
       \/ Canceling(t)
    /\ UNCHANGED <<sgov, approvals, buys, safe, env>>

\* ... and reserves and places the BUY.
BuyEntry(t) ==
    /\ At(t, "submit")
    /\ IF entry[Sig(t)] = "none" /\ Need[Sig(t)] <= Reservable
       THEN /\ \E status \in {"open", "filled"} : entry' = [entry EXCEPT ![Sig(t)] = status]
            /\ Goto(t, "processed") /\ UNCHANGED intents
       ELSE Canceling(t) /\ UNCHANGED entry
    /\ UNCHANGED <<sgov, approvals, done, past, safe, env>>

Processed(t) ==
    /\ At(t, "processed")
    /\ done' = done \cup {Sig(t)}
    /\ SetIntent(Sig(t), "COMPLETED", 0)
    /\ Leave(t)
    /\ UNCHANGED <<sgov, approvals, entry, past, safe, env>>

\* The cancel button of an approval of a signal, REVIEW or EXECUTION, of any age; that of
\* a pending release.
CancelApproval(t, s) ==
    /\ At(t, "idle")
    /\ approvals' = [a \in DOMAIN approvals |->
                       [approvals[a] EXCEPT !.status = IF @ = "ACTIVE" /\ approvals[a].signal = s
                                                       THEN "ENDED" ELSE @]]
    /\ Become(t, [Idle EXCEPT !.job = "cancel", !.at = "cancel", !.s = s])
    /\ UNCHANGED <<sgov, intents, buys, safe, env>>

CancelRelease(t, s) ==
    /\ At(t, "idle") /\ intents[s].status # "NONE"
    /\ Advance(t, [Idle EXCEPT !.job = "cancel", !.at = "release", !.s = s,
                              !.todo = {i \in Known(rows) \cap Sides("SELL") : rows[i].signal = s}], rows)
    /\ UNCHANGED <<sgov, offers, buys, safe, env>>

CancelIntent(t) ==
    /\ At(t, "cancel")
    /\ Canceling(t)
    /\ UNCHANGED <<sgov, approvals, buys, safe, env>>

-----------------------------------------------------------------------------
(* The market, the clock and the process *)

\* A strategy BUY fills, or ends and its signal is offered again (CoreBuying).
EntryEnds(s) ==
    /\ entry[s] = "open"
    /\ \/ entry' = [entry EXCEPT ![s] = "filled"] /\ UNCHANGED done
       \/ entry' = [entry EXCEPT ![s] = "none"] /\ done' = done \ {s}
    /\ UNCHANGED <<sgov, offers, past, safe, th, env>>

ApprovalExpires(a) ==
    /\ approvals[a].status = "ACTIVE"
    /\ approvals' = [approvals EXCEPT ![a].status = "ENDED"]
    /\ UNCHANGED <<sgov, intents, buys, safe, th, env>>

SignalExpires(s) ==
    /\ s \in Signals \ past
    /\ faults < MaxFaults /\ faults' = faults + 1
    /\ past' = past \cup {s}
    /\ UNCHANGED <<sgov, offers, entry, done, safe, th, turn, crashed>>

\* The broker of a new process has the open orders again, and the SGOV the ledger says
\* (restore_dry_run_orders, restore_dry_run_holdings).
Restored(row) == [row EXCEPT !.broker = IF row.status = "OPEN" THEN "OPEN" ELSE @]

Crash ==
    /\ faults < MaxFaults /\ faults' = faults + 1 /\ crashed' = TRUE
    /\ hold' = managed /\ overfilled' = 0
    /\ rows' = [i \in DOMAIN rows |-> Restored(rows[i])]
    /\ th' = [t \in Threads |-> Idle]
    /\ turn' = "monitor"
    /\ UNCHANGED <<managed, offers, buys, safe>>

-----------------------------------------------------------------------------
\* What a thread does by itself, apart from the repricing of a late order.
Step(t) ==
    \/ \E i \in th[t].todo : Refresh(t, i) \/ CancelRow(t, i) \/ Overfills(t, i)
    \/ ApplyFill(t)
    \/ EnoughCash(t) \/ LackOfCash(t) \/ NothingToRelease(t) \/ StartRelease(t) \/ OtherOrders(t)
    \/ Sell(t) \/ Sold(t) \/ Quote(t) \/ Issue(t) \/ Bind(t)
    \/ Compare(t) \/ BuyEntry(t) \/ Processed(t) \/ CancelIntent(t)

Round ==
    \/ StartJob \/ Reconcile \/ PendingIntents \/ (\E s \in Signals : Resume(s)) \/ Resumed
    \/ SweepBegins \/ SweepDecides \/ SweepBuy

Presses(t) ==
    \/ \E s \in Signals : Review(t, s) \/ CancelApproval(t, s) \/ CancelRelease(t, s)
    \/ \E a \in DOMAIN approvals : Execute(t, a)

Next ==
    \/ Round
    \/ \E t \in Threads : Step(t) \/ PriceFails(t) \/ \E i \in th[t].todo : Reprice(t, i)
    \/ \E t \in Handlers : Presses(t)
    \/ \E s \in Signals : EntryEnds(s) \/ SignalExpires(s)
    \/ \E a \in DOMAIN approvals : ApprovalExpires(a)
    \/ Crash

Spec == Init /\ [][Next]_vars

Late == \E i \in th[Scheduler].todo : Reprice(Scheduler, i)

\* The scheduler's loop goes on for ever, and an order that does not fill is late some
\* time. Nobody has to press a button, and a handler may hang.
Fairness == WF_vars(Round \/ Step(Scheduler)) /\ SF_vars(Late)

FairSpec == Spec /\ Fairness

-----------------------------------------------------------------------------
(* Properties *)

\* The types, and the bounds: SGOV that is managed never becomes negative, though two
\* threads refresh, sell and apply at once. (It may be more than the capital for a while:
\* a sale that is stored and not yet applied is cash, and still managed.)
TypeOK ==
    /\ managed \in Nat /\ hold \in Nat /\ overfilled \in Nat
    /\ Len(rows) <= MaxOrders
    /\ \A i \in DOMAIN rows :
          /\ rows[i].status \in {"OPEN", "FILLED", "CANCELED", "UNKNOWN"}
          /\ rows[i].applied \in 0..rows[i].filled
          /\ rows[i].filled \in {0, rows[i].qty}
    /\ \A s \in Signals :
          /\ intents[s].status \in {"NONE", "WAITING", "AWAITING", "COMPLETED", "CANCELED", "EXPIRED"}
          /\ intents[s].own \in 0..Len(approvals)
          /\ intents[s].status = "AWAITING" => intents[s].own # 0
          /\ entry[s] \in {"none", "open", "filled"}
    /\ \A a \in DOMAIN approvals : approvals[a].status \in {"ACTIVE", "USED", "ENDED"}
    /\ faults \in 0..MaxFaults

\* Each fill moves managed SGOV at most once, whoever refreshes: it differs from what
\* the broker holds by fills that no refresh_orders or cancellation has applied. That
\* includes, for ever, those of an order whose end the monitor was the first to see.
ManagedDiffersByUnappliedFills ==
    crashed \/ hold = managed + overfilled
                      - SumFunction([i \in DOMAIN rows |-> Proceeds(rows[i], rows[i].filled - rows[i].applied)])

\* Sweeps by the scheduler and BUYs by handlers share one purse: the open ones together
\* never exceed the cash that stored fills have left.
CashCoversOrders == Reserved <= RawCash

Dead(s) == intents[s].status = "AWAITING" /\ approvals[intents[s].own].status # "ACTIVE"

\* Cash is not kept for a BUY that cannot come: an intent whose approval was used,
\* canceled or has expired gives its cash free, also when its handler has crashed.
DeadIntentsEnd == \A s \in Signals : Dead(s) ~> ~Dead(s) \/ BoundMet

\* A signal does not wait for its sale for ever: the approval is offered or the intent
\* ends, through late orders, refused sales, crashes and fills the ledger never sees.
\* (The signal's own expiry is not needed.)
WaitingEnds ==
    \A s \in Signals :
        intents[s].status = "WAITING"
            ~> intents[s].status # "WAITING" \/ BoundMet
=============================================================================
