----------------------------- MODULE Allocation -----------------------------
(***************************************************************************)
(* PortfolioService.run_allocation over all symbols, one transaction at a  *)
(* time: the weights of a completed session, their generation in           *)
(* core_positions, the quantities frozen in the next session, the SELLs,   *)
(* and the BUYs offered after them. A crash may come between any two       *)
(* transactions, and a Telegram thread that confirmed an onboarding stage  *)
(* may run it beside the scheduler.                                        *)
(*                                                                         *)
(* Prices only decide how many shares a weight buys, so a frozen quantity  *)
(* is chosen. A BUY is one step here (CoreBuying has the rest), a SELL is  *)
(* its row and whether the ledger has it, and fills whole unless it is     *)
(* canceled (OrderLedger has the rest).                                    *)
(***************************************************************************)
EXTENDS Integers, Sequences, FiniteSets, Functions

CONSTANTS
    SymbolOrder,   \* ALLOCATION_SYMBOLS, in the order of the loops
    Runs,          \* threads that call run_allocation
    Scheduler,     \* the one that does so at every tick
    Weights,       \* target weights; 0 is none
    MaxTarget,     \* bound on frozen quantities
    MaxSessions,   \* bound on completed sessions
    MaxCrashes     \* bound on crashes

Symbols == Range(SymbolOrder)
Sessions == 1..MaxSessions

ASSUME AllocationAssumption ==
    /\ SymbolOrder \in Seq(Symbols) /\ IsInjective(SymbolOrder) /\ SymbolOrder # << >>
    /\ Scheduler \in Runs
    /\ 0 \in Weights /\ Weights \subseteq Nat
    /\ MaxTarget \in Nat /\ MaxSessions \in Nat \ {0} /\ MaxCrashes \in Nat

VARIABLES
    \* the calendar and the strategy
    session,     \* the latest completed session, 0 before the first
    started,     \* the exchange date of the session after it has come
    wanted,      \* [Sessions -> weights the strategy computes from its data]
    \* core_positions
    weight, generation, target, qty,   \* generation: signal_trade_date, 0 when null
    \* system_state
    key,         \* TARGET_QTY_GENERATION_KEY, 0 when empty
    marker,      \* last_v322_allocation_trade_date, 0 when missing
    safe,        \* SAFE_MODE: sticky
    \* orders and signals
    sell,        \* [Symbols -> [Sessions -> the SELL row of the generation]]
    offered,     \* [Symbols -> shares of the active BUY signal, 0 when none]
    offeredOn,   \* [Symbols -> session after which that signal was made]
    \* threads
    run,         \* [Runs -> where the run is and what it has read]
    crashes

clockVars == <<session, started, wanted>>
coreVars == <<weight, generation, target, qty>>
stateVars == <<key, marker, safe>>
signalVars == <<offered, offeredOn>>
vars == <<clockVars, coreVars, stateVars, sell, signalVars, run, crashes>>

NoRow == [status |-> "NONE", qty |-> 0, applied |-> FALSE]
NoPlan == [s \in Symbols |-> 0]
Idle == [pc |-> "idle", date |-> 0, late |-> FALSE, i |-> 1, changed |-> FALSE,
         generation |-> 0, plan |-> NoPlan, seen |-> 0]

\* A new ledger: nothing is held ...
Fresh ==
    /\ session = 0 /\ started = FALSE
    /\ wanted = [d \in Sessions |-> NoPlan]
    /\ weight = NoPlan /\ generation = NoPlan /\ target = NoPlan
    /\ key = 0 /\ marker = 0 /\ qty = NoPlan

\* ... or everything is, and the quantities of a reduction have just been frozen.
JustFrozen ==
    /\ session = 1 /\ started = TRUE
    /\ weight \in [Symbols -> Weights]
    /\ wanted = [d \in Sessions |-> IF d = 1 THEN weight ELSE NoPlan]
    /\ generation = [s \in Symbols |-> 1]
    /\ target = [s \in Symbols |-> IF weight[s] = 0 THEN 0 ELSE MaxTarget]
    /\ key = 1 /\ marker = 1
    /\ qty = [s \in Symbols |-> MaxTarget]

Init ==
    /\ Fresh \/ JustFrozen
    /\ safe = FALSE
    /\ sell = [s \in Symbols |-> [g \in Sessions |-> NoRow]]
    /\ offered = NoPlan /\ offeredOn = NoPlan
    /\ run = [r \in Runs |-> Idle]
    /\ crashes = 0

-----------------------------------------------------------------------------
(* Threads *)

At(r, pc) == run[r].pc = pc
Symbol(r) == SymbolOrder[run[r].i]

Goto(r, pc) == run' = [run EXCEPT ![r].pc = pc, ![r].i = 1]

\* run_allocation returns, or its exception reaches the scheduler.
Return(r) == run' = [run EXCEPT ![r] = Idle]

\* The next symbol of a loop at pc, or what follows it.
NextSymbol(r, pc, after) ==
    IF run[r].i < Len(SymbolOrder)
    THEN run' = [run EXCEPT ![r].pc = pc, ![r].i = @ + 1]
    ELSE Goto(r, after)

\* The same for the last loop of a run.
NextSymbolOrReturn(r, pc) ==
    IF run[r].i < Len(SymbolOrder) THEN NextSymbol(r, pc, pc) ELSE Return(r)

-----------------------------------------------------------------------------
(* The beginning of a run *)

Rows == {sell[s][g] : s \in Symbols, g \in Sessions}

\* Mutant of OpenSell: only rows that need attention count as open.
OpenSellUnknown == \E row \in Rows : row.status = "UNKNOWN"

\* Mutant of OpenSell: a SELL that was not canceled counts as open.
OpenSellEver == \E row \in Rows : row.status \in {"OPEN", "UNKNOWN", "FILLED"}

\* _has_open_core_sell
OpenSell == \E row \in Rows : row.status \in {"OPEN", "UNKNOWN"}

\* ReconciliationService.run: a fill the ledger lacks, or a row without broker id.
Mismatch == \E row \in Rows : row.status = "UNKNOWN" \/ (row.status = "FILLED" /\ ~row.applied)

\* current and the completed session are fixed here for the whole run.
Begin(r) ==
    /\ At(r, "idle") /\ ~safe /\ session > 0
    /\ IF Mismatch
       THEN safe' = TRUE /\ UNCHANGED run
       ELSE /\ run' = [run EXCEPT ![r] =
                   [Idle EXCEPT !.pc = IF marker # session THEN "compare" ELSE "generations",
                                !.date = session, !.late = started]]
            /\ UNCHANGED safe
    /\ UNCHANGED <<clockVars, coreVars, key, marker, sell, signalVars, crashes>>

\* A history or a price cannot be fetched.
RunFails(r) ==
    /\ \/ At(r, "compare") /\ run[r].i = 1
       \/ At(r, "plan")
       \/ At(r, "sell") /\ qty[Symbol(r)] > target[Symbol(r)]
       \/ At(r, "offer") /\ qty[Symbol(r)] < target[Symbol(r)]
    /\ Return(r)
    /\ UNCHANGED <<clockVars, coreVars, stateVars, sell, signalVars, crashes>>

-----------------------------------------------------------------------------
(* A completed session that was not evaluated yet *)

\* get_core_position, symbol by symbol: has a weight changed?
Compare(r) ==
    /\ At(r, "compare")
    /\ LET changed == run[r].changed \/ weight[Symbol(r)] # wanted[run[r].date][Symbol(r)]
       IN  run' = [run EXCEPT
               ![r].changed = changed,
               ![r].pc = IF run[r].i < Len(SymbolOrder) THEN "compare"
                         ELSE IF changed THEN "invalidate" ELSE "mark",
               ![r].i = IF run[r].i < Len(SymbolOrder) THEN @ + 1 ELSE 1]
    /\ UNCHANGED <<clockVars, coreVars, stateVars, sell, signalVars, crashes>>

\* invalidate_active_signals of one symbol
InvalidateSignals(r) ==
    /\ At(r, "invalidate")
    /\ offered' = [offered EXCEPT ![Symbol(r)] = 0]
    /\ offeredOn' = [offeredOn EXCEPT ![Symbol(r)] = 0]
    /\ NextSymbol(r, "invalidate", "settle")

\* Mutant of Invalidate: the session counts as evaluated before its targets are set.
InvalidateAndMark(r) ==
    /\ InvalidateSignals(r)
    /\ marker' = run[r].date
    /\ UNCHANGED <<clockVars, coreVars, key, safe, sell, crashes>>

Invalidate(r) ==
    /\ InvalidateSignals(r)
    /\ UNCHANGED <<clockVars, coreVars, stateVars, sell, crashes>>

\* _cancel_open_core_orders, one order: canceled after n shares of it are applied.
SettleSell(r) ==
    /\ At(r, "settle")
    /\ \E s \in Symbols, g \in Sessions : \E n \in 0..sell[s][g].qty :
          /\ sell[s][g].status = "OPEN"
          /\ sell' = [sell EXCEPT
                 ![s][g].status = IF n = sell[s][g].qty THEN "FILLED" ELSE "CANCELED",
                 ![s][g].applied = TRUE]
          /\ qty' = [qty EXCEPT ![s] = @ - n]
    /\ UNCHANGED <<clockVars, weight, generation, target, stateVars, signalVars, run, crashes>>

\* A cancel that fails, or is not confirmed, ends the run.
SettleFails(r) ==
    /\ At(r, "settle") /\ OpenSell
    /\ safe' = TRUE
    /\ Return(r)
    /\ UNCHANGED <<clockVars, coreVars, key, marker, sell, signalVars, crashes>>

Settled(r) ==
    /\ At(r, "settle") /\ ~OpenSell
    /\ Goto(r, "set")
    /\ UNCHANGED <<clockVars, coreVars, stateVars, sell, signalVars, crashes>>

SetCoreTarget(s, w, g, n) ==
    /\ weight' = [weight EXCEPT ![s] = w]
    /\ generation' = [generation EXCEPT ![s] = g]
    /\ target' = [target EXCEPT ![s] = n]
    /\ UNCHANGED qty

\* One transaction per symbol: the new weight, and no quantity yet.
SetTarget(r) ==
    /\ At(r, "set")
    /\ SetCoreTarget(Symbol(r), wanted[run[r].date][Symbol(r)], run[r].date, 0)
    /\ NextSymbol(r, "set", "clear")
    /\ UNCHANGED <<clockVars, stateVars, sell, signalVars, crashes>>

ClearKey(r) ==
    /\ At(r, "clear")
    /\ key' = 0
    /\ Goto(r, "mark")
    /\ UNCHANGED <<clockVars, coreVars, marker, safe, sell, signalVars, crashes>>

MarkEvaluated(r) ==
    /\ At(r, "mark")
    /\ marker' = run[r].date
    /\ Goto(r, "generations")
    /\ UNCHANGED <<clockVars, coreVars, key, safe, sell, signalVars, crashes>>

-----------------------------------------------------------------------------
(* Freezing the quantities in the next session *)

\* next_session_has_started, for the time read at the beginning.
Started(r, g) == g < run[r].date \/ (g = run[r].date /\ run[r].late)

\* The one generation of all rows that have one, when its session has started.
Tradable(r, g) == Range(generation) \ {0} = {g} /\ Started(r, g)

CheckGenerations(r) ==
    /\ At(r, "generations")
    /\ IF \E g \in Sessions : Tradable(r, g)
       THEN \E g \in Sessions :
               /\ Tradable(r, g)
               /\ run' = [run EXCEPT ![r].pc = "key", ![r].generation = g]
       ELSE Return(r)
    /\ UNCHANGED <<clockVars, coreVars, stateVars, sell, signalVars, crashes>>

\* session_is_allowed or the maintenance window says no.
SessionNotAllowed(r) ==
    /\ At(r, "generations")
    /\ Return(r)
    /\ UNCHANGED <<clockVars, coreVars, stateVars, sell, signalVars, crashes>>

\* Mutant of Frozen: the key is compared with the session just evaluated.
FrozenToday(r) == key = run[r].date

Frozen(r) == key = run[r].generation

ReadKey(r) ==
    /\ At(r, "key")
    /\ Goto(r, IF Frozen(r) THEN "sells" ELSE "plan")
    /\ UNCHANGED <<clockVars, coreVars, stateVars, sell, signalVars, crashes>>

\* All quantities are computed before the first is written.
Plan(r) ==
    /\ At(r, "plan")
    /\ \E plan \in [Symbols -> 0..MaxTarget] :
          /\ \A s \in Symbols : weight[s] = 0 => plan[s] = 0
          /\ run' = [run EXCEPT ![r].pc = "read", ![r].plan = plan]
    /\ UNCHANGED <<clockVars, coreVars, stateVars, sell, signalVars, crashes>>

\* The weight is read again and written back with the quantity.
FreezeRead(r) ==
    /\ At(r, "read")
    /\ run' = [run EXCEPT ![r].pc = "write", ![r].seen = weight[Symbol(r)]]
    /\ UNCHANGED <<clockVars, coreVars, stateVars, sell, signalVars, crashes>>

FreezeWrite(r) ==
    /\ At(r, "write")
    /\ SetCoreTarget(Symbol(r), run[r].seen, run[r].generation, run[r].plan[Symbol(r)])
    /\ NextSymbol(r, "read", "stamp")
    /\ UNCHANGED <<clockVars, stateVars, sell, signalVars, crashes>>

StampKey(r) ==
    /\ At(r, "stamp")
    /\ key' = run[r].generation
    /\ Goto(r, "sells")
    /\ UNCHANGED <<clockVars, coreVars, marker, safe, sell, signalVars, crashes>>

-----------------------------------------------------------------------------
(* SELLs *)

\* No SELL is submitted while one is open.
CheckSells(r) ==
    /\ At(r, "sells")
    /\ Goto(r, IF OpenSell THEN "barrier" ELSE "sell")
    /\ UNCHANGED <<clockVars, coreVars, stateVars, sell, signalVars, crashes>>

NothingToSell(r) ==
    /\ At(r, "sell") /\ qty[Symbol(r)] <= target[Symbol(r)]
    /\ NextSymbol(r, "sell", "barrier")
    /\ UNCHANGED <<clockVars, coreVars, stateVars, sell, signalVars, crashes>>

\* _sell_core for an id without a row: filled at once, pending, or UNKNOWN. The dry-run
\* broker's place_order never answers with a part of an order or with its end.
SubmitSell(r) ==
    LET s == Symbol(r)
        g == generation[s]
        Row(status) == [status |-> status, qty |-> qty[s] - target[s], applied |-> FALSE]
    IN  /\ At(r, "sell") /\ qty[s] > target[s] /\ sell[s][g].status = "NONE"
        /\ \/ /\ sell' = [sell EXCEPT ![s][g] = Row("FILLED")]
              /\ run' = [run EXCEPT ![r].pc = "apply", ![r].generation = g]
              /\ UNCHANGED safe
           \/ /\ sell' = [sell EXCEPT ![s][g] = Row("OPEN")]
              /\ NextSymbol(r, "sell", "barrier")
              /\ UNCHANGED safe
           \/ /\ sell' = [sell EXCEPT ![s][g] = Row("UNKNOWN")]
              /\ Return(r) /\ safe' = TRUE
        /\ UNCHANGED <<clockVars, coreVars, key, marker, signalVars, crashes>>

\* The id of a SELL is built from symbol and generation: a second one finds the
\* row of the first. If that is incomplete, or has another quantity and the broker
\* still knows it, this is SAFE_MODE; otherwise nothing is sold.
ResubmitSell(r) ==
    LET s == Symbol(r)
        row == sell[s][generation[s]]
    IN  /\ At(r, "sell") /\ qty[s] > target[s] /\ row.status # "NONE"
        /\ IF row.status \in {"CANCELED", "UNKNOWN"}
           THEN Return(r) /\ safe' = TRUE
           ELSE \/ NextSymbol(r, "sell", "barrier") /\ UNCHANGED safe
                \/ row.qty # qty[s] - target[s] /\ Return(r) /\ safe' = TRUE
        /\ UNCHANGED <<clockVars, coreVars, key, marker, sell, signalVars, crashes>>

\* Mutant of SellApplied: the progress of the ledger is not recorded.
SellAppliedUnrecorded(row) == [row EXCEPT !.status = "FILLED"]

\* apply_core_fill of a SELL, and its row.
SellApplied(row) == [row EXCEPT !.status = "FILLED", !.applied = TRUE]

ApplySell(s, g) ==
    /\ qty' = [qty EXCEPT ![s] = @ - sell[s][g].qty]
    /\ sell' = [sell EXCEPT ![s][g] = SellApplied(@)]
    /\ UNCHANGED <<weight, generation, target>>

ApplyOwnSell(r) ==
    /\ At(r, "apply")
    /\ ApplySell(Symbol(r), run[r].generation)
    /\ NextSymbol(r, "sell", "barrier")
    /\ UNCHANGED <<clockVars, stateVars, signalVars, crashes>>

\* The monitor, in the scheduler's thread, sees a pending SELL filled.
SellFills(s, g) ==
    /\ sell[s][g].status = "OPEN" /\ At(Scheduler, "idle")
    /\ ApplySell(s, g)
    /\ UNCHANGED <<clockVars, stateVars, signalVars, run, crashes>>

-----------------------------------------------------------------------------
(* BUYs *)

\* A SELL that is not final ends the run ...
Barrier(r) ==
    /\ At(r, "barrier")
    /\ IF OpenSell THEN Return(r) ELSE Goto(r, "reconcile")
    /\ UNCHANGED <<clockVars, coreVars, stateVars, sell, signalVars, crashes>>

\* ... and so does a final one that broker and ledger do not agree on.
Reconcile(r) ==
    /\ At(r, "reconcile")
    /\ IF Mismatch \/ safe THEN Return(r) ELSE Goto(r, "expire")
    /\ safe' = (safe \/ Mismatch)
    /\ UNCHANGED <<clockVars, coreVars, key, marker, sell, signalVars, crashes>>

\* A signal is valid until the close of the session after the one evaluated.
Lapsed(s, date) == offered[s] > 0 /\ offeredOn[s] < date

ExpireSignals(r) ==
    /\ At(r, "expire")
    /\ offered' = [s \in Symbols |-> IF Lapsed(s, run[r].date) THEN 0 ELSE offered[s]]
    /\ offeredOn' = [s \in Symbols |-> IF Lapsed(s, run[r].date) THEN 0 ELSE offeredOn[s]]
    /\ Goto(r, "offer")
    /\ UNCHANGED <<clockVars, coreVars, stateVars, sell, crashes>>

\* _apply_target(allow_buy=True)
Offer(r) ==
    LET s == Symbol(r)
    IN  /\ At(r, "offer")
        /\ IF ~safe /\ offered[s] = 0 /\ qty[s] < target[s]
           THEN /\ offered' = [offered EXCEPT ![s] = target[s] - qty[s]]
                /\ offeredOn' = [offeredOn EXCEPT ![s] = run[r].date]
           ELSE UNCHANGED signalVars
        /\ NextSymbolOrReturn(r, "offer")
        /\ UNCHANGED <<clockVars, coreVars, stateVars, sell, crashes>>

\* The operator approves a BUY, which may fill in part; the reservation has
\* checked the target.
BuyFills(s) ==
    /\ offered[s] > 0 /\ ~Lapsed(s, session) /\ ~safe
    /\ \E n \in 1..offered[s] :
          /\ qty[s] + n <= target[s]
          /\ qty' = [qty EXCEPT ![s] = @ + n]
    /\ offered' = [offered EXCEPT ![s] = 0]
    /\ offeredOn' = [offeredOn EXCEPT ![s] = 0]
    /\ UNCHANGED <<clockVars, weight, generation, target, stateVars, sell, run, crashes>>

-----------------------------------------------------------------------------
(* The calendar, and the process *)

SessionCompletes ==
    /\ session < MaxSessions /\ (session = 0 \/ started)
    /\ session' = session + 1 /\ started' = FALSE
    /\ \E w \in [Symbols -> Weights] : wanted' = [wanted EXCEPT ![session + 1] = w]
    /\ UNCHANGED <<coreVars, stateVars, sell, signalVars, run, crashes>>

NextSessionStarts ==
    /\ session > 0 /\ ~started
    /\ started' = TRUE
    /\ UNCHANGED <<session, wanted, coreVars, stateVars, sell, signalVars, run, crashes>>

\* The runs are gone; the start-up applies every stored fill and reconciles.
Crash ==
    /\ crashes < MaxCrashes
    /\ crashes' = crashes + 1
    /\ run' = [r \in Runs |-> Idle]
    /\ LET Lost(s) == {g \in Sessions : sell[s][g].status = "FILLED" /\ ~sell[s][g].applied}
       IN  /\ qty' = [s \in Symbols |->
                 IF Lost(s) = {} THEN qty[s]
                 ELSE qty[s] - sell[s][CHOOSE g \in Lost(s) : TRUE].qty]
           /\ sell' = [s \in Symbols |-> [g \in Sessions |->
                 [sell[s][g] EXCEPT !.applied = @ \/ g \in Lost(s)]]]
    /\ safe' = (safe \/ \E row \in Rows : row.status = "UNKNOWN")
    /\ UNCHANGED <<clockVars, weight, generation, target, key, marker, signalVars>>

-----------------------------------------------------------------------------
Step(r) ==
    \/ Compare(r) \/ Invalidate(r) \/ SettleSell(r) \/ Settled(r) \/ SetTarget(r)
    \/ ClearKey(r) \/ MarkEvaluated(r)
    \/ CheckGenerations(r) \/ ReadKey(r) \/ Plan(r) \/ FreezeRead(r) \/ FreezeWrite(r)
    \/ StampKey(r) \/ CheckSells(r) \/ NothingToSell(r) \/ SubmitSell(r) \/ ResubmitSell(r)
    \/ ApplyOwnSell(r) \/ Barrier(r) \/ Reconcile(r) \/ ExpireSignals(r) \/ Offer(r)

Fails(r) == RunFails(r) \/ SettleFails(r) \/ SessionNotAllowed(r)

Next ==
    \/ \E r \in Runs : Begin(r) \/ Step(r) \/ Fails(r)
    \/ \E s \in Symbols : BuyFills(s) \/ \E g \in Sessions : SellFills(s, g)
    \/ SessionCompletes \/ NextSessionStarts
    \/ Crash

Spec == Init /\ [][Next]_vars

\* The loop of the scheduler comes back and a run goes on. Histories and prices can
\* be fetched, and orders are allowed, again and again.
Fairness ==
    /\ WF_vars(NextSessionStarts)
    /\ WF_vars(Begin(Scheduler))
    /\ \A r \in Runs :
          /\ WF_vars(Step(r))
          /\ SF_vars(Compare(r)) /\ SF_vars(CheckGenerations(r)) /\ SF_vars(Plan(r))
          /\ SF_vars(SubmitSell(r) \/ ResubmitSell(r))

FairSpec == Spec /\ Fairness

-----------------------------------------------------------------------------
(* Properties *)

Quantities == 0..MaxTarget
Statuses == {"NONE", "OPEN", "FILLED", "CANCELED", "UNKNOWN"}
Places == {"idle", "compare", "invalidate", "settle", "set", "clear", "mark", "generations",
           "key", "plan", "read", "write", "stamp", "sells", "sell", "apply", "barrier",
           "reconcile", "expire", "offer"}

\* The types. Holdings never become negative, though a SELL is applied by the run
\* that placed it, by the monitor, by the settlement of a superseded generation or
\* by the start-up.
TypeOK ==
    /\ session \in 0..MaxSessions /\ started \in BOOLEAN
    /\ wanted \in [Sessions -> [Symbols -> Weights]]
    /\ weight \in [Symbols -> Weights]
    /\ generation \in [Symbols -> 0..MaxSessions]
    /\ target \in [Symbols -> Quantities] /\ qty \in [Symbols -> Quantities]
    /\ key \in 0..MaxSessions /\ marker \in 0..MaxSessions /\ safe \in BOOLEAN
    /\ sell \in [Symbols -> [Sessions ->
          [status : Statuses, qty : Quantities, applied : BOOLEAN]]]
    /\ offered \in [Symbols -> Quantities] /\ offeredOn \in [Symbols -> 0..MaxSessions]
    /\ run \in [Runs -> [pc : Places, date : 0..MaxSessions, late : BOOLEAN,
                         i : 1..Len(SymbolOrder), changed : BOOLEAN,
                         generation : 0..MaxSessions, plan : [Symbols -> Quantities],
                         seen : Weights]]
    /\ crashes \in 0..MaxCrashes

NewOffer(s) == offered[s] = 0 /\ offered'[s] > 0
NewSell(s) == \E g \in Sessions : sell[s][g].status = "NONE" /\ sell'[s][g].status # "NONE"

\* No BUY is offered while a SELL of any symbol is pending or unknown, or while any
\* symbol is held beyond its frozen target, whatever runs failed or died before
\* (the barrier between the two _apply_target loops).
BuyAfterSell ==
    [][(\E s \in Symbols : NewOffer(s)) =>
          /\ \A row \in Rows : row.status \notin {"OPEN", "UNKNOWN"}
          /\ \A s \in Symbols : qty[s] <= target[s] /\ (generation[s] # 0 => generation[s] = key)]_vars

\* What is sold and offered follows the weights of the last evaluated session, those
\* of all symbols, though they are stored one by one (the marker is written last).
TradesFollowTheStrategy ==
    [][(\E s \in Symbols : NewOffer(s) \/ NewSell(s)) => weight = wanted[marker]]_vars

\* Once the key is stamped, the quantities of its generation do not change: one
\* price decides them (TARGET_QTY_GENERATION_KEY).
FrozenOnce ==
    [][\A s \in Symbols : (key # 0 /\ generation[s] = key /\ UNCHANGED <<key, generation>>)
                             => target'[s] = target[s]]_vars

OneGeneration == \E g \in Sessions : \A s \in Symbols : generation[s] = g

\* Shares beyond the frozen target, or of a symbol that has no weight left.
Surplus(s) == IF key = generation[s] THEN qty[s] > target[s] ELSE weight[s] = 0 /\ qty[s] > 0

\* With one generation stored, every surplus is sold, is under way, or the bot has
\* stopped trading for an operator, again and again, through failed runs and a crash.
SurplusIsSold ==
    []<>(\/ ~OneGeneration \/ safe \/ \E row \in Rows : row.status = "OPEN"
         \/ \A s \in Symbols : ~Surplus(s))

\* Without that condition: a symbol that lost its weight is sold automatically.
\* docs/JDSS_FINAL_SPEC.md:89.
ReductionIsSold ==
    \A s \in Symbols :
        (weight[s] = 0 /\ qty[s] > 0) ~>
            (qty[s] = 0 \/ weight[s] > 0 \/ safe \/ \E row \in Rows : row.status = "OPEN")
=============================================================================
