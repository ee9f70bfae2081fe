# JDSS V3.2.2: a TLA+ model of the trading bot

JD_HOLDINGS is a Telegram-operated trading bot: a scheduler computes monthly target weights
for QQQ, TQQQ and SOXL, offers the increases as BUY signals that the operator approves twice,
sells decreases by itself, and keeps the books in SQLite. The broker is, for now, a dry-run
broker that lives in the memory of the process. This directory specifies the part of the
program where steps of several threads, crashes and money meet. Paths below are relative to
`src/jd_holdings/` of the repository.

## 1. Inventory

| Component | Code | State | Operations | Model |
|---|---|---|---|---|
| Order submission, refresh | `application/order_manager.py` | none of its own | `submit`, `refresh_order`, receipt validation | `OrderLedger` |
| Core ledger | `application/database.py` | `orders`, `core_positions`, `core_fill_progress` | `reserve_order`, `update_order`, `apply_core_fill`, `open_orders`, `set_core_target` | `OrderLedger`, `ExactlyOnceLedger` |
| Order monitor | `application/order_monitor.py` | none | `run_once`, `_handle_core_order`, recovery of take-profit orders | `OrderLedger`, `CoreBuying`, `DirectPosition`, `IdleCash` |
| Dry-run broker | `application/broker.py` | orders, holdings, cash, all in memory | `place_order`, `get_order`, `cancel_order`, `_apply_fill` | `OrderLedger`, `ManagedCapital`, `DirectPosition`, `IdleCash` |
| Start-up recovery | `bot.py` | none | `recover_unapplied_core_fills`, `restore_dry_run_*`, first reconciliation | `OrderLedger`, `ManagedCapital` |
| Signals and approvals | `application/trading_service.py`, `allocation_trading_service.py`, `database.py` | `signals`, `approvals` | review, quote, execution, cancel, expiry | `CoreBuying` |
| Managed capital | `application/managed_account.py`, `core/v322_allocation.py` | `system_state` (HWM, budget); cash is reconstructed from rows | `reserve_buy_order_with_managed_cash`, `record_v322_equity` | `ManagedCapital`, `CoreBuying` |
| Allocation run | `application/portfolio_service.py` | `core_positions` targets, generation key | `run_allocation`, `_apply_target`, `_cancel_open_core_orders`, `_sell_core` | `Allocation`; BUY of one symbol in `CoreBuying`, settle loop and SELL in `OrderLedger` |
| Initial onboarding | `application/initial_onboarding_portfolio.py`, `infrastructure/initial_onboarding_telegram.py` | stage keys in `system_state` | start, advance, progress, stage targets and signals | `Onboarding` |
| Direct positions, take profit | `application/position_manager.py`, `tp_manager.py`, `core/take_profit.py`, `remainder_exit.py` | `positions`, `tp_plans` | fills, plan, take-profit orders, recovery, remainder exit | `DirectPosition` |
| Idle cash (SGOV) | `application/idle_cash_manager.py` | `idle_cash_state`, `idle_cash_fill_progress`, `cash_release_intents` | sweep, release, resume, refresh, cancel | `IdleCash` |
| Reconciliation | `application/reconciliation.py` | SAFE_MODE flags | `run` | at start-up in `OrderLedger`; SGOV in `IdleCash` |
| Allocation policy | `core/v322_allocation.py`, `core/twin_core.py` | replayed | weights, overlay, HWM75 | budget in `ManagedCapital`; rest planned |
| Analysis, backtests, configuration, Toss client | see `PROJECT.json` | | | not modelled (section 7) |

How they interact. Telegram callbacks run in telebot worker threads, the scheduler loop
(`infrastructure/telegram_bot_runtime.py`) in its own thread: allocation run, monitor,
reconciliation and signal expiry, one after the other, each tick. The threads share no lock but
the SQLite write lock (`BEGIN IMMEDIATE`, one per repository call) and they share the broker
object with no lock at all. So the atomic unit of every model is one repository transaction or
one broker call, and whatever a thread read earlier is kept in explicit thread variables.

What is hard here: a row, its ledger entry and the broker's holdings change at three different
moments; receipts may be stored in another order than they were fetched; the broker forgets
everything in a crash while the database does not; a signal is written by four parties without
comparing its state first; money is computed from tables read at different moments. The full
list, by line, is under `hazards` in `PROJECT.json`.

## 2. Modules

| Module | Role |
|---|---|
| `OrderLedger` | the life of core orders: rows, ledger, broker, handler and scheduler threads, crash and start-up |
| `ExactlyOnceLedger` | what the ledger promises: every reported fill is credited once, in any increments |
| `OrderLedger_proofs`, `ManagedCapital_proofs`, `CoreBuying_proofs`, `Allocation_proofs`, `Onboarding_proofs`, `IdleCash_proofs`, `DirectPosition_proofs` | TLAPS proofs about these modules |
| `Sums` | what those proofs need to know of sums over finite sets |
| `ManagedCapital` | cash, cost basis, reservations, HWM75 budget and the broker's own cash |
| `CoreBuying` | from a changed target to a BUY: allocation run of one symbol, signal, two approvals, quote, reservation, retry |
| `Allocation` | the allocation run over all symbols: weights and generation of a session, freezing, SELLs before BUYs, failed runs, crash |
| `Onboarding` | the staged first entry: stages, waiting sessions, caps, the operator's handler beside the scheduler's run |
| `DirectPosition` | what the scheduler does with a direct position: BUY fill, plan of two legs, take-profit orders, remainder exit |
| `IdleCash` | SGOV sweeps and releases, the intents and approvals that wait for them, one purse of cash |
| `MCOrderLedger`, `MCManagedCapital`, `MCCoreBuying`, `MCAllocation`, `MCOnboarding`, `MCDirectPosition`, `MCIdleCash` | the instances TLC checks |

The specifications look at the same program from several sides and share the rows of `orders` and
`core_positions`. `OrderLedger` leaves out why a BUY is made and what it costs; `ManagedCapital` leaves
out which thread stores a fill (any time is possible); `CoreBuying` leaves out money (a quote or
a reservation may fail at any time) and the broker (a placed row fills and ends as it likes).
`Allocation` leaves out why a weight or a quantity has its value
(both are chosen) and how a BUY comes about (an offer may become any fill within the target), and a
pending SELL fills whole unless it is canceled. Each of these abstractions but the last only adds
behaviour; partial SELLs are in `OrderLedger`. A placement in `Allocation` and `IdleCash` is answered as the
dry-run broker answers it, with the whole order filled or pending (`broker.py:88-137`): rejected, canceled or partial
answers are handled by their callers but do not arise. `Onboarding` takes each phase of the allocation run as
one step and `IdleCash` takes the strategy's own BUY as one; `Allocation`, `CoreBuying` and `OrderLedger` have
what is inside.

### OrderLedger: state and code

`status`, `filled`, `brokerId` are columns of `orders`; `applied` is
`core_fill_progress.applied_filled_qty`; `core` is `core_positions.qty`; `bStatus`, `bFilled`
and `held` are the broker's `orders` and `holdings`; `safe` is SAFE_MODE. `pc`, `op`, `job`,
`rStatus`, `rFilled`, `prior`, `todo` are the locals of a thread: the receipt it holds, the
quantities of the rows at the start of a pass, the rows left. `LookupOrder`, `ReserveOrder`,
`PlaceOrder`, `RecordPlacement` are the four steps of `submit`, which falls back to the row it looked up (`rStatus`,
`rFilled`) when the refresh of an existing order fails; `FetchOrder`, `StoreReceipt`,
`ReceiptConflict` those of `refresh_order`; `ApplyCoreFill` is `apply_core_fill`; the guard
`HasNewFill` keeps the monitor's comparison with the row it read (`prior`) apart from the other
callers' comparison with zero. `Crash` loses broker and threads, `RecoverFill` and
`RestoreBroker` are the start-up sequence in its order. SAFE_MODE of a symbol and of the
portfolio are one flag, which only makes SELLs rarer.

### ManagedCapital: state and code

`gross` is filled quantity times average price; `RawCash`, `Invested`, `Reserved`, `Available`
are the functions of `managed_account.py` that they are named for. `ReadBuyingPower` and
`ReserveBuy` are the two halves of the reservation: the broker is asked before the transaction.
`ReadCash` and `RecordEquity` are the two reads of `_completed_marked_equity`. One unit of price
is `Scale` amounts and carries a fee of `FeeRate` amounts, so that all sums are integers. The average
price is a Decimal in the code: what it makes of the cost of the shares that a SELL leaves is the amount below or
above (`Rounded`). `Invested` is the core ledger alone: the shipped configuration has no SGOV
(`strategy.yaml:197`; `IdleCash` has the purse with it), and new direct positions are refused.

### CoreBuying: state and code

`generation`, `trendActive`, `target`, `core` are the row of one symbol in `core_positions`,
`frozen` says that `TARGET_QTY_GENERATION_KEY` names its generation, `started` that the next
session has begun. A generation has one signal, for `create_core_buy_signal` inserts at most one
per trade date. `h[t]` is a handler between two transactions: `QuoteSignal`, `QuoteTarget` and
`QuoteQuantity` are the three reads of `_build_quote`, `Recheck` the second look at the signal,
`Reserve` the transaction, `Place` the broker and the stored receipt, `MarkExecuted` the
unconditional `mark_signal`. A signal is valid until the close of the session after its evaluation
(`portfolio_service.py:441`), and a target changes five minutes after such a close at the earliest
(`market_clock.py:28-31`): the guard `SignalsHaveLapsed` of `AllocInvalidate`. `AllocInvalidate`, `AllocSettle`, `AllocSetTarget` are the change of
a target, `AllocFreeze`, `AllocSell`, `AllocOffer` a run in a later session. `base` is a history
variable. The expiry of an approval is a handler that never consumes it.

### Allocation: state and code

`weight`, `generation`, `target`, `qty` are the columns of `core_positions` for every symbol, `key`
and `marker` the two keys of `system_state` that `run_allocation` compares; `sell` has one row per
symbol and generation, as the client order id does; `offered`, `offeredOn` are the active BUY
signal. `wanted` is what the strategy computes from the history of a session, the same on every
run, for the history does not change. `run[r]` is a run between two transactions: the completed
session and the clock it read first (`date`, `late`), the symbol its loop has reached (`i`), the
quantities it computed (`plan`). Its program counter follows the code from top to bottom:
`Compare`, `Invalidate`, `SettleSell`, `SetTarget`, `ClearKey`, `MarkEvaluated` for a session not
evaluated yet; `CheckGenerations`, `ReadKey`, `Plan`, `FreezeRead`, `FreezeWrite`, `StampKey` for the
freezing; `CheckSells`, `SubmitSell`, `ResubmitSell`, `ApplyOwnSell` for the SELLs; `Barrier`,
`Reconcile`, `ExpireSignals`, `Offer` for the BUYs. `RunFails`, `SettleFails` and
`SessionNotAllowed` are its exceptions and early returns. The monitor runs in the scheduler's
thread, so a pending SELL fills only between two runs (`SellFills`). BUY orders that are open when
a target changes are not in this module, and SAFE_MODE is one flag.

### Onboarding: state and code

`status`, `stage`, `filledOn` are the three keys of `system_state`, each written in a transaction of
its own; `generation`, `target`, `qty`, `key` are those of `Allocation`. `run[r]` is a thread
between two of these writes: the scheduler's allocation run followed by the refresh of progress, or the
handler of a button, which starts or advances a stage and then runs the allocation itself. `held`
and `stage` in it are what the thread has read and will use; the date is read (`ReadDate`) and written
(`WriteDate`) in two transactions. `heldOn`, `refreshed` and `lapses` are history: when a stage was first held, whether the
session had a run that could trade, and what has happened that the wait between stages is not proof
against. `AdvanceAfterWait` holds while `lapses` is empty. The lapses are

- `interrupted`: a session without a run that traded alone, or a crash at one of two places. A crash between the
  zeroing of the targets and of the key lets `_stage_is_filled` take zeroed targets for filled ones
  and date the stage too early; a crash between the new stage and its empty date leaves the date of
  the stage before;
- `doublePress`: a button pressed again while a press is being handled;
- `earlyPress`: the button of a new stage pressed before the date of the stage before is emptied.

No session completes or starts during a run.

### DirectPosition: state and code

`pos` and `plan` are the rows of `positions` and `tp_plans`; `rows` are the orders, and what the broker
knows of each is kept beside it (`bStatus`, `bFilled`). `m` is the monitor's pass: the rows left, the
receipt in hand, and the three sets that `run_once` fills in its loop and works off afterwards. A
pass refreshes a row, applies its fill in two transactions (`update_tp_fills`, `transition_position`)
and afterwards cancels, refreshes and places take-profit orders again. Only the scheduler
acts: `V322_DIRECT_SIGNAL_DISABLED` refuses new direct BUYs, and every cycle in the database was begun
by an earlier version. Reconciliation calls any direct position a mismatch; here SAFE_MODE may
come at any time or never. The repository lists orders that are open or UNKNOWN (`Listed`): an UNKNOWN take-profit order
counts when the remainder exit is decided, and the settlement skips it. The remainder exit is on in the instance and off in `strategy.yaml`.
`overfilled` says that the dry-run broker has recorded a fill of shares it did not hold: it stores the
filled order first and raises afterwards (`broker.py:168-242`), so a later refresh books the fill.

### IdleCash: state and code

`rows` are the SGOV orders with the broker's view beside them, `managed` is `idle_cash_state`,
`intents` are `cash_release_intents` with the approval they wait for, `entry` is the strategy's BUY of
a signal. `th[t]` is a thread between two transactions or broker calls: `AfterRows` says what follows
when it has gone through its rows. A review (`Review`) refreshes the open SGOV orders, cancels open
sweeps, compares the cash (`EnoughCash`, `LackOfCash`) and then what is managed (`NothingToRelease`,
`StartRelease`), sells (`OtherOrders`, `Sell`, `Sold`) and, when the cash is there, creates the approval and tells the intent of it (`Issue`,
`Bind`). The scheduler's jobs are those of its loop in their order: the monitor, `refresh_orders` and
`resume_cash_releases`, reconciliation, `run_once` (`SweepBegins` for its checks, `SweepDecides` for the cash
and the price, `SweepBuy`). What is read in a row for one check is one step: the checks of
`run_once`, and the reservations and the cash of one comparison. One share of SGOV costs one unit and nothing has
a fee, profits are none and the session is open. The dry-run broker fills whole orders, inside `get_order` or when they are
placed. Two threads that place orders with one client order id at the same moment are not modelled.
The option is off in the shipped `strategy.yaml`.

Two things the module shows of the code. The monitor refreshes SGOV rows too and stores their last
status; `refresh_orders` then no longer finds the row, and its fill never reaches `managed_qty`.
`ManagedDiffersByUnappliedFills` counts such a fill as in flight for ever, and `WaitingEnds` holds in
spite of it because the second sale is refused and reconciliation sets `idle_cash_safe_mode`, which
ends the intent. And a handler and the scheduler can sell the same shares of SGOV at once; the second fill is
made up by the broker (`overfilled`), and `apply_idle_cash_fill` refuses it (`Oversold`).

## 3. Runs

| Run | Instance | What it shows |
|---|---|---|
| `OrderLedger` | a BUY and a SELL of two shares of one symbol, one handler and the scheduler, partial fills, one crash, fairness | types; no stored fill without a thread bound to apply it; ledger and broker cover every SELL; a lost broker order means SAFE_MODE; the ledger is the sum of applied fills; broker and ledger differ by fills in flight only; rows never regress; every stored fill reaches the ledger, also across a crash; refinement of `ExactlyOnceLedger` |
| `ManagedCapital` | BUYs of two shares and of one, of two symbols, which cash and budget cover singly but not both; a SELL; prices 1 and 2, which make averages that are not whole; one crash | neither the strategy's cash nor the broker's is promised twice |
| `BudgetRace` (violation) | the same, more cash, whole fills | a BUY can exceed the risk budget, section 4 |
| `CoreBuying` | two handlers, four approvals (two BUYs with their reviews), two generations, targets up to 2 | the frozen target is not exceeded; two approvals per BUY |
| `CoreBuyingLive` | one handler, two approvals, two generations, one crash, fairness | a gap to the frozen target is offered again; no valid, repeated or reopened signal is executed against a target that is not frozen |
| `Allocation` | two symbols, three sessions, one share, one crash, fairness | types and holdings never negative; no BUY offered before all SELLs are final; what is traded follows the weights of one session; quantities are frozen once; while there is one generation, a surplus is sold |
| `CrashedTargets` (violation) | two sessions, fairness | a crash while targets are stored can suspend trading, section 4 |
| `Onboarding` | one symbol, targets up to 2, three stages in thirds, three sessions, one waiting session, scheduler and one handler, one crash or failed run, fairness | nothing is bought before the start; a stage is held and waited for before the next; a filled last stage completes |
| `DoublePress` (violation) | the same with two handlers and no faults | a second press can open a stage before its wait, section 4 |
| `StageCap` (violation) | targets up to 4, one session | a BUY can exceed its stage's cap, section 4 |
| `DirectPosition` | up to two shares held and two bought, partial fills, six orders, one crash, failed placement or lost price, fairness | no share is sold or offered twice; position, plan and broker differ only by fills in flight; every share is under an order after a pass; a late BUY settles |
| `IdleCash` | one signal that takes all the cash, one handler and the scheduler, three SGOV orders, one approval, one crash, failed placement, lost price or expiry, fairness | a fill moves managed SGOV at most once; sweeps and BUYs never promise the same cash; a dead offer frees its cash; a wait for a sale ends |

Why these bounds. The properties of `OrderLedger` speak of one order and of threads that touch
it: two threads are enough for a stale receipt, a lost update or a double application, two
shares for a partial fill followed by another, one crash for each loss (a second starts from a
state a first one leaves). A SELL and a BUY of one symbol compete for the same shares. In
`ManagedCapital` two BUYs compete for the same money, two prices let a fill be cheaper than its
limit, a SELL realizes a gain. In `CoreBuying` four approvals allow two simultaneous executions
of one signal or of a superseded and a current one, two generations the supersession, two shares
a partial fill and its remainder. In
`Allocation` two symbols are enough for a half-stored change and for a SELL beside a BUY; three
sessions for holdings, their reduction and its supersession. In `Onboarding` the second session
fills and the third advances; the handler's own run lies beside the scheduler's. Three stages of a
target of two shares round to the same quantity for two of them, so a stage can be held when it is
opened; with two stages TLC does not see what a stale date then does. In `DirectPosition`
two shares give both legs one share or a partial fill of a BUY, and six orders are a BUY, both legs, and each of
them placed again after a fault or an end. In `IdleCash` the three rows are a sweep, the sale, and a
second sale by the other thread or after a fault; a thread that wants a fourth stops, and the two liveness
properties say nothing of behaviours in which it does (`BoundMet`). One signal is enough for two
threads to meet at the purse, for a sweep and a BUY compete as two BUYs do; that the cash promised to
another signal is left alone (`Promised`) is in the module and not exercised by the instance. `MaxCrashes`, `MaxFaults`, `MaxGeneration`,
`MaxTarget`, `MaxSessions`, `MaxOrders` and `MaxApprovals` are the only bounds that a guard imposes.

Deadlock is checked in `OrderLedger`. In the other specifications a behaviour may end:
orders, approvals and sessions of the instance are used up and nobody has to do anything.

Fairness. `OrderLedger`: every thread that has begun a transaction or a call goes on (weak
fairness of its steps), and a crashed bot is started again (the service unit restarts it);
nobody has to begin an order. `CoreBuying`: the scheduler loop comes back every few seconds, so
the allocation run and the end of the monitor's step are weakly fair, handlers that have begun go
on, and stored fills are applied, which is what `FillsReachLedger` establishes. The operator, the market and
the clock are under no obligation. `Allocation`: the loop comes back, a run goes on, and strong fairness of the four
steps that need a history, a price or an open market, because these are available again and again
(`Compare`, `Plan`, `SubmitSell`/`ResubmitSell`, `CheckGenerations`); the next session starts.
A pending SELL need not fill. `Onboarding`: the scheduler's steps. `DirectPosition`: the loop comes back, a pass
goes on, and a BUY that does not fill is late again and again until a pass cancels it. `IdleCash`: the
scheduler's loop, and strong fairness for the age of an order that each pass leaves open. In the last
three no handler has to go on, and the operator presses nothing. Symmetry is used in `CoreBuying` only, where no liveness is
checked.

Every property of a passing run has a mutant: a mapped definition changed the way a plausible
bug would change it, for which TLC finds the property violated. The mutants stand in the modules
before the definitions they replace.

## 4. Disagreements found

- `BudgetRace`: the reservation adds `core_positions.cost_basis` and the unfilled rest of open
  rows. Between `update_order` and `apply_core_fill` the cost of a fill is in neither, so a
  second approval that is executed in this window can exceed the risk budget, which
  `docs/infra/SECURITY.md:61` and `docs/STRATEGY_GUIDE.md:130` exclude. The strategy's cash is
  not overdrawn (`CashCoversReservations`), for cash is computed from the rows themselves.
- `CrashedTargets`: the new weights are stored in one transaction per symbol, and the next run
  compares weights only. If the process dies when the symbols whose weight changes are stored and
  one whose weight stays is not, the next run sees no change, marks the session as evaluated and
  leaves two generations behind; from then on every run returns early (`portfolio_service.py:204`)
  until some weight changes. A symbol whose weight went to zero is not sold meanwhile, against
  `docs/JDSS_FINAL_SPEC.md:89`. The program never trades a mixture, though:
  `TradesFollowTheStrategy` holds through the same crash.
- `StageCap`: the cap of an onboarding stage bounds the gap a signal is made for, and nothing after it. The
  quote takes the smaller of the signal's plan and of what the whole target lacks, so a signal that was
  planned, partly bought and reopened is executed for its full plan beyond the stage's share
  (`allocation_trading_service.py:103`), against `docs/JDSS_FINAL_SPEC.md` section 6.
- `DoublePress`: the bot is threaded (`telegram_bot.py:515`), and a button's stage is compared with the
  stored one when the press arrives (`initial_onboarding_telegram.py:125-128`) and read again by
  `advance_onboarding`. A second press that passes the check before the first one's handler writes
  the new stage (`initial_onboarding_portfolio.py:141`), and reads it before that handler empties the date
  (`:145`), finds the new stage with the date of the old one. If what is held already suffices for the new
  stage, it opens the stage after it in the same session, against `docs/TELEGRAM_BOT_GUIDE.md:65` and the comment
  at `initial_onboarding_telegram.py:57`.

Seen in a model but not the subject of a run: `_completed_marked_equity` reads cash and shares in two
transactions (`ReadCash`, `RecordEquity` of `ManagedCapital`), so a BUY filled and applied in between is
counted twice; the HWM never comes down, and the budget stays too large.

`advance_onboarding` stores the new stage, its start and the empty date in three transactions. In the
state between the first and the last the date is that of the stage before, and if the new
stage is already held (rounded targets) the one after it counts as ready. A crash leaves this
state behind (the lapse `interrupted`). `Wait` also fails for `MinSessions = 0`, where a wait of no
session is over before the run that would find the stage filled: `validate` admits zero
(`core/initial_onboarding.py:51`), `strategy.yaml:97` has 3; the properties speak of `MinSessions > 0`.

A target that waits for its next session is stored as zero shares, and `managed_account.py:267` replaces a
zero target with a positive weight by a computed one (meant for databases older than the column).
Signals do not get there: each has lapsed before a target changes, and `_active_signal`
(`trading_service.py:503`) refuses it, one reopened by a late `mark_signal` included, for its `valid_until` is past.
What remains is a handler that passed its last check before the close and is stalled until five minutes
after it, more than six hours in the shipped sessions. `BuysMeetFrozenTargets` says that there is no other way.
Because of the same line `NeverOverbuys` excepts a target frozen at zero shares with a positive weight.

## 5. Proofs

### The ledger

`OrderLedger_proofs` proves, for every set of orders, symbols and handler threads, every
quantity and any number of crashes, under `OrdersAssumption` only:

| Theorem | Statement |
|---|---|
| `Invariance` | `Spec => []IInv`, the inductive invariant |
| `TypeCorrectness` | `Spec => []TypeOK`; the ledger is never negative |
| `NoFillIsStranded` | `Spec => []NoStrandedFill` |
| `SellsStayCovered` | `Spec => []LedgerCoversSells` |
| `SharesInvariance` | `Spec => []Shares`, the sums that are inductive over `IInv` |
| `LedgerIsExact` | `Spec => []LedgerIsAppliedFills` |
| `BrokerAgreesWithLedger` | `Spec => []BrokerDiffersByFillsInFlight` |
| `BrokerSellsStayCovered` | `Spec => []BrokerCoversSells` |
| `RowsDoNotRegress` | `Spec => RowsNeverRegress` |
| `NoOrderIsLostSilently` | `Spec => []LostOrdersAreNoticed` |
| `RefinesExactlyOnce` | `Spec => ImplementsExactlyOnce` |

None of these is inductive alone. `IInv` adds, about orders: `Bounds` (applied <= filled <=
ordered), `BrokerAhead` (the broker is never behind a row, and a final row has its status),
`OnePlacer` (one thread places an order), `SellCovered` (the shares a SELL can still take are in the
ledger from the decision on), `Recovering` (nothing is in flight during start-up); and about each
thread: what its program counter says of the row it works on (`Working`, `Placing`, `Known`), that
the receipt in its hand is no newer than the broker and a final one is the broker's last word
(`Receipt`, `Settling`), and that the quantities a pass remembers are not ahead of the rows
(`Remembered`). The argument for `NoStrandedFill`: only a thread that stores a larger cumulative
quantity creates an unapplied fill; it compares with a quantity that is not ahead of the row, so it
goes on to `apply` (or, in the settle loop, to a last refresh whose receipt is final), and what it
then stores cannot be refused, because nothing newer can have been stored. The proof treats one
action at a time: each has a lemma for its effect and one for its preservation of the invariant,
and `Noninterference` covers the threads that do not move.

`LostOrdersAreNoticed` needs no further strengthening: beside `IInv` it is inductive. An order
becomes open without a broker order only where a thread is about to place it (`Placing` says that
nobody else is), a failed placement and a start-up that cannot restore it set SAFE_MODE, and no
other step opens a row or takes an order from the broker.

`Shares` is the pair of sums, the ledger as applied fills and the broker as the ledger plus fills in
flight, with one more fact: while the bot is up an order that the broker does not hold has no fill to
apply. Each step changes one order's quantity and the same symbol's ledger or holdings by the same
amount; a crash drops the broker's half, and the start-up rebuilds it from the ledger after every stored
fill is applied. `BrokerCoversSells` is then arithmetic: what a SELL can still take is in the ledger
(`SellCovered`), and the broker lacks at most the fills in flight.

### Money

`ManagedCapital_proofs` proves, for any orders, quantities, prices, fees, capital and number of crashes, under
`CapitalAssumption` (finite sets, positive quantities and prices, a fee within the price):

| Theorem | Statement |
|---|---|
| `Invariance` | `Spec => []IInv` |
| `TypeCorrectness` | `Spec => []TypeOK` |
| `MoneyInvariance` | `Spec => []Money`, the two sums of money |
| `CashAlwaysCovers` | `Spec => []CashCoversReservations` |
| `BrokerCanAlwaysPay` | `Spec => []BrokerCashCoversOrders` |

`IInv` says of each row how far the broker may be ahead of it: it has filled no fewer shares, and what
it paid for the others is within the limit (`BrokerFacts`). So a fill never costs more than the
reservation it releases, and `CashCoversReservations` needs only the guard of `ReserveBuy`. The
broker's side is not inductive by itself, for the broker's cash is reset by a restart.
`BrokerHasCash` compares it with the cash the rows will show once they have caught up with the broker
(`FinalCash`): a fill lowers both, a restart makes them equal. What the open orders can still
cost is within their reservations, and `BrokerCashCoversOrders` follows from the ledger's side.

### The two approvals, and the target

`CoreBuying_proofs` proves, for any handlers, approvals, generations, targets and crashes, under
`BuyingAssumption`:

| Theorem | Statement |
|---|---|
| `Invariance` | `Spec => []IInv` |
| `EveryBuyIsApprovedTwice` | `Spec => []BuysAreApprovedTwice` |
| `CountsInvariance` | `Spec => [](Counts /\ NeverOverbuys)` |
| `TypeCorrectness` | `Spec => []TypeOK` |
| `FrozenTargetHolds` | `Spec => []NeverOverbuys` |
| `FrozenTargetsAreMet` | `Spec => BuysMeetFrozenTargets` |

That a BUY belongs to a consumed EXECUTION approval of its quantity follows from what a handler
at work knows (`HandlerOK`: its approval is consumed, at the stage of its operation; past the
quote its quantity is the approved one) and from `OneHandler` (a token is used by one handler).
That a signal never has more BUYs than confirmed reviews is a matter of counting: `Counted` says
that the EXECUTION approvals issued for a signal are at most the reviews that are consumed *and on
which no handler works any more*. The condition is what makes it inductive: the end of a review
adds one to both sides, a review that fails or dies in a crash only to the larger. This part does
not look at quantities: records are described by their fields (`IsHandler`, `IsApproval`, `IsRow`)
and not by the sets their fields belong to.

`Counts` adds the quantities: rows count applied <= filled <= ordered, and a handler between quote
and placement has a row that does not exist yet or is fresh. With it `NeverOverbuys` is inductive: a
fill, an application or an end of an order never adds to shares held and committed together
(`Committed` is a sum over the rows), a reservation adds no more than what its transaction finds free
under the target, and a freeze starts the count again from what is held and ordered then (`base`).

`FrozenTargetsAreMet` needs `Validity`: while a signal is valid the target is frozen and no change of
it is under way, because the change waits for the last signal to lapse and only a freeze
brings a new one; reopening a signal does not make it valid. A reservation for a signal that is still valid
therefore meets a frozen target.

### The allocation run

`Allocation_proofs` proves, for any symbols in any order, weights, targets, sessions and crashes,
under `AllocationAssumption` and one hypothesis, `OneRun`: the scheduler's thread is the only one that
runs the allocation.

| Theorem | Statement |
|---|---|
| `Invariance` | `OneRun /\ Spec => []IInv` |
| `TypeCorrectness` | `OneRun /\ Spec => []TypeOK`; no holding becomes negative |
| `BuysFollowSells` | `OneRun /\ Spec => BuyAfterSell` |
| `TradesFollow` | `OneRun /\ Spec => TradesFollowTheStrategy` |
| `QuantitiesAreFrozenOnce` | `OneRun /\ Spec => FrozenOnce` |

The hypothesis is needed, not a convenience: with two runs in `Runs` TLC refutes each of the four (a run
that froze its quantities earlier writes them after the key is stamped; two runs place SELLs of
one generation). The code starts a second run in one place, the onboarding button; `Onboarding`
has that case, phase by phase. The hypothesis is also what the run `Allocation` checks.

`IInv` follows the run through its program counter. `Dates` orders key, marker, the run's date and the
latest session. `WeightsKnown` says where the stored weights are those of one session: whenever the
marker is that of the latest session, and in every place that trades; a run that dies while it stores
them leaves a marker that is behind, so the next run compares again. `GenerationsKnown` says the same of
generations and of the generation the run has read. `RowFacts` is the heart: a generation whose key is
not stamped has no SELL; a SELL whose shares the ledger still has to give belongs to the one
generation of all symbols, fits into the holding and leaves no less than nothing and no more than the
target; so neither a change of targets nor a BUY can meet one. `Progress` is the loop invariant of the
SELLs. A BUY is then offered in a place where nothing is open and nothing is beyond its target. Before
it was proved, `IInv` was checked by TLC on the run's instance and on one with targets up to 2.

### The staged entry

`Onboarding_proofs` proves, for any symbols, handler threads, stages, waiting times and bounds,
under `OnboardingAssumption` (what `InitialOnboardingPolicy.validate` demands of the fractions):

| Theorem | Statement |
|---|---|
| `Invariance` | `Spec => []IInv` |
| `TypeCorrectness` | `Spec => []TypeOK`; no thread opens a stage after the last |
| `NothingIsBoughtBeforeStart` | `Spec => []NothingBeforeStart` |
| `StagesAreWaitedFor` | `Spec => AdvanceAfterWait` |

`IInv` adds to the types `Advancing` (a thread that is going to open a stage has one to open,
although the check and the write are transactions apart) and `Unstarted` (before the start no signal
is open, because the cap of every symbol is what it holds, and it holds nothing).

`StagesAreWaitedFor` is about a date that may be wrong for a while. Beside a handler the scheduler can date
a stage while the targets are zero and the key is not; a refresh by a run that was alone takes
the date back before its session is over. `WInv` says this on top of `IInv`: `Turns` (which threads
can be beside each other in a session), `Begun` (no date before the first stage), `Known` (a stage that
is held is in the history, but for the moment in which targets are zero and the key is old), `Dates`
(the date is no earlier than the history, or it is of this session and no run has been alone yet) and
`Waited` (a handler that has passed the check opens a stage after one that waited). The theorem is for any
number of handler threads: before a lapse at most one of them is at work (`Sole` in `Turns`). `MinSessions > 0`
and the empty `lapses` are conditions of the property itself; section 4 says what happens without them. TLC checked `WInv` on the instance of the run before
it was proved.

### Idle cash

`IdleCash_proofs` proves, for any signals, needs, capital, handlers, orders and faults, under
`CashAssumption`:

| Theorem | Statement |
|---|---|
| `Invariance` | `Spec => []IInv` |
| `TypeCorrectness` | `Spec => []TypeOK`; managed SGOV is never negative |
| `FillsAreAppliedOnce` | `Spec => []ManagedDiffersByUnappliedFills` |
| `OrdersAreCovered` | `Spec => []CashCoversOrders` |

The rows range over the set `Rows`: a row has applied no more than it has filled, and what the broker
knows beyond it is the end of an order that is still open. Three sums go over them, what their fills
have brought, what their open BUYs keep, and what is due to `managed_qty`; each step writes one
row or appends one, and the lemmas `TableWrite` and `TableAppend` say what the sums do. The two sums are
inductive together with the shapes of rows, threads and offers. `managed` has no upper bound in
the types: while a sale is stored and not applied, its proceeds are cash that a sweep may spend and
its shares still count as managed, so managed SGOV can for a moment exceed the capital (a guided run of
TLC reaches such a state in 44 steps).

### The direct position

`DirectPosition_proofs` proves, for any quantities, fractions, number of orders, crashes and failures,
under `PositionAssumption`:

| Theorem | Statement |
|---|---|
| `TypeCorrectness` | `Spec => []TypeOK`; a leg is never credited beyond its target |
| `OffersStayWithinPosition` | `Spec => []SellsWithinPosition` |
| `EveryShareIsSoldOnce` | `Spec => []NoShareSoldTwice` |
| `PositionAgreesWithPlan` | `Spec => []PositionIsWhatThePlanHasLeft` |
| `PositionAgreesWithBroker` | `Spec => []PositionDiffersByFillsInFlight` |
| `SharesStayOffered` | `Spec => []EveryShareIsOffered` |

The invariant comes in layers, each proved inductive over those before it. `Shape` has the types and
what a pass knows at each step: which rows it still has to look at, that nothing is open while it settles
fills, that a row it applies is final. `Safe` holds through every crash and failure: a take-profit
order is *live* while a fill of it may still be credited (open, remembered by the settlement, or at hand), a
leg has at most one live order, and such an order lacks no more than its leg has left, nor the plan more than the position.
It needs `FirstLegIsSold` (the second leg's order is replaced, and an exit placed, only with
nothing left of the first) and `BuyIsLost` (a late BUY that a crash took from the pass is refreshed and
never applied; the plan may then have more left than the position). `SellsWithinPosition` is the sum of
the live orders against `Safe`.

`SoldOnce` sums what each row may still take out of the position: `Expected` is zero for a row whose
broker order is gone, and counts a fill at hand once. It is why a fill seen by the pass and by the settlement is
not taken twice. `PlanIsExact` and `Balanced` need a process that has not been interrupted
(`crashes = 0`): then plan and position move together but for the fill between the two transactions
(`Net`), and position and broker differ by `Uncredited` fills exactly. `AllOffered` also needs that no
pass has failed: every leg with shares left is under an order, or filled at once when it was placed
(the receipt `place_orders` drops), or the pass is bound to place one. These conditions are those of the
properties themselves and no hypotheses of the theorems.

### Sums

Many properties are sums over orders. `Sums` derives what their proofs use from the definition of
`SumFunction` in the community modules: that it is well defined on a finite domain (`SumTakesOut`:
any element may be taken out first), its type, monotony, the sum of sums, and how it changes when one value
changes (`SumChange`). The prover cannot instantiate the induction theorems of the library, whose
parameter is an operator; `FiniteSetInduction` states induction about a set of sets instead, and follows
from the well-foundedness of the numbers. The modules write their sums with `SumFunction` for
this reason.

### Model-checked only

Every invariant and every action property of a passing run is proved, and so is the refinement of
`ExactlyOnceLedger`. What is left to TLC is what holds under fairness (`FillsReachLedger`, `GapIsOffered`,
`SurplusIsSold`, `LastStageCompletes`, `BuySettles`, `DeadIntentsEnd`, `WaitingEnds`), which the prover does
not handle, and of course the four properties that are violated.

## 6. Plan

Done: `OrderLedger`, `ExactlyOnceLedger`, `ManagedCapital`, `CoreBuying`, `Allocation`, `Onboarding`
(with the handler's run beside the scheduler's), `DirectPosition`, `IdleCash`, and proofs about seven
of them and of the refinement of the eighth. Left, in this order:

1. `Allocation` with a second run whose SELL is cut into the steps of `_sell_core`; today the second
   run is in `Onboarding`, where a phase is one step.
2. `AllocationPolicy`: `advance_state`, `base_weights`, overlay and HWM75 budget as functions,
   checked against the rules of the specification document.
3. `Reconciliation`: the scheduler's check as a component of its own; today its alarms are steps of
   `OrderLedger`, `CoreBuying` and `Allocation`.

## 7. Not modelled

Indicators, scores and the order sizing arithmetic are numeric functions of price series; a
quote's quantity is an input bounded as the code bounds it. Message texts, callback parsing and
authorisation have no effect on the books. The backtests do not run in the bot. The Toss client is
only read from in dry-run mode, and live trading is locked in the code. The direct H40 strategy is
retired (its signals are invalidated), but positions it left are managed on: that machinery is
`DirectPosition`; the opening of its stages two and three and the direct branch of `execute`, which
V3.2.2 refuses, are not modelled. The calendar and the prices are choices of the environment.
