----------------------------- MODULE Onboarding -----------------------------
(***************************************************************************)
(* The staged first entry (InitialOnboardingPortfolioService): while it is *)
(* active only a fraction of each target may be bought, and the operator   *)
(* opens the next stage by a button, a number of sessions after the        *)
(* present one is filled.                                                  *)
(*                                                                         *)
(* The button's handler runs in a Telegram thread and then runs the        *)
(* allocation itself, beside the scheduler. Each write of the onboarding   *)
(* state is a transaction of its own, and so is each phase of the run that *)
(* the state is compared with; the loops over symbols are one step here    *)
(* (Allocation has them symbol by symbol, CoreBuying the approvals of one  *)
(* BUY, OrderLedger its order).                                            *)
(***************************************************************************)
EXTENDS Integers, Sequences, FiniteSets

CONSTANTS
    Symbols,       \* ALLOCATION_SYMBOLS
    Scheduler,     \* the thread that runs the allocation at every tick
    Operators,     \* Telegram threads
    Fractions,     \* cumulative_fractions, in units of 1/Whole
    Whole,         \* one, in the unit of the fractions
    MinSessions,   \* minimum_sessions_between_stages
    MaxTarget,     \* bound on frozen quantities
    MaxSessions,   \* bound on completed sessions
    MaxFaults      \* bound on crashes, and on runs that end by an exception

Total == Len(Fractions)
Stages == 1..Total
Sessions == 1..MaxSessions
Runs == {Scheduler} \cup Operators

\* InitialOnboardingPolicy.validate
ASSUME OnboardingAssumption ==
    /\ Scheduler \notin Operators
    /\ Whole \in Nat \ {0} /\ MinSessions \in Nat
    /\ Fractions \in Seq(1..Whole) /\ Fractions # << >> /\ Fractions[Total] = Whole
    /\ \A i, j \in Stages : i < j => Fractions[i] < Fractions[j]
    /\ MaxTarget \in Nat /\ MaxSessions \in Nat \ {0}
    /\ MaxFaults \in Nat

VARIABLES
    session,     \* the latest completed session, 0 before the first
    started,     \* the exchange session after it has started
    changes,     \* [Sessions -> the strategy's weights changed in that session]
    \* core_positions and the keys of the allocation run
    generation, target, qty, key, safe,
    \* BUYs: the signal of a symbol, and shares ordered but not filled
    open, planned, ordered,   \* planned: of a signal that is open or was ordered
    \* system_state of the onboarding
    status, stage, filledOn,   \* filledOn: 0 when the date is empty
    run,         \* [Runs -> where the thread is and what it has read]
    faults,
    \* history
    heldOn,      \* [Stages -> session in which the stage was first held, or 0]
    refreshed,   \* since the session completed and the last handler began, a run was
                 \* allowed to trade, and no handler ran beside it
    lapses       \* what has happened that the wait between stages is not proof against

clockVars == <<session, started, changes>>
coreVars == <<generation, target, qty>>
keyVars == <<key, safe>>
signalVars == <<open, planned>>
onboardingVars == <<status, stage, filledOn>>
historyVars == <<heldOn, refreshed, lapses>>
vars == <<clockVars, coreVars, keyVars, signalVars, ordered, onboardingVars, run,
          faults, historyVars>>

Least(x, y) == IF x <= y THEN x ELSE y
Greatest(x, y) == IF x >= y THEN x ELSE y

Zero == [s \in Symbols |-> 0]

\* Interrupted: a session went by without a run that traded with no handler beside it, or a
\* crash left targets of zero and the key in place, or a new stage with the date of the old.
\* Double press: the button was pressed again while the first press was being handled.
\* Early press: the button of a new stage, before the date of the stage before was emptied.
Lapses == {"interrupted", "doublePress", "earlyPress"}

\* Where a thread can be.
Places == {"idle", "run", "supersede", "zero", "clear", "freeze", "stamp", "sell", "offer",
           "refresh", "held", "date", "write", "complete", "ready", "startInvalidate",
           "advanceInvalidate", "activate", "stage", "emptyDate"}
Idle == [pc |-> "idle", stage |-> 0, held |-> FALSE, advance |-> FALSE, alone |-> FALSE]

-----------------------------------------------------------------------------
(* The cap of a stage *)

\* scaled_target_quantity: rounded down
Scaled(full, k) == (full * Fractions[k]) \div Whole

\* _effective_target_quantity. Before the start nothing may be added; a stage that
\* was never written is a fraction of zero.
Effective(s) ==
    IF status = "NOT_STARTED" THEN Least(qty[s], target[s])
    ELSE IF status # "ACTIVE" THEN target[s]
    ELSE IF stage = 0 THEN 0
    ELSE Scaled(target[s], stage)

\* Mutant of StageIsFilled: an empty key is not looked at.
StageIsFilledUnfrozen == \A s \in Symbols : qty[s] >= Effective(s)

\* _stage_is_filled
StageIsFilled == key # 0 /\ \A s \in Symbols : qty[s] >= Effective(s)

\* onboarding_snapshot: next_stage_ready, and sessions_elapsed
NextStageReady ==
    /\ status = "ACTIVE" /\ stage < Total
    /\ stage >= 1 /\ StageIsFilled
    /\ filledOn # 0 /\ session - filledOn >= MinSessions

\* _managed_portfolio_is_flat
Flat == \A s \in Symbols : qty[s] = 0

\* _start_block_reason finds none.
CanStart == Flat /\ (\A s \in Symbols : ordered[s] = 0) /\ ~safe

Init ==
    /\ session = 0 /\ started = FALSE
    /\ changes = [d \in Sessions |-> FALSE]
    /\ generation = 0 /\ target = Zero /\ key = 0 /\ safe = FALSE
    /\ open = [s \in Symbols |-> FALSE] /\ planned = Zero /\ ordered = Zero
    \* _bootstrap_onboarding_state: shares held already bypass the stages.
    /\ \/ status = "NOT_STARTED" /\ qty = Zero
       \/ status = "BYPASSED" /\ qty \in [Symbols -> 0..1] \ {Zero}
    /\ stage = 0 /\ filledOn = 0
    /\ run = [r \in Runs |-> Idle]
    /\ faults = 0
    /\ heldOn = [k \in Stages |-> 0] /\ refreshed = FALSE /\ lapses = {}

\* A plan that no signal or order refers to is forgotten.
ForgetPlans ==
    planned' = [s \in Symbols |-> IF open'[s] \/ ordered'[s] > 0 THEN planned[s] ELSE 0]

\* The stage is held by the next state: its quantities are frozen, and owned.
Record ==
    heldOn' = [k \in Stages |->
        IF /\ heldOn[k] = 0 /\ status' = "ACTIVE" /\ stage' = k
           /\ key' # 0 /\ key' = generation'
           /\ \A s \in Symbols : qty'[s] >= Scaled(target'[s], k)
        THEN session' ELSE heldOn[k]]

-----------------------------------------------------------------------------
(* Threads *)

At(r, pc) == run[r].pc = pc
Goto(r, pc) == run' = [run EXCEPT ![r].pc = pc]

\* A thread begins: no other is alone from here on.
Enter(r, record) ==
    run' = [q \in Runs |-> IF q = r THEN record ELSE [run[q] EXCEPT !.alone = FALSE]]

\* The thread is done, or an exception ends it.
Return(r) == run' = [run EXCEPT ![r] = Idle]

-----------------------------------------------------------------------------
(* PortfolioService.run_allocation, phase by phase *)

Begins(r) == IF r = Scheduler THEN At(r, "idle") ELSE At(r, "run")

\* The weights of the rows are not those of the completed session.
Changed == \E d \in (generation + 1)..session : changes[d]

\* Only a session that is not
\* marked as evaluated is compared; of a marked one the rows have the weights already.
Begin(r) ==
    /\ Begins(r) /\ session > 0 /\ ~safe
    /\ Enter(r, [Idle EXCEPT
           !.pc = IF Changed THEN "supersede" ELSE "freeze",
           !.alone = \A q \in Runs \ {r} : run[q] = Idle])
    /\ UNCHANGED <<clockVars, coreVars, keyVars, signalVars, ordered, onboardingVars,
                   faults, historyVars>>

\* In SAFE_MODE the run returns at once, without a refresh.
BeginSafe(r) ==
    /\ r \in Operators /\ Begins(r) /\ safe
    /\ Return(r)
    /\ UNCHANGED <<clockVars, coreVars, keyVars, signalVars, ordered, onboardingVars,
                   faults, historyVars>>

\* A history or price cannot be fetched, a cancel is not confirmed.
RunFails(r) ==
    /\ faults < MaxFaults
    /\ run[r].pc \in {"supersede", "freeze", "sell", "offer"}
    /\ faults' = faults + 1
    /\ Return(r)
    /\ UNCHANGED <<clockVars, coreVars, keyVars, signalVars, ordered, onboardingVars,
                   historyVars>>

\* Signals are invalidated, open orders canceled after n shares of them.
Supersede(r) ==
    /\ At(r, "supersede")
    /\ open' = [s \in Symbols |-> FALSE]
    /\ \E n \in [Symbols -> 0..MaxTarget] :
          /\ \A s \in Symbols : n[s] <= ordered[s]
          /\ qty' = [s \in Symbols |-> qty[s] + n[s]]
    /\ ordered' = Zero /\ planned' = Zero
    /\ Goto(r, "zero")
    /\ UNCHANGED <<clockVars, generation, target, keyVars, onboardingVars, faults,
                   refreshed, lapses>>
    /\ Record

\* set_core_target: the new generation, and no quantity yet
ZeroTargets(r) ==
    /\ At(r, "zero")
    /\ generation' = session /\ target' = Zero
    /\ Goto(r, "clear")
    /\ UNCHANGED <<clockVars, qty, keyVars, signalVars, ordered, onboardingVars,
                   faults, historyVars>>

ClearKey(r) ==
    /\ At(r, "clear")
    /\ key' = 0
    /\ Goto(r, "freeze")
    /\ UNCHANGED <<clockVars, coreVars, safe, signalVars, ordered, onboardingVars,
                   faults, historyVars>>

\* No generation, or its next session has not started, or orders are not allowed now.
NotTradable(r) ==
    /\ At(r, "freeze")
    /\ run' = [run EXCEPT ![r].pc = "refresh", ![r].alone = @ /\ generation = 0]
    /\ UNCHANGED <<clockVars, coreVars, keyVars, signalVars, ordered, onboardingVars,
                   faults, historyVars>>

Tradable == generation # 0 /\ (generation < session \/ started)

Frozen(r) ==
    /\ At(r, "freeze") /\ Tradable /\ key = generation
    /\ Goto(r, "sell")
    /\ UNCHANGED <<clockVars, coreVars, keyVars, signalVars, ordered, onboardingVars,
                   faults, historyVars>>

\* Prices decide how many shares a weight buys.
FreezeTargets(r) ==
    /\ At(r, "freeze") /\ Tradable /\ key # generation
    /\ target' \in [Symbols -> 0..MaxTarget]
    /\ Goto(r, "stamp")
    /\ UNCHANGED <<clockVars, generation, qty, keyVars, signalVars, ordered, onboardingVars,
                   faults, historyVars>>

StampKey(r) ==
    /\ At(r, "stamp")
    /\ key' = generation
    /\ Goto(r, "sell")
    /\ UNCHANGED <<clockVars, coreVars, safe, signalVars, ordered, onboardingVars,
                   faults, refreshed, lapses>>
    /\ Record

\* _apply_target(allow_buy=False): the excess over the cap is sold; a SELL that is
\* not complete is SAFE_MODE.
SellExcess(r) ==
    /\ At(r, "sell")
    /\ \/ /\ qty' = [s \in Symbols |-> Least(qty[s], Effective(s))]
          /\ Goto(r, "offer")
          /\ UNCHANGED safe
       \/ /\ \E s \in Symbols : qty[s] > Effective(s)
          /\ safe' = TRUE
          /\ Return(r)
          /\ UNCHANGED qty
    /\ UNCHANGED <<clockVars, generation, target, key, signalVars, ordered,
                   onboardingVars, faults, historyVars>>

\* Mutant of Gap: the full target is offered.
GapToTarget(s) == target[s] - qty[s] - ordered[s]

\* _apply_target(allow_buy=True): what is missing to the cap, and not ordered
Gap(s) == Effective(s) - qty[s] - ordered[s]

\* A signal for each gap; an active one stays as it is.
OfferGaps(r) ==
    /\ At(r, "offer")
    /\ LET new == {s \in Symbols : ~open[s] /\ Gap(s) > 0 /\ ~safe}
       IN  /\ open' = [s \in Symbols |-> open[s] \/ s \in new]
           /\ planned' = [s \in Symbols |-> IF s \in new THEN Gap(s) ELSE planned[s]]
    /\ Goto(r, "refresh")
    /\ UNCHANGED <<clockVars, coreVars, keyVars, ordered, onboardingVars, faults, historyVars>>

-----------------------------------------------------------------------------
(* _refresh_onboarding_progress: after a run, and before a stage is advanced *)

\* run_allocation ends with it, advance_onboarding goes on to its snapshot.
Refreshed(r) ==
    /\ IF run[r].advance THEN Goto(r, "ready") ELSE Return(r)
    /\ refreshed' = (refreshed \/ run[r].alone)

RefreshStage(r) ==
    /\ At(r, "refresh")
    /\ IF status = "ACTIVE" /\ stage >= 1 /\ (run[r].advance \/ ~safe)
       THEN /\ run' = [run EXCEPT ![r].pc = "held", ![r].stage = stage]
            /\ UNCHANGED refreshed
       ELSE Refreshed(r)
    /\ UNCHANGED <<clockVars, coreVars, keyVars, signalVars, ordered, onboardingVars,
                   faults, heldOn, lapses>>

RefreshHeld(r) ==
    /\ At(r, "held")
    /\ run' = [run EXCEPT ![r].pc = "date", ![r].held = StageIsFilled]
    /\ UNCHANGED <<clockVars, coreVars, keyVars, signalVars, ordered, onboardingVars,
                   faults, historyVars>>

\* Mutant of FilledDate: the session under way is written, not the completed one.
FilledDateNext(held) == IF held THEN session + 1 ELSE 0

FilledDate(held) == IF held THEN session ELSE 0

\* Mutant of LastStageFilled: only the refresh that writes the date completes.
LastStageFilledFirst(r) == run[r].held /\ run[r].stage = Total /\ filledOn = 0

LastStageFilled(r) == run[r].held /\ run[r].stage = Total

AfterDate(r) ==
    IF LastStageFilled(r)
    THEN Goto(r, "complete") /\ UNCHANGED refreshed
    ELSE Refreshed(r)

\* The date is read: only one that is missing, or of a stage no longer filled, is written.
ReadDate(r) ==
    /\ At(r, "date")
    /\ IF run[r].held <=> filledOn = 0
       THEN Goto(r, "write") /\ UNCHANGED refreshed
       ELSE AfterDate(r)
    /\ UNCHANGED <<clockVars, coreVars, keyVars, signalVars, ordered, onboardingVars,
                   faults, heldOn, lapses>>

\* The next transaction writes it, whatever is there by then.
WriteDate(r) ==
    /\ At(r, "write")
    /\ filledOn' = FilledDate(run[r].held)
    /\ AfterDate(r)
    /\ UNCHANGED <<clockVars, coreVars, keyVars, signalVars, ordered, status, stage,
                   faults, heldOn, lapses>>

\* The last stage: the onboarding is over for good.
Complete(r) ==
    /\ At(r, "complete")
    /\ status' = "COMPLETED"
    /\ Refreshed(r)
    /\ UNCHANGED <<clockVars, coreVars, keyVars, signalVars, ordered, stage, filledOn,
                   faults, heldOn, lapses>>

-----------------------------------------------------------------------------
(* The buttons (onboarding_callback, start_onboarding, advance_onboarding) *)

Press(r, pc, advance) ==
    /\ Enter(r, [Idle EXCEPT !.pc = pc, !.advance = advance])
    /\ refreshed' = FALSE
    /\ LET others == {q \in Operators \ {r} : run[q] # Idle}
       IN  lapses' = lapses \cup {l \in {"doublePress"} : \E q \in others : ~At(q, "emptyDate")}
                            \cup {l \in {"earlyPress"} : \E q \in others : At(q, "emptyDate")}

PressStart(r) ==
    /\ At(r, "idle") /\ session > 0
    /\ status \in {"NOT_STARTED", "BYPASSED"} /\ CanStart
    /\ Press(r, "startInvalidate", FALSE)
    /\ UNCHANGED <<clockVars, coreVars, keyVars, signalVars, ordered, onboardingVars,
                   faults, heldOn>>

\* A button of an older stage is refused before this.
PressAdvance(r) ==
    /\ At(r, "idle") /\ NextStageReady
    /\ Press(r, "refresh", TRUE)
    /\ UNCHANGED <<clockVars, coreVars, keyVars, signalVars, ordered, onboardingVars,
                   faults, heldOn>>

\* The snapshot after the refresh decides; a completed onboarding is only shown.
Ready(r) ==
    /\ At(r, "ready")
    /\ IF status = "COMPLETED" THEN Goto(r, "run")
       ELSE IF NextStageReady
       THEN run' = [run EXCEPT ![r].pc = "advanceInvalidate", ![r].stage = stage]
       ELSE Return(r)
    /\ UNCHANGED <<clockVars, coreVars, keyVars, signalVars, ordered, onboardingVars,
                   faults, historyVars>>

\* _invalidate_active_core_buy_signals
InvalidateSignals(r) ==
    /\ run[r].pc \in {"startInvalidate", "advanceInvalidate"}
    /\ open' = [s \in Symbols |-> FALSE]
    /\ Goto(r, IF At(r, "startInvalidate") THEN "activate" ELSE "stage")
    /\ UNCHANGED <<clockVars, coreVars, keyVars, ordered, onboardingVars, faults, historyVars>>
    /\ ForgetPlans

Activate(r) ==
    /\ At(r, "activate")
    /\ status' = "ACTIVE"
    /\ run' = [run EXCEPT ![r].pc = "stage", ![r].stage = 0]
    /\ UNCHANGED <<clockVars, coreVars, keyVars, signalVars, ordered, stage, filledOn,
                   faults, refreshed, lapses>>
    /\ Record

\* The first stage of a start, the next of an advance.
OpenStage(r) ==
    /\ At(r, "stage")
    /\ stage' = run[r].stage + 1
    /\ Goto(r, "emptyDate")
    /\ UNCHANGED <<clockVars, coreVars, keyVars, signalVars, ordered, status, filledOn,
                   faults, refreshed, lapses>>
    /\ Record

\* The date of the stage before is emptied, and the handler runs the allocation.
EmptyDate(r) ==
    /\ At(r, "emptyDate")
    /\ filledOn' = 0
    /\ Goto(r, "run")
    /\ UNCHANGED <<clockVars, coreVars, keyVars, signalVars, ordered, status, stage,
                   faults, historyVars>>

-----------------------------------------------------------------------------
(* BUYs *)

\* Quote and reservation allow the signal's plan, up to the whole target; a target of
\* zero is replaced by the plan.
ReservableShares(s) ==
    LET goal == IF target[s] = 0 THEN planned[s] ELSE target[s]
    IN  Least(planned[s], goal - qty[s] - ordered[s])

\* Both approvals, and the reservation of n shares.
Reserve(s) ==
    /\ open[s] /\ ~safe
    /\ \E n \in 1..ReservableShares(s) : ordered' = [ordered EXCEPT ![s] = @ + n]
    /\ open' = [open EXCEPT ![s] = FALSE]
    /\ UNCHANGED <<clockVars, coreVars, keyVars, planned, onboardingVars, run,
                   faults, historyVars>>

\* n shares fill.
Fill(s) ==
    /\ \E n \in 1..ordered[s] :
          /\ ordered' = [ordered EXCEPT ![s] = @ - n]
          /\ qty' = [qty EXCEPT ![s] = @ + n]
    /\ UNCHANGED <<clockVars, generation, target, keyVars, open, onboardingVars, run,
                   faults, refreshed, lapses>>
    /\ ForgetPlans /\ Record

\* The order ends early: its signal is open again, with the plan it had.
EndEarly(s) ==
    /\ ordered[s] > 0
    /\ ordered' = [ordered EXCEPT ![s] = 0]
    /\ open' = [open EXCEPT ![s] = planned[s] > 0]
    /\ UNCHANGED <<clockVars, coreVars, keyVars, planned, onboardingVars, run,
                   faults, historyVars>>

-----------------------------------------------------------------------------
(* The calendar, and the process *)

\* A run takes minutes: none spans the end or the start of a session. The signals of the session
\* before lapse with it (expire_stale_signals).
SessionCompletes ==
    /\ session < MaxSessions /\ (session = 0 \/ started)
    /\ \A r \in Runs : run[r] = Idle
    /\ session' = session + 1 /\ started' = FALSE
    /\ \E c \in BOOLEAN : changes' = [changes EXCEPT ![session + 1] = c]
    /\ lapses' = lapses \cup {l \in {"interrupted"} : session > 0 /\ ~refreshed}
    /\ refreshed' = FALSE
    /\ open' = [s \in Symbols |-> FALSE] /\ planned' = Zero
    /\ UNCHANGED <<coreVars, keyVars, ordered, onboardingVars, run, faults, heldOn>>

NextSessionStarts ==
    /\ session > 0 /\ ~started
    /\ \A r \in Runs : run[r] = Idle
    /\ started' = TRUE
    /\ UNCHANGED <<session, changes, coreVars, keyVars, signalVars, ordered, onboardingVars,
                   run, faults, historyVars>>

\* The threads are gone; what they had written stays.
Crash ==
    /\ faults < MaxFaults
    /\ faults' = faults + 1
    /\ run' = [r \in Runs |-> Idle]
    /\ refreshed' = FALSE
    /\ lapses' = lapses \cup {l \in {"interrupted"} : \E r \in Runs : run[r].pc \in {"clear", "emptyDate"}}
    /\ UNCHANGED <<clockVars, coreVars, keyVars, signalVars, ordered, onboardingVars,
                   heldOn>>

-----------------------------------------------------------------------------
Step(r) ==
    \/ Begin(r) \/ BeginSafe(r)
    \/ Supersede(r) \/ ZeroTargets(r) \/ ClearKey(r)
    \/ NotTradable(r) \/ Frozen(r) \/ FreezeTargets(r) \/ StampKey(r)
    \/ SellExcess(r) \/ OfferGaps(r)
    \/ RefreshStage(r) \/ RefreshHeld(r) \/ ReadDate(r) \/ WriteDate(r) \/ Complete(r)

Handle(r) ==
    \/ Ready(r) \/ InvalidateSignals(r) \/ Activate(r) \/ OpenStage(r) \/ EmptyDate(r)

Next ==
    \/ \E r \in Runs : Step(r) \/ RunFails(r)
    \/ \E r \in Operators : PressStart(r) \/ PressAdvance(r) \/ Handle(r)
    \/ \E s \in Symbols : Reserve(s) \/ Fill(s) \/ EndEarly(s)
    \/ SessionCompletes \/ NextSessionStarts \/ Crash

Spec == Init /\ [][Next]_vars

\* The scheduler calls the allocation at every tick for as long as it lives.
FairSpec == Spec /\ WF_vars(Step(Scheduler))

-----------------------------------------------------------------------------
(* Properties *)

\* Types: in particular a stage and its date stay in range whatever the order of
\* the writes of two threads.
TypeOK ==
    /\ session \in 0..MaxSessions /\ started \in BOOLEAN
    /\ changes \in [Sessions -> BOOLEAN]
    /\ generation \in 0..MaxSessions /\ key \in 0..MaxSessions
    /\ safe \in BOOLEAN
    /\ target \in [Symbols -> 0..MaxTarget] /\ qty \in [Symbols -> Nat]
    /\ open \in [Symbols -> BOOLEAN] /\ planned \in [Symbols -> 0..MaxTarget]
    /\ ordered \in [Symbols -> Nat]
    /\ status \in {"NOT_STARTED", "BYPASSED", "ACTIVE", "COMPLETED"}
    /\ stage \in 0..Total /\ filledOn \in 0..MaxSessions
    /\ run \in [Runs -> [pc : Places, stage : 0..Total, held : BOOLEAN, advance : BOOLEAN, alone : BOOLEAN]]
    /\ faults \in 0..MaxFaults
    /\ heldOn \in [Stages -> 0..MaxSessions] /\ refreshed \in BOOLEAN /\ lapses \subseteq Lapses

\* Nothing is bought before the operator starts the first stage, whatever the
\* allocation wants (initial_onboarding_portfolio.py:268-271).
NothingBeforeStart ==
    status = "NOT_STARTED" => \A s \in Symbols : qty[s] = 0 /\ ordered[s] = 0

\* The operator opens a stage after the first only when the stage before has been held,
\* and not until MinSessions sessions after it first was.
Wait ==
    \A k \in Stages \ {Total} :
        stage = k /\ stage' = k + 1 =>
            heldOn[k] # 0 /\ session - heldOn[k] >= MinSessions

\* Where there are sessions to wait for, they are waited for in spite of a scheduler that
\* refreshes the same date beside the handler, and of crashes between the writes, for as
\* long as there is no lapse.
AdvanceAfterWait ==
    [][MinSessions > 0 /\ lapses = {} => Wait]_vars

\* initial_onboarding_telegram.py:57 "Reject stale Telegram buttons after onboarding state
\* has moved on": a second press while the first is handled opens no stage either before
\* its wait is over.
OneWaitPerStage ==
    [][MinSessions > 0 /\ lapses \subseteq {"doublePress"} => Wait]_vars

\* A last stage that is filled does not stay open for ever: the scheduler completes
\* it unless SAFE_MODE stops it.
LastStageCompletes ==
    []<>~(status = "ACTIVE" /\ stage = Total /\ StageIsFilled /\ ~safe)

\* JDSS_FINAL_SPEC.md section 6 caps the cumulative quantity of a stage: with the
\* quantities frozen and no run or handler under way, a BUY order does not take what
\* is held and ordered beyond the stage's share of the target.
StageCapHolds ==
    [][\A s \in Symbols :
          /\ ordered'[s] > ordered[s]
          /\ status = "ACTIVE" /\ stage >= 1
          /\ key = generation /\ \A r \in Runs : run[r] = Idle
          => qty[s] + ordered'[s] <= Scaled(target[s], stage)]_vars
=============================================================================
