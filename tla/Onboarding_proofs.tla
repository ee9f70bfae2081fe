------------------------- MODULE Onboarding_proofs -------------------------
(***************************************************************************)
(* Proofs about Onboarding, for any symbols, threads, stages and bounds:   *)
(* the state keeps its types, nothing is bought before the operator has    *)
(* started the first stage, and the next stage is not opened before the    *)
(* waiting sessions are over.                                              *)
(***************************************************************************)
EXTENDS Onboarding, TLAPS

Thread == [pc : Places, stage : 0..Total, held : BOOLEAN, advance : BOOLEAN, alone : BOOLEAN]

\* The conjuncts of TypeOK, by what they are about.
ClockOK ==
    /\ session \in 0..MaxSessions /\ started \in BOOLEAN
    /\ changes \in [Sessions -> BOOLEAN]
TargetsOK ==
    /\ generation \in 0..MaxSessions /\ key \in 0..MaxSessions /\ safe \in BOOLEAN
    /\ target \in [Symbols -> 0..MaxTarget] /\ qty \in [Symbols -> Nat]
BuysOK ==
    /\ open \in [Symbols -> BOOLEAN] /\ planned \in [Symbols -> 0..MaxTarget]
    /\ ordered \in [Symbols -> Nat]
StagesOK ==
    /\ status \in {"NOT_STARTED", "BYPASSED", "ACTIVE", "COMPLETED"}
    /\ stage \in 0..Total /\ filledOn \in 0..MaxSessions
ThreadsOK == run \in [Runs -> Thread]
HistoryOK ==
    /\ faults \in 0..MaxFaults
    /\ heldOn \in [Stages -> 0..MaxSessions] /\ refreshed \in BOOLEAN /\ lapses \subseteq Lapses

\* Before the start nothing can be ordered either: no signal is open, for the cap of every
\* symbol is what it holds.
Unstarted ==
    status = "NOT_STARTED" =>
        \A s \in Symbols : qty[s] = 0 /\ ordered[s] = 0 /\ ~open[s]

\* A thread that is going to open a stage has one to open.
Advancing ==
    \A r \in Runs : run[r].pc \in {"advanceInvalidate", "stage"} => run[r].stage < Total

IInv ==
    /\ ClockOK /\ TargetsOK /\ BuysOK /\ StagesOK /\ ThreadsOK /\ HistoryOK
    /\ Unstarted /\ Advancing

-----------------------------------------------------------------------------
(* The caps *)

\* A cap rounds down, so it is never more than the whole (scaled_target_quantity).
LEMMA ScaledBound ==
    ASSUME NEW full \in Nat, NEW k \in Stages
    PROVE  Scaled(full, k) \in 0..full
PROOF
<1> DEFINE f == Fractions[k]
           q == (full * f) \div Whole
<1>1. f \in 1..Whole /\ Whole \in Nat \ {0}
  BY OnboardingAssumption DEF Stages, Total
<1>2. full * f \in Nat /\ full * f <= full * Whole
  BY <1>1
<1>3. q \in Nat /\ q * Whole <= full * f
  BY <1>1, <1>2
<1>4. q <= full
  <2> SUFFICES ASSUME q >= full + 1 PROVE FALSE
    BY <1>3
  <2>1. q * Whole >= full * Whole + Whole
    BY <1>1, <1>3
  <2> QED BY <2>1, <1>1, <1>2, <1>3
<1> QED BY <1>3, <1>4 DEF Scaled

LEMMA StagesExist == Total \in Nat /\ Total >= 1
BY OnboardingAssumption DEF Total

\* What may be held of a symbol is within its target.
LEMMA EffectiveBound ==
    ASSUME TargetsOK, StagesOK, NEW s \in Symbols
    PROVE  Effective(s) \in 0..target[s]
PROOF
<1>1. target[s] \in Nat /\ qty[s] \in Nat /\ stage \in 0..Total
  BY OnboardingAssumption DEF TargetsOK, StagesOK
<1>2. CASE status = "ACTIVE" /\ stage # 0
  <2>1. stage \in Stages
    BY <1>1, <1>2, StagesExist DEF Stages
  <2> QED BY <1>1, <1>2, <2>1, ScaledBound DEF Effective
<1>3. CASE ~(status = "ACTIVE" /\ stage # 0)
  BY <1>1, <1>3 DEF Effective, Least
<1> QED BY <1>2, <1>3

-----------------------------------------------------------------------------
(* What moves a thread *)

\* One thread has a new place, the others theirs.
Moves(r, record) == run' = [run EXCEPT ![r] = record]

LEMMA IdleThread == Idle \in Thread /\ Idle.pc = "idle"
BY StagesExist DEF Idle, Thread, Places

\* A thread that moves to a place of its type, with a stage it may open, does no harm.
LEMMA MovesOK ==
    ASSUME ThreadsOK, Advancing, NEW r \in Runs, NEW record \in Thread, Moves(r, record),
           record.pc \in {"advanceInvalidate", "stage"} => record.stage < Total
    PROVE  ThreadsOK' /\ Advancing'
PROOF
<1>1. run' \in [Runs -> Thread] /\ run'[r] = record /\ \A q \in Runs \ {r} : run'[q] = run[q]
  BY DEF ThreadsOK, Moves
<1> QED BY <1>1 DEF ThreadsOK, Advancing

LEMMA GotoOK ==
    ASSUME ThreadsOK, Advancing, NEW r \in Runs, NEW pc \in Places, Goto(r, pc),
           pc \in {"advanceInvalidate", "stage"} => run[r].stage < Total
    PROVE  ThreadsOK' /\ Advancing'
PROOF
<1> DEFINE record == [run[r] EXCEPT !.pc = pc]
<1>1. run[r] \in Thread
  BY DEF ThreadsOK
<1>2. record \in Thread /\ record.pc = pc /\ record.stage = run[r].stage
  BY <1>1 DEF Thread
<1>3. Moves(r, record)
  BY DEF Moves, Goto
<1> QED BY <1>2, <1>3, MovesOK

LEMMA ReturnOK ==
    ASSUME ThreadsOK, Advancing, NEW r \in Runs, Return(r)
    PROVE  ThreadsOK' /\ Advancing'
PROOF
<1>1. Moves(r, Idle)
  BY DEF Moves, Return
<1> QED BY <1>1, IdleThread, MovesOK

LEMMA EnterOK ==
    ASSUME ThreadsOK, Advancing, NEW r \in Runs, NEW record \in Thread, Enter(r, record),
           record.pc \notin {"advanceInvalidate", "stage"}
    PROVE  ThreadsOK' /\ Advancing'
PROOF
<1>1. \A q \in Runs : LET alone == [run[q] EXCEPT !.alone = FALSE]
                      IN  alone \in Thread /\ alone.pc = run[q].pc /\ alone.stage = run[q].stage
  BY DEF ThreadsOK, Thread, Places
<1>2. run' \in [Runs -> Thread] /\ run'[r] = record
  BY <1>1 DEF Enter
<1>3. \A q \in Runs \ {r} : run'[q].pc = run[q].pc /\ run'[q].stage = run[q].stage
  BY <1>1 DEF Enter
<1> QED BY <1>2, <1>3 DEF ThreadsOK, Advancing

\* The end of a refresh (Refreshed).
LEMMA RefreshedOK ==
    ASSUME ThreadsOK, Advancing, HistoryOK, NEW r \in Runs, Refreshed(r)
    PROVE  ThreadsOK' /\ Advancing' /\ refreshed' \in BOOLEAN
PROOF
<1>1. CASE run[r].advance
  <2>1. Goto(r, "ready")
    BY <1>1 DEF Refreshed
  <2> QED BY <2>1, GotoOK DEF Refreshed, HistoryOK, ThreadsOK, Thread, Places
<1>2. CASE ~run[r].advance
  <2>1. Return(r)
    BY <1>2 DEF Refreshed
  <2> QED BY <2>1, ReturnOK DEF Refreshed, HistoryOK, ThreadsOK, Thread, Places
<1> QED BY <1>1, <1>2

\* The history of the stages that are held (Record).
LEMMA RecordOK ==
    ASSUME HistoryOK, Record, session' \in 0..MaxSessions
    PROVE  heldOn' \in [Stages -> 0..MaxSessions]
BY DEF HistoryOK, Record

-----------------------------------------------------------------------------
(* Steps *)

LEMMA Initially == Init => IInv
PROOF
<1> SUFFICES ASSUME Init PROVE IInv
  OBVIOUS
<1>0. 0 \in 0..MaxSessions /\ 0 \in 0..MaxFaults /\ FALSE \in BOOLEAN
  BY OnboardingAssumption
<1>1. ClockOK
  <2>1. session \in 0..MaxSessions
    BY <1>0 DEF Init
  <2>2. started \in BOOLEAN
    BY DEF Init
  <2>3. changes \in [Sessions -> BOOLEAN]
    BY DEF Init
  <2> QED BY <2>1, <2>2, <2>3 DEF ClockOK
<1>2. TargetsOK
  <2>1. Zero \in [Symbols -> 0..MaxTarget] /\ Zero \in [Symbols -> Nat]
    BY OnboardingAssumption DEF Zero
  <2>2. qty \in [Symbols -> Nat]
    BY <2>1 DEF Init
  <2>3. generation \in 0..MaxSessions
    BY <1>0 DEF Init
  <2>4. key \in 0..MaxSessions
    BY <1>0 DEF Init
  <2>5. safe \in BOOLEAN
    BY DEF Init
  <2>6. target \in [Symbols -> 0..MaxTarget]
    BY <2>1 DEF Init
  <2> QED BY <2>2, <2>3, <2>4, <2>5, <2>6 DEF TargetsOK
<1>3. BuysOK
  BY OnboardingAssumption DEF Init, BuysOK, Zero
<1>4. StagesOK
  BY OnboardingAssumption, StagesExist DEF Init, StagesOK
<1>5. HistoryOK
  <2>1. faults \in 0..MaxFaults
    BY <1>0 DEF Init
  <2>2. heldOn \in [Stages -> 0..MaxSessions]
    BY <1>0 DEF Init
  <2>3. refreshed \in BOOLEAN
    BY DEF Init
  <2>4. lapses \subseteq Lapses
    BY DEF Init
  <2> QED BY <2>1, <2>2, <2>3, <2>4 DEF HistoryOK
<1>6. ThreadsOK /\ Advancing
  BY IdleThread DEF Init, ThreadsOK, Advancing
<1>7. Unstarted
  BY DEF Init, Unstarted, Zero
<1> QED BY <1>1, <1>2, <1>3, <1>4, <1>5, <1>6, <1>7 DEF IInv

LEMMA BeginStep ==
    ASSUME NEW r \in Runs, IInv, Begin(r)
    PROVE  IInv'
PROOF
<1> USE DEF IInv
<1>1. ClockOK' /\ TargetsOK' /\ BuysOK' /\ StagesOK' /\ HistoryOK'
  BY DEF Begin, ClockOK, TargetsOK, BuysOK, StagesOK, HistoryOK,
         clockVars, coreVars, keyVars, signalVars, onboardingVars, historyVars
<1>2. ThreadsOK' /\ Advancing'
  <2> DEFINE record == [Idle EXCEPT !.pc = IF Changed THEN "supersede" ELSE "freeze",
                                    !.alone = \A q \in Runs \ {r} : run[q] = Idle]
  <2>1. record \in Thread /\ record.pc \in {"supersede", "freeze"}
    BY IdleThread DEF Thread, Idle, Places
  <2>2. Enter(r, record)
    BY DEF Begin
  <2> QED BY <2>1, <2>2, EnterOK
<1>3. Unstarted'
  BY DEF Begin, Unstarted, clockVars, coreVars, keyVars, signalVars, onboardingVars, historyVars
<1> QED BY <1>1, <1>2, <1>3

LEMMA BeginSafeStep ==
    ASSUME NEW r \in Runs, IInv, BeginSafe(r)
    PROVE  IInv'
PROOF
<1> USE DEF IInv
<1>1. ClockOK' /\ TargetsOK' /\ BuysOK' /\ StagesOK' /\ HistoryOK'
  BY DEF BeginSafe, ClockOK, TargetsOK, BuysOK, StagesOK, HistoryOK,
         clockVars, coreVars, keyVars, signalVars, onboardingVars, historyVars
<1>2. ThreadsOK' /\ Advancing'
  BY ReturnOK DEF BeginSafe
<1>3. Unstarted'
  BY DEF BeginSafe, Unstarted, clockVars, coreVars, keyVars, signalVars, onboardingVars, historyVars
<1> QED BY <1>1, <1>2, <1>3

LEMMA RunFailsStep ==
    ASSUME NEW r \in Runs, IInv, RunFails(r)
    PROVE  IInv'
PROOF
<1> USE DEF IInv
<1>1. ClockOK' /\ TargetsOK' /\ BuysOK' /\ StagesOK'
  BY DEF RunFails, ClockOK, TargetsOK, BuysOK, StagesOK,
         clockVars, coreVars, keyVars, signalVars, onboardingVars
<1>2. HistoryOK'
  BY OnboardingAssumption DEF RunFails, HistoryOK, clockVars, coreVars, keyVars, signalVars, onboardingVars, historyVars
<1>3. ThreadsOK' /\ Advancing'
  BY ReturnOK DEF RunFails
<1>4. Unstarted'
  BY DEF RunFails, Unstarted, clockVars, coreVars, keyVars, signalVars, onboardingVars, historyVars
<1> QED BY <1>1, <1>2, <1>3, <1>4

LEMMA SupersedeStep ==
    ASSUME NEW r \in Runs, IInv, Supersede(r)
    PROVE  IInv'
PROOF
<1> USE DEF IInv
<1>1. ClockOK' /\ StagesOK'
  BY DEF Supersede, ClockOK, StagesOK,
         clockVars, onboardingVars
<1>2. TargetsOK'
  BY DEF Supersede, TargetsOK, clockVars, coreVars, keyVars, signalVars, onboardingVars, historyVars
<1>3. BuysOK'
  BY OnboardingAssumption DEF Supersede, BuysOK, Zero, clockVars, coreVars, keyVars, signalVars, onboardingVars, historyVars
<1>4. HistoryOK'
  BY RecordOK DEF Supersede, HistoryOK, ClockOK, clockVars, coreVars, keyVars, signalVars, onboardingVars, historyVars
<1>5. ThreadsOK' /\ Advancing'
  BY GotoOK DEF Supersede, Places
<1>6. Unstarted'
  BY DEF Supersede, Unstarted, Zero, TargetsOK, BuysOK, clockVars, coreVars, keyVars, signalVars, onboardingVars, historyVars
<1> QED BY <1>1, <1>2, <1>3, <1>4, <1>5, <1>6

LEMMA ZeroTargetsStep ==
    ASSUME NEW r \in Runs, IInv, ZeroTargets(r)
    PROVE  IInv'
PROOF
<1> USE DEF IInv
<1>1. ClockOK' /\ BuysOK' /\ StagesOK' /\ HistoryOK'
  BY DEF ZeroTargets, ClockOK, BuysOK, StagesOK, HistoryOK,
         clockVars, signalVars, onboardingVars, historyVars
<1>2. TargetsOK'
  BY OnboardingAssumption DEF ZeroTargets, TargetsOK, Zero, ClockOK, clockVars, coreVars, keyVars, signalVars, onboardingVars, historyVars
<1>3. ThreadsOK' /\ Advancing'
  BY GotoOK DEF ZeroTargets, Places
<1>4. Unstarted'
  BY DEF ZeroTargets, Unstarted, clockVars, coreVars, keyVars, signalVars, onboardingVars, historyVars
<1> QED BY <1>1, <1>2, <1>3, <1>4

LEMMA ClearKeyStep ==
    ASSUME NEW r \in Runs, IInv, ClearKey(r)
    PROVE  IInv'
PROOF
<1> USE DEF IInv
<1>1. ClockOK' /\ BuysOK' /\ StagesOK' /\ HistoryOK'
  BY DEF ClearKey, ClockOK, BuysOK, StagesOK, HistoryOK,
         clockVars, signalVars, onboardingVars, historyVars
<1>2. TargetsOK'
  BY OnboardingAssumption DEF ClearKey, TargetsOK, clockVars, coreVars, keyVars, signalVars, onboardingVars, historyVars
<1>3. ThreadsOK' /\ Advancing'
  BY GotoOK DEF ClearKey, Places
<1>4. Unstarted'
  BY DEF ClearKey, Unstarted, clockVars, coreVars, keyVars, signalVars, onboardingVars, historyVars
<1> QED BY <1>1, <1>2, <1>3, <1>4

LEMMA NotTradableStep ==
    ASSUME NEW r \in Runs, IInv, NotTradable(r)
    PROVE  IInv'
PROOF
<1> USE DEF IInv
<1>1. ClockOK' /\ TargetsOK' /\ BuysOK' /\ StagesOK' /\ HistoryOK'
  BY DEF NotTradable, ClockOK, TargetsOK, BuysOK, StagesOK, HistoryOK,
         clockVars, coreVars, keyVars, signalVars, onboardingVars, historyVars
<1>2. ThreadsOK' /\ Advancing'
  <2> DEFINE record == [run[r] EXCEPT !.pc = "refresh", !.alone = @ /\ generation = 0]
  <2>1. record \in Thread /\ record.pc = "refresh"
    BY DEF ThreadsOK, Thread, Places
  <2>2. Moves(r, record)
    BY DEF NotTradable, Moves, ThreadsOK, Thread
  <2> QED BY <2>1, <2>2, MovesOK
<1>3. Unstarted'
  BY DEF NotTradable, Unstarted, clockVars, coreVars, keyVars, signalVars, onboardingVars, historyVars
<1> QED BY <1>1, <1>2, <1>3

LEMMA FrozenStep ==
    ASSUME NEW r \in Runs, IInv, Frozen(r)
    PROVE  IInv'
PROOF
<1> USE DEF IInv
<1>1. ClockOK' /\ TargetsOK' /\ BuysOK' /\ StagesOK' /\ HistoryOK'
  BY DEF Frozen, ClockOK, TargetsOK, BuysOK, StagesOK, HistoryOK,
         clockVars, coreVars, keyVars, signalVars, onboardingVars, historyVars
<1>2. ThreadsOK' /\ Advancing'
  BY GotoOK DEF Frozen, Places
<1>3. Unstarted'
  BY DEF Frozen, Unstarted, clockVars, coreVars, keyVars, signalVars, onboardingVars, historyVars
<1> QED BY <1>1, <1>2, <1>3

LEMMA FreezeTargetsStep ==
    ASSUME NEW r \in Runs, IInv, FreezeTargets(r)
    PROVE  IInv'
PROOF
<1> USE DEF IInv
<1>1. ClockOK' /\ BuysOK' /\ StagesOK' /\ HistoryOK'
  BY DEF FreezeTargets, ClockOK, BuysOK, StagesOK, HistoryOK,
         clockVars, signalVars, onboardingVars, historyVars
<1>2. TargetsOK'
  BY DEF FreezeTargets, TargetsOK, clockVars, coreVars, keyVars, signalVars, onboardingVars, historyVars
<1>3. ThreadsOK' /\ Advancing'
  BY GotoOK DEF FreezeTargets, Places
<1>4. Unstarted'
  BY DEF FreezeTargets, Unstarted, clockVars, coreVars, keyVars, signalVars, onboardingVars, historyVars
<1> QED BY <1>1, <1>2, <1>3, <1>4

LEMMA StampKeyStep ==
    ASSUME NEW r \in Runs, IInv, StampKey(r)
    PROVE  IInv'
PROOF
<1> USE DEF IInv
<1>1. ClockOK' /\ BuysOK' /\ StagesOK'
  BY DEF StampKey, ClockOK, BuysOK, StagesOK,
         clockVars, signalVars, onboardingVars
<1>2. TargetsOK'
  BY DEF StampKey, TargetsOK, clockVars, coreVars, keyVars, signalVars, onboardingVars, historyVars
<1>3. HistoryOK'
  BY RecordOK DEF StampKey, HistoryOK, ClockOK, clockVars, coreVars, keyVars, signalVars, onboardingVars, historyVars
<1>4. ThreadsOK' /\ Advancing'
  BY GotoOK DEF StampKey, Places
<1>5. Unstarted'
  BY DEF StampKey, Unstarted, clockVars, coreVars, keyVars, signalVars, onboardingVars, historyVars
<1> QED BY <1>1, <1>2, <1>3, <1>4, <1>5

LEMMA SellExcessStep ==
    ASSUME NEW r \in Runs, IInv, SellExcess(r)
    PROVE  IInv'
PROOF
<1> USE DEF IInv
<1>1. ClockOK' /\ BuysOK' /\ StagesOK' /\ HistoryOK'
  BY DEF SellExcess, ClockOK, BuysOK, StagesOK, HistoryOK,
         clockVars, signalVars, onboardingVars, historyVars
<1>2. TargetsOK'
  <2>1. \A s \in Symbols : Least(qty[s], Effective(s)) \in Nat
    <3> TAKE s \in Symbols
    <3>1. target[s] \in Nat /\ qty[s] \in Nat
      BY OnboardingAssumption DEF TargetsOK
    <3>2. Effective(s) \in Nat
      BY <3>1, EffectiveBound
    <3> QED BY <3>1, <3>2 DEF Least
  <2>2. qty' \in [Symbols -> Nat]
    BY <2>1 DEF SellExcess, TargetsOK
  <2> QED BY <2>2 DEF SellExcess, TargetsOK, keyVars
<1>3. ThreadsOK' /\ Advancing'
  BY GotoOK, ReturnOK DEF SellExcess, Places
<1>4. Unstarted'
  BY EffectiveBound, OnboardingAssumption DEF SellExcess, Unstarted, Least, Effective, TargetsOK, StagesOK, clockVars, coreVars, keyVars, signalVars, onboardingVars, historyVars
<1> QED BY <1>1, <1>2, <1>3, <1>4

LEMMA OfferGapsStep ==
    ASSUME NEW r \in Runs, IInv, OfferGaps(r)
    PROVE  IInv'
PROOF
<1> USE DEF IInv
<1>1. ClockOK' /\ TargetsOK' /\ StagesOK' /\ HistoryOK'
  BY DEF OfferGaps, ClockOK, TargetsOK, StagesOK, HistoryOK,
         clockVars, coreVars, keyVars, onboardingVars, historyVars
<1> DEFINE new == {s \in Symbols : ~open[s] /\ Gap(s) > 0 /\ ~safe}
<1>5. /\ open' = [s \in Symbols |-> open[s] \/ s \in new]
      /\ planned' = [s \in Symbols |-> IF s \in new THEN Gap(s) ELSE planned[s]]
  BY DEF OfferGaps
<1>2. BuysOK'
  <2>1. \A s \in new : Gap(s) \in 0..MaxTarget
    <3> SUFFICES ASSUME NEW s \in new PROVE Gap(s) \in 0..MaxTarget
      OBVIOUS
    <3>1. Effective(s) \in 0..target[s] /\ target[s] \in 0..MaxTarget
      BY EffectiveBound DEF TargetsOK
    <3>2. qty[s] \in Nat /\ ordered[s] \in Nat /\ Gap(s) > 0 /\ MaxTarget \in Nat
      BY OnboardingAssumption DEF TargetsOK, BuysOK
    <3> QED BY <3>1, <3>2 DEF Gap
  <2> HIDE DEF new
  <2>2. open' \in [Symbols -> BOOLEAN]
    BY <1>5
  <2>3. planned' \in [Symbols -> 0..MaxTarget]
    BY <1>5, <2>1 DEF BuysOK
  <2> QED BY <2>2, <2>3 DEF OfferGaps, BuysOK
<1>3. ThreadsOK' /\ Advancing'
  BY GotoOK DEF OfferGaps, Places
<1>4. Unstarted'
  <2> SUFFICES ASSUME status = "NOT_STARTED" PROVE Unstarted'
    BY DEF OfferGaps, Unstarted, onboardingVars
  <2>1. \A s \in Symbols : qty[s] = 0 /\ ordered[s] = 0 /\ ~open[s] /\ target[s] \in Nat
    BY OnboardingAssumption DEF Unstarted, TargetsOK
  <2>2. \A s \in Symbols : Gap(s) = 0
    BY <2>1 DEF Gap, Effective, Least
  <2>3. \A s \in Symbols : ~open'[s]
    <3>1. \A s \in Symbols : s \notin new
      BY <2>2
    <3> HIDE DEF new
    <3> QED BY <1>5, <2>1, <3>1
  <2> QED BY <2>1, <2>3 DEF OfferGaps, Unstarted, coreVars
<1> QED BY <1>1, <1>2, <1>3, <1>4

LEMMA RefreshStageStep ==
    ASSUME NEW r \in Runs, IInv, RefreshStage(r)
    PROVE  IInv'
PROOF
<1> USE DEF IInv
<1>1. ClockOK' /\ TargetsOK' /\ BuysOK' /\ StagesOK'
  BY DEF RefreshStage, ClockOK, TargetsOK, BuysOK, StagesOK,
         clockVars, coreVars, keyVars, signalVars, onboardingVars
<1>2. HistoryOK'
  BY RefreshedOK DEF RefreshStage, HistoryOK, clockVars, coreVars, keyVars, signalVars, onboardingVars, historyVars
<1>3. ThreadsOK' /\ Advancing'
  <2>1. CASE run' = [run EXCEPT ![r].pc = "held", ![r].stage = stage]
    <3> DEFINE record == [run[r] EXCEPT !.pc = "held", !.stage = stage]
    <3>1. record \in Thread /\ record.pc = "held"
      BY DEF ThreadsOK, Thread, Places, StagesOK
    <3>2. Moves(r, record)
      BY <2>1 DEF Moves, ThreadsOK, Thread
    <3> QED BY <3>1, <3>2, MovesOK
  <2>2. CASE Refreshed(r)
    BY <2>2, RefreshedOK
  <2> QED BY <2>1, <2>2 DEF RefreshStage
<1>4. Unstarted'
  BY DEF RefreshStage, Unstarted, clockVars, coreVars, keyVars, signalVars, onboardingVars, historyVars
<1> QED BY <1>1, <1>2, <1>3, <1>4

LEMMA RefreshHeldStep ==
    ASSUME NEW r \in Runs, IInv, RefreshHeld(r)
    PROVE  IInv'
PROOF
<1> USE DEF IInv
<1>1. ClockOK' /\ TargetsOK' /\ BuysOK' /\ StagesOK' /\ HistoryOK'
  BY DEF RefreshHeld, ClockOK, TargetsOK, BuysOK, StagesOK, HistoryOK,
         clockVars, coreVars, keyVars, signalVars, onboardingVars, historyVars
<1>2. ThreadsOK' /\ Advancing'
  <2> DEFINE record == [run[r] EXCEPT !.pc = "date", !.held = StageIsFilled]
  <2>1. record \in Thread /\ record.pc = "date"
    BY DEF ThreadsOK, Thread, Places, StageIsFilled
  <2>2. Moves(r, record)
    BY DEF RefreshHeld, Moves, ThreadsOK, Thread
  <2> QED BY <2>1, <2>2, MovesOK
<1>3. Unstarted'
  BY DEF RefreshHeld, Unstarted, clockVars, coreVars, keyVars, signalVars, onboardingVars, historyVars
<1> QED BY <1>1, <1>2, <1>3

LEMMA AfterDateOK ==
    ASSUME ThreadsOK, Advancing, HistoryOK, NEW r \in Runs, AfterDate(r)
    PROVE  ThreadsOK' /\ Advancing' /\ refreshed' \in BOOLEAN
BY GotoOK, RefreshedOK DEF AfterDate, Places, HistoryOK

LEMMA ReadDateStep ==
    ASSUME NEW r \in Runs, IInv, ReadDate(r)
    PROVE  IInv'
PROOF
<1> USE DEF IInv
<1>1. ClockOK' /\ TargetsOK' /\ BuysOK' /\ StagesOK'
  BY DEF ReadDate, ClockOK, TargetsOK, BuysOK, StagesOK,
         clockVars, coreVars, keyVars, signalVars, onboardingVars
<1>2. HistoryOK'
  BY AfterDateOK DEF ReadDate, HistoryOK
<1>3. ThreadsOK' /\ Advancing'
  BY GotoOK, AfterDateOK DEF ReadDate, Places
<1>4. Unstarted'
  BY DEF ReadDate, Unstarted, clockVars, coreVars, keyVars, signalVars, onboardingVars, historyVars
<1> QED BY <1>1, <1>2, <1>3, <1>4

LEMMA WriteDateStep ==
    ASSUME NEW r \in Runs, IInv, WriteDate(r)
    PROVE  IInv'
PROOF
<1> USE DEF IInv
<1>1. ClockOK' /\ TargetsOK' /\ BuysOK'
  BY DEF WriteDate, ClockOK, TargetsOK, BuysOK, clockVars, coreVars, keyVars, signalVars
<1>2. StagesOK'
  <2>1. FilledDate(run[r].held) \in 0..MaxSessions
    BY OnboardingAssumption DEF FilledDate, ClockOK
  <2> QED BY <2>1 DEF WriteDate, StagesOK
<1>3. HistoryOK'
  BY AfterDateOK DEF WriteDate, HistoryOK
<1>4. ThreadsOK' /\ Advancing'
  BY AfterDateOK DEF WriteDate
<1>5. Unstarted'
  BY DEF WriteDate, Unstarted, clockVars, coreVars, keyVars, signalVars, onboardingVars, historyVars
<1> QED BY <1>1, <1>2, <1>3, <1>4, <1>5

LEMMA CompleteStep ==
    ASSUME NEW r \in Runs, IInv, Complete(r)
    PROVE  IInv'
PROOF
<1> USE DEF IInv
<1>1. ClockOK' /\ TargetsOK' /\ BuysOK'
  BY DEF Complete, ClockOK, TargetsOK, BuysOK,
         clockVars, coreVars, keyVars, signalVars
<1>2. StagesOK'
  BY DEF Complete, StagesOK, clockVars, coreVars, keyVars, signalVars, onboardingVars, historyVars
<1>3. HistoryOK'
  BY RefreshedOK DEF Complete, HistoryOK, clockVars, coreVars, keyVars, signalVars, onboardingVars, historyVars
<1>4. ThreadsOK' /\ Advancing'
  BY RefreshedOK DEF Complete
<1>5. Unstarted'
  BY DEF Complete, Unstarted, clockVars, coreVars, keyVars, signalVars, onboardingVars, historyVars
<1> QED BY <1>1, <1>2, <1>3, <1>4, <1>5

LEMMA PressStartStep ==
    ASSUME NEW r \in Runs, IInv, PressStart(r)
    PROVE  IInv'
PROOF
<1> USE DEF IInv
<1>1. ClockOK' /\ TargetsOK' /\ BuysOK' /\ StagesOK'
  BY DEF PressStart, ClockOK, TargetsOK, BuysOK, StagesOK,
         clockVars, coreVars, keyVars, signalVars, onboardingVars
<1>2. HistoryOK'
  BY DEF PressStart, HistoryOK, Press, Lapses, clockVars, coreVars, keyVars, signalVars, onboardingVars, historyVars
<1>3. ThreadsOK' /\ Advancing'
  <2> DEFINE record == [Idle EXCEPT !.pc = "startInvalidate", !.advance = FALSE]
  <2>1. record \in Thread /\ record.pc = "startInvalidate"
    BY IdleThread DEF Thread, Idle, Places
  <2>2. Enter(r, record)
    BY DEF PressStart, Press
  <2> QED BY <2>1, <2>2, EnterOK
<1>4. Unstarted'
  BY DEF PressStart, Unstarted, clockVars, coreVars, keyVars, signalVars, onboardingVars, historyVars
<1> QED BY <1>1, <1>2, <1>3, <1>4

LEMMA PressAdvanceStep ==
    ASSUME NEW r \in Runs, IInv, PressAdvance(r)
    PROVE  IInv'
PROOF
<1> USE DEF IInv
<1>1. ClockOK' /\ TargetsOK' /\ BuysOK' /\ StagesOK'
  BY DEF PressAdvance, ClockOK, TargetsOK, BuysOK, StagesOK,
         clockVars, coreVars, keyVars, signalVars, onboardingVars
<1>2. HistoryOK'
  BY DEF PressAdvance, HistoryOK, Press, Lapses, clockVars, coreVars, keyVars, signalVars, onboardingVars, historyVars
<1>3. ThreadsOK' /\ Advancing'
  <2> DEFINE record == [Idle EXCEPT !.pc = "refresh", !.advance = TRUE]
  <2>1. record \in Thread /\ record.pc = "refresh"
    BY IdleThread DEF Thread, Idle, Places
  <2>2. Enter(r, record)
    BY DEF PressAdvance, Press
  <2> QED BY <2>1, <2>2, EnterOK
<1>4. Unstarted'
  BY DEF PressAdvance, Unstarted, clockVars, coreVars, keyVars, signalVars, onboardingVars, historyVars
<1> QED BY <1>1, <1>2, <1>3, <1>4

LEMMA ReadyStep ==
    ASSUME NEW r \in Runs, IInv, Ready(r)
    PROVE  IInv'
PROOF
<1> USE DEF IInv
<1>1. ClockOK' /\ TargetsOK' /\ BuysOK' /\ StagesOK' /\ HistoryOK'
  BY DEF Ready, ClockOK, TargetsOK, BuysOK, StagesOK, HistoryOK,
         clockVars, coreVars, keyVars, signalVars, onboardingVars, historyVars
<1>2. ThreadsOK' /\ Advancing'
  <2>1. CASE Goto(r, "run") \/ Return(r)
    BY <2>1, GotoOK, ReturnOK DEF Places
  <2>2. CASE NextStageReady /\ run' = [run EXCEPT ![r].pc = "advanceInvalidate", ![r].stage = stage]
    <3> DEFINE record == [run[r] EXCEPT !.pc = "advanceInvalidate", !.stage = stage]
    <3>1. record \in Thread /\ record.stage = stage /\ stage < Total
      BY <2>2 DEF ThreadsOK, Thread, Places, StagesOK, NextStageReady
    <3>2. Moves(r, record)
      BY <2>2 DEF Moves, ThreadsOK, Thread
    <3> QED BY <3>1, <3>2, MovesOK
  <2> QED BY <2>1, <2>2 DEF Ready
<1>3. Unstarted'
  BY DEF Ready, Unstarted, clockVars, coreVars, keyVars, signalVars, onboardingVars, historyVars
<1> QED BY <1>1, <1>2, <1>3

LEMMA InvalidateSignalsStep ==
    ASSUME NEW r \in Runs, IInv, InvalidateSignals(r)
    PROVE  IInv'
PROOF
<1> USE DEF IInv
<1>1. ClockOK' /\ TargetsOK' /\ StagesOK' /\ HistoryOK'
  BY DEF InvalidateSignals, ClockOK, TargetsOK, StagesOK, HistoryOK,
         clockVars, coreVars, keyVars, onboardingVars, historyVars
<1>2. BuysOK'
  BY OnboardingAssumption DEF InvalidateSignals, BuysOK, ForgetPlans, clockVars, coreVars, keyVars, signalVars, onboardingVars, historyVars
<1>3. ThreadsOK' /\ Advancing'
  <2>1. CASE At(r, "startInvalidate")
    BY <2>1, GotoOK DEF Places, InvalidateSignals
  <2>2. CASE ~At(r, "startInvalidate")
    <3>1. run[r].stage < Total /\ Goto(r, "stage")
      BY <2>2 DEF InvalidateSignals, At, Advancing
    <3> QED BY <3>1, GotoOK DEF Places
  <2> QED BY <2>1, <2>2
<1>4. Unstarted'
  BY DEF InvalidateSignals, Unstarted, BuysOK, clockVars, coreVars, keyVars, signalVars, onboardingVars, historyVars
<1> QED BY <1>1, <1>2, <1>3, <1>4

LEMMA ActivateStep ==
    ASSUME NEW r \in Runs, IInv, Activate(r)
    PROVE  IInv'
PROOF
<1> USE DEF IInv
<1>1. ClockOK' /\ TargetsOK' /\ BuysOK'
  BY DEF Activate, ClockOK, TargetsOK, BuysOK,
         clockVars, coreVars, keyVars, signalVars
<1>2. StagesOK'
  BY DEF Activate, StagesOK, clockVars, coreVars, keyVars, signalVars, onboardingVars, historyVars
<1>3. HistoryOK'
  BY RecordOK DEF Activate, HistoryOK, ClockOK, clockVars, coreVars, keyVars, signalVars, onboardingVars, historyVars
<1>4. ThreadsOK' /\ Advancing'
  <2> DEFINE record == [run[r] EXCEPT !.pc = "stage", !.stage = 0]
  <2>1. run[r] \in Thread /\ 0 \in 0..Total /\ 0 < Total
    BY StagesExist DEF ThreadsOK
  <2>2. record \in Thread /\ record.stage = 0
    BY <2>1 DEF Thread, Places
  <2>3. Moves(r, record)
    BY DEF Activate, Moves, ThreadsOK, Thread
  <2> QED BY <2>1, <2>2, <2>3, MovesOK
<1>5. Unstarted'
  BY DEF Activate, Unstarted, clockVars, coreVars, keyVars, signalVars, onboardingVars, historyVars
<1> QED BY <1>1, <1>2, <1>3, <1>4, <1>5

LEMMA OpenStageStep ==
    ASSUME NEW r \in Runs, IInv, OpenStage(r)
    PROVE  IInv'
PROOF
<1> USE DEF IInv
<1>1. ClockOK' /\ TargetsOK' /\ BuysOK'
  BY DEF OpenStage, ClockOK, TargetsOK, BuysOK,
         clockVars, coreVars, keyVars, signalVars
<1>2. StagesOK'
  BY StagesExist DEF OpenStage, StagesOK, At, ThreadsOK, Thread, Advancing, clockVars, coreVars, keyVars, signalVars, onboardingVars, historyVars
<1>3. HistoryOK'
  BY RecordOK DEF OpenStage, HistoryOK, ClockOK, clockVars, coreVars, keyVars, signalVars, onboardingVars, historyVars
<1>4. ThreadsOK' /\ Advancing'
  BY GotoOK DEF OpenStage, Places
<1>5. Unstarted'
  BY DEF OpenStage, Unstarted, clockVars, coreVars, keyVars, signalVars, onboardingVars, historyVars
<1> QED BY <1>1, <1>2, <1>3, <1>4, <1>5

LEMMA EmptyDateStep ==
    ASSUME NEW r \in Runs, IInv, EmptyDate(r)
    PROVE  IInv'
PROOF
<1> USE DEF IInv
<1>1. ClockOK' /\ TargetsOK' /\ BuysOK' /\ HistoryOK'
  BY DEF EmptyDate, ClockOK, TargetsOK, BuysOK, HistoryOK,
         clockVars, coreVars, keyVars, signalVars, historyVars
<1>2. StagesOK'
  BY OnboardingAssumption DEF EmptyDate, StagesOK, clockVars, coreVars, keyVars, signalVars, onboardingVars, historyVars
<1>3. ThreadsOK' /\ Advancing'
  BY GotoOK DEF EmptyDate, Places
<1>4. Unstarted'
  BY DEF EmptyDate, Unstarted, clockVars, coreVars, keyVars, signalVars, onboardingVars, historyVars
<1> QED BY <1>1, <1>2, <1>3, <1>4

LEMMA ReserveStep ==
    ASSUME NEW s \in Symbols, IInv, Reserve(s)
    PROVE  IInv'
PROOF
<1> USE DEF IInv
<1>1. ClockOK' /\ TargetsOK' /\ StagesOK' /\ HistoryOK'
  BY DEF Reserve, ClockOK, TargetsOK, StagesOK, HistoryOK,
         clockVars, coreVars, keyVars, onboardingVars, historyVars
<1>2. BuysOK'
  BY DEF Reserve, BuysOK, ReservableShares, Least, TargetsOK, clockVars, coreVars, keyVars, signalVars, onboardingVars, historyVars
<1>3. ThreadsOK' /\ Advancing'
  BY DEF Reserve, ThreadsOK, Advancing
<1>4. Unstarted'
  BY DEF Reserve, Unstarted, clockVars, coreVars, keyVars, signalVars, onboardingVars, historyVars
<1> QED BY <1>1, <1>2, <1>3, <1>4

LEMMA FillStep ==
    ASSUME NEW s \in Symbols, IInv, Fill(s)
    PROVE  IInv'
PROOF
<1> USE DEF IInv
<1>1. ClockOK' /\ StagesOK'
  BY DEF Fill, ClockOK, StagesOK,
         clockVars, onboardingVars
<1>2. TargetsOK'
  BY DEF Fill, TargetsOK, BuysOK, clockVars, coreVars, keyVars, signalVars, onboardingVars, historyVars
<1>3. BuysOK'
  BY OnboardingAssumption DEF Fill, BuysOK, ForgetPlans, clockVars, coreVars, keyVars, signalVars, onboardingVars, historyVars
<1>4. HistoryOK'
  BY RecordOK DEF Fill, HistoryOK, ClockOK, clockVars, coreVars, keyVars, signalVars, onboardingVars, historyVars
<1>5. ThreadsOK' /\ Advancing'
  BY DEF Fill, ThreadsOK, Advancing
<1>6. Unstarted'
  BY DEF Fill, Unstarted, BuysOK, clockVars, coreVars, keyVars, signalVars, onboardingVars, historyVars
<1> QED BY <1>1, <1>2, <1>3, <1>4, <1>5, <1>6

LEMMA EndEarlyStep ==
    ASSUME NEW s \in Symbols, IInv, EndEarly(s)
    PROVE  IInv'
PROOF
<1> USE DEF IInv
<1>1. ClockOK' /\ TargetsOK' /\ StagesOK' /\ HistoryOK'
  BY DEF EndEarly, ClockOK, TargetsOK, StagesOK, HistoryOK,
         clockVars, coreVars, keyVars, onboardingVars, historyVars
<1>2. BuysOK'
  BY DEF EndEarly, BuysOK, clockVars, coreVars, keyVars, signalVars, onboardingVars, historyVars
<1>3. ThreadsOK' /\ Advancing'
  BY DEF EndEarly, ThreadsOK, Advancing
<1>4. Unstarted'
  BY DEF EndEarly, Unstarted, BuysOK, clockVars, coreVars, keyVars, signalVars, onboardingVars, historyVars
<1> QED BY <1>1, <1>2, <1>3, <1>4

LEMMA SessionCompletesStep ==
    ASSUME IInv, SessionCompletes
    PROVE  IInv'
PROOF
<1> USE DEF IInv
<1>1. TargetsOK' /\ StagesOK'
  BY DEF SessionCompletes, TargetsOK, StagesOK,
         coreVars, keyVars, onboardingVars
<1>2. ClockOK'
  <2>1. session' \in 0..MaxSessions
    BY OnboardingAssumption DEF SessionCompletes, ClockOK
  <2>2. changes' \in [Sessions -> BOOLEAN]
    BY DEF SessionCompletes, ClockOK
  <2> QED BY <2>1, <2>2 DEF SessionCompletes, ClockOK
<1>3. BuysOK'
  BY OnboardingAssumption DEF SessionCompletes, BuysOK, Zero, clockVars, coreVars, keyVars, signalVars, onboardingVars, historyVars
<1>4. HistoryOK'
  BY DEF SessionCompletes, HistoryOK, Lapses, clockVars, coreVars, keyVars, signalVars, onboardingVars, historyVars
<1>5. ThreadsOK' /\ Advancing'
  BY DEF SessionCompletes, ThreadsOK, Advancing
<1>6. Unstarted'
  BY DEF SessionCompletes, Unstarted, clockVars, coreVars, keyVars, signalVars, onboardingVars, historyVars
<1> QED BY <1>1, <1>2, <1>3, <1>4, <1>5, <1>6

LEMMA NextSessionStartsStep ==
    ASSUME IInv, NextSessionStarts
    PROVE  IInv'
PROOF
<1> USE DEF IInv
<1>1. TargetsOK' /\ BuysOK' /\ StagesOK' /\ HistoryOK'
  BY DEF NextSessionStarts, TargetsOK, BuysOK, StagesOK, HistoryOK,
         coreVars, keyVars, signalVars, onboardingVars, historyVars
<1>2. ClockOK'
  BY DEF NextSessionStarts, ClockOK, clockVars, coreVars, keyVars, signalVars, onboardingVars, historyVars
<1>3. ThreadsOK' /\ Advancing'
  BY DEF NextSessionStarts, ThreadsOK, Advancing
<1>4. Unstarted'
  BY DEF NextSessionStarts, Unstarted, clockVars, coreVars, keyVars, signalVars, onboardingVars, historyVars
<1> QED BY <1>1, <1>2, <1>3, <1>4

LEMMA CrashStep ==
    ASSUME IInv, Crash
    PROVE  IInv'
PROOF
<1> USE DEF IInv
<1>1. ClockOK' /\ TargetsOK' /\ BuysOK' /\ StagesOK'
  BY DEF Crash, ClockOK, TargetsOK, BuysOK, StagesOK,
         clockVars, coreVars, keyVars, signalVars, onboardingVars
<1>2. HistoryOK'
  <2>1. faults' \in 0..MaxFaults
    BY OnboardingAssumption DEF Crash, HistoryOK
  <2>2. lapses' \subseteq Lapses
    BY DEF Crash, HistoryOK, Lapses
  <2> QED BY <2>1, <2>2 DEF Crash, HistoryOK
<1>3. ThreadsOK' /\ Advancing'
  BY IdleThread DEF Crash, ThreadsOK, Advancing
<1>4. Unstarted'
  BY DEF Crash, Unstarted, clockVars, coreVars, keyVars, signalVars, onboardingVars, historyVars
<1> QED BY <1>1, <1>2, <1>3, <1>4

LEMMA Inductive == IInv /\ [Next]_vars => IInv'
PROOF
<1> SUFFICES ASSUME IInv, [Next]_vars PROVE IInv'
  OBVIOUS
<1>1. CASE \E r \in Runs : Step(r) \/ RunFails(r)
  BY <1>1, BeginStep, BeginSafeStep, RunFailsStep, SupersedeStep, ZeroTargetsStep, ClearKeyStep,
     NotTradableStep, FrozenStep, FreezeTargetsStep, StampKeyStep, SellExcessStep, OfferGapsStep,
     RefreshStageStep, RefreshHeldStep, ReadDateStep, WriteDateStep, CompleteStep
     DEF Step
<1>2. CASE \E r \in Operators : PressStart(r) \/ PressAdvance(r) \/ Handle(r)
  BY <1>2, PressStartStep, PressAdvanceStep, ReadyStep, InvalidateSignalsStep, ActivateStep,
     OpenStageStep, EmptyDateStep
     DEF Handle, Runs
<1>3. CASE \E s \in Symbols : Reserve(s) \/ Fill(s) \/ EndEarly(s)
  BY <1>3, ReserveStep, FillStep, EndEarlyStep
<1>4. CASE SessionCompletes \/ NextSessionStarts \/ Crash
  BY <1>4, SessionCompletesStep, NextSessionStartsStep, CrashStep
<1>5. CASE UNCHANGED vars
  BY <1>5 DEF vars, IInv, ClockOK, TargetsOK, BuysOK, StagesOK, ThreadsOK, HistoryOK, Unstarted,
              Advancing, clockVars, coreVars, keyVars, signalVars, onboardingVars, historyVars
<1> QED BY <1>1, <1>2, <1>3, <1>4, <1>5 DEF Next

-----------------------------------------------------------------------------
(* The wait between two stages *)

RunPlaces == {"supersede", "zero", "clear", "freeze", "stamp", "sell", "offer",
              "refresh", "held", "date", "write", "complete"}
TradePlaces == {"sell", "offer", "refresh", "held", "date", "write", "complete"}

\* A stage is being refreshed, and is held if that is what the refresh has read.
Reads(r) ==
    run[r].pc \in {"held", "date", "write"} =>
        /\ status = "ACTIVE" /\ stage >= 1
        /\ run[r].pc # "held" /\ run[r].held /\ lapses = {} => heldOn[stage] # 0

\* Nothing changes under a run that is alone: its session is evaluated, its targets frozen.
Lone(r) ==
    run[r].alone =>
        /\ ~run[r].advance /\ ~safe /\ run[r].pc \in RunPlaces
        /\ \A q \in Runs \ {r} : run[q] = Idle
        /\ run[r].pc \notin {"supersede", "zero"} => ~Changed
        /\ run[r].pc \in TradePlaces => key = generation
        /\ Reads(r)

\* Nor under a run that follows one, before a button is pressed.
Settled ==
    refreshed =>
        /\ \A q \in Operators : run[q] = Idle
        /\ key = generation /\ ~Changed
        /\ run[Scheduler].pc \in {"idle", "freeze"} \cup TradePlaces
        /\ Reads(Scheduler)

\* Buttons are handled one by one.
Sole ==
    lapses = {} => \A p, q \in Operators : run[p].pc # "idle" /\ run[q].pc # "idle" => p = q

Turns ==
    /\ \A r \in Runs : Lone(r)
    /\ Settled /\ Sole
    /\ ~run[Scheduler].advance /\ run[Scheduler].pc \in RunPlaces \cup {"idle"}
    /\ session = 0 => generation = 0 /\ \A r \in Runs : run[r] = Idle
    /\ generation = 0 => key = 0

\* Stages begin with the first one, and without a date.
Begun ==
    /\ status \in {"NOT_STARTED", "BYPASSED"} =>
          /\ stage = 0 /\ filledOn = 0
          /\ \A r \in Runs : /\ ~run[r].advance
                             /\ run[r].pc \notin {"held", "date", "write", "complete", "ready", "advanceInvalidate",
                                                  "stage", "emptyDate"}
    /\ lapses = {} =>
          \A r \in Runs : run[r].pc \in {"startInvalidate", "activate"} => status \in {"NOT_STARTED", "BYPASSED"}

Held(k) ==
    /\ status = "ACTIVE" /\ stage = k /\ key # 0 /\ key = generation
    /\ \A s \in Symbols : qty[s] >= Scaled(target[s], k)

\* The history knows of every stage that is held, but for the targets of zero of a run
\* that has yet to empty the key.
Known ==
    /\ \A k \in Stages : heldOn[k] <= session
    /\ lapses = {} /\ (\A r \in Runs : ~At(r, "clear")) =>
          \A k \in Stages : Held(k) => heldOn[k] # 0

Dated == heldOn[stage] # 0 /\ heldOn[stage] <= filledOn

\* A date that is too early is of this session, and gone when a run has been alone.
Dates ==
    status = "ACTIVE" /\ stage >= 1 /\ filledOn # 0 /\ lapses = {}
    /\ (\A r \in Runs : ~At(r, "emptyDate"))
        => Dated \/ (filledOn = session /\ ~refreshed)

\* The handler opens the stage after one that has waited.
Waited ==
    \A r \in Runs :
        run[r].pc \in {"advanceInvalidate", "stage"} /\ run[r].stage >= 1 /\ lapses = {} =>
            heldOn[run[r].stage] # 0 /\ session - heldOn[run[r].stage] >= MinSessions

WInv == Turns /\ Begun /\ Known /\ Dates /\ Waited

-----------------------------------------------------------------------------
(* What a step leaves alone *)

\* The threads other than r are where they were.
OthersStay(r) ==
    \A q \in Runs \ {r} : /\ run'[q].pc = run[q].pc
                          /\ run'[q].stage = run[q].stage /\ run'[q].advance = run[q].advance

\* No stage that was held is forgotten, or held anew.
HistoryStays == \A k \in Stages : heldOn[k] # 0 => heldOn'[k] = heldOn[k]

LEMMA MoveStays ==
    ASSUME ThreadsOK, NEW r \in Runs, NEW record, Moves(r, record)
    PROVE  run'[r] = record /\ OthersStay(r) /\ \A q \in Runs \ {r} : run'[q] = run[q]
BY DEF ThreadsOK, Moves, OthersStay

LEMMA EnterStays ==
    ASSUME ThreadsOK, NEW r \in Runs, NEW record, Enter(r, record)
    PROVE  /\ run'[r] = record /\ OthersStay(r)
           /\ \A q \in Runs \ {r} : ~run'[q].alone /\ (run[q] = Idle => run'[q] = Idle)
PROOF
<1>1. run'[r] = record /\ \A q \in Runs \ {r} : run'[q] = [run[q] EXCEPT !.alone = FALSE]
  BY DEF Enter
<1>2. [Idle EXCEPT !.alone = FALSE] = Idle
  <2>1. \A t \in Thread : t.alone = FALSE => [t EXCEPT !.alone = FALSE] = t
    BY DEF Thread
  <2>2. Idle \in Thread /\ Idle.alone = FALSE
    BY IdleThread DEF Idle
  <2> HIDE DEF Idle
  <2> QED BY <2>1, <2>2
<1>3. \A q \in Runs : /\ ~[run[q] EXCEPT !.alone = FALSE].alone
                     /\ [run[q] EXCEPT !.alone = FALSE].pc = run[q].pc
                     /\ [run[q] EXCEPT !.alone = FALSE].stage = run[q].stage
                     /\ [run[q] EXCEPT !.alone = FALSE].advance = run[q].advance
  BY DEF ThreadsOK, Thread
<1> QED BY <1>1, <1>2, <1>3 DEF OthersStay

LEMMA RecordStays ==
    ASSUME IInv, Known, Turns, Record, session' = session, lapses' = {} => lapses = {},
           key' # 0 => session # 0
    PROVE  Known' /\ HistoryStays
PROOF
<1>1. /\ session \in Nat /\ \A k \in Stages : heldOn[k] \in Nat
  BY OnboardingAssumption DEF IInv, ClockOK, HistoryOK
<1>2. \A k \in Stages : /\ heldOn'[k] = heldOn[k] \/ (heldOn[k] = 0 /\ heldOn'[k] = session)
                        /\ Held(k)' => heldOn'[k] # 0 \/ session = 0
  BY DEF Record, Held
<1>3. \A k \in Stages : Held(k)' => session # 0
  BY DEF Held
<1> QED BY <1>1, <1>2, <1>3 DEF Known, HistoryStays

LEMMA KnownStays ==
    ASSUME Known, heldOn' = heldOn, session' = session, lapses' = {} => lapses = {},
           \A k \in Stages : Held(k)' => Held(k),
           (\A q \in Runs : ~At(q, "clear"))' => \A q \in Runs : ~At(q, "clear")
    PROVE  Known'
BY DEF Known

\* The thread r moves while nobody writes the state of the onboarding.
LEMMA BegunStays ==
    ASSUME Begun, NEW r \in Runs, OthersStay(r), UNCHANGED onboardingVars, lapses' = {} => lapses = {},
           lapses' = {} /\ run'[r].pc \in {"startInvalidate", "activate"} => status \in {"NOT_STARTED", "BYPASSED"},
           status \in {"NOT_STARTED", "BYPASSED"} =>
               /\ ~run'[r].advance
               /\ run'[r].pc \notin {"held", "date", "write", "complete", "ready", "advanceInvalidate",
                                    "stage", "emptyDate"}
    PROVE  Begun'
BY DEF Begun, OthersStay, onboardingVars

LEMMA DatesStay ==
    ASSUME IInv, Dates, HistoryStays, UNCHANGED onboardingVars,
           session' = session, lapses' = {} => lapses = {}, refreshed' => refreshed,
           (\A q \in Runs : ~At(q, "emptyDate"))' => \A q \in Runs : ~At(q, "emptyDate")
    PROVE  Dates'
PROOF
<1> SUFFICES ASSUME status = "ACTIVE", stage >= 1, filledOn # 0, lapses = {}, Dated \/ (filledOn = session /\ ~refreshed)
             PROVE  Dates'
  BY DEF Dates, onboardingVars
<1>1. stage \in Stages
  BY StagesExist DEF IInv, StagesOK, Stages
<1> QED BY <1>1 DEF Dates, Dated, HistoryStays, onboardingVars

LEMMA WaitedStays ==
    ASSUME IInv, Waited, HistoryStays, NEW r \in Runs, OthersStay(r),
           session' = session, lapses' = {} => lapses = {},
           run'[r].pc \in {"advanceInvalidate", "stage"} /\ run'[r].stage >= 1 =>
               run[r].pc \in {"advanceInvalidate", "stage"} /\ run[r].stage = run'[r].stage
    PROVE  Waited'
PROOF
<1> SUFFICES ASSUME NEW q \in Runs, run'[q].pc \in {"advanceInvalidate", "stage"}, run'[q].stage >= 1, lapses = {}
             PROVE  heldOn'[run'[q].stage] # 0 /\ session - heldOn'[run'[q].stage] >= MinSessions
  BY DEF Waited
<1>1. run[q].pc \in {"advanceInvalidate", "stage"} /\ run[q].stage = run'[q].stage
  BY DEF OthersStay
<1>2. run[q].stage \in Stages
  BY <1>1, StagesExist DEF IInv, ThreadsOK, Thread, Stages
<1> QED BY <1>1, <1>2 DEF Waited, HistoryStays

\* A thread that is on its way moves on, and nobody is alone but it.
LEMMA TurnsStay ==
    ASSUME IInv, Turns, NEW r \in Runs, run[r].pc # "idle", NEW record, Moves(r, record),
           session' = session, refreshed' = refreshed, lapses' = lapses, Lone(r)',
           r = Scheduler => /\ ~record.advance /\ record.pc \in RunPlaces \cup {"idle"}
                            /\ refreshed => /\ key' = generation' /\ ~Changed' /\ Reads(Scheduler)'
                                            /\ record.pc \in {"idle", "freeze"} \cup TradePlaces,
           generation' = 0 => key' = 0
    PROVE  Turns'
PROOF
<1>1. run'[r] = record /\ \A q \in Runs \ {r} : run'[q] = run[q]
  BY MoveStays DEF IInv
<1>2. run[r] # Idle /\ Scheduler \in Runs /\ Operators \subseteq Runs
  BY DEF Idle, Runs
<1>3. \A q \in Runs : Lone(q)'
  <2> SUFFICES ASSUME NEW q \in Runs, q # r PROVE ~run'[q].alone
    BY DEF Lone
  <2> QED BY <1>1, <1>2 DEF Turns, Lone
<1>4. Settled'
  <2> SUFFICES ASSUME refreshed PROVE Settled'
    BY DEF Settled
  <2>1. r = Scheduler
    BY <1>2 DEF Turns, Settled, Runs
  <2>2. Scheduler \notin Operators
    BY OnboardingAssumption
  <2> QED BY <1>1, <1>2, <2>1, <2>2 DEF Turns, Settled
<1>5. session # 0
  BY <1>2 DEF Turns
<1>6. ~run'[Scheduler].advance /\ run'[Scheduler].pc \in RunPlaces \cup {"idle"}
  BY <1>1, <1>2 DEF Turns
<1>7. Sole'
  BY <1>1, <1>2 DEF Turns, Sole
<1> QED BY <1>3, <1>4, <1>5, <1>6, <1>7 DEF Turns

-----------------------------------------------------------------------------
(* The steps of a run, and the wait *)

LEMMA BeginWaits ==
    ASSUME NEW r \in Runs, IInv, WInv, Begin(r)
    PROVE  WInv'
PROOF
<1> DEFINE record == [Idle EXCEPT !.pc = IF Changed THEN "supersede" ELSE "freeze",
                                  !.alone = \A q \in Runs \ {r} : run[q] = Idle]
<1>1. /\ Enter(r, record) /\ session > 0 /\ ~safe /\ Begins(r)
      /\ UNCHANGED <<clockVars, coreVars, keyVars, onboardingVars, historyVars>>
  BY DEF Begin
<1>2. /\ record.pc = (IF Changed THEN "supersede" ELSE "freeze") /\ ~record.advance /\ record.stage = 0
      /\ record.alone => \A q \in Runs \ {r} : run[q] = Idle
  BY DEF Idle
<1>3. /\ run'[r] = record /\ OthersStay(r)
      /\ \A q \in Runs \ {r} : ~run'[q].alone /\ (run[q] = Idle => run'[q] = Idle)
  <2> HIDE DEF record
  <2> QED BY <1>1, EnterStays DEF IInv
<1> HIDE DEF record
<1>4. session' = session /\ lapses' = lapses /\ refreshed' = refreshed /\ heldOn' = heldOn /\ HistoryStays
  BY <1>1 DEF clockVars, historyVars, HistoryStays
<1>5. Changed' = Changed /\ key' = key /\ generation' = generation /\ safe' = safe /\ UNCHANGED onboardingVars
  BY <1>1 DEF Changed, clockVars, keyVars, coreVars
<1>6. Turns'
  <2>1. \A q \in Runs : Lone(q)'
    <3>1. Lone(r)'
      BY <1>1, <1>2, <1>3, <1>5 DEF Lone, RunPlaces, TradePlaces, Reads
    <3> QED BY <1>3, <3>1 DEF Lone
  <2>2. Settled'
    <3> SUFFICES ASSUME refreshed PROVE Settled'
      BY <1>4 DEF Settled
    <3>1. r = Scheduler /\ Scheduler \notin Operators /\ ~Changed
      BY <1>1, OnboardingAssumption DEF WInv, Turns, Settled, Begins, At, Runs, Idle
    <3> QED BY <1>2, <1>3, <1>5, <3>1 DEF WInv, Turns, Settled, Reads, TradePlaces, Runs
  <2>3. ~run'[Scheduler].advance /\ run'[Scheduler].pc \in RunPlaces \cup {"idle"}
    <3>1. CASE r = Scheduler
      BY <1>2, <1>3, <3>1 DEF RunPlaces
    <3>2. CASE r # Scheduler
      BY <1>3, <3>2 DEF WInv, Turns, OthersStay, Runs
    <3> QED BY <3>1, <3>2
  <2>4. Sole'
    BY <1>1, <1>3, <1>4, OnboardingAssumption DEF WInv, Turns, Sole, OthersStay, Begins, At, Runs
  <2> QED BY <1>1, <1>4, <1>5, <2>1, <2>2, <2>3, <2>4 DEF WInv, Turns
<1>7. Begun'
  BY <1>2, <1>3, <1>4, <1>5, BegunStays DEF WInv
<1>8. Known'
  <2>1. \A k \in Stages : Held(k)' => Held(k)
    BY <1>1 DEF Held, Scaled, coreVars, keyVars, onboardingVars
  <2>2. ~At(r, "clear")
    BY <1>1 DEF Begins, At
  <2> QED BY <1>3, <1>4, <2>1, <2>2, KnownStays DEF WInv, OthersStay, At
<1>9. Dates'
  <2>1. ~At(r, "emptyDate")
    BY <1>1 DEF Begins, At
  <2> QED BY <1>3, <1>4, <1>5, <2>1, DatesStay DEF WInv, OthersStay, At
<1>10. Waited'
  BY <1>2, <1>3, <1>4, WaitedStays DEF WInv
<1> QED BY <1>6, <1>7, <1>8, <1>9, <1>10 DEF WInv

\* A run goes on to another place, and leaves the state of the onboarding alone.
LEMMA RunMove ==
    ASSUME NEW r \in Runs, IInv, WInv, NEW record \in Thread, Moves(r, record),
           run[r].pc # "idle", run[r].pc # "emptyDate",
           session' = session, lapses' = lapses, refreshed' = refreshed, UNCHANGED onboardingVars,
           Known', HistoryStays, Lone(r)',
           generation' = 0 => key' = 0,
           refreshed /\ r = Scheduler =>
               /\ record.pc \in {"idle", "freeze"} \cup TradePlaces
               /\ key' = generation' /\ ~Changed' /\ Reads(r)',
           record.advance => run[r].advance,
           record.pc \in RunPlaces \cup {"idle"},
           record.pc \in {"held", "date", "write", "complete"} =>
               run[r].pc \in {"held", "date", "write", "complete"} \/ status \notin {"NOT_STARTED", "BYPASSED"}
    PROVE  WInv'
PROOF
<1>1. run'[r] = record /\ OthersStay(r)
  BY MoveStays DEF IInv
<1>2. Turns'
  <2>1. r = Scheduler => ~record.advance
    BY DEF WInv, Turns, Thread
  <2> QED BY <2>1, TurnsStay DEF WInv
<1>3. Begun'
  <2>1. /\ record.pc \notin {"startInvalidate", "activate", "ready", "advanceInvalidate", "stage", "emptyDate"}
        /\ status \in {"NOT_STARTED", "BYPASSED"} => ~run[r].advance /\ run[r].pc \notin {"held", "date", "write", "complete"}
    BY DEF RunPlaces, WInv, Begun
  <2> QED BY <1>1, <2>1, BegunStays DEF WInv
<1>4. Dates'
  BY <1>1, DatesStay DEF WInv, OthersStay, At
<1>5. Waited'
  <2>1. record.pc \notin {"advanceInvalidate", "stage"}
    BY DEF RunPlaces
  <2> QED BY <1>1, <2>1, WaitedStays DEF WInv
<1> QED BY <1>2, <1>3, <1>4, <1>5 DEF WInv

\* The same, of a step that writes nothing the wait depends on.
LEMMA QuietMove ==
    ASSUME NEW r \in Runs, IInv, WInv, NEW record \in Thread, Moves(r, record),
           run[r].pc # "idle", run[r].pc \notin {"clear", "emptyDate"},
           UNCHANGED <<clockVars, generation, key, onboardingVars, historyVars>>,
           \A k \in Stages : Held(k)' => Held(k),
           Lone(r)',
           refreshed /\ r = Scheduler => record.pc \in {"idle", "freeze"} \cup TradePlaces /\ Reads(r)',
           record.advance => run[r].advance,
           record.pc \in RunPlaces \cup {"idle"},
           record.pc \in {"held", "date", "write", "complete"} =>
               run[r].pc \in {"held", "date", "write", "complete"} \/ status \notin {"NOT_STARTED", "BYPASSED"}
    PROVE  WInv'
PROOF
<1>1. run'[r] = record /\ OthersStay(r)
  BY MoveStays DEF IInv
<1>2. session' = session /\ lapses' = lapses /\ refreshed' = refreshed /\ heldOn' = heldOn /\ HistoryStays
  BY DEF clockVars, historyVars, HistoryStays
<1>3. Changed' = Changed
  BY DEF Changed, clockVars
<1>4. generation' = 0 => key' = 0
  BY DEF WInv, Turns
<1>5. refreshed => key' = generation' /\ ~Changed'
  BY <1>3 DEF WInv, Turns, Settled
<1>6. Known'
  BY <1>1, <1>2, KnownStays DEF WInv, OthersStay, At
<1> QED BY <1>2, <1>4, <1>5, <1>6, RunMove

LEMMA BeginSafeWaits ==
    ASSUME NEW r \in Runs, IInv, WInv, BeginSafe(r)
    PROVE  WInv'
PROOF
<1>1. /\ Moves(r, Idle) /\ r \in Operators /\ run[r].pc = "run"
      /\ UNCHANGED <<clockVars, coreVars, keyVars, onboardingVars, historyVars>>
  BY OnboardingAssumption DEF BeginSafe, Begins, At, Return, Moves
<1>2. run'[r] = Idle /\ Idle.pc = "idle" /\ ~Idle.alone /\ ~Idle.advance
  BY <1>1, MoveStays DEF IInv, Idle
<1> HIDE DEF Idle
<1>3. \A k \in Stages : Held(k)' => Held(k)
  BY <1>1 DEF Held, Scaled, coreVars, keyVars, onboardingVars
<1>4. r # Scheduler
  BY <1>1, OnboardingAssumption
<1>5. Lone(r)'
  BY <1>2 DEF Lone
<1> QED BY <1>1, <1>2, <1>3, <1>4, <1>5, IdleThread, QuietMove DEF coreVars, keyVars

LEMMA RunFailsWaits ==
    ASSUME NEW r \in Runs, IInv, WInv, RunFails(r)
    PROVE  WInv'
PROOF
<1>1. /\ Moves(r, Idle) /\ run[r].pc \in {"supersede", "freeze", "sell", "offer"}
      /\ UNCHANGED <<clockVars, coreVars, keyVars, onboardingVars, historyVars>>
  BY DEF RunFails, Return, Moves
<1>2. run'[r] = Idle /\ Idle.pc = "idle" /\ ~Idle.alone /\ ~Idle.advance
  BY <1>1, MoveStays DEF IInv, Idle
<1> HIDE DEF Idle
<1>3. \A k \in Stages : Held(k)' => Held(k)
  BY <1>1 DEF Held, Scaled, coreVars, keyVars, onboardingVars
<1>4. Lone(r)' /\ Reads(r)'
  BY <1>2 DEF Lone, Reads
<1> QED BY <1>1, <1>2, <1>3, <1>4, IdleThread, QuietMove DEF coreVars, keyVars

LEMMA NotTradableWaits ==
    ASSUME NEW r \in Runs, IInv, WInv, NotTradable(r)
    PROVE  WInv'
PROOF
<1> DEFINE record == [run[r] EXCEPT !.pc = "refresh", !.alone = @ /\ generation = 0]
<1>1. /\ Moves(r, record) /\ run[r].pc = "freeze"
      /\ UNCHANGED <<clockVars, coreVars, keyVars, onboardingVars, historyVars>>
  BY DEF NotTradable, At, Moves
<1>2. /\ record \in Thread /\ record.pc = "refresh" /\ record.advance = run[r].advance
      /\ record.alone <=> run[r].alone /\ generation = 0
  BY DEF IInv, ThreadsOK, Thread, Places
<1>3. run'[r] = record /\ \A q \in Runs \ {r} : run'[q] = run[q]
  BY <1>1, MoveStays DEF IInv
<1> HIDE DEF record
<1>4. \A k \in Stages : Held(k)' => Held(k)
  BY <1>1 DEF Held, Scaled, coreVars, keyVars, onboardingVars
<1>5. Reads(r)'
  BY <1>2, <1>3 DEF Reads
<1>6. Lone(r)'
  <2>1. Changed' = Changed /\ key' = key /\ generation' = generation /\ safe' = safe
    BY <1>1 DEF Changed, clockVars, coreVars, keyVars
  <2> QED BY <1>1, <1>2, <1>3, <1>5, <2>1 DEF Lone, WInv, Turns, RunPlaces
<1> QED BY <1>1, <1>2, <1>4, <1>5, <1>6, QuietMove DEF coreVars, keyVars, RunPlaces, TradePlaces

LEMMA FrozenWaits ==
    ASSUME NEW r \in Runs, IInv, WInv, Frozen(r)
    PROVE  WInv'
PROOF
<1> DEFINE record == [run[r] EXCEPT !.pc = "sell"]
<1>1. /\ Moves(r, record) /\ run[r].pc = "freeze" /\ key = generation
      /\ UNCHANGED <<clockVars, coreVars, keyVars, onboardingVars, historyVars>>
  BY DEF Frozen, Goto, At, Moves
<1>2. /\ record \in Thread /\ record.pc = "sell" /\ record.advance = run[r].advance
      /\ record.alone = run[r].alone
  BY DEF IInv, ThreadsOK, Thread, Places
<1>3. run'[r] = record /\ \A q \in Runs \ {r} : run'[q] = run[q]
  BY <1>1, MoveStays DEF IInv
<1> HIDE DEF record
<1>4. \A k \in Stages : Held(k)' => Held(k)
  BY <1>1 DEF Held, Scaled, coreVars, keyVars, onboardingVars
<1>5. Reads(r)'
  BY <1>2, <1>3 DEF Reads
<1>6. Lone(r)'
  <2>1. Changed' = Changed /\ key' = key /\ generation' = generation /\ safe' = safe
    BY <1>1 DEF Changed, clockVars, coreVars, keyVars
  <2> QED BY <1>1, <1>2, <1>3, <1>5, <2>1 DEF Lone, WInv, Turns, RunPlaces
<1> QED BY <1>1, <1>2, <1>4, <1>5, <1>6, QuietMove DEF coreVars, keyVars, RunPlaces, TradePlaces

LEMMA FreezeTargetsWaits ==
    ASSUME NEW r \in Runs, IInv, WInv, FreezeTargets(r)
    PROVE  WInv'
PROOF
<1> DEFINE record == [run[r] EXCEPT !.pc = "stamp"]
<1>1. /\ Moves(r, record) /\ run[r].pc = "freeze" /\ key # generation
      /\ UNCHANGED <<clockVars, generation, keyVars, onboardingVars, historyVars>>
  BY DEF FreezeTargets, Goto, At, Moves
<1>2. /\ record \in Thread /\ record.pc = "stamp" /\ record.advance = run[r].advance
      /\ record.alone = run[r].alone
  BY DEF IInv, ThreadsOK, Thread, Places
<1>3. run'[r] = record /\ \A q \in Runs \ {r} : run'[q] = run[q]
  BY <1>1, MoveStays DEF IInv
<1> HIDE DEF record
<1>4. \A k \in Stages : Held(k)' => Held(k)
  BY <1>1 DEF Held, keyVars
<1>5. ~refreshed
  BY <1>1 DEF WInv, Turns, Settled
<1>6. Lone(r)'
  <2>1. Changed' = Changed /\ key' = key /\ generation' = generation /\ safe' = safe
    BY <1>1 DEF Changed, clockVars, keyVars
  <2> QED BY <1>1, <1>2, <1>3, <2>1 DEF Lone, Reads, WInv, Turns, RunPlaces, TradePlaces
<1> QED BY <1>1, <1>2, <1>4, <1>5, <1>6, QuietMove DEF keyVars, RunPlaces

LEMMA SellExcessWaits ==
    ASSUME NEW r \in Runs, IInv, WInv, SellExcess(r)
    PROVE  WInv'
PROOF
<1>1. run[r].pc = "sell" /\ UNCHANGED <<clockVars, generation, target, key, onboardingVars, historyVars>>
  BY DEF SellExcess, At
<1>2. CASE qty' = [s \in Symbols |-> Least(qty[s], Effective(s))] /\ Goto(r, "offer") /\ UNCHANGED safe
  <2> DEFINE record == [run[r] EXCEPT !.pc = "offer"]
  <2>1. Moves(r, record)
    BY <1>2 DEF Goto, Moves
  <2>2. /\ record \in Thread /\ record.pc = "offer" /\ record.advance = run[r].advance
        /\ record.alone = run[r].alone
    BY DEF IInv, ThreadsOK, Thread, Places
  <2>3. run'[r] = record /\ \A q \in Runs \ {r} : run'[q] = run[q]
    BY <2>1, MoveStays DEF IInv
  <2> HIDE DEF record
  <2>4. \A k \in Stages : Held(k)' => Held(k)
    <3>1. \A s \in Symbols : qty[s] \in Nat /\ Effective(s) \in Nat
      BY EffectiveBound, OnboardingAssumption DEF IInv, TargetsOK
    <3>2. \A s \in Symbols : qty'[s] <= qty[s]
      BY <1>2, <3>1 DEF Least
    <3>3. \A s \in Symbols : qty'[s] \in Nat
      BY <1>2, <3>1 DEF Least
    <3> SUFFICES ASSUME NEW k \in Stages, Held(k)' PROVE Held(k)
      OBVIOUS
    <3>4. \A s \in Symbols : Scaled(target[s], k) \in Nat
      BY ScaledBound, OnboardingAssumption DEF IInv, TargetsOK
    <3>5. \A s \in Symbols : qty'[s] >= Scaled(target[s], k)
      BY <1>1 DEF Held, Scaled
    <3>6. \A s \in Symbols : qty[s] >= Scaled(target[s], k)
      BY <3>1, <3>2, <3>3, <3>4, <3>5
    <3> QED BY <1>1, <3>6 DEF Held, onboardingVars
  <2>5. Reads(r)'
    BY <2>2, <2>3 DEF Reads
  <2>6. Lone(r)'
    <3>1. Changed' = Changed /\ key' = key /\ generation' = generation /\ safe' = safe
      BY <1>1, <1>2 DEF Changed, clockVars
    <3> QED BY <1>1, <2>2, <2>3, <2>5, <3>1 DEF Lone, WInv, Turns, RunPlaces, TradePlaces
  <2> QED BY <1>1, <2>1, <2>2, <2>4, <2>5, <2>6, QuietMove DEF RunPlaces, TradePlaces
<1>3. CASE Return(r) /\ UNCHANGED qty
  <2>1. Moves(r, Idle)
    BY <1>3 DEF Return, Moves
  <2>2. run'[r] = Idle /\ Idle.pc = "idle" /\ ~Idle.alone /\ ~Idle.advance
    BY <2>1, MoveStays DEF IInv, Idle
  <2> HIDE DEF Idle
  <2>3. \A k \in Stages : Held(k)' => Held(k)
    BY <1>1, <1>3 DEF Held, Scaled, onboardingVars
  <2>4. Lone(r)' /\ Reads(r)'
    BY <2>2 DEF Lone, Reads
  <2> QED BY <1>1, <2>1, <2>2, <2>3, <2>4, IdleThread, QuietMove
<1> QED BY <1>2, <1>3 DEF SellExcess

LEMMA OfferGapsWaits ==
    ASSUME NEW r \in Runs, IInv, WInv, OfferGaps(r)
    PROVE  WInv'
PROOF
<1> DEFINE record == [run[r] EXCEPT !.pc = "refresh"]
<1>1. /\ Moves(r, record) /\ run[r].pc = "offer"
      /\ UNCHANGED <<clockVars, coreVars, keyVars, onboardingVars, historyVars>>
  BY DEF OfferGaps, Goto, At, Moves
<1>2. /\ record \in Thread /\ record.pc = "refresh" /\ record.advance = run[r].advance
      /\ record.alone = run[r].alone
  BY DEF IInv, ThreadsOK, Thread, Places
<1>3. run'[r] = record /\ \A q \in Runs \ {r} : run'[q] = run[q]
  BY <1>1, MoveStays DEF IInv
<1> HIDE DEF record
<1>4. \A k \in Stages : Held(k)' => Held(k)
  BY <1>1 DEF Held, Scaled, coreVars, keyVars, onboardingVars
<1>5. Reads(r)'
  BY <1>2, <1>3 DEF Reads
<1>6. Lone(r)'
  <2>1. Changed' = Changed /\ key' = key /\ generation' = generation /\ safe' = safe
    BY <1>1 DEF Changed, clockVars, coreVars, keyVars
  <2> QED BY <1>1, <1>2, <1>3, <1>5, <2>1 DEF Lone, WInv, Turns, RunPlaces, TradePlaces
<1> QED BY <1>1, <1>2, <1>4, <1>5, <1>6, QuietMove DEF coreVars, keyVars, RunPlaces, TradePlaces

LEMMA SupersedeWaits ==
    ASSUME NEW r \in Runs, IInv, WInv, Supersede(r)
    PROVE  WInv'
PROOF
<1> DEFINE record == [run[r] EXCEPT !.pc = "zero"]
<1>1. /\ Moves(r, record) /\ run[r].pc = "supersede" /\ Record
      /\ UNCHANGED <<clockVars, generation, keyVars, onboardingVars, refreshed, lapses>>
  BY DEF Supersede, Goto, At, Moves
<1>2. /\ record \in Thread /\ record.pc = "zero" /\ record.advance = run[r].advance
      /\ record.alone = run[r].alone
  BY DEF IInv, ThreadsOK, Thread, Places
<1>3. run'[r] = record /\ \A q \in Runs \ {r} : run'[q] = run[q]
  BY <1>1, MoveStays DEF IInv
<1> HIDE DEF record
<1>4. session' = session /\ key' = key /\ generation' = generation /\ safe' = safe
  BY <1>1 DEF clockVars, keyVars
<1>5. Known' /\ HistoryStays
  BY <1>1, <1>4, RecordStays DEF WInv, Turns
<1>6. ~refreshed \/ r # Scheduler
  BY <1>1 DEF WInv, Turns, Settled, TradePlaces
<1>7. Lone(r)'
  BY <1>1, <1>2, <1>3, <1>4 DEF Lone, Reads, WInv, Turns, RunPlaces, TradePlaces
<1>8. generation' = 0 => key' = 0
  BY <1>4 DEF WInv, Turns
<1> QED BY <1>1, <1>2, <1>4, <1>5, <1>6, <1>7, <1>8, RunMove DEF RunPlaces

LEMMA ZeroTargetsWaits ==
    ASSUME NEW r \in Runs, IInv, WInv, ZeroTargets(r)
    PROVE  WInv'
PROOF
<1> DEFINE record == [run[r] EXCEPT !.pc = "clear"]
<1>1. /\ Moves(r, record) /\ run[r].pc = "zero" /\ generation' = session
      /\ UNCHANGED <<clockVars, keyVars, onboardingVars, historyVars>>
  BY DEF ZeroTargets, Goto, At, Moves
<1>2. /\ record \in Thread /\ record.pc = "clear" /\ record.advance = run[r].advance
      /\ record.alone = run[r].alone
  BY DEF IInv, ThreadsOK, Thread, Places
<1>3. run'[r] = record /\ \A q \in Runs \ {r} : run'[q] = run[q]
  BY <1>1, MoveStays DEF IInv
<1> HIDE DEF record
<1>4. /\ session' = session /\ session \in Nat /\ safe' = safe
      /\ lapses' = lapses /\ refreshed' = refreshed /\ heldOn' = heldOn /\ HistoryStays
  BY <1>1 DEF clockVars, keyVars, historyVars, HistoryStays, IInv, ClockOK
<1>5. Known'
  BY <1>2, <1>3, <1>4 DEF Known, WInv, At
<1>6. ~refreshed \/ r # Scheduler
  BY <1>1 DEF WInv, Turns, Settled, TradePlaces
<1>7. ~Changed'
  BY <1>1, <1>4 DEF Changed
<1>8. Lone(r)'
  BY <1>1, <1>2, <1>3, <1>4, <1>7 DEF Lone, Reads, WInv, Turns, RunPlaces, TradePlaces
<1>9. generation' # 0
  BY <1>1 DEF WInv, Turns, Idle
<1> QED BY <1>1, <1>2, <1>4, <1>5, <1>6, <1>8, <1>9, RunMove DEF RunPlaces

LEMMA ClearKeyWaits ==
    ASSUME NEW r \in Runs, IInv, WInv, ClearKey(r)
    PROVE  WInv'
PROOF
<1> DEFINE record == [run[r] EXCEPT !.pc = "freeze"]
<1>1. /\ Moves(r, record) /\ run[r].pc = "clear" /\ key' = 0
      /\ UNCHANGED <<clockVars, coreVars, safe, onboardingVars, historyVars>>
  BY DEF ClearKey, Goto, At, Moves
<1>2. /\ record \in Thread /\ record.pc = "freeze" /\ record.advance = run[r].advance
      /\ record.alone = run[r].alone
  BY DEF IInv, ThreadsOK, Thread, Places
<1>3. run'[r] = record /\ \A q \in Runs \ {r} : run'[q] = run[q]
  BY <1>1, MoveStays DEF IInv
<1> HIDE DEF record
<1>4. /\ session' = session /\ generation' = generation /\ Changed' = Changed
      /\ lapses' = lapses /\ refreshed' = refreshed /\ heldOn' = heldOn /\ HistoryStays
  BY <1>1 DEF Changed, clockVars, coreVars, historyVars, HistoryStays
<1>5. Known'
  BY <1>1, <1>4 DEF Known, Held, WInv
<1>6. ~refreshed \/ r # Scheduler
  BY <1>1 DEF WInv, Turns, Settled, TradePlaces
<1>7. Lone(r)'
  BY <1>1, <1>2, <1>3, <1>4 DEF Lone, Reads, WInv, Turns, RunPlaces, TradePlaces
<1> QED BY <1>1, <1>2, <1>4, <1>5, <1>6, <1>7, RunMove DEF RunPlaces

LEMMA StampKeyWaits ==
    ASSUME NEW r \in Runs, IInv, WInv, StampKey(r)
    PROVE  WInv'
PROOF
<1> DEFINE record == [run[r] EXCEPT !.pc = "sell"]
<1>1. /\ Moves(r, record) /\ run[r].pc = "stamp" /\ key' = generation /\ Record
      /\ UNCHANGED <<clockVars, coreVars, safe, onboardingVars, refreshed, lapses>>
  BY DEF StampKey, Goto, At, Moves
<1>2. /\ record \in Thread /\ record.pc = "sell" /\ record.advance = run[r].advance
      /\ record.alone = run[r].alone
  BY DEF IInv, ThreadsOK, Thread, Places
<1>3. run'[r] = record /\ \A q \in Runs \ {r} : run'[q] = run[q]
  BY <1>1, MoveStays DEF IInv
<1> HIDE DEF record
<1>4. session' = session /\ generation' = generation /\ Changed' = Changed
  BY <1>1 DEF Changed, clockVars, coreVars
<1>5. session # 0
  BY <1>1 DEF WInv, Turns, Idle
<1>6. Known' /\ HistoryStays
  BY <1>1, <1>4, <1>5, RecordStays DEF WInv
<1>7. ~refreshed \/ r # Scheduler
  BY <1>1 DEF WInv, Turns, Settled, TradePlaces
<1>8. Lone(r)'
  BY <1>1, <1>2, <1>3, <1>4 DEF Lone, Reads, WInv, Turns, RunPlaces, TradePlaces
<1> QED BY <1>1, <1>2, <1>4, <1>6, <1>7, <1>8, RunMove DEF RunPlaces

LEMMA RefreshHeldWaits ==
    ASSUME NEW r \in Runs, IInv, WInv, RefreshHeld(r)
    PROVE  WInv'
PROOF
<1> DEFINE record == [run[r] EXCEPT !.pc = "date", !.held = StageIsFilled]
<1>1. /\ Moves(r, record) /\ run[r].pc = "held"
      /\ UNCHANGED <<clockVars, coreVars, keyVars, onboardingVars, historyVars>>
  BY DEF RefreshHeld, At, Moves
<1>2. /\ record \in Thread /\ record.pc = "date" /\ record.advance = run[r].advance
      /\ record.alone = run[r].alone /\ record.held = StageIsFilled
  BY DEF IInv, ThreadsOK, Thread, Places, StageIsFilled
<1>3. run'[r] = record /\ \A q \in Runs \ {r} : run'[q] = run[q]
  BY <1>1, MoveStays DEF IInv
<1> HIDE DEF record
<1>4. \A k \in Stages : Held(k)' => Held(k)
  BY <1>1 DEF Held, Scaled, coreVars, keyVars, onboardingVars
<1>5. run[r].alone \/ (refreshed /\ r = Scheduler) => Reads(r)'
  <2> SUFFICES ASSUME run[r].alone \/ (refreshed /\ r = Scheduler) PROVE Reads(r)'
    OBVIOUS
  <2>1. status = "ACTIVE" /\ stage >= 1 /\ key = generation
    BY <1>1 DEF WInv, Turns, Lone, Settled, Reads, TradePlaces
  <2>2. \A q \in Runs : ~At(q, "clear")
    BY <1>1 DEF WInv, Turns, Lone, Settled, At, Idle, Runs
  <2>3. stage \in Stages
    BY <2>1, StagesExist DEF IInv, StagesOK, Stages
  <2>4. StageIsFilled /\ lapses = {} => heldOn[stage] # 0
    <3> SUFFICES ASSUME StageIsFilled, lapses = {} PROVE heldOn[stage] # 0
      OBVIOUS
    <3>1. Held(stage)
      BY <2>1, <2>3, StagesExist DEF StageIsFilled, Effective, Held, Stages
    <3> QED BY <2>2, <2>3, <3>1 DEF WInv, Known
  <2> QED BY <1>1, <1>2, <1>3, <2>1, <2>4 DEF Reads, onboardingVars, historyVars
<1>6. Lone(r)'
  <2>1. Changed' = Changed /\ key' = key /\ generation' = generation /\ safe' = safe
    BY <1>1 DEF Changed, clockVars, coreVars, keyVars
  <2> QED BY <1>1, <1>2, <1>3, <1>5, <2>1 DEF Lone, WInv, Turns, RunPlaces, TradePlaces
<1> QED BY <1>1, <1>2, <1>4, <1>5, <1>6, QuietMove DEF coreVars, keyVars, RunPlaces, TradePlaces

\* A refresh ends: a run that was alone has left everything as it should be.
LEMMA RefreshedTurns ==
    ASSUME NEW r \in Runs, IInv, WInv, Refreshed(r), run[r].pc \in {"refresh", "date", "write", "complete"},
           UNCHANGED <<clockVars, coreVars, keyVars, lapses>>
    PROVE  /\ Turns' /\ OthersStay(r) /\ run'[r].advance = run[r].advance
           /\ run'[r].pc = (IF run[r].advance THEN "ready" ELSE "idle")
           /\ refreshed' => refreshed \/ run[r].alone
PROOF
<1>1. /\ session' = session /\ Changed' = Changed /\ key' = key /\ generation' = generation /\ safe' = safe
      /\ lapses' = lapses
  BY DEF Changed, clockVars, coreVars, keyVars
<1>2. CASE run[r].advance
  <2> DEFINE record == [run[r] EXCEPT !.pc = "ready"]
  <2>1. Moves(r, record) /\ refreshed' = (refreshed \/ run[r].alone)
    BY <1>2 DEF Refreshed, Goto, Moves
  <2>2. record \in Thread /\ record.pc = "ready" /\ record.advance = run[r].advance /\ record.alone = run[r].alone
    BY DEF IInv, ThreadsOK, Thread, Places
  <2>3. run'[r] = record /\ OthersStay(r)
    BY <2>1, MoveStays DEF IInv
  <2> HIDE DEF record
  <2>4. ~run[r].alone /\ r # Scheduler
    BY <1>2 DEF WInv, Turns, Lone
  <2>5. Lone(r)' /\ refreshed' = refreshed
    <3>1. refreshed \in BOOLEAN
      BY DEF IInv, HistoryOK
    <3> QED BY <2>1, <2>2, <2>3, <2>4, <3>1 DEF Lone
  <2>6. generation' = 0 => key' = 0
    BY <1>1 DEF WInv, Turns
  <2>7. Turns'
    BY <1>1, <2>1, <2>2, <2>4, <2>5, <2>6, TurnsStay DEF WInv
  <2> QED BY <1>2, <2>2, <2>3, <2>5, <2>7
<1>3. CASE ~run[r].advance
  <2>1. Moves(r, Idle) /\ refreshed' = (refreshed \/ run[r].alone)
    BY <1>3 DEF Refreshed, Return, Moves
  <2>2. Idle \in Thread /\ Idle.pc = "idle" /\ ~Idle.advance /\ ~Idle.alone
    BY IdleThread DEF Idle
  <2>3. run'[r] = Idle /\ OthersStay(r) /\ \A q \in Runs \ {r} : run'[q] = run[q]
    BY <2>1, MoveStays DEF IInv
  <2>8. Idle.advance = run[r].advance
    BY <1>3 DEF Idle, IInv, ThreadsOK, Thread
  <2> HIDE DEF Idle
  <2>4. Lone(r)' /\ Reads(r)'
    BY <2>2, <2>3 DEF Lone, Reads
  <2>5. CASE refreshed' = refreshed
    <3>1. Turns'
      <4>1. generation' = 0 => key' = 0
        BY <1>1 DEF WInv, Turns
      <4>2. refreshed => key' = generation' /\ ~Changed'
        BY <1>1 DEF WInv, Turns, Settled
      <4> QED BY <1>1, <2>1, <2>2, <2>4, <2>5, <4>1, <4>2, TurnsStay DEF WInv
    <3> QED BY <1>3, <2>2, <2>3, <2>5, <2>8, <3>1
  <2>6. CASE run[r].alone
    <3>1. (\A q \in Runs : run'[q] = Idle) /\ key = generation /\ ~Changed
      BY <2>3, <2>6 DEF WInv, Turns, Lone, TradePlaces
    <3>2. \A q \in Runs : Lone(q)'
      BY <2>2, <3>1 DEF Lone
    <3>3. Settled'
      BY <1>1, <2>2, <3>1 DEF Settled, Reads, Runs
    <3>4. Turns'
      BY <1>1, <2>2, <3>1, <3>2, <3>3 DEF WInv, Turns, Sole, Runs
    <3> QED BY <1>3, <2>2, <2>3, <2>6, <2>8, <3>4
  <2>7. refreshed \in BOOLEAN /\ run[r].alone \in BOOLEAN
    BY DEF IInv, HistoryOK, ThreadsOK, Thread
  <2> QED BY <2>1, <2>5, <2>6, <2>7
<1> QED BY <1>2, <1>3

LEMMA RefreshStageWaits ==
    ASSUME NEW r \in Runs, IInv, WInv, RefreshStage(r)
    PROVE  WInv'
PROOF
<1>1. run[r].pc = "refresh" /\ UNCHANGED <<clockVars, coreVars, keyVars, onboardingVars, heldOn, lapses>>
  BY DEF RefreshStage, At
<1>2. /\ session' = session /\ Changed' = Changed /\ key' = key /\ generation' = generation /\ safe' = safe
      /\ lapses' = lapses /\ heldOn' = heldOn /\ HistoryStays
  BY <1>1 DEF Changed, clockVars, coreVars, keyVars, HistoryStays
<1>3. \A k \in Stages : Held(k)' => Held(k)
  BY <1>1 DEF Held, Scaled, coreVars, keyVars, onboardingVars
<1>4. CASE /\ status = "ACTIVE" /\ stage >= 1
           /\ run' = [run EXCEPT ![r].pc = "held", ![r].stage = stage] /\ UNCHANGED refreshed
  <2> DEFINE record == [run[r] EXCEPT !.pc = "held", !.stage = stage]
  <2>1. Moves(r, record)
    BY <1>4 DEF Moves
  <2>2. record \in Thread /\ record.pc = "held" /\ record.advance = run[r].advance /\ record.alone = run[r].alone
    BY DEF IInv, ThreadsOK, StagesOK, Thread, Places
  <2>3. run'[r] = record /\ \A q \in Runs \ {r} : run'[q] = run[q]
    BY <2>1, MoveStays DEF IInv
  <2> HIDE DEF record
  <2>4. Reads(r)'
    BY <1>1, <1>4, <2>2, <2>3 DEF Reads, onboardingVars
  <2>5. Lone(r)'
    BY <1>1, <1>2, <2>2, <2>3, <2>4 DEF Lone, WInv, Turns, RunPlaces, TradePlaces
  <2> QED BY <1>1, <1>2, <1>3, <1>4, <2>1, <2>2, <2>4, <2>5, QuietMove
             DEF RunPlaces, TradePlaces, coreVars, keyVars, historyVars
<1>5. CASE Refreshed(r)
  <2>1. /\ Turns' /\ OthersStay(r) /\ run'[r].advance = run[r].advance
        /\ run'[r].pc = (IF run[r].advance THEN "ready" ELSE "idle")
        /\ refreshed' => refreshed \/ run[r].alone
    BY <1>1, <1>5, RefreshedTurns
  <2>2. Begun'
    <3>1. status \in {"NOT_STARTED", "BYPASSED"} => ~run[r].advance
      BY DEF WInv, Begun
    <3> QED BY <1>1, <2>1, <3>1, BegunStays DEF WInv
  <2>3. Known'
    BY <1>1, <1>2, <1>3, <2>1, KnownStays DEF WInv, OthersStay, At
  <2>4. Dates'
    <3>1. CASE refreshed' => refreshed
      BY <1>1, <1>2, <2>1, <3>1, DatesStay DEF WInv, OthersStay, At
    <3>2. CASE run[r].alone
      <4>1. ~safe /\ ~run[r].advance
        BY <3>2 DEF WInv, Turns, Lone
      <4>2. CASE ~(status = "ACTIVE" /\ stage >= 1)
        BY <1>1, <4>2 DEF Dates, onboardingVars
      <4>3. CASE status = "ACTIVE" /\ stage >= 1
        <5>1. run' = [run EXCEPT ![r].pc = "held", ![r].stage = stage]
          BY <4>1, <4>3 DEF RefreshStage
        <5>2. run'[r].pc = "held"
          BY <5>1 DEF IInv, ThreadsOK, Thread
        <5> QED BY <2>1, <4>1, <5>2
      <4> QED BY <4>2, <4>3
    <3> QED BY <2>1, <3>1, <3>2
  <2>5. Waited'
    BY <1>2, <2>1, WaitedStays DEF WInv
  <2> QED BY <2>1, <2>2, <2>3, <2>4, <2>5 DEF WInv
<1> QED BY <1>4, <1>5 DEF RefreshStage

\* The refresh is over, but for the last stage.
LEMMA AfterDateTurns ==
    ASSUME NEW r \in Runs, IInv, WInv, AfterDate(r), run[r].pc \in {"date", "write"},
           UNCHANGED <<clockVars, coreVars, keyVars, lapses>>
    PROVE  /\ Turns' /\ OthersStay(r) /\ run'[r].advance = run[r].advance
           /\ run'[r].pc \in {"complete", "ready", "idle"}
           /\ refreshed' => refreshed \/ run[r].alone
PROOF
<1>1. /\ session' = session /\ Changed' = Changed /\ key' = key /\ generation' = generation /\ safe' = safe
  BY DEF Changed, clockVars, coreVars, keyVars
<1>2. CASE Refreshed(r)
  BY <1>2, RefreshedTurns
<1>3. CASE Goto(r, "complete") /\ UNCHANGED refreshed
  <2> DEFINE record == [run[r] EXCEPT !.pc = "complete"]
  <2>1. Moves(r, record)
    BY <1>3 DEF Goto, Moves
  <2>2. record \in Thread /\ record.pc = "complete" /\ record.advance = run[r].advance /\ record.alone = run[r].alone
    BY DEF IInv, ThreadsOK, Thread, Places
  <2>3. run'[r] = record /\ OthersStay(r) /\ \A q \in Runs \ {r} : run'[q] = run[q]
    BY <2>1, MoveStays DEF IInv
  <2> HIDE DEF record
  <2>4. Reads(r)'
    BY <2>2, <2>3 DEF Reads
  <2>5. Lone(r)'
    BY <1>1, <2>2, <2>3, <2>4 DEF Lone, WInv, Turns, RunPlaces, TradePlaces
  <2>6. generation' = 0 => key' = 0
    BY <1>1 DEF WInv, Turns
  <2>7. refreshed => key' = generation' /\ ~Changed'
    BY <1>1 DEF WInv, Turns, Settled
  <2>8. r = Scheduler => ~record.advance
    BY <2>2 DEF WInv, Turns
  <2>9. Turns'
    BY <1>1, <1>3, <2>1, <2>2, <2>4, <2>5, <2>6, <2>7, <2>8, TurnsStay DEF WInv, RunPlaces, TradePlaces
  <2> QED BY <1>3, <2>2, <2>3, <2>9
<1> QED BY <1>2, <1>3 DEF AfterDate

\* Once a run has been alone since the last button, what its refresh has read is so.
LEMMA ReadIsHeld ==
    ASSUME NEW r \in Runs, IInv, WInv, run[r].pc \in {"date", "write"}, run[r].held, lapses = {},
           refreshed \/ run[r].alone
    PROVE  heldOn[stage] # 0
PROOF
<1>1. run[r].alone \/ (refreshed /\ r = Scheduler)
  BY DEF WInv, Turns, Settled, Idle, Runs
<1>2. Reads(r)
  BY <1>1 DEF WInv, Turns, Lone, Settled
<1> QED BY <1>2 DEF Reads

LEMMA ReadDateWaits ==
    ASSUME NEW r \in Runs, IInv, WInv, ReadDate(r)
    PROVE  WInv'
PROOF
<1>1. run[r].pc = "date" /\ UNCHANGED <<clockVars, coreVars, keyVars, onboardingVars, heldOn, lapses>>
  BY DEF ReadDate, At
<1>2. /\ session' = session /\ Changed' = Changed /\ key' = key /\ generation' = generation /\ safe' = safe
      /\ lapses' = lapses /\ heldOn' = heldOn /\ HistoryStays
      /\ status' = status /\ stage' = stage /\ filledOn' = filledOn
  BY <1>1 DEF Changed, clockVars, coreVars, keyVars, onboardingVars, HistoryStays
<1>3. \A k \in Stages : Held(k)' => Held(k)
  BY <1>1 DEF Held, Scaled, coreVars, keyVars, onboardingVars
<1>4. status \notin {"NOT_STARTED", "BYPASSED"}
  BY <1>1 DEF WInv, Begun
<1>5. CASE Goto(r, "write") /\ UNCHANGED refreshed
  <2> DEFINE record == [run[r] EXCEPT !.pc = "write"]
  <2>1. Moves(r, record)
    BY <1>5 DEF Goto, Moves
  <2>2. /\ record \in Thread /\ record.pc = "write" /\ record.advance = run[r].advance
        /\ record.alone = run[r].alone /\ record.held = run[r].held
    BY DEF IInv, ThreadsOK, Thread, Places
  <2>3. run'[r] = record /\ \A q \in Runs \ {r} : run'[q] = run[q]
    BY <2>1, MoveStays DEF IInv
  <2> HIDE DEF record
  <2>4. Reads(r) => Reads(r)'
    BY <1>1, <1>2, <2>2, <2>3 DEF Reads
  <2>5. Lone(r)'
    BY <1>1, <1>2, <2>2, <2>3, <2>4 DEF Lone, WInv, Turns, RunPlaces, TradePlaces
  <2>6. refreshed /\ r = Scheduler => Reads(r)'
    BY <2>4 DEF WInv, Turns, Settled
  <2> QED BY <1>1, <1>2, <1>3, <1>4, <1>5, <2>1, <2>2, <2>5, <2>6, QuietMove
             DEF RunPlaces, TradePlaces, coreVars, keyVars, historyVars
<1>6. CASE ~(run[r].held <=> filledOn = 0) /\ AfterDate(r)
  <2>1. /\ Turns' /\ OthersStay(r) /\ run'[r].advance = run[r].advance
        /\ run'[r].pc \in {"complete", "ready", "idle"}
        /\ refreshed' => refreshed \/ run[r].alone
    BY <1>1, <1>6, AfterDateTurns
  <2>2. Begun'
    BY <1>2, <1>4, <2>1 DEF WInv, Begun, OthersStay
  <2>3. Known'
    BY <1>1, <1>2, <1>3, <2>1, KnownStays DEF WInv, OthersStay, At
  <2>4. Dates'
    <3> SUFFICES ASSUME status = "ACTIVE", stage >= 1, filledOn # 0, lapses = {},
                        \A q \in Runs : run'[q].pc # "emptyDate"
                 PROVE  (heldOn[stage] # 0 /\ heldOn[stage] <= filledOn) \/ (filledOn = session /\ ~refreshed')
      BY <1>2 DEF Dates, Dated, At
    <3>1. Dated \/ (filledOn = session /\ ~refreshed)
      BY <1>1, <2>1 DEF WInv, Dates, OthersStay, At
    <3>2. run[r].held
      BY <1>6
    <3>3. refreshed' => heldOn[stage] # 0
      BY <1>1, <2>1, <3>2, ReadIsHeld
    <3>4. stage \in Stages /\ heldOn[stage] <= session
      BY StagesExist DEF IInv, StagesOK, Stages, WInv, Known
    <3> QED BY <3>1, <3>3, <3>4 DEF Dated
  <2>5. Waited'
    BY <1>2, <2>1, WaitedStays DEF WInv
  <2> QED BY <2>1, <2>2, <2>3, <2>4, <2>5 DEF WInv
<1>7. run[r].held \in BOOLEAN
  BY DEF IInv, ThreadsOK, Thread
<1> QED BY <1>5, <1>6, <1>7 DEF ReadDate

LEMMA WriteDateWaits ==
    ASSUME NEW r \in Runs, IInv, WInv, WriteDate(r)
    PROVE  WInv'
PROOF
<1>1. /\ run[r].pc = "write" /\ filledOn' = FilledDate(run[r].held) /\ AfterDate(r)
      /\ UNCHANGED <<clockVars, coreVars, keyVars, status, stage, heldOn, lapses>>
  BY DEF WriteDate, At
<1>2. /\ session' = session /\ lapses' = lapses /\ heldOn' = heldOn /\ HistoryStays
      /\ status' = status /\ stage' = stage
  BY <1>1 DEF clockVars, HistoryStays
<1>3. \A k \in Stages : Held(k)' => Held(k)
  BY <1>1 DEF Held, Scaled, coreVars, keyVars
<1>4. /\ Turns' /\ OthersStay(r) /\ run'[r].advance = run[r].advance
      /\ run'[r].pc \in {"complete", "ready", "idle"}
      /\ refreshed' => refreshed \/ run[r].alone
  BY <1>1, AfterDateTurns
<1>5. status \notin {"NOT_STARTED", "BYPASSED"}
  BY <1>1 DEF WInv, Begun
<1>6. Begun'
  BY <1>2, <1>4, <1>5 DEF WInv, Begun, OthersStay
<1>7. Known'
  BY <1>1, <1>2, <1>3, <1>4, KnownStays DEF WInv, OthersStay, At
<1>8. Dates'
  <2> SUFFICES ASSUME status = "ACTIVE", stage >= 1, filledOn' # 0, lapses = {}
               PROVE  (heldOn[stage] # 0 /\ heldOn[stage] <= filledOn') \/ (filledOn' = session /\ ~refreshed')
    BY <1>2 DEF Dates, Dated
  <2>1. run[r].held /\ filledOn' = session
    BY <1>1 DEF FilledDate
  <2>2. refreshed' => heldOn[stage] # 0
    BY <1>1, <1>4, <2>1, ReadIsHeld
  <2>3. stage \in Stages /\ heldOn[stage] <= session
    BY StagesExist DEF IInv, StagesOK, Stages, WInv, Known
  <2> QED BY <2>1, <2>2, <2>3
<1>9. Waited'
  BY <1>2, <1>4, WaitedStays DEF WInv
<1> QED BY <1>4, <1>6, <1>7, <1>8, <1>9 DEF WInv

LEMMA CompleteWaits ==
    ASSUME NEW r \in Runs, IInv, WInv, Complete(r)
    PROVE  WInv'
PROOF
<1>1. /\ run[r].pc = "complete" /\ status' = "COMPLETED" /\ Refreshed(r)
      /\ UNCHANGED <<clockVars, coreVars, keyVars, stage, filledOn, heldOn, lapses>>
  BY DEF Complete, At
<1>2. session' = session /\ lapses' = lapses /\ heldOn' = heldOn /\ HistoryStays
  BY <1>1 DEF clockVars, HistoryStays
<1>3. /\ Turns' /\ OthersStay(r) /\ run'[r].advance = run[r].advance
      /\ run'[r].pc = (IF run[r].advance THEN "ready" ELSE "idle")
  BY <1>1, RefreshedTurns
<1>4. status \notin {"NOT_STARTED", "BYPASSED"}
  BY <1>1 DEF WInv, Begun
<1>5. Begun'
  BY <1>1, <1>3, <1>4 DEF WInv, Begun, OthersStay
<1>6. Known' /\ Dates'
  BY <1>1, <1>2 DEF Known, Held, Dates, WInv
<1>7. Waited'
  BY <1>2, <1>3, WaitedStays DEF WInv
<1> QED BY <1>3, <1>5, <1>6, <1>7 DEF WInv

-----------------------------------------------------------------------------
(* The steps of the handler, and the wait *)

\* Whatever the handler does with the buttons, nobody is alone, or has been since.
LEMMA HandlerTurns ==
    ASSUME NEW r \in Operators, IInv, WInv, run[r].pc # "idle", ~run[r].alone,
           NEW record \in Thread, Moves(r, record), ~record.alone,
           UNCHANGED <<clockVars, coreVars, keyVars, refreshed, lapses>>
    PROVE  Turns' /\ OthersStay(r) /\ run'[r] = record
PROOF
<1>1. r \in Runs /\ r # Scheduler
  BY OnboardingAssumption DEF Runs
<1>2. run'[r] = record /\ OthersStay(r)
  BY <1>1, MoveStays DEF IInv
<1>3. Lone(r)'
  BY <1>2 DEF Lone
<1>4. generation' = 0 => key' = 0
  BY DEF coreVars, keyVars, WInv, Turns
<1>5. session' = session
  BY DEF clockVars
<1> QED BY <1>1, <1>2, <1>3, <1>4, <1>5, TurnsStay DEF WInv

\* A handler at work is not alone, unless it is the run it has begun.
LEMMA HandlerIsNotAlone ==
    ASSUME NEW r \in Operators, WInv, run[r].pc \notin RunPlaces
    PROVE  ~run[r].alone
BY DEF WInv, Turns, Lone, Runs

LEMMA PressTurns ==
    ASSUME NEW r \in Operators, NEW pc, NEW advance, IInv, WInv, session # 0, run[r].pc = "idle", Press(r, pc, advance),
           UNCHANGED <<clockVars, coreVars, keyVars>>
    PROVE  /\ lapses' = {} => lapses = {} /\ \A q \in Operators \ {r} : run[q] = Idle
           /\ Turns' /\ OthersStay(r) /\ run'[r] = [Idle EXCEPT !.pc = pc, !.advance = advance]
PROOF
<1> DEFINE record == [Idle EXCEPT !.pc = pc, !.advance = advance]
<1>1. Enter(r, record) /\ refreshed' = FALSE
  BY DEF Press
<1>2. ~record.alone
  BY DEF Idle
<1>3. r \in Runs /\ r # Scheduler /\ Scheduler \in Runs
  BY OnboardingAssumption DEF Runs
<1>4. /\ run'[r] = record /\ OthersStay(r)
      /\ \A q \in Runs \ {r} : ~run'[q].alone
  <2> HIDE DEF record
  <2> QED BY <1>1, <1>3, EnterStays DEF IInv
<1> HIDE DEF record
<1>5. \A q \in Runs : Lone(q)'
  BY <1>2, <1>4 DEF Lone
<1>6. Settled'
  BY <1>1 DEF Settled
<1>7. ~run'[Scheduler].advance /\ run'[Scheduler].pc \in RunPlaces \cup {"idle"}
  BY <1>3, <1>4 DEF WInv, Turns, OthersStay
<1>8. session' = session /\ generation' = generation /\ key' = key
  BY DEF clockVars, coreVars, keyVars
<1>9. lapses' = {} => lapses = {} /\ \A q \in Operators \ {r} : run[q] = Idle
  BY DEF Press
<1>10. Sole'
  BY <1>3, <1>4, <1>9 DEF Sole, OthersStay, Idle, Runs
<1>11. Turns'
  BY <1>5, <1>6, <1>7, <1>8, <1>10 DEF WInv, Turns
<1> QED BY <1>4, <1>9, <1>11 DEF record

LEMMA PressStartWaits ==
    ASSUME NEW r \in Operators, IInv, WInv, PressStart(r)
    PROVE  WInv'
PROOF
<1>1. /\ run[r].pc = "idle" /\ session > 0 /\ status \in {"NOT_STARTED", "BYPASSED"}
      /\ Press(r, "startInvalidate", FALSE)
      /\ UNCHANGED <<clockVars, coreVars, keyVars, onboardingVars, heldOn>>
  BY DEF PressStart, At
<1>2. session' = session /\ heldOn' = heldOn /\ HistoryStays /\ r \in Runs /\ refreshed' = FALSE
  BY <1>1 DEF clockVars, HistoryStays, Runs, Press
<1>3. (lapses' = {} => lapses = {}) /\ Turns' /\ OthersStay(r) /\ run'[r] = [Idle EXCEPT !.pc = "startInvalidate", !.advance = FALSE]
  <2>1. session # 0
    BY <1>1 DEF IInv, ClockOK
  <2>2. run[r].pc = "idle" /\ Press(r, "startInvalidate", FALSE) /\ UNCHANGED <<clockVars, coreVars, keyVars>>
    BY <1>1
  <2> QED BY <2>1, <2>2, PressTurns
<1>4. run'[r].pc = "startInvalidate" /\ ~run'[r].advance
  BY <1>3 DEF Idle
<1>5. Begun'
  BY <1>1, <1>2, <1>3, <1>4, BegunStays DEF WInv
<1>6. Known'
  <2>1. \A k \in Stages : Held(k)' => Held(k)
    BY <1>1 DEF Held, Scaled, coreVars, keyVars, onboardingVars
  <2> QED BY <1>1, <1>2, <1>3, <2>1, KnownStays DEF WInv, OthersStay, At
<1>7. Dates'
  BY <1>1, <1>2, <1>3, DatesStay DEF WInv, OthersStay, At
<1>8. Waited'
  BY <1>2, <1>3, <1>4, WaitedStays DEF WInv
<1> QED BY <1>3, <1>5, <1>6, <1>7, <1>8 DEF WInv

LEMMA PressAdvanceWaits ==
    ASSUME NEW r \in Operators, IInv, WInv, PressAdvance(r)
    PROVE  WInv'
PROOF
<1>1. /\ run[r].pc = "idle" /\ status = "ACTIVE" /\ key # 0
      /\ Press(r, "refresh", TRUE)
      /\ UNCHANGED <<clockVars, coreVars, keyVars, onboardingVars, heldOn>>
  BY DEF PressAdvance, At, NextStageReady, StageIsFilled
<1>2. session' = session /\ heldOn' = heldOn /\ HistoryStays /\ r \in Runs /\ refreshed' = FALSE
  BY <1>1 DEF clockVars, HistoryStays, Runs, Press
<1>3. (lapses' = {} => lapses = {}) /\ Turns' /\ OthersStay(r) /\ run'[r] = [Idle EXCEPT !.pc = "refresh", !.advance = TRUE]
  <2>1. session # 0
    BY <1>1 DEF WInv, Turns
  <2> QED BY <1>1, <2>1, PressTurns
<1>4. run'[r].pc = "refresh"
  BY <1>3 DEF Idle
<1>5. Begun'
  BY <1>1, <1>2, <1>3, <1>4, BegunStays DEF WInv
<1>6. Known'
  <2>1. \A k \in Stages : Held(k)' => Held(k)
    BY <1>1 DEF Held, Scaled, coreVars, keyVars, onboardingVars
  <2> QED BY <1>1, <1>2, <1>3, <2>1, KnownStays DEF WInv, OthersStay, At
<1>7. Dates'
  BY <1>1, <1>2, <1>3, DatesStay DEF WInv, OthersStay, At
<1>8. Waited'
  BY <1>2, <1>3, <1>4, WaitedStays DEF WInv
<1> QED BY <1>3, <1>5, <1>6, <1>7, <1>8 DEF WInv

LEMMA ReadyWaits ==
    ASSUME NEW r \in Operators, IInv, WInv, MinSessions > 0, Ready(r)
    PROVE  WInv'
PROOF
<1>1. /\ run[r].pc = "ready"
      /\ UNCHANGED <<clockVars, coreVars, keyVars, onboardingVars, historyVars>>
  BY DEF Ready, At
<1>2. /\ session' = session /\ lapses' = lapses /\ refreshed' = refreshed /\ heldOn' = heldOn /\ HistoryStays
      /\ r \in Runs /\ UNCHANGED refreshed
  BY <1>1 DEF clockVars, historyVars, HistoryStays, Runs
<1>3. ~run[r].alone
  BY <1>1, HandlerIsNotAlone DEF RunPlaces
<1>4. PICK record \in Thread :
          /\ Moves(r, record) /\ ~record.alone
          /\ record.advance => run[r].advance
          /\ record.pc \in {"run", "idle", "advanceInvalidate"}
          /\ record.pc = "advanceInvalidate" => NextStageReady /\ record.stage = stage
  <2>1. CASE Goto(r, "run")
    <3> DEFINE x == [run[r] EXCEPT !.pc = "run"]
    <3>1. x \in Thread /\ x.pc = "run" /\ x.advance = run[r].advance /\ x.alone = run[r].alone
      BY <1>2 DEF IInv, ThreadsOK, Thread, Places
    <3>2. Moves(r, x)
      BY <2>1 DEF Goto, Moves
    <3> HIDE DEF x
    <3> QED BY <1>3, <3>1, <3>2
  <2>2. CASE NextStageReady /\ run' = [run EXCEPT ![r].pc = "advanceInvalidate", ![r].stage = stage]
    <3> DEFINE x == [run[r] EXCEPT !.pc = "advanceInvalidate", !.stage = stage]
    <3>1. x \in Thread /\ x.pc = "advanceInvalidate" /\ x.advance = run[r].advance /\ x.alone = run[r].alone /\ x.stage = stage
      BY <1>2 DEF IInv, ThreadsOK, StagesOK, Thread, Places
    <3>2. Moves(r, x)
      BY <2>2 DEF Moves
    <3> HIDE DEF x
    <3> QED BY <1>3, <2>2, <3>1, <3>2
  <2>3. CASE Return(r)
    <3>1. Moves(r, Idle)
      BY <2>3 DEF Return, Moves
    <3>2. Idle \in Thread /\ Idle.pc = "idle" /\ ~Idle.alone /\ ~Idle.advance
      BY IdleThread DEF Idle
    <3> HIDE DEF Idle
    <3> QED BY <3>1, <3>2
  <2> QED BY <2>1, <2>2, <2>3 DEF Ready
<1>5. Turns' /\ OthersStay(r) /\ run'[r] = record
  <2>1. run[r].pc # "idle" /\ UNCHANGED <<clockVars, coreVars, keyVars, refreshed, lapses>>
    BY <1>1, <1>2
  <2>2. record \in Thread /\ Moves(r, record) /\ ~record.alone
    BY <1>4
  <2>3. IInv /\ WInv /\ r \in Operators
    OBVIOUS
  <2> QED BY <1>3, <2>1, <2>2, <2>3, HandlerTurns
<1>6. status \notin {"NOT_STARTED", "BYPASSED"}
  BY <1>1, <1>2 DEF WInv, Begun
<1>7. Begun'
  BY <1>1, <1>2, <1>4, <1>5, <1>6, BegunStays DEF WInv
<1>8. Known'
  <2>1. \A k \in Stages : Held(k)' => Held(k)
    BY <1>1 DEF Held, Scaled, coreVars, keyVars, onboardingVars
  <2> QED BY <1>1, <1>2, <1>5, <2>1, KnownStays DEF WInv, OthersStay, At
<1>9. Dates'
  BY <1>1, <1>2, <1>5, DatesStay DEF WInv, OthersStay, At
<1>10. Waited'
  <2>1. CASE record.pc # "advanceInvalidate"
    BY <1>2, <1>4, <1>5, <2>1, WaitedStays DEF WInv
  <2>2. CASE record.pc = "advanceInvalidate"
    <3>1. /\ status = "ACTIVE" /\ stage >= 1 /\ filledOn # 0 /\ session - filledOn >= MinSessions
      BY <1>4, <2>2 DEF NextStageReady
    <3>2. lapses = {} => \A q \in Runs : ~At(q, "emptyDate")
      BY <1>1 DEF WInv, Turns, Sole, RunPlaces, Runs, At
    <3>3. session \in Nat /\ filledOn \in Nat /\ MinSessions \in Nat /\ stage \in Stages
      BY <3>1, OnboardingAssumption, StagesExist DEF IInv, ClockOK, StagesOK, Stages
    <3>4. heldOn[stage] \in Nat
      BY <3>3, OnboardingAssumption DEF IInv, HistoryOK
    <3>5. lapses = {} => heldOn[stage] # 0 /\ session - heldOn[stage] >= MinSessions
      <4> SUFFICES ASSUME lapses = {} PROVE heldOn[stage] # 0 /\ session - heldOn[stage] >= MinSessions
        OBVIOUS
      <4>1. filledOn # session
        BY <3>1, <3>3
      <4>2. heldOn[stage] # 0 /\ heldOn[stage] <= filledOn
        BY <3>1, <3>2, <4>1 DEF WInv, Dates, Dated
      <4> QED BY <3>1, <3>3, <3>4, <4>2
    <3> SUFFICES ASSUME NEW q \in Runs, run'[q].pc \in {"advanceInvalidate", "stage"}, run'[q].stage >= 1, lapses = {}
                 PROVE  heldOn[run'[q].stage] # 0 /\ session - heldOn[run'[q].stage] >= MinSessions
      BY <1>2 DEF Waited
    <3>6. CASE q = r
      BY <1>4, <1>5, <2>2, <3>5, <3>6
    <3>7. CASE q # r
      BY <1>5, <3>7 DEF OthersStay, WInv, Waited
    <3> QED BY <3>6, <3>7
  <2> QED BY <2>1, <2>2
<1> QED BY <1>5, <1>7, <1>8, <1>9, <1>10 DEF WInv

LEMMA InvalidateSignalsWaits ==
    ASSUME NEW r \in Operators, IInv, WInv, InvalidateSignals(r)
    PROVE  WInv'
PROOF
<1> DEFINE record == [run[r] EXCEPT !.pc = IF run[r].pc = "startInvalidate" THEN "activate" ELSE "stage"]
<1>1. /\ run[r].pc \in {"startInvalidate", "advanceInvalidate"} /\ Moves(r, record)
      /\ UNCHANGED <<clockVars, coreVars, keyVars, onboardingVars, historyVars>>
  BY DEF InvalidateSignals, Goto, At, Moves
<1>2. /\ session' = session /\ lapses' = lapses /\ refreshed' = refreshed /\ heldOn' = heldOn /\ HistoryStays
      /\ r \in Runs
  BY <1>1 DEF clockVars, historyVars, HistoryStays, Runs
<1>3. /\ record \in Thread /\ record.advance = run[r].advance /\ record.alone = run[r].alone /\ record.stage = run[r].stage
      /\ record.pc = (IF run[r].pc = "startInvalidate" THEN "activate" ELSE "stage")
  BY <1>2 DEF IInv, ThreadsOK, Thread, Places
<1> HIDE DEF record
<1>4. ~run[r].alone
  BY <1>1, HandlerIsNotAlone DEF RunPlaces
<1>5. Turns' /\ OthersStay(r) /\ run'[r] = record
  <2>1. run[r].pc # "idle" /\ UNCHANGED <<clockVars, coreVars, keyVars, refreshed, lapses>>
    BY <1>1, <1>2
  <2> QED BY <1>1, <1>3, <1>4, <2>1, HandlerTurns
<1>6. Begun'
  <2>1. /\ lapses = {} /\ run[r].pc = "startInvalidate" => status \in {"NOT_STARTED", "BYPASSED"}
        /\ status \in {"NOT_STARTED", "BYPASSED"} => ~run[r].advance
    BY <1>2 DEF WInv, Begun
  <2>2. run[r].pc = "advanceInvalidate" => status \notin {"NOT_STARTED", "BYPASSED"}
    BY <1>2 DEF WInv, Begun
  <2> QED BY <1>1, <1>2, <1>3, <1>5, <2>1, <2>2, BegunStays DEF WInv
<1>7. Known'
  <2>1. \A k \in Stages : Held(k)' => Held(k)
    BY <1>1 DEF Held, Scaled, coreVars, keyVars, onboardingVars
  <2> QED BY <1>1, <1>2, <1>5, <2>1, KnownStays DEF WInv, OthersStay, At
<1>8. Dates'
  BY <1>1, <1>2, <1>5, DatesStay DEF WInv, OthersStay, At
<1>9. Waited'
  BY <1>1, <1>2, <1>3, <1>5, WaitedStays DEF WInv
<1> QED BY <1>5, <1>6, <1>7, <1>8, <1>9 DEF WInv

LEMMA ActivateWaits ==
    ASSUME NEW r \in Operators, IInv, WInv, Activate(r)
    PROVE  WInv'
PROOF
<1> DEFINE record == [run[r] EXCEPT !.pc = "stage", !.stage = 0]
<1>1. /\ run[r].pc = "activate" /\ status' = "ACTIVE" /\ Moves(r, record) /\ Record
      /\ UNCHANGED <<clockVars, coreVars, keyVars, stage, filledOn, refreshed, lapses>>
  BY DEF Activate, At, Moves
<1>2. session' = session /\ lapses' = lapses /\ refreshed' = refreshed /\ key' = key /\ r \in Runs
  BY <1>1 DEF clockVars, keyVars, Runs
<1>3. /\ record \in Thread /\ record.pc = "stage" /\ record.alone = run[r].alone /\ record.stage = 0
  <2>1. run[r] \in Thread /\ 0 \in 0..Total /\ "stage" \in Places
    BY <1>2, StagesExist DEF IInv, ThreadsOK, Places
  <2> HIDE DEF Places
  <2> QED BY <2>1 DEF Thread
<1> HIDE DEF record
<1>4. ~run[r].alone
  BY <1>1, HandlerIsNotAlone DEF RunPlaces
<1>5. Turns' /\ OthersStay(r) /\ run'[r] = record
  <2>1. run[r].pc # "idle" /\ UNCHANGED <<clockVars, coreVars, keyVars, refreshed, lapses>>
    BY <1>1, <1>2
  <2> QED BY <1>1, <1>3, <1>4, <2>1, HandlerTurns
<1>6. lapses = {} => stage = 0 /\ filledOn = 0
  BY <1>1, <1>2 DEF WInv, Begun
<1>7. Begun'
  <2> SUFFICES ASSUME NEW q \in Runs, q # r, lapses = {} PROVE run[q].pc \notin {"startInvalidate", "activate"}
    BY <1>1, <1>2, <1>3, <1>5 DEF Begun, OthersStay
  <2> QED BY <1>1 DEF WInv, Turns, Sole, RunPlaces, Runs
<1>8. Known' /\ HistoryStays
  BY <1>1, <1>2, RecordStays DEF WInv, Turns
<1>9. Dates'
  BY <1>1, <1>6 DEF Dates
<1>10. Waited'
  BY <1>2, <1>3, <1>5, <1>8, WaitedStays DEF WInv
<1> QED BY <1>5, <1>7, <1>8, <1>9, <1>10 DEF WInv

LEMMA OpenStageWaits ==
    ASSUME NEW r \in Operators, IInv, WInv, OpenStage(r)
    PROVE  WInv'
PROOF
<1> DEFINE record == [run[r] EXCEPT !.pc = "emptyDate"]
<1>1. /\ run[r].pc = "stage" /\ Moves(r, record) /\ Record
      /\ UNCHANGED <<clockVars, coreVars, keyVars, status, filledOn, refreshed, lapses>>
  BY DEF OpenStage, Goto, At, Moves
<1>2. session' = session /\ lapses' = lapses /\ refreshed' = refreshed /\ key' = key /\ r \in Runs
  BY <1>1 DEF clockVars, keyVars, Runs
<1>3. record \in Thread /\ record.pc = "emptyDate" /\ record.alone = run[r].alone
  BY <1>2 DEF IInv, ThreadsOK, Thread, Places
<1> HIDE DEF record
<1>4. ~run[r].alone
  BY <1>1, HandlerIsNotAlone DEF RunPlaces
<1>5. Turns' /\ OthersStay(r) /\ run'[r] = record
  <2>1. run[r].pc # "idle" /\ UNCHANGED <<clockVars, coreVars, keyVars, refreshed, lapses>>
    BY <1>1, <1>2
  <2> QED BY <1>1, <1>3, <1>4, <2>1, HandlerTurns
<1>6. Begun'
  BY <1>1, <1>2, <1>3, <1>5 DEF WInv, Begun, OthersStay
<1>7. Known' /\ HistoryStays
  BY <1>1, <1>2, RecordStays DEF WInv, Turns
<1>8. Dates'
  BY <1>2, <1>3, <1>5 DEF Dates, At
<1>9. Waited'
  BY <1>2, <1>3, <1>5, <1>7, WaitedStays DEF WInv
<1> QED BY <1>5, <1>6, <1>7, <1>8, <1>9 DEF WInv

LEMMA EmptyDateWaits ==
    ASSUME NEW r \in Operators, IInv, WInv, EmptyDate(r)
    PROVE  WInv'
PROOF
<1> DEFINE record == [run[r] EXCEPT !.pc = "run"]
<1>1. /\ run[r].pc = "emptyDate" /\ Moves(r, record) /\ filledOn' = 0
      /\ UNCHANGED <<clockVars, coreVars, keyVars, status, stage, historyVars>>
  BY DEF EmptyDate, Goto, At, Moves
<1>2. /\ session' = session /\ lapses' = lapses /\ refreshed' = refreshed /\ heldOn' = heldOn /\ HistoryStays
      /\ r \in Runs
  BY <1>1 DEF clockVars, historyVars, HistoryStays, Runs
<1>3. record \in Thread /\ record.pc = "run" /\ record.alone = run[r].alone
  BY <1>2 DEF IInv, ThreadsOK, Thread, Places
<1> HIDE DEF record
<1>4. ~run[r].alone
  BY <1>1, HandlerIsNotAlone DEF RunPlaces
<1>5. Turns' /\ OthersStay(r) /\ run'[r] = record
  <2>1. run[r].pc # "idle" /\ UNCHANGED <<clockVars, coreVars, keyVars, refreshed, lapses>>
    BY <1>1, <1>2
  <2> QED BY <1>1, <1>3, <1>4, <2>1, HandlerTurns
<1>6. Begun'
  BY <1>1, <1>2, <1>3, <1>5 DEF WInv, Begun, OthersStay
<1>7. Known'
  <2>1. \A k \in Stages : Held(k)' => Held(k)
    BY <1>1 DEF Held, Scaled, coreVars, keyVars
  <2> QED BY <1>1, <1>2, <1>5, <2>1, KnownStays DEF WInv, OthersStay, At
<1>8. Dates'
  BY <1>1 DEF Dates
<1>9. Waited'
  BY <1>2, <1>3, <1>5, WaitedStays DEF WInv
<1> QED BY <1>5, <1>6, <1>7, <1>8, <1>9 DEF WInv

-----------------------------------------------------------------------------
(* The other steps, and the wait *)

\* Orders and the clock move no thread.
LEMMA NobodyMoves ==
    ASSUME IInv, WInv, Known', HistoryStays,
           UNCHANGED <<session, changes, generation, key, safe, run, onboardingVars, refreshed, lapses>>
    PROVE  WInv'
PROOF
<1>1. Changed' = Changed
  BY DEF Changed
<1>2. \A r \in Runs : Reads(r) => Reads(r)'
  <2> SUFFICES ASSUME NEW r \in Runs, Reads(r) PROVE Reads(r)'
    OBVIOUS
  <2>1. stage \in 0..Total /\ Total \in Nat
    BY StagesExist DEF IInv, StagesOK
  <2> QED BY <2>1 DEF Reads, HistoryStays, Stages, onboardingVars
<1>3. Turns'
  BY <1>1, <1>2 DEF WInv, Turns, Lone, Settled, Sole, Runs
<1>4. Begun'
  BY DEF WInv, Begun, onboardingVars
<1>5. Dates'
  BY DatesStay DEF WInv, At
<1>6. Waited'
  <2> SUFFICES ASSUME NEW q \in Runs, run[q].pc \in {"advanceInvalidate", "stage"}, run[q].stage >= 1, lapses = {}
               PROVE  heldOn'[run[q].stage] # 0 /\ session - heldOn'[run[q].stage] >= MinSessions
    BY DEF Waited
  <2>1. run[q].stage \in Stages
    BY StagesExist DEF IInv, ThreadsOK, Thread, Stages
  <2> QED BY <2>1 DEF WInv, Waited, HistoryStays
<1> QED BY <1>3, <1>4, <1>5, <1>6 DEF WInv

LEMMA OrdersWait ==
    ASSUME NEW s \in Symbols, IInv, WInv, Reserve(s) \/ Fill(s) \/ EndEarly(s)
    PROVE  WInv'
PROOF
<1>1. CASE Fill(s)
  <2>1. Record /\ UNCHANGED <<clockVars, generation, target, keyVars, onboardingVars, run, refreshed, lapses>>
    BY <1>1 DEF Fill
  <2>2. UNCHANGED <<session, changes, generation, key, safe, run, onboardingVars, refreshed, lapses>>
    BY <2>1 DEF clockVars, keyVars
  <2>3. Known' /\ HistoryStays
    BY <2>1, <2>2, RecordStays DEF WInv, Turns
  <2> QED BY <2>2, <2>3, NobodyMoves
<1>2. CASE Reserve(s) \/ EndEarly(s)
  <2>1. UNCHANGED <<clockVars, coreVars, keyVars, onboardingVars, run, historyVars>>
    BY <1>2 DEF Reserve, EndEarly
  <2>2. UNCHANGED <<session, changes, generation, key, safe, run, onboardingVars, refreshed, lapses>> /\ heldOn' = heldOn
    BY <2>1 DEF clockVars, coreVars, keyVars, historyVars
  <2>3. \A k \in Stages : Held(k)' => Held(k)
    BY <2>1 DEF Held, Scaled, coreVars, keyVars, onboardingVars
  <2>4. Known' /\ HistoryStays
    BY <2>2, <2>3, KnownStays DEF WInv, HistoryStays, At
  <2> QED BY <2>2, <2>4, NobodyMoves
<1> QED BY <1>1, <1>2

LEMMA StillWaits ==
    ASSUME IInv, WInv, UNCHANGED <<session, changes, coreVars, keyVars, run, onboardingVars, historyVars>>
    PROVE  WInv'
PROOF
<1>1. UNCHANGED <<session, changes, generation, key, safe, run, onboardingVars, refreshed, lapses>> /\ heldOn' = heldOn
  BY DEF coreVars, keyVars, historyVars
<1>2. \A k \in Stages : Held(k)' => Held(k)
  BY DEF Held, Scaled, coreVars, keyVars, onboardingVars
<1>3. Known' /\ HistoryStays
  BY <1>1, <1>2, KnownStays DEF WInv, HistoryStays, At
<1> QED BY <1>1, <1>3, NobodyMoves

LEMMA SessionCompletesWaits ==
    ASSUME IInv, WInv, SessionCompletes
    PROVE  WInv'
PROOF
<1>1. /\ session' = session + 1 /\ refreshed' = FALSE
      /\ lapses' = lapses \cup {l \in {"interrupted"} : session > 0 /\ ~refreshed}
      /\ \A r \in Runs : run[r] = Idle
      /\ UNCHANGED <<coreVars, keyVars, onboardingVars, run, heldOn>>
  BY DEF SessionCompletes
<1>2. Idle.pc = "idle" /\ ~Idle.alone /\ ~Idle.advance
  BY DEF Idle
<1> HIDE DEF Idle
<1>3. session \in Nat /\ filledOn \in Nat /\ stage \in 0..Total /\ \A k \in Stages : heldOn[k] \in Nat
  BY OnboardingAssumption DEF IInv, ClockOK, StagesOK, HistoryOK
<1>4. Turns'
  <2>1. generation' = generation /\ key' = key /\ session' # 0
    BY <1>1, <1>3 DEF coreVars, keyVars
  <2> QED BY <1>1, <1>2, <2>1 DEF WInv, Turns, Lone, Settled, Sole, Runs
<1>5. Begun'
  BY <1>1 DEF WInv, Begun, onboardingVars
<1>6. Known'
  <2>1. \A k \in Stages : Held(k)' => Held(k)
    BY <1>1 DEF Held, Scaled, coreVars, keyVars, onboardingVars
  <2>2. \A k \in Stages : heldOn[k] <= session + 1
    BY <1>3 DEF WInv, Known
  <2>3. \A r \in Runs : ~At(r, "clear")
    BY <1>1, <1>2 DEF At
  <2> QED BY <1>1, <2>1, <2>2, <2>3 DEF WInv, Known
<1>7. Dates'
  <2> SUFFICES ASSUME status = "ACTIVE", stage >= 1, filledOn # 0, lapses = {}, session = 0 \/ refreshed
               PROVE  Dated
    <3>1. lapses' = {} => lapses = {} /\ (session = 0 \/ refreshed)
      <4>1. session > 0 \/ session = 0
        BY <1>3
      <4> QED BY <1>1, <4>1
    <3>2. stage' = stage /\ status' = status /\ filledOn' = filledOn /\ heldOn' = heldOn
      BY <1>1 DEF onboardingVars
    <3> QED BY <3>1, <3>2 DEF Dates, Dated
  <2>1. \A r \in Runs : ~At(r, "emptyDate")
    BY <1>1, <1>2 DEF At
  <2> QED BY <2>1 DEF WInv, Dates
<1>8. Waited'
  BY <1>1, <1>2 DEF Waited
<1> QED BY <1>4, <1>5, <1>6, <1>7, <1>8 DEF WInv

LEMMA CrashWaits ==
    ASSUME IInv, WInv, Crash
    PROVE  WInv'
PROOF
<1>1. /\ run' = [r \in Runs |-> Idle] /\ refreshed' = FALSE
      /\ lapses' = lapses \cup {l \in {"interrupted"} : \E r \in Runs : run[r].pc \in {"clear", "emptyDate"}}
      /\ UNCHANGED <<clockVars, coreVars, keyVars, onboardingVars, heldOn>>
  BY DEF Crash
<1>2. Idle.pc = "idle" /\ ~Idle.alone /\ ~Idle.advance
  BY DEF Idle
<1> HIDE DEF Idle
<1>3. \A r \in Runs : run'[r] = Idle
  BY <1>1
<1>4. session' = session /\ generation' = generation /\ key' = key
  BY <1>1 DEF clockVars, coreVars, keyVars
<1>5. Turns'
  BY <1>1, <1>2, <1>3, <1>4 DEF WInv, Turns, Lone, Settled, Sole, Runs
<1>6. Begun'
  BY <1>1, <1>2, <1>3 DEF WInv, Begun, onboardingVars
<1>7. Known'
  <2>1. \A k \in Stages : Held(k)' => Held(k)
    BY <1>1 DEF Held, Scaled, coreVars, keyVars, onboardingVars
  <2> QED BY <1>1, <1>4, <2>1 DEF WInv, Known, At
<1>8. Dates'
  BY <1>1, <1>4 DEF WInv, Dates, Dated, At, onboardingVars
<1>9. Waited'
  BY <1>2, <1>3 DEF Waited
<1> QED BY <1>5, <1>6, <1>7, <1>8, <1>9 DEF WInv

LEMMA InitiallyWaits == Init => WInv
PROOF
<1> SUFFICES ASSUME Init PROVE WInv
  OBVIOUS
<1>1. Idle.pc = "idle" /\ ~Idle.alone /\ ~Idle.advance
  BY DEF Idle
<1>2. /\ \A r \in Runs : run[r] = Idle
      /\ session = 0 /\ generation = 0 /\ key = 0 /\ stage = 0 /\ filledOn = 0 /\ ~refreshed
      /\ status \in {"NOT_STARTED", "BYPASSED"} /\ \A k \in Stages : heldOn[k] = 0
  BY DEF Init
<1> HIDE DEF Idle
<1>3. Turns
  BY <1>1, <1>2 DEF Turns, Lone, Settled, Sole, Runs
<1>4. Begun /\ Dates /\ Waited
  BY <1>1, <1>2 DEF Begun, Dates, Waited
<1>5. Known
  BY <1>2 DEF Known, Held
<1> QED BY <1>3, <1>4, <1>5 DEF WInv

LEMMA Waits ==
    ASSUME MinSessions > 0, IInv, WInv, [Next]_vars
    PROVE  WInv'
PROOF
<1>1. CASE \E r \in Runs : Step(r) \/ RunFails(r)
  BY <1>1, BeginWaits, BeginSafeWaits, RunFailsWaits, SupersedeWaits, ZeroTargetsWaits, ClearKeyWaits,
     NotTradableWaits, FrozenWaits, FreezeTargetsWaits, StampKeyWaits, SellExcessWaits, OfferGapsWaits,
     RefreshStageWaits, RefreshHeldWaits, ReadDateWaits, WriteDateWaits, CompleteWaits
     DEF Step
<1>2. CASE \E r \in Operators : PressStart(r) \/ PressAdvance(r) \/ Handle(r)
  BY <1>2, PressStartWaits, PressAdvanceWaits, ReadyWaits, InvalidateSignalsWaits, ActivateWaits,
     OpenStageWaits, EmptyDateWaits
     DEF Handle
<1>3. CASE \E s \in Symbols : Reserve(s) \/ Fill(s) \/ EndEarly(s)
  BY <1>3, OrdersWait
<1>4. CASE SessionCompletes \/ Crash
  BY <1>4, SessionCompletesWaits, CrashWaits
<1>5. CASE NextSessionStarts
  BY <1>5, StillWaits DEF NextSessionStarts
<1>6. CASE UNCHANGED vars
  BY <1>6, StillWaits DEF vars, clockVars
<1> QED BY <1>1, <1>2, <1>3, <1>4, <1>5, <1>6 DEF Next

\* Only the handler opens a stage after the first.
LEMMA StageOpens ==
    ASSUME IInv, WInv, [Next]_vars, NEW k \in Stages \ {Total}, stage = k, stage' = k + 1, lapses = {}
    PROVE  heldOn[k] # 0 /\ session - heldOn[k] >= MinSessions
PROOF
<1>1. stage' # stage /\ k >= 1
  BY StagesExist DEF Stages
<1>2. PICK r \in Operators : OpenStage(r)
  <2>1. CASE \E r \in Runs : Step(r) \/ RunFails(r)
    BY <1>1, <2>1 DEF Step, RunFails, Begin, BeginSafe, Supersede, ZeroTargets, ClearKey, NotTradable, Frozen,
       FreezeTargets, StampKey, SellExcess, OfferGaps, RefreshStage, RefreshHeld, ReadDate, WriteDate, AfterDate, Complete,
       onboardingVars
  <2>2. CASE \E r \in Operators : PressStart(r) \/ PressAdvance(r) \/ Handle(r)
    BY <1>1, <2>2 DEF Handle, PressStart, PressAdvance, Ready, InvalidateSignals, Activate, EmptyDate,
       onboardingVars
  <2>3. CASE \E s \in Symbols : Reserve(s) \/ Fill(s) \/ EndEarly(s)
    BY <1>1, <2>3 DEF Reserve, Fill, EndEarly, onboardingVars
  <2>4. CASE SessionCompletes \/ NextSessionStarts \/ Crash
    BY <1>1, <2>4 DEF SessionCompletes, NextSessionStarts, Crash, onboardingVars
  <2>5. CASE UNCHANGED vars
    BY <1>1, <2>5 DEF vars, onboardingVars
  <2> QED BY <2>1, <2>2, <2>3, <2>4, <2>5 DEF Next
<1>3. run[r].pc = "stage" /\ run[r].stage + 1 = k + 1 /\ r \in Runs
  BY <1>2 DEF OpenStage, At, Runs
<1>4. run[r].stage = k
  BY <1>3, StagesExist DEF IInv, ThreadsOK, Thread, Stages
<1> QED BY <1>1, <1>3, <1>4 DEF WInv, Waited

-----------------------------------------------------------------------------
(* Theorems *)

\* The invariant behind the theorems below; WInv adds to it what the wait needs.
THEOREM Invariance == Spec => []IInv
BY Initially, Inductive, PTL DEF Spec

\* Stages, dates and quantities keep their ranges whatever the order of the writes of
\* two threads; in particular no thread opens a stage after the last.
THEOREM TypeCorrectness == Spec => []TypeOK
PROOF
<1>1. IInv => TypeOK
  BY DEF IInv, ClockOK, TargetsOK, BuysOK, StagesOK, ThreadsOK, HistoryOK, TypeOK, Thread
<1> QED BY <1>1, Invariance, PTL

\* Until the operator starts the first stage no share is bought or ordered, whatever
\* the allocation wants (_effective_target_quantity in the state NOT_STARTED).
THEOREM NothingIsBoughtBeforeStart == Spec => []NothingBeforeStart
PROOF
<1>1. IInv => NothingBeforeStart
  BY DEF IInv, Unstarted, NothingBeforeStart
<1> QED BY <1>1, Invariance, PTL

\* With sessions to wait for, a stage after the first is opened only when the stage before
\* has been held for MinSessions sessions (advance_onboarding, _refresh_onboarding_progress):
\* a date that the scheduler has written too early, beside the handler, is gone before the
\* session is over. However many threads handle buttons, it is so until the first lapse.
THEOREM StagesAreWaitedFor == Spec => AdvanceAfterWait
PROOF
<1>1. CASE ~(MinSessions > 0)
  <2>1. [Next]_vars => [MinSessions > 0 /\ lapses = {} => Wait]_vars
    BY <1>1
  <2> QED BY <2>1, PTL DEF Spec, AdvanceAfterWait
<1>2. CASE MinSessions > 0
  <2>1. Init => IInv /\ WInv
    BY Initially, InitiallyWaits
  <2>2. IInv /\ WInv /\ [Next]_vars => (IInv /\ WInv)'
    BY <1>2, Inductive, Waits
  <2>3. IInv /\ WInv /\ [Next]_vars => [MinSessions > 0 /\ lapses = {} => Wait]_vars
    BY StageOpens DEF Wait
  <2> QED BY <2>1, <2>2, <2>3, PTL DEF Spec, AdvanceAfterWait
<1> QED BY <1>1, <1>2
=============================================================================
