-------------------------- MODULE Allocation_proofs --------------------------
(***************************************************************************)
(* Proofs about Allocation for any symbols, weights, sessions and crashes, *)
(* when the scheduler is the only thread that runs the allocation. (The    *)
(* thread of an onboarding button runs it too, once per stage; with two    *)
(* runs at once the statements are not true.)                              *)
(*                                                                         *)
(* The invariant follows one run through its program counter. Its heart is *)
(* that a generation has no SELL before its key is stamped, and that a     *)
(* SELL which is not final belongs to the one generation of all symbols;   *)
(* so no change of targets and no BUY can meet it.                         *)
(***************************************************************************)
EXTENDS Allocation, TLAPS

OneRun == Runs = {Scheduler}

RunRecords ==
    [pc : Places, date : 0..MaxSessions, late : BOOLEAN, i : 1..Len(SymbolOrder),
     changed : BOOLEAN, generation : 0..MaxSessions, plan : [Symbols -> Quantities],
     seen : Weights]
RowRecords == [status : Statuses, qty : Quantities, applied : BOOLEAN]

\* The run, and the symbols its loop has done.
R == run[Scheduler]
Before(i) == {SymbolOrder[j] : j \in 1..(i - 1)}
Done == Before(R.i)

\* The parts of a run: before its session is evaluated, after it, freezing, selling, buying.
Evaluating == {"compare", "invalidate", "settle", "set", "clear", "mark"}
Freezing == {"plan", "read", "write", "stamp"}
Buying == {"reconcile", "expire", "offer"}
Selling == {"sells", "sell", "apply", "barrier"} \cup Buying
Trading == {"generations", "key"} \cup Freezing \cup Selling

Dates ==
    /\ marker <= session /\ key <= marker
    /\ R.pc # "idle" => 1 <= R.date /\ R.date <= session
    /\ R.pc \in Evaluating => marker < R.date
    /\ R.pc \in Trading => R.date = marker
    /\ R.pc = "plan" => R.i = 1

\* Weights are a mixture only while a run stores them, or after one has died doing so;
\* then the marker is not that of the latest session.
WeightOf(d, s) == weight[s] = wanted[d][s]
WeightsKnown ==
    /\ (session > 0 /\ marker = session) \/ R.pc \in Trading => \A s \in Symbols : WeightOf(marker, s)
    /\ R.pc = "compare" => R.changed \/ \A s \in Done : WeightOf(R.date, s)
    /\ R.pc = "set" => \A s \in Done : WeightOf(R.date, s)
    /\ R.pc \in {"clear", "mark"} => \A s \in Symbols : WeightOf(R.date, s)
    /\ R.pc = "write" => R.seen = weight[Symbol(Scheduler)]

\* The generations that the rows can have, and that the run will trade.
GenerationsKnown ==
    /\ key # 0 => \A s \in Symbols : generation[s] # 0
    /\ R.pc = "set" => \A s \in Done : generation[s] = R.date
    /\ R.pc = "clear" => \A s \in Symbols : generation[s] = R.date
    /\ R.pc \in {"key"} \cup Freezing =>
          /\ 1 <= R.generation /\ R.generation <= R.date
          /\ \A s \in Symbols : generation[s] \in {0, R.generation}
    /\ R.pc \in Freezing => key # R.generation
    /\ R.pc \in {"read", "write"} => \A s \in Done : generation[s] = R.generation
    /\ R.pc = "stamp" => \A s \in Symbols : generation[s] = R.generation
    /\ R.pc \in Selling => key # 0 /\ \A s \in Symbols : generation[s] = key
    /\ R.pc = "apply" => R.generation = key

\* A SELL whose shares are still to be taken from the ledger.
Applying(s, g) == R.pc = "apply" /\ s = Symbol(Scheduler) /\ g = R.generation
Live(row) == row.status \in {"OPEN", "UNKNOWN"} \/ (row.status = "FILLED" /\ ~row.applied)

\* What a row says, the row of s and g.
RowFacts(s, g, row) ==
    /\ row.status # "NONE" => g <= marker /\ generation[s] # 0
    /\ generation[s] = g /\ g # key => row.status = "NONE"
    /\ Live(row) =>
          /\ key = g /\ \A x \in Symbols : generation[x] = g
          /\ row.qty <= qty[s] /\ qty[s] - row.qty <= target[s]
    /\ key = g /\ generation[s] = g /\ row.status = "FILLED" /\ row.applied => qty[s] <= target[s]
    /\ row.status = "FILLED" => (row.applied = ~Applying(s, g))
    /\ row.status = "UNKNOWN" => safe /\ R.pc = "idle"
    /\ row.status = "OPEN" => R.pc \notin {"set", "clear"} \cup Buying
    /\ Applying(s, g) => row.status = "FILLED"

RowsKnown == \A s \in Symbols, g \in Sessions : RowFacts(s, g, sell[s][g])

\* What the SELL loop leaves behind it: nothing to sell, or a SELL under way.
Sold(s) == qty[s] <= target[s] \/ sell[s][key].status = "OPEN"
Progress ==
    /\ R.pc \in {"sell", "apply"} => \A s \in Done : Sold(s)
    /\ R.pc = "barrier" => OpenSell \/ \A s \in Symbols : qty[s] <= target[s]
    /\ R.pc \in Buying => \A s \in Symbols : qty[s] <= target[s]

IInv == TypeOK /\ Dates /\ WeightsKnown /\ GenerationsKnown /\ RowsKnown /\ Progress

-----------------------------------------------------------------------------
(* The loops, and how the run moves *)

LEMMA Constants ==
    /\ MaxTarget \in Nat /\ MaxSessions \in Nat \ {0} /\ MaxCrashes \in Nat
    /\ 0 \in Weights /\ Weights \subseteq Nat
    /\ Len(SymbolOrder) \in Nat \ {0} /\ 1 \in 1..Len(SymbolOrder)
    /\ \A i \in 1..Len(SymbolOrder) : SymbolOrder[i] \in Symbols
<1>1. /\ SymbolOrder \in Seq(Symbols) /\ SymbolOrder # << >>
      /\ MaxTarget \in Nat /\ MaxSessions \in Nat \ {0} /\ MaxCrashes \in Nat
      /\ 0 \in Weights /\ Weights \subseteq Nat
  BY AllocationAssumption
<1>2. Len(SymbolOrder) \in Nat \ {0} /\ \A i \in 1..Len(SymbolOrder) : SymbolOrder[i] \in Symbols
  BY <1>1
<1> QED  BY <1>1, <1>2

\* A loop has done no symbol at first, one more in each round, and all in the end.
LEMMA Loops ==
    /\ Before(1) = {}
    /\ \A i \in 1..Len(SymbolOrder) :
          /\ Before(i) \subseteq Symbols
          /\ i < Len(SymbolOrder) => Before(i + 1) = Before(i) \cup {SymbolOrder[i]}
    /\ Symbols = Before(Len(SymbolOrder)) \cup {SymbolOrder[Len(SymbolOrder)]}
<1>1. Before(1) = {}
  BY DEF Before
<1>2. ASSUME NEW i \in 1..Len(SymbolOrder)
      PROVE  Before(i) \subseteq Symbols
  BY Constants DEF Before
<1>3. ASSUME NEW i \in 1..Len(SymbolOrder)
      PROVE  {SymbolOrder[j] : j \in 1..i} = Before(i) \cup {SymbolOrder[i]}
  <2>1. 1..i = 1..(i - 1) \cup {i}
    OBVIOUS
  <2> QED  BY <2>1 DEF Before
<1>4. ASSUME NEW i \in 1..Len(SymbolOrder)
      PROVE  Before(i + 1) = Before(i) \cup {SymbolOrder[i]}
  <2>1. (i + 1) - 1 = i
    OBVIOUS
  <2> QED  BY <1>3, <2>1 DEF Before
<1>5. Symbols = {SymbolOrder[j] : j \in 1..Len(SymbolOrder)}
  BY AllocationAssumption DEF Symbols, Range
<1>6. Len(SymbolOrder) \in 1..Len(SymbolOrder)
  BY Constants
<1> QED  BY <1>1, <1>2, <1>3, <1>4, <1>5, <1>6

\* The run goes to pc and to the i-th symbol, and keeps what it has read.
Moves(pc, i) ==
    /\ run' \in [Runs -> RunRecords]
    /\ R'.pc = pc /\ R'.i = i
    /\ R'.date = R.date /\ R'.generation = R.generation
    /\ R'.changed = R.changed /\ R'.seen = R.seen

LEMMA RunType ==
    ASSUME OneRun, TypeOK
    PROVE  /\ run \in [Runs -> RunRecords] /\ Scheduler \in Runs /\ R \in RunRecords
           /\ R.i \in 1..Len(SymbolOrder) /\ R.date \in 0..MaxSessions
           /\ Symbol(Scheduler) \in Symbols /\ Symbol(Scheduler) = SymbolOrder[R.i]
           /\ Done \subseteq Symbols
<1>1. run \in [Runs -> RunRecords] /\ Scheduler \in Runs
  BY AllocationAssumption DEF TypeOK, RunRecords
<1>2. R \in RunRecords
  BY <1>1 DEF R
<1>3. R.i \in 1..Len(SymbolOrder) /\ R.date \in 0..MaxSessions
  BY <1>2 DEF RunRecords
<1> QED  BY <1>1, <1>2, <1>3, Constants, Loops DEF Symbol, R, Done

LEMMA RunMoves ==
    ASSUME OneRun, TypeOK, NEW pc \in Places, NEW i \in 1..Len(SymbolOrder),
           run' = [run EXCEPT ![Scheduler].pc = pc, ![Scheduler].i = i]
    PROVE  Moves(pc, i)
<1>1. run \in [Runs -> RunRecords] /\ Scheduler \in Runs /\ R \in RunRecords
  BY RunType
<1>2. run' = [run EXCEPT ![Scheduler] = [R EXCEPT !.pc = pc, !.i = i]]
  BY DEF R
<1>3. PICK q : q = [R EXCEPT !.pc = pc, !.i = i]
  OBVIOUS
<1>4. q \in RunRecords
  BY <1>1, <1>3 DEF RunRecords
<1>5. run' \in [Runs -> RunRecords] /\ run'[Scheduler] = q
  BY <1>1, <1>2, <1>3, <1>4
<1> QED  BY <1>1, <1>3, <1>5 DEF Moves, R, RunRecords

LEMMA GotoMoves ==
    ASSUME OneRun, TypeOK, NEW pc \in Places, Goto(Scheduler, pc)
    PROVE  Moves(pc, 1)
BY RunMoves, Constants DEF Goto

LEMMA NextSymbolMoves ==
    ASSUME OneRun, TypeOK, NEW pc \in Places, NEW after \in Places,
           NextSymbol(Scheduler, pc, after)
    PROVE  \/ R.i < Len(SymbolOrder) /\ Moves(pc, R.i + 1)
           \/ R.i = Len(SymbolOrder) /\ Moves(after, 1)
<1>1. R.i \in 1..Len(SymbolOrder) /\ Len(SymbolOrder) \in Nat
  BY RunType, Constants
<1>2. CASE R.i < Len(SymbolOrder)
  <2>1. R.i + 1 \in 1..Len(SymbolOrder)
    BY <1>1, <1>2
  <2>2. run' = [run EXCEPT ![Scheduler].pc = pc, ![Scheduler].i = R.i + 1]
    BY <1>2 DEF NextSymbol, R
  <2> QED  BY <1>2, <2>1, <2>2, RunMoves
<1>3. CASE ~(R.i < Len(SymbolOrder))
  BY <1>1, <1>3, GotoMoves DEF NextSymbol, R
<1> QED  BY <1>2, <1>3

LEMMA ReturnMoves ==
    ASSUME OneRun, TypeOK, Return(Scheduler)
    PROVE  run' \in [Runs -> RunRecords] /\ R'.pc = "idle"
<1>1. run \in [Runs -> RunRecords] /\ Scheduler \in Runs
  BY RunType
<1>2. Idle \in RunRecords /\ Idle.pc = "idle"
  <2>1. NoPlan \in [Symbols -> Quantities]
    BY Constants DEF NoPlan, Quantities
  <2> QED  BY <2>1, Constants DEF Idle, RunRecords, Places
<1>3. PICK q : q = Idle
  OBVIOUS
<1>4. run' \in [Runs -> RunRecords] /\ run'[Scheduler] = q
  BY <1>1, <1>2, <1>3 DEF Return
<1> QED  BY <1>2, <1>3, <1>4 DEF R

-----------------------------------------------------------------------------
(* Steps that only move the run *)

Places2 == {"set", "clear"} \cup Buying

\* Such a step keeps what the rows say, unless it enters a part of the run that no
\* open SELL can enter.
LEMMA RowsKept ==
    ASSUME RowsKnown, UNCHANGED <<sell, marker, key, generation, qty, target>>,
           safe => safe', R.pc # "apply", R'.pc # "apply",
           R'.pc = "idle" \/ R.pc # "idle" \/ ~safe,
           R'.pc \notin Places2 \/ R.pc \in Places2 \/ ~OpenSell
    PROVE  RowsKnown'
<1> SUFFICES ASSUME NEW s \in Symbols, NEW g \in Sessions
             PROVE  RowFacts(s, g, sell[s][g])'
  BY DEF RowsKnown
<1> DEFINE row == sell[s][g]
<1>1. RowFacts(s, g, row) /\ row \in Rows
  BY DEF RowsKnown, Rows
<1>2. sell'[s][g] = row /\ marker' = marker /\ key' = key /\ generation' = generation
      /\ qty' = qty /\ target' = target
  OBVIOUS
<1>3. row.status = "UNKNOWN" => safe' /\ R'.pc = "idle"
  BY <1>1 DEF RowFacts
<1>4. row.status = "OPEN" => R'.pc \notin Places2
  BY <1>1 DEF RowFacts, Places2, OpenSell
<1>5. ~Applying(s, g) /\ ~Applying(s, g)'
  BY DEF Applying
<1> HIDE DEF row
<1> QED  BY <1>1, <1>2, <1>3, <1>4, <1>5 DEF RowFacts, Live, Places2

\* What such a step leaves alone.
SameBooks == UNCHANGED <<clockVars, coreVars, key, marker, sell, crashes>>

LEMMA TypesKept ==
    ASSUME TypeOK, SameBooks, UNCHANGED signalVars, safe' \in BOOLEAN, run' \in [Runs -> RunRecords]
    PROVE  TypeOK'
BY DEF TypeOK, SameBooks, clockVars, coreVars, signalVars, RunRecords

\* A run that returns, in whatever state.
LEMMA ReturnsWith ==
    ASSUME IInv, SameBooks, safe => safe', R.pc # "apply", R'.pc = "idle", TypeOK'
    PROVE  IInv'
<1>2. RowsKnown'
  BY RowsKept DEF IInv, SameBooks, coreVars, Places2, Buying
<1>3. Dates'
  BY DEF IInv, Dates, SameBooks, clockVars, Evaluating, Trading, Freezing, Selling, Buying
<1>4. WeightsKnown'
  BY DEF IInv, WeightsKnown, WeightOf, SameBooks, clockVars, coreVars, Trading, Freezing, Selling, Buying
<1>5. GenerationsKnown'
  BY DEF IInv, GenerationsKnown, SameBooks, coreVars, Freezing, Selling, Buying
<1>6. Progress'
  BY DEF Progress, Buying
<1> QED  BY <1>2, <1>3, <1>4, <1>5, <1>6 DEF IInv

LEMMA Returns ==
    ASSUME IInv, SameBooks, UNCHANGED signalVars, safe => safe', safe' \in BOOLEAN,
           R.pc # "apply", run' \in [Runs -> RunRecords], R'.pc = "idle"
    PROVE  IInv'
BY TypesKept, ReturnsWith DEF IInv

LEMMA CompareStep ==
    ASSUME OneRun, IInv, Compare(Scheduler)
    PROVE  IInv'
<1> DEFINE c == R.changed \/ weight[Symbol(Scheduler)] # wanted[R.date][Symbol(Scheduler)]
           last == ~(R.i < Len(SymbolOrder))
           pc == IF ~last THEN "compare" ELSE IF c THEN "invalidate" ELSE "mark"
           i == IF ~last THEN R.i + 1 ELSE 1
<1>1. /\ R.pc = "compare" /\ SameBooks /\ UNCHANGED signalVars /\ safe' = safe
      /\ run' = [run EXCEPT ![Scheduler].changed = c, ![Scheduler].pc = pc, ![Scheduler].i = i]
  BY DEF Compare, At, R, SameBooks, stateVars
<1>2. TypeOK /\ R \in RunRecords /\ run \in [Runs -> RunRecords] /\ Scheduler \in Runs
      /\ i \in 1..Len(SymbolOrder) /\ R.i \in 1..Len(SymbolOrder) /\ Len(SymbolOrder) \in Nat
  BY RunType, Constants DEF IInv
<1>3. run' = [run EXCEPT ![Scheduler] = [R EXCEPT !.changed = c, !.pc = pc, !.i = i]]
  BY <1>1 DEF R
<1>4. PICK q : q = [R EXCEPT !.changed = c, !.pc = pc, !.i = i]
  OBVIOUS
<1>5. /\ q \in RunRecords /\ q.pc = pc /\ q.i = i /\ q.changed = c /\ q.date = R.date
  BY <1>2, <1>4 DEF RunRecords, Places
<1>6. run' \in [Runs -> RunRecords] /\ R' = q
  BY <1>2, <1>3, <1>4, <1>5 DEF R
<1>7. TypeOK'
  BY <1>1, <1>2, <1>6, TypesKept DEF TypeOK
<1>8. RowsKnown'
  BY <1>1, <1>5, <1>6, RowsKept DEF IInv, SameBooks, coreVars, Places2, Buying
<1>9. Dates'
  BY <1>1, <1>5, <1>6 DEF IInv, Dates, SameBooks, clockVars, Evaluating, Trading, Freezing, Selling, Buying
<1>10. ~c => weight[SymbolOrder[R.i]] = wanted[R.date][SymbolOrder[R.i]] /\ ~R.changed
  BY <1>2, RunType
<1>11. R.changed \/ \A s \in Done : WeightOf(R.date, s)
  BY <1>1 DEF IInv, WeightsKnown
<1>12. c \/ \A s \in Done \cup {SymbolOrder[R.i]} : WeightOf(R.date, s)
  BY <1>10, <1>11 DEF WeightOf
<1>13. Done \cup {SymbolOrder[R.i]} = IF last THEN Symbols ELSE Before(R.i + 1)
  <2>1. CASE last
    <3>1. R.i = Len(SymbolOrder)
      BY <1>2, <2>1
    <3> QED  BY <2>1, <3>1, Loops DEF Done
  <2>2. CASE ~last
    <3>1. Before(R.i + 1) = Before(R.i) \cup {SymbolOrder[R.i]}
      BY <1>2, <2>2, Loops
    <3> QED  BY <2>2, <3>1 DEF Done
  <2> QED  BY <2>1, <2>2
<1> HIDE DEF c
<1>14. WeightsKnown'
  <2>1. wanted' = wanted /\ weight' = weight /\ session' = session /\ marker' = marker
    BY <1>1 DEF SameBooks, clockVars, coreVars
  <2>2. Done' = Before(i)
    BY <1>5, <1>6 DEF Done
  <2>3. pc = "compare" => c \/ \A s \in Before(i) : WeightOf(R.date, s)
    BY <1>12, <1>13
  <2>4. pc = "mark" => \A s \in Symbols : WeightOf(R.date, s)
    BY <1>12, <1>13
  <2> HIDE DEF pc, i
  <2>5. R'.pc = pc /\ R'.date = R.date /\ R'.changed = c /\ pc \in {"compare", "invalidate", "mark"}
    BY <1>5, <1>6 DEF pc
  <2>6. \A d, s : WeightOf(d, s)' <=> WeightOf(d, s)
    BY <2>1 DEF WeightOf
  <2> QED  BY <1>1, <2>1, <2>2, <2>3, <2>4, <2>5, <2>6 DEF IInv, WeightsKnown, Trading, Freezing, Selling, Buying
<1>15. GenerationsKnown'
  BY <1>1, <1>5, <1>6 DEF IInv, GenerationsKnown, SameBooks, coreVars, Freezing, Selling, Buying
<1>16. Progress'
  BY <1>5, <1>6 DEF Progress, Buying
<1> QED  BY <1>7, <1>8, <1>9, <1>14, <1>15, <1>16 DEF IInv

\* The moves from one part of the run to another, or within one.
MoveAllowed(pc, i) ==
    \/ R.pc = "invalidate" /\ pc \in {"invalidate", "settle"}
    \/ R.pc = "settle" /\ pc = "set" /\ i = 1 /\ ~OpenSell
    \/ R.pc = "key" /\ pc = "plan" /\ i = 1 /\ key # R.generation
    \/ R.pc = "key" /\ pc = "sells" /\ key = R.generation
    \/ R.pc \in {"sells", "sell"} /\ pc \in {"sell", "barrier"}
    \/ R.pc = "barrier" /\ pc = "reconcile" /\ ~OpenSell
    \/ R.pc = "reconcile" /\ pc = "expire"
    \/ R.pc \in {"expire", "offer"} /\ pc = "offer"

LEMMA MoveStep ==
    ASSUME OneRun, IInv, SameBooks, safe => safe', NEW pc, NEW i, Moves(pc, i), MoveAllowed(pc, i),
           TypeOK', Progress'
    PROVE  IInv'
<1>1. /\ R'.pc = pc /\ R'.i = i /\ R'.date = R.date /\ R'.generation = R.generation
      /\ UNCHANGED <<session, wanted, weight, generation, target, qty, key, marker, sell>>
  BY DEF Moves, SameBooks, clockVars, coreVars
<1>2. RowsKnown'
  <2>1. R.pc # "apply" /\ pc # "apply" /\ R.pc # "idle"
    BY DEF MoveAllowed
  <2>2. pc \notin Places2 \/ R.pc \in Places2 \/ ~OpenSell
    BY DEF MoveAllowed, Places2, Buying
  <2> QED  BY <1>1, <2>1, <2>2, RowsKept DEF IInv
<1>3. Dates'
  BY <1>1 DEF IInv, Dates, MoveAllowed, Evaluating, Trading, Freezing, Selling, Buying
<1>4. WeightsKnown'
  <2>1. R.pc \in Trading <=> pc \in Trading
    BY DEF MoveAllowed, Trading, Freezing, Selling, Buying
  <2>2. pc \notin {"compare", "clear", "mark", "write"} /\ (pc = "set" => i = 1)
    BY DEF MoveAllowed
  <2>3. \A d, s : WeightOf(d, s)' <=> WeightOf(d, s)
    BY <1>1 DEF WeightOf
  <2>4. pc = "set" => Done' = {}
    BY <1>1, <2>2, Loops DEF Done
  <2> QED  BY <1>1, <2>1, <2>2, <2>3, <2>4 DEF IInv, WeightsKnown
<1>5. GenerationsKnown'
  <2>1. pc \notin {"key", "clear", "read", "write", "stamp", "apply"} /\ (pc = "set" => i = 1)
    BY DEF MoveAllowed
  <2>2. pc = "set" => Done' = {}
    BY <1>1, <2>1, Loops DEF Done
  <2>3. pc \in Selling => R.pc \in Selling \/ (R.pc = "key" /\ key = R.generation)
    BY DEF MoveAllowed, Selling, Freezing, Buying
  <2>4. pc \in Freezing => R.pc = "key" /\ key # R.generation
    BY DEF MoveAllowed, Selling, Freezing, Buying
  <2>5. R.pc = "key" => /\ 1 <= R.generation /\ R.generation <= R.date
                        /\ \A s \in Symbols : generation[s] \in {0, R.generation}
    BY DEF IInv, GenerationsKnown
  <2>6. R.pc = "key" /\ key = R.generation => key # 0 /\ \A s \in Symbols : generation[s] = key
    BY <2>5 DEF IInv, GenerationsKnown
  <2>7. pc \in Selling => key # 0 /\ \A s \in Symbols : generation[s] = key
    BY <2>3, <2>6 DEF IInv, GenerationsKnown
  <2>8. key # 0 => \A s \in Symbols : generation[s] # 0
    BY DEF IInv, GenerationsKnown
  <2> QED  BY <1>1, <2>1, <2>2, <2>4, <2>5, <2>7, <2>8 DEF GenerationsKnown
<1> QED  BY <1>2, <1>3, <1>4, <1>5 DEF IInv

LEMMA FailsStep ==
    ASSUME OneRun, IInv, Fails(Scheduler)
    PROVE  IInv'
<1>1. R.pc # "apply" /\ Return(Scheduler) /\ SameBooks /\ UNCHANGED signalVars
  BY DEF Fails, RunFails, SettleFails, SessionNotAllowed, At, R, SameBooks, stateVars
<1>2. safe' = safe \/ safe' = TRUE
  BY DEF Fails, RunFails, SettleFails, SessionNotAllowed, stateVars
<1>3. safe \in BOOLEAN
  BY DEF IInv, TypeOK
<1>4. safe' \in BOOLEAN
  BY <1>2, <1>3
<1>5. safe => safe'
  BY <1>2
<1> QED  BY <1>1, <1>4, <1>5, Returns, ReturnMoves DEF IInv

\* Progress where nothing that it speaks of changes.
LEMMA ProgressKept ==
    ASSUME IInv, SameBooks, NEW pc, NEW i, Moves(pc, i),
           pc \notin {"sell", "apply", "barrier"} \cup Buying
    PROVE  Progress'
BY DEF Moves, Progress, Buying

LEMMA SettledStep ==
    ASSUME OneRun, IInv, Settled(Scheduler)
    PROVE  IInv'
<1>1. /\ R.pc = "settle" /\ ~OpenSell /\ SameBooks /\ UNCHANGED signalVars /\ safe' = safe
      /\ Goto(Scheduler, "set")
  BY DEF Settled, At, R, SameBooks, stateVars
<1>2. Moves("set", 1) /\ safe \in BOOLEAN
  BY <1>1, GotoMoves DEF IInv, Places, TypeOK
<1>3. TypeOK' /\ Progress' /\ MoveAllowed("set", 1)
  BY <1>1, <1>2, TypesKept, ProgressKept DEF IInv, Moves, MoveAllowed, Buying
<1> QED  BY <1>1, <1>2, <1>3, MoveStep

LEMMA ReadKeyStep ==
    ASSUME OneRun, IInv, ReadKey(Scheduler)
    PROVE  IInv'
<1>1. /\ R.pc = "key" /\ SameBooks /\ UNCHANGED signalVars /\ safe' = safe
      /\ \/ key = R.generation /\ Goto(Scheduler, "sells")
         \/ key # R.generation /\ Goto(Scheduler, "plan")
  BY DEF ReadKey, Frozen, At, R, SameBooks, stateVars
<1>2. PICK pc \in {"sells", "plan"} : Moves(pc, 1) /\ MoveAllowed(pc, 1)
  BY <1>1, GotoMoves DEF IInv, Places, MoveAllowed
<1>3. safe \in BOOLEAN
  BY DEF IInv, TypeOK
<1>4. TypeOK' /\ Progress'
  BY <1>1, <1>2, <1>3, TypesKept, ProgressKept DEF IInv, Moves, Buying
<1> QED  BY <1>1, <1>2, <1>4, MoveStep

LEMMA CheckSellsStep ==
    ASSUME OneRun, IInv, CheckSells(Scheduler)
    PROVE  IInv'
<1>1. /\ R.pc = "sells" /\ SameBooks /\ UNCHANGED signalVars /\ safe' = safe
      /\ \/ OpenSell /\ Goto(Scheduler, "barrier")
         \/ Goto(Scheduler, "sell")
  BY DEF CheckSells, At, R, SameBooks, stateVars
<1>2. PICK pc \in {"sell", "barrier"} : Moves(pc, 1) /\ MoveAllowed(pc, 1) /\ (pc = "barrier" => OpenSell)
  BY <1>1, GotoMoves DEF IInv, Places, MoveAllowed
<1>3. safe \in BOOLEAN
  BY DEF IInv, TypeOK
<1>4. Progress'
  <2>1. Done' = {} /\ R'.pc = pc
    BY <1>2, Loops DEF Done, Moves
  <2>2. OpenSell' = OpenSell
    BY <1>1 DEF OpenSell, Rows, SameBooks
  <2> QED  BY <1>2, <2>1, <2>2 DEF Progress, Buying
<1>5. TypeOK'
  BY <1>1, <1>2, <1>3, TypesKept DEF IInv, Moves
<1> QED  BY <1>1, <1>2, <1>4, <1>5, MoveStep

\* The loop over the symbols goes on after one that leaves nothing to sell now.
LEMMA SellGoesOn ==
    ASSUME OneRun, IInv, R.pc = "sell", Sold(Symbol(Scheduler)), SameBooks, UNCHANGED signalVars,
           safe' = safe, NextSymbol(Scheduler, "sell", "barrier")
    PROVE  IInv'
<1>1. \/ R.i < Len(SymbolOrder) /\ Moves("sell", R.i + 1)
      \/ R.i = Len(SymbolOrder) /\ Moves("barrier", 1)
  BY NextSymbolMoves DEF IInv, Places
<1>2. \A s \in Done \cup {SymbolOrder[R.i]} : Sold(s)
  BY RunType DEF IInv, Progress
<1>3. UNCHANGED <<qty, target, sell, key>>
  BY DEF SameBooks, coreVars
<1>4. Progress'
  <2>1. CASE R.i < Len(SymbolOrder) /\ Moves("sell", R.i + 1)
    <3>1. Done' = Done \cup {SymbolOrder[R.i]} /\ R'.pc = "sell"
      BY <2>1, RunType, Loops DEF Done, Moves, IInv
    <3> QED  BY <1>2, <1>3, <3>1 DEF Progress, Sold, Buying
  <2>2. CASE R.i = Len(SymbolOrder) /\ Moves("barrier", 1)
    <3>1. R'.pc = "barrier" /\ \A s \in Symbols : Sold(s)
      BY <1>2, <2>2, Loops DEF Done, Moves
    <3>2. key \in Sessions
      <4>1. key # 0 /\ key \in 0..MaxSessions /\ MaxSessions \in Nat
        BY Constants DEF IInv, GenerationsKnown, TypeOK, Selling
      <4> QED  BY <4>1 DEF Sessions
    <3>3. OpenSell \/ \A s \in Symbols : qty[s] <= target[s]
      BY <3>1, <3>2 DEF Sold, OpenSell, Rows
    <3>4. OpenSell' = OpenSell
      BY <1>3 DEF OpenSell, Rows
    <3> QED  BY <1>3, <3>1, <3>3, <3>4 DEF Progress, Buying
  <2> QED  BY <1>1, <2>1, <2>2
<1>5. safe \in BOOLEAN
  BY DEF IInv, TypeOK
<1>6. PICK pc, i : pc \in {"sell", "barrier"} /\ Moves(pc, i)
  BY <1>1
<1>7. TypeOK' /\ MoveAllowed(pc, i)
  BY <1>5, <1>6, TypesKept DEF IInv, Moves, MoveAllowed
<1> QED  BY <1>4, <1>6, <1>7, MoveStep

LEMMA NothingToSellStep ==
    ASSUME OneRun, IInv, NothingToSell(Scheduler)
    PROVE  IInv'
<1>1. /\ R.pc = "sell" /\ SameBooks /\ UNCHANGED signalVars /\ safe' = safe
      /\ NextSymbol(Scheduler, "sell", "barrier") /\ Sold(Symbol(Scheduler))
  BY DEF NothingToSell, At, R, SameBooks, stateVars, Sold
<1> QED  BY <1>1, SellGoesOn

LEMMA BarrierStep ==
    ASSUME OneRun, IInv, Barrier(Scheduler)
    PROVE  IInv'
<1>1. /\ R.pc = "barrier" /\ SameBooks /\ UNCHANGED signalVars /\ safe' = safe
      /\ \/ Return(Scheduler)
         \/ ~OpenSell /\ Goto(Scheduler, "reconcile")
  BY DEF Barrier, At, R, SameBooks, stateVars
<1>2. safe \in BOOLEAN /\ TypeOK
  BY DEF IInv, TypeOK
<1>3. CASE Return(Scheduler)
  BY <1>1, <1>2, <1>3, Returns, ReturnMoves
<1>4. CASE ~OpenSell /\ Goto(Scheduler, "reconcile")
  <2>1. Moves("reconcile", 1) /\ MoveAllowed("reconcile", 1)
    BY <1>1, <1>2, <1>4, GotoMoves DEF Places, MoveAllowed
  <2>2. Progress'
    <3>1. \A s \in Symbols : qty[s] <= target[s]
      BY <1>1, <1>4 DEF IInv, Progress
    <3> QED  BY <1>1, <2>1, <3>1 DEF Progress, Buying, Moves, SameBooks, coreVars
  <2>3. TypeOK'
    BY <1>1, <1>2, <2>1, TypesKept DEF Moves
  <2> QED  BY <1>1, <2>1, <2>2, <2>3, MoveStep
<1> QED  BY <1>1, <1>3, <1>4

\* Steps that also change signals, which only their types depend on.
LEMMA TypesKeptBySignals ==
    ASSUME TypeOK, SameBooks, offered' \in [Symbols -> Quantities],
           offeredOn' \in [Symbols -> 0..MaxSessions], safe' \in BOOLEAN, run' \in [Runs -> RunRecords]
    PROVE  TypeOK'
BY DEF TypeOK, SameBooks, clockVars, coreVars, RunRecords

LEMMA InvalidateStep ==
    ASSUME OneRun, IInv, Invalidate(Scheduler)
    PROVE  IInv'
<1>1. /\ R.pc = "invalidate" /\ SameBooks /\ safe' = safe /\ TypeOK
      /\ NextSymbol(Scheduler, "invalidate", "settle")
      /\ offered' = [offered EXCEPT ![Symbol(Scheduler)] = 0]
      /\ offeredOn' = [offeredOn EXCEPT ![Symbol(Scheduler)] = 0]
  BY DEF Invalidate, InvalidateSignals, At, R, SameBooks, stateVars, IInv
<1>2. PICK pc \in {"invalidate", "settle"}, i \in Nat : Moves(pc, i)
  BY <1>1, NextSymbolMoves, RunType DEF Places
<1>3. offered' \in [Symbols -> Quantities] /\ offeredOn' \in [Symbols -> 0..MaxSessions] /\ safe \in BOOLEAN
  <2>1. 0 \in Quantities /\ 0 \in 0..MaxSessions
    BY Constants DEF Quantities
  <2>2. offered \in [Symbols -> Quantities] /\ offeredOn \in [Symbols -> 0..MaxSessions] /\ safe \in BOOLEAN
    BY <1>1 DEF TypeOK
  <2> QED  BY <1>1, <2>1, <2>2, Zenon
<1>4. TypeOK' /\ Progress' /\ MoveAllowed(pc, i)
  BY <1>1, <1>2, <1>3, TypesKeptBySignals, ProgressKept DEF Moves, MoveAllowed, Buying
<1> QED  BY <1>1, <1>2, <1>4, MoveStep

\* In the last part of a run nothing is held beyond its target.
LEMMA BuyingProgress ==
    ASSUME IInv, SameBooks, R.pc \in Buying, NEW pc \in Buying, NEW i, Moves(pc, i)
    PROVE  Progress'
<1>1. \A s \in Symbols : qty[s] <= target[s]
  BY DEF IInv, Progress
<1> QED  BY <1>1 DEF Progress, Buying, Moves, SameBooks, coreVars

LEMMA ReconcileStep ==
    ASSUME OneRun, IInv, Reconcile(Scheduler)
    PROVE  IInv'
<1>1. /\ R.pc = "reconcile" /\ SameBooks /\ UNCHANGED signalVars
      /\ Return(Scheduler) \/ Goto(Scheduler, "expire")
      /\ safe' = (safe \/ Mismatch)
  BY DEF Reconcile, At, R, SameBooks
<1>2. safe' \in BOOLEAN
  BY <1>1 DEF Mismatch
<1>3. safe => safe'
  BY <1>1
<1>4. CASE Return(Scheduler)
  BY <1>1, <1>2, <1>3, <1>4, Returns, ReturnMoves DEF IInv
<1>5. CASE Goto(Scheduler, "expire")
  <2>1. Moves("expire", 1) /\ MoveAllowed("expire", 1)
    BY <1>1, <1>5, GotoMoves DEF Places, MoveAllowed, IInv
  <2>2. TypeOK' /\ Progress'
    BY <1>1, <1>2, <2>1, TypesKept, BuyingProgress DEF Moves, IInv, Buying
  <2> QED  BY <1>1, <1>3, <2>1, <2>2, MoveStep
<1> QED  BY <1>1, <1>4, <1>5

LEMMA ExpireSignalsStep ==
    ASSUME OneRun, IInv, ExpireSignals(Scheduler)
    PROVE  IInv'
<1>1. /\ R.pc = "expire" /\ SameBooks /\ safe' = safe /\ TypeOK /\ Goto(Scheduler, "offer")
      /\ offered' = [s \in Symbols |-> IF Lapsed(s, R.date) THEN 0 ELSE offered[s]]
      /\ offeredOn' = [s \in Symbols |-> IF Lapsed(s, R.date) THEN 0 ELSE offeredOn[s]]
  BY DEF ExpireSignals, At, R, SameBooks, stateVars, IInv
<1>2. Moves("offer", 1) /\ MoveAllowed("offer", 1)
  BY <1>1, GotoMoves DEF Places, MoveAllowed
<1>3. offered' \in [Symbols -> Quantities] /\ offeredOn' \in [Symbols -> 0..MaxSessions] /\ safe \in BOOLEAN
  BY <1>1, Constants DEF TypeOK, Quantities
<1>4. TypeOK' /\ Progress'
  BY <1>1, <1>2, <1>3, TypesKeptBySignals, BuyingProgress DEF Moves, Buying
<1> QED  BY <1>1, <1>2, <1>4, MoveStep

LEMMA OfferStep ==
    ASSUME OneRun, IInv, Offer(Scheduler)
    PROVE  IInv'
<1> DEFINE s == Symbol(Scheduler)
<1>1. /\ R.pc = "offer" /\ SameBooks /\ safe' = safe /\ TypeOK /\ NextSymbolOrReturn(Scheduler, "offer")
      /\ \/ /\ qty[s] < target[s]
            /\ offered' = [offered EXCEPT ![s] = target[s] - qty[s]]
            /\ offeredOn' = [offeredOn EXCEPT ![s] = R.date]
         \/ UNCHANGED signalVars
  BY DEF Offer, At, R, SameBooks, stateVars, IInv
<1>2. qty[s] < target[s] => target[s] - qty[s] \in Quantities
  <2>1. qty[s] \in Quantities /\ target[s] \in Quantities /\ MaxTarget \in Nat
    BY <1>1, RunType, Constants DEF TypeOK
  <2> HIDE DEF s
  <2> QED  BY <2>1 DEF Quantities
<1>3. R.date \in 0..MaxSessions
  BY <1>1, RunType
<1>4. offered' \in [Symbols -> Quantities] /\ offeredOn' \in [Symbols -> 0..MaxSessions] /\ safe \in BOOLEAN
  <2> HIDE DEF s
  <2> QED  BY <1>1, <1>2, <1>3 DEF TypeOK, signalVars
<1>5. CASE Return(Scheduler)
  <2>1. run' \in [Runs -> RunRecords] /\ R'.pc = "idle"
    BY <1>1, <1>5, ReturnMoves
  <2>2. TypeOK'
    BY <1>1, <1>4, <2>1, TypesKeptBySignals
  <2> QED  BY <1>1, <2>1, <2>2, ReturnsWith
<1>6. CASE ~Return(Scheduler)
  <2>1. PICK i \in Nat : Moves("offer", i)
    <3>1. NextSymbol(Scheduler, "offer", "offer") /\ R.i < Len(SymbolOrder)
      BY <1>1, <1>6 DEF NextSymbolOrReturn, NextSymbol, R
    <3>2. "offer" \in Places
      BY DEF Places
    <3>3. Moves("offer", R.i + 1) /\ R.i + 1 \in Nat
      BY <1>1, <3>1, <3>2, NextSymbolMoves, RunType, Constants
    <3> QED  BY <3>3
  <2>2. TypeOK' /\ Progress' /\ MoveAllowed("offer", i)
    BY <1>1, <1>4, <2>1, TypesKeptBySignals, BuyingProgress DEF Moves, Buying, MoveAllowed
  <2> QED  BY <1>1, <2>1, <2>2, MoveStep
<1> QED  BY <1>5, <1>6

-----------------------------------------------------------------------------
(* The beginning of a run, and its reads *)

LEMMA BeginStep ==
    ASSUME OneRun, IInv, Begin(Scheduler)
    PROVE  IInv'
<1>1. /\ R.pc = "idle" /\ session > 0 /\ SameBooks /\ UNCHANGED signalVars /\ ~safe /\ TypeOK
  BY DEF Begin, At, R, SameBooks, IInv
<1>2. CASE safe' = TRUE /\ UNCHANGED run
  <2>1. run' \in [Runs -> RunRecords] /\ R' = R /\ R'.pc = "idle"
    BY <1>1, <1>2, RunType DEF R
  <2> QED  BY <1>1, <1>2, <2>1, Returns
<1>3. ASSUME UNCHANGED safe,
             run' = [run EXCEPT ![Scheduler] =
                   [Idle EXCEPT !.pc = IF marker # session THEN "compare" ELSE "generations",
                                !.date = session, !.late = started]]
      PROVE  IInv'
  <2> DEFINE pc == IF marker # session THEN "compare" ELSE "generations"
  <2>1. PICK q : q = [Idle EXCEPT !.pc = pc, !.date = session, !.late = started]
    OBVIOUS
  <2>2. q.pc = pc /\ q.date = session /\ q.i = 1 /\ q.changed = FALSE
    BY <2>1 DEF Idle
  <2>3. q \in RunRecords
    <3>1. NoPlan \in [Symbols -> Quantities] /\ 0 \in Weights /\ 1 \in 1..Len(SymbolOrder) /\ 0 \in 0..MaxSessions
      BY Constants DEF NoPlan, Quantities
    <3>2. session \in 0..MaxSessions /\ started \in BOOLEAN /\ pc \in Places
      BY <1>1 DEF TypeOK, Places
    <3> HIDE DEF pc
    <3> QED  BY <2>1, <3>1, <3>2 DEF Idle, RunRecords
  <2>4. run' \in [Runs -> RunRecords] /\ R' = q
    BY <1>1, <1>3, <2>1, <2>3, RunType DEF R
  <2>5. safe \in BOOLEAN /\ TypeOK' /\ safe' = safe
    BY <1>1, <1>3, <2>4, TypesKept DEF TypeOK
  <2>6. /\ UNCHANGED <<session, wanted, weight, generation, target, qty, key, marker, sell>>
        /\ pc \in {"compare", "generations"}
    BY <1>1 DEF SameBooks, clockVars, coreVars
  <2>7. /\ R'.pc = pc /\ R'.date = session /\ R'.i = 1 /\ Done' = {}
    BY <2>2, <2>4, Loops DEF Done
  <2>8. RowsKnown'
    BY <1>1, <2>5, <2>6, <2>7, RowsKept DEF IInv, Places2, Buying
  <2>9. Dates'
    <3>1. session \in Nat /\ marker \in Nat
      BY <1>1, Constants DEF TypeOK
    <3> QED  BY <1>1, <2>6, <2>7, <3>1 DEF IInv, Dates, Evaluating, Trading, Freezing, Selling, Buying
  <2>10. WeightsKnown'
    <3>1. \A d, s : WeightOf(d, s)' <=> WeightOf(d, s)
      BY <2>6 DEF WeightOf
    <3> QED
      BY <1>1, <2>6, <2>7, <3>1 DEF IInv, WeightsKnown, Trading, Freezing, Selling, Buying
  <2>11. GenerationsKnown'
    BY <2>6, <2>7 DEF IInv, GenerationsKnown, Freezing, Selling, Buying
  <2>12. Progress'
    BY <2>6, <2>7 DEF Progress, Buying
  <2> QED  BY <2>5, <2>8, <2>9, <2>10, <2>11, <2>12 DEF IInv
<1> QED  BY <1>2, <1>3 DEF Begin

\* The run goes on in the same place with a generation, a plan or a weight it has read.
Reads(pc, g, seen) ==
    /\ run' \in [Runs -> RunRecords]
    /\ R'.pc = pc /\ R'.i = R.i /\ R'.date = R.date /\ R'.generation = g /\ R'.seen = seen

ReadAllowed(pc, g, seen) ==
    \/ /\ R.pc = "generations" /\ pc = "key" /\ 1 <= g /\ g <= R.date
       /\ \A s \in Symbols : generation[s] \in {0, g}
    \/ R.pc = "plan" /\ pc = "read" /\ g = R.generation
    \/ R.pc = "read" /\ pc = "write" /\ g = R.generation /\ seen = weight[Symbol(Scheduler)]

LEMMA ReadStep ==
    ASSUME OneRun, IInv, SameBooks, UNCHANGED signalVars, safe' = safe, NEW pc, NEW g, NEW seen,
           Reads(pc, g, seen), ReadAllowed(pc, g, seen)
    PROVE  IInv'
<1>1. /\ R'.pc = pc /\ R'.i = R.i /\ R'.date = R.date /\ R'.generation = g /\ R'.seen = seen
      /\ UNCHANGED <<session, wanted, weight, generation, target, qty, key, marker, sell>>
  BY DEF Reads, SameBooks, clockVars, coreVars
<1>2. TypeOK /\ safe \in BOOLEAN /\ Done' = Done /\ Symbol(Scheduler)' = Symbol(Scheduler)
  BY <1>1 DEF IInv, TypeOK, Done, Symbol, R
<1>3. TypeOK'
  BY <1>2, TypesKept DEF Reads
<1>4. RowsKnown'
  BY <1>1, RowsKept DEF IInv, ReadAllowed, Places2, Buying
<1>5. Dates'
  BY <1>1 DEF IInv, Dates, ReadAllowed, Evaluating, Trading, Freezing, Selling, Buying
<1>6. WeightsKnown'
  <2>1. R.pc \in Trading /\ pc \in {"key", "read", "write"}
    BY DEF ReadAllowed, Trading, Freezing
  <2>2. \A d, s : WeightOf(d, s)' <=> WeightOf(d, s)
    BY <1>1 DEF WeightOf
  <2>3. pc = "write" => seen = weight[Symbol(Scheduler)]
    BY DEF ReadAllowed
  <2> QED  BY <1>1, <1>2, <2>1, <2>2, <2>3 DEF IInv, WeightsKnown
<1>7. GenerationsKnown'
  <2>1. CASE pc = "key"
    BY <1>1, <1>2, <2>1 DEF IInv, GenerationsKnown, ReadAllowed, Freezing, Selling, Buying
  <2>2. CASE pc \in {"read", "write"}
    <3>1. R.pc \in Freezing /\ g = R.generation /\ R.pc \in {"plan", "read"} /\ (R.pc = "plan" => R.i = 1)
      BY <2>2 DEF ReadAllowed, Freezing, IInv, Dates
    <3>2. R.pc = "plan" => Done = {}
      BY <3>1, Loops DEF Done
    <3>3. \A s \in Done : generation[s] = g
      BY <3>1, <3>2 DEF IInv, GenerationsKnown
    <3> QED  BY <1>1, <1>2, <2>2, <3>1, <3>3 DEF IInv, GenerationsKnown, Freezing, Selling, Buying
  <2> QED  BY <2>1, <2>2 DEF ReadAllowed
<1>8. Progress'
  BY <1>1 DEF Progress, Buying, ReadAllowed
<1> QED  BY <1>3, <1>4, <1>5, <1>6, <1>7, <1>8 DEF IInv

LEMMA CheckGenerationsStep ==
    ASSUME OneRun, IInv, CheckGenerations(Scheduler)
    PROVE  IInv'
<1>1. /\ R.pc = "generations" /\ SameBooks /\ UNCHANGED signalVars /\ safe' = safe /\ TypeOK
      /\ safe \in BOOLEAN
  BY DEF CheckGenerations, At, R, SameBooks, stateVars, IInv, TypeOK
<1>2. CASE Return(Scheduler)
  BY <1>1, <1>2, Returns, ReturnMoves
<1>3. ASSUME NEW g \in Sessions, Tradable(Scheduler, g),
             run' = [run EXCEPT ![Scheduler].pc = "key", ![Scheduler].generation = g]
      PROVE  IInv'
  <2>1. run \in [Runs -> RunRecords] /\ Scheduler \in Runs /\ R \in RunRecords /\ R.date \in 0..MaxSessions
    BY <1>1, RunType
  <2>2. PICK q : q = [R EXCEPT !.pc = "key", !.generation = g]
    OBVIOUS
  <2>3. /\ q \in RunRecords /\ q.pc = "key" /\ q.generation = g /\ q.i = R.i /\ q.date = R.date
        /\ q.seen = R.seen
    <3>1. g \in 0..MaxSessions
      BY Constants DEF Sessions
    <3> QED  BY <2>1, <2>2, <3>1 DEF RunRecords, Places
  <2>4. run' = [run EXCEPT ![Scheduler] = q]
    BY <1>3, <2>2 DEF R
  <2>5. run' \in [Runs -> RunRecords] /\ R' = q
    BY <2>1, <2>3, <2>4 DEF R
  <2>6. Reads("key", g, R.seen)
    BY <2>3, <2>5 DEF Reads
  <2>7. 1 <= g /\ g <= R.date
    BY <1>3, <2>1, Constants DEF Tradable, Started, Sessions, R
  <2>8. \A s \in Symbols : generation[s] \in {0, g}
    <3>1. generation \in [Symbols -> 0..MaxSessions]
      BY <1>1 DEF TypeOK
    <3> QED  BY <1>3, <3>1 DEF Tradable, Range
  <2>9. ReadAllowed("key", g, R.seen)
    BY <1>1, <2>7, <2>8 DEF ReadAllowed
  <2> QED  BY <1>1, <2>6, <2>9, ReadStep
<1> QED  BY <1>2, <1>3 DEF CheckGenerations

LEMMA PlanStep ==
    ASSUME OneRun, IInv, Plan(Scheduler)
    PROVE  IInv'
<1>1. /\ R.pc = "plan" /\ SameBooks /\ UNCHANGED signalVars /\ safe' = safe /\ TypeOK
  BY DEF Plan, At, R, SameBooks, stateVars, IInv
<1>2. PICK plan \in [Symbols -> Quantities] :
          run' = [run EXCEPT ![Scheduler].pc = "read", ![Scheduler].plan = plan]
  BY DEF Plan, Quantities
<1>3. run \in [Runs -> RunRecords] /\ Scheduler \in Runs /\ R \in RunRecords
  BY <1>1, RunType
<1>4. PICK q : q = [R EXCEPT !.pc = "read", !.plan = plan]
  OBVIOUS
<1>5. /\ q \in RunRecords /\ q.pc = "read" /\ q.generation = R.generation /\ q.i = R.i
      /\ q.date = R.date /\ q.seen = R.seen
  BY <1>3, <1>4 DEF RunRecords, Places
<1>6. run' = [run EXCEPT ![Scheduler] = q]
  BY <1>2, <1>4 DEF R
<1>7. run' \in [Runs -> RunRecords] /\ R' = q
  BY <1>3, <1>5, <1>6 DEF R
<1>8. Reads("read", R.generation, R.seen) /\ ReadAllowed("read", R.generation, R.seen)
  BY <1>1, <1>5, <1>7 DEF Reads, ReadAllowed
<1> QED  BY <1>1, <1>8, ReadStep

LEMMA FreezeReadStep ==
    ASSUME OneRun, IInv, FreezeRead(Scheduler)
    PROVE  IInv'
<1>1. /\ R.pc = "read" /\ SameBooks /\ UNCHANGED signalVars /\ safe' = safe /\ TypeOK
  BY DEF FreezeRead, At, R, SameBooks, stateVars, IInv
<1>2. PICK w : w = weight[Symbol(Scheduler)]
  OBVIOUS
<1>3. run \in [Runs -> RunRecords] /\ Scheduler \in Runs /\ R \in RunRecords /\ w \in Weights
  BY <1>1, <1>2, RunType DEF TypeOK
<1>4. PICK q : q = [R EXCEPT !.pc = "write", !.seen = w]
  OBVIOUS
<1>5. /\ q \in RunRecords /\ q.pc = "write" /\ q.generation = R.generation /\ q.i = R.i
      /\ q.date = R.date /\ q.seen = w
  BY <1>3, <1>4 DEF RunRecords, Places
<1>6. run' = [run EXCEPT ![Scheduler] = q]
  BY <1>2, <1>4 DEF R, FreezeRead
<1>7. run' \in [Runs -> RunRecords] /\ R' = q
  BY <1>3, <1>5, <1>6 DEF R
<1>8. Reads("write", R.generation, w) /\ ReadAllowed("write", R.generation, w)
  BY <1>1, <1>2, <1>5, <1>7 DEF Reads, ReadAllowed
<1> QED  BY <1>1, <1>8, ReadStep

-----------------------------------------------------------------------------
(* Steps that write a target, the key or the marker *)

LEMMA MarkEvaluatedStep ==
    ASSUME OneRun, IInv, MarkEvaluated(Scheduler)
    PROVE  IInv'
<1>1. /\ R.pc = "mark" /\ TypeOK /\ marker' = R.date /\ Goto(Scheduler, "generations")
      /\ UNCHANGED <<session, started, wanted, weight, generation, target, qty, key, safe, sell, crashes>>
      /\ UNCHANGED signalVars
  BY DEF MarkEvaluated, At, R, clockVars, coreVars, IInv
<1>2. Moves("generations", 1)
  BY <1>1, GotoMoves DEF Places
<1>3. /\ run' \in [Runs -> RunRecords] /\ R'.pc = "generations" /\ R'.i = 1 /\ R'.date = R.date
  BY <1>2 DEF Moves
<1>4. R.date \in 0..MaxSessions /\ marker < R.date /\ 1 <= R.date /\ R.date <= session
  BY <1>1, RunType DEF IInv, Dates, Evaluating
<1>5. TypeOK'
  BY <1>1, <1>3, <1>4 DEF TypeOK, signalVars, RunRecords
<1>6. marker \in Nat /\ key \in Nat /\ session \in Nat /\ R.date \in Nat /\ \A g \in Sessions : g \in Nat
  BY <1>1, <1>4, Constants DEF TypeOK, Sessions
<1>7. RowsKnown'
  <2> SUFFICES ASSUME NEW s \in Symbols, NEW g \in Sessions
               PROVE  RowFacts(s, g, sell[s][g])'
    BY DEF RowsKnown
  <2> DEFINE row == sell[s][g]
  <2>1. RowFacts(s, g, row) /\ sell'[s][g] = row
    BY <1>1 DEF IInv, RowsKnown
  <2>2. ~Applying(s, g) /\ ~Applying(s, g)'
    BY <1>1, <1>3 DEF Applying
  <2> HIDE DEF row
  <2> QED  BY <1>1, <1>3, <1>4, <1>6, <2>1, <2>2 DEF RowFacts, Live, Buying
<1>8. Dates'
  BY <1>1, <1>3, <1>4, <1>6 DEF IInv, Dates, Evaluating, Trading, Freezing, Selling, Buying
<1>9. WeightsKnown'
  <2>1. \A d, s : WeightOf(d, s)' <=> WeightOf(d, s)
    BY <1>1 DEF WeightOf
  <2>2. \A s \in Symbols : WeightOf(R.date, s)
    BY <1>1 DEF IInv, WeightsKnown
  <2> QED  BY <1>1, <1>3, <2>1, <2>2 DEF WeightsKnown
<1>10. GenerationsKnown'
  BY <1>1, <1>3 DEF IInv, GenerationsKnown, Freezing, Selling, Buying
<1>11. Progress'
  BY <1>3 DEF Progress, Buying
<1> QED  BY <1>5, <1>7, <1>8, <1>9, <1>10, <1>11 DEF IInv

LEMMA ClearKeyStep ==
    ASSUME OneRun, IInv, ClearKey(Scheduler)
    PROVE  IInv'
<1>1. /\ R.pc = "clear" /\ TypeOK /\ key' = 0 /\ Goto(Scheduler, "mark")
      /\ UNCHANGED <<session, started, wanted, weight, generation, target, qty, marker, safe, sell, crashes>>
      /\ UNCHANGED signalVars
  BY DEF ClearKey, At, R, clockVars, coreVars, IInv
<1>2. Moves("mark", 1)
  BY <1>1, GotoMoves DEF Places
<1>3. /\ run' \in [Runs -> RunRecords] /\ R'.pc = "mark" /\ R'.i = 1 /\ R'.date = R.date
  BY <1>2 DEF Moves
<1>4. /\ R.date \in 0..MaxSessions /\ marker < R.date /\ key <= marker
      /\ \A s \in Symbols : generation[s] = R.date
  BY <1>1, RunType DEF IInv, Dates, Evaluating, GenerationsKnown
<1>5. TypeOK'
  BY <1>1, <1>3, Constants DEF TypeOK, signalVars, RunRecords
<1>6. marker \in Nat /\ key \in Nat /\ session \in Nat /\ R.date \in Nat
      /\ \A g \in Sessions : g \in Nat /\ g # 0
  BY <1>1, <1>4, Constants DEF TypeOK, Sessions
<1>7. RowsKnown'
  <2> SUFFICES ASSUME NEW s \in Symbols, NEW g \in Sessions
               PROVE  RowFacts(s, g, sell[s][g])'
    BY DEF RowsKnown
  <2> DEFINE row == sell[s][g]
  <2>1. RowFacts(s, g, row) /\ sell'[s][g] = row
    BY <1>1 DEF IInv, RowsKnown
  <2>2. ~Applying(s, g) /\ ~Applying(s, g)'
    BY <1>1, <1>3 DEF Applying
  <2>3. generation[s] = R.date
    BY <1>4
  <2> HIDE DEF row
  <2>4. ~Live(row)
    BY <1>4, <1>6, <2>1, <2>3 DEF RowFacts
  <2>5. generation[s] = g => row.status = "NONE"
    BY <1>4, <1>6, <2>1, <2>3 DEF RowFacts
  <2> QED  BY <1>1, <1>3, <1>6, <2>1, <2>2, <2>4, <2>5 DEF RowFacts, Live, Buying
<1>8. Dates'
  BY <1>1, <1>3, <1>4, <1>6 DEF IInv, Dates, Evaluating, Trading, Freezing, Selling, Buying
<1>9. WeightsKnown'
  <2>1. \A d, s : WeightOf(d, s)' <=> WeightOf(d, s)
    BY <1>1 DEF WeightOf
  <2> QED
    BY <1>1, <1>3, <2>1 DEF IInv, WeightsKnown, Trading, Freezing, Selling, Buying
<1>10. GenerationsKnown'
  BY <1>1, <1>3 DEF IInv, GenerationsKnown, Freezing, Selling, Buying
<1>11. Progress'
  BY <1>3 DEF Progress, Buying
<1> QED  BY <1>5, <1>7, <1>8, <1>9, <1>10, <1>11 DEF IInv

LEMMA StampKeyStep ==
    ASSUME OneRun, IInv, StampKey(Scheduler)
    PROVE  IInv'
<1>1. /\ R.pc = "stamp" /\ TypeOK /\ key' = R.generation /\ Goto(Scheduler, "sells")
      /\ UNCHANGED <<session, started, wanted, weight, generation, target, qty, marker, safe, sell, crashes>>
      /\ UNCHANGED signalVars
  BY DEF StampKey, At, R, clockVars, coreVars, IInv
<1>2. Moves("sells", 1)
  BY <1>1, GotoMoves DEF Places
<1>3. /\ run' \in [Runs -> RunRecords] /\ R'.pc = "sells" /\ R'.i = 1 /\ R'.date = R.date
  BY <1>2 DEF Moves
<1>4. /\ R.generation \in 0..MaxSessions /\ 1 <= R.generation /\ R.generation <= R.date
      /\ key # R.generation /\ R.date = marker
      /\ \A s \in Symbols : generation[s] = R.generation
  BY <1>1, RunType DEF IInv, Dates, Trading, Freezing, GenerationsKnown, RunRecords
<1>5. TypeOK'
  BY <1>1, <1>3, <1>4 DEF TypeOK, signalVars, RunRecords
<1>6. marker \in Nat /\ R.generation \in Nat /\ session \in Nat /\ \A g \in Sessions : g \in Nat
  BY <1>1, <1>4, Constants DEF TypeOK, Sessions
<1>7. RowsKnown'
  <2> SUFFICES ASSUME NEW s \in Symbols, NEW g \in Sessions
               PROVE  RowFacts(s, g, sell[s][g])'
    BY DEF RowsKnown
  <2> DEFINE row == sell[s][g]
  <2>1. RowFacts(s, g, row) /\ sell'[s][g] = row
    BY <1>1 DEF IInv, RowsKnown
  <2>2. ~Applying(s, g) /\ ~Applying(s, g)'
    BY <1>1, <1>3 DEF Applying
  <2>3. generation[s] = R.generation
    BY <1>4
  <2> HIDE DEF row
  <2>4. ~Live(row)
    BY <1>4, <2>1, <2>3 DEF RowFacts
  <2>5. generation[s] = g => row.status = "NONE"
    BY <1>4, <2>1, <2>3 DEF RowFacts
  <2> QED  BY <1>1, <1>3, <1>4, <2>1, <2>2, <2>3, <2>4, <2>5 DEF RowFacts, Live, Buying
<1>8. Dates'
  BY <1>1, <1>3, <1>4, <1>6 DEF IInv, Dates, Evaluating, Trading, Freezing, Selling, Buying
<1>9. WeightsKnown'
  <2>1. \A d, s : WeightOf(d, s)' <=> WeightOf(d, s)
    BY <1>1 DEF WeightOf
  <2> QED
    BY <1>1, <1>3, <2>1 DEF IInv, WeightsKnown, Trading, Freezing, Selling, Buying
<1>10. GenerationsKnown'
  BY <1>1, <1>3, <1>4, <1>6 DEF GenerationsKnown, Freezing, Selling, Buying
<1>11. Progress'
  BY <1>3 DEF Progress, Buying
<1> QED  BY <1>5, <1>7, <1>8, <1>9, <1>10, <1>11 DEF IInv

LEMMA SetTargetStep ==
    ASSUME OneRun, IInv, SetTarget(Scheduler)
    PROVE  IInv'
<1>1. PICK x \in Symbols : x = Symbol(Scheduler) /\ x = SymbolOrder[R.i]
  BY RunType DEF IInv
<1>2. /\ R.pc = "set" /\ TypeOK /\ NextSymbol(Scheduler, "set", "clear")
      /\ weight' = [weight EXCEPT ![x] = wanted[R.date][x]]
      /\ generation' = [generation EXCEPT ![x] = R.date]
      /\ target' = [target EXCEPT ![x] = 0]
      /\ UNCHANGED <<session, started, wanted, qty, key, marker, safe, sell, crashes>>
      /\ UNCHANGED signalVars
  BY <1>1 DEF SetTarget, SetCoreTarget, At, R, clockVars, stateVars, IInv
<1>3. \/ R.i < Len(SymbolOrder) /\ Moves("set", R.i + 1)
      \/ R.i = Len(SymbolOrder) /\ Moves("clear", 1)
  BY <1>2, NextSymbolMoves DEF Places
<1>4. /\ run' \in [Runs -> RunRecords] /\ R'.date = R.date
      /\ \/ R'.pc = "set" /\ Done' = Done \cup {x}
         \/ R'.pc = "clear" /\ Symbols = Done \cup {x}
  BY <1>1, <1>2, <1>3, RunType, Loops DEF Moves, Done
<1>5. /\ R.date \in 0..MaxSessions /\ marker < R.date /\ key <= marker /\ 1 <= R.date
      /\ R.date <= session
  BY <1>2, RunType DEF IInv, Dates, Evaluating
<1>6. marker \in Nat /\ key \in Nat /\ session \in Nat /\ R.date \in Nat
      /\ R.date \in Sessions /\ \A g \in Sessions : g \in Nat /\ g # 0
  BY <1>2, <1>5, Constants DEF TypeOK, Sessions
<1>7. TypeOK'
  <2>1. wanted[R.date][x] \in Weights /\ 0 \in Quantities
    BY <1>2, <1>6, Constants DEF TypeOK, Quantities
  <2>2. /\ weight' \in [Symbols -> Weights] /\ generation' \in [Symbols -> 0..MaxSessions]
        /\ target' \in [Symbols -> Quantities]
    BY <1>2, <1>5, <2>1 DEF TypeOK
  <2> QED  BY <1>2, <1>4, <2>2 DEF TypeOK, signalVars, RunRecords
<1>8. \A s \in Symbols : /\ generation'[s] = IF s = x THEN R.date ELSE generation[s]
                         /\ s # x => weight'[s] = weight[s] /\ target'[s] = target[s]
                         /\ s = x => weight'[s] = wanted[R.date][s]
  BY <1>2 DEF TypeOK
<1>9. RowsKnown'
  <2> SUFFICES ASSUME NEW s \in Symbols, NEW g \in Sessions
               PROVE  RowFacts(s, g, sell[s][g])'
    BY DEF RowsKnown
  <2> DEFINE row == sell[s][g]
  <2>1. RowFacts(s, g, row) /\ sell'[s][g] = row
    BY <1>2 DEF IInv, RowsKnown
  <2>2. ~Applying(s, g) /\ ~Applying(s, g)'
    BY <1>2, <1>4 DEF Applying
  <2> HIDE DEF row
  <2>3. ~Live(row)
    BY <1>2, <2>1, <2>2 DEF RowFacts, Live
  <2>4. row.status # "NONE" => g # R.date
    BY <1>5, <1>6, <2>1 DEF RowFacts
  <2>5. generation'[s] = IF s = x THEN R.date ELSE generation[s]
    BY <1>8
  <2>6. s # x => target'[s] = target[s]
    BY <1>8
  <2>7. key # R.date /\ R.date # 0
    BY <1>5, <1>6
  <2> QED  BY <1>2, <1>4, <2>1, <2>2, <2>3, <2>4, <2>5, <2>6, <2>7 DEF RowFacts, Live, Buying
<1>10. Dates'
  BY <1>2, <1>4, <1>5, <1>6 DEF IInv, Dates, Evaluating, Trading, Freezing, Selling, Buying
<1>11. WeightsKnown'
  <2>1. \A s \in Done \cup {x} : WeightOf(R.date, s)'
    BY <1>2, <1>4, <1>8, RunType DEF IInv, WeightsKnown, WeightOf
  <2>2. marker # session
    BY <1>5, <1>6
  <2>3. R'.pc \notin Trading /\ R'.pc \notin {"compare", "mark", "write"}
    BY <1>4 DEF Trading, Freezing, Selling, Buying
  <2>4. R'.pc = "clear" => \A s \in Symbols : WeightOf(R.date, s)'
    BY <1>4, <2>1
  <2> QED  BY <1>2, <1>4, <2>1, <2>2, <2>3, <2>4 DEF WeightsKnown, WeightOf
<1>12. GenerationsKnown'
  <2>1. \A s \in Done \cup {x} : generation'[s] = R.date
    BY <1>2, <1>8, RunType DEF IInv, GenerationsKnown
  <2>2. key # 0 => \A s \in Symbols : generation'[s] # 0
    BY <1>5, <1>6, <1>8 DEF IInv, GenerationsKnown
  <2> QED  BY <1>2, <1>4, <2>1, <2>2 DEF GenerationsKnown, Freezing, Selling, Buying
<1>13. Progress'
  BY <1>4 DEF Progress, Buying
<1> QED  BY <1>7, <1>9, <1>10, <1>11, <1>12, <1>13 DEF IInv

LEMMA FreezeWriteStep ==
    ASSUME OneRun, IInv, FreezeWrite(Scheduler)
    PROVE  IInv'
<1>1. PICK x \in Symbols, G \in 0..MaxSessions : x = Symbol(Scheduler) /\ x = SymbolOrder[R.i] /\ G = R.generation
  BY RunType DEF IInv, RunRecords
<1>2. /\ R.pc = "write" /\ TypeOK /\ NextSymbol(Scheduler, "read", "stamp")
      /\ weight' = [weight EXCEPT ![x] = R.seen]
      /\ generation' = [generation EXCEPT ![x] = G]
      /\ target' = [target EXCEPT ![x] = R.plan[x]]
      /\ UNCHANGED <<session, started, wanted, qty, key, marker, safe, sell, crashes>>
      /\ UNCHANGED signalVars
  BY <1>1 DEF FreezeWrite, SetCoreTarget, At, R, clockVars, stateVars, IInv
<1>3. \/ R.i < Len(SymbolOrder) /\ Moves("read", R.i + 1)
      \/ R.i = Len(SymbolOrder) /\ Moves("stamp", 1)
  BY <1>2, NextSymbolMoves DEF Places
<1>4. /\ run' \in [Runs -> RunRecords] /\ R'.date = R.date /\ R'.generation = G
      /\ \/ R'.pc = "read" /\ Done' = Done \cup {x}
         \/ R'.pc = "stamp" /\ Symbols = Done \cup {x}
  BY <1>1, <1>2, <1>3, RunType, Loops DEF Moves, Done
<1>5. /\ G \in 0..MaxSessions /\ 1 <= G /\ G <= R.date /\ G # key /\ R.date = marker
      /\ \A s \in Symbols : generation[s] \in {0, G}
      /\ \A s \in Done : generation[s] = G
  BY <1>1, <1>2, RunType DEF IInv, Dates, GenerationsKnown, Freezing, Trading, RunRecords
<1>6. weight' = weight
  <2>1. R.seen = weight[x]
    BY <1>1, <1>2 DEF IInv, WeightsKnown
  <2> QED  BY <1>2, <2>1 DEF TypeOK
<1>7. TypeOK'
  <2>1. R.plan[x] \in Quantities
    BY <1>2, RunType DEF RunRecords
  <2>2. generation' \in [Symbols -> 0..MaxSessions] /\ target' \in [Symbols -> Quantities]
    BY <1>2, <1>5, <2>1 DEF TypeOK
  <2> QED  BY <1>2, <1>4, <1>6, <2>2 DEF TypeOK, signalVars, RunRecords
<1>8. \A s \in Symbols : /\ generation'[s] = IF s = x THEN G ELSE generation[s]
                         /\ s # x => target'[s] = target[s]
  BY <1>2 DEF TypeOK
<1>9. RowsKnown'
  <2> SUFFICES ASSUME NEW s \in Symbols, NEW g \in Sessions
               PROVE  RowFacts(s, g, sell[s][g])'
    BY DEF RowsKnown
  <2> DEFINE row == sell[s][g]
  <2>1. RowFacts(s, g, row) /\ sell'[s][g] = row
    BY <1>2 DEF IInv, RowsKnown
  <2>2. ~Applying(s, g) /\ ~Applying(s, g)'
    BY <1>2, <1>4 DEF Applying
  <2> HIDE DEF row
  <2>3. generation[s] \in {0, G} /\ G # 0 /\ g # 0
    BY <1>5, Constants DEF Sessions
  <2>4. ~Live(row)
    BY <1>5, <2>1, <2>3 DEF RowFacts
  <2>5. generation'[s] = IF s = x THEN G ELSE generation[s]
    BY <1>8
  <2>6. s # x => target'[s] = target[s]
    BY <1>8
  <2>7. key # G
    BY <1>5
  <2>8. row.status # "NONE" => generation[s] # 0 /\ g # G
    BY <2>1, <2>3, <2>7 DEF RowFacts
  <2> QED  BY <1>2, <1>4, <2>1, <2>2, <2>3, <2>4, <2>5, <2>6, <2>7, <2>8 DEF RowFacts, Live, Buying
<1>10. Dates'
  BY <1>2, <1>4 DEF IInv, Dates, Evaluating, Trading, Freezing, Selling, Buying
<1>11. WeightsKnown'
  <2>1. \A d, s : WeightOf(d, s)' <=> WeightOf(d, s)
    BY <1>2, <1>6 DEF WeightOf
  <2> QED
    BY <1>2, <1>4, <2>1 DEF IInv, WeightsKnown, Trading, Freezing, Selling, Buying
<1>12. GenerationsKnown'
  <2>1. \A s \in Done \cup {x} : generation'[s] = G
    BY <1>5, <1>8, <1>2, RunType
  <2>2. key # 0 => \A s \in Symbols : generation'[s] # 0
    BY <1>5, <1>8 DEF IInv, GenerationsKnown
  <2>3. \A s \in Symbols : generation'[s] \in {0, G}
    BY <1>5, <1>8
  <2> QED  BY <1>2, <1>4, <1>5, <2>1, <2>2, <2>3 DEF GenerationsKnown, Freezing, Selling, Buying
<1>13. Progress'
  BY <1>4 DEF Progress, Buying
<1> QED  BY <1>7, <1>9, <1>10, <1>11, <1>12, <1>13 DEF IInv

-----------------------------------------------------------------------------
(* Steps that write a SELL *)

\* The row of x and h becomes another one; the others stay.
Writes(x, h, new) ==
    /\ sell' \in [Symbols -> [Sessions -> RowRecords]]
    /\ \A s \in Symbols, g \in Sessions : sell'[s][g] = IF s = x /\ g = h THEN new ELSE sell[s][g]

LEMMA RowWritten ==
    ASSUME TypeOK, NEW x \in Symbols, NEW h \in Sessions, NEW new \in RowRecords,
           sell' = [sell EXCEPT ![x][h] = new]
    PROVE  Writes(x, h, new)
<1>1. sell \in [Symbols -> [Sessions -> RowRecords]]
  BY DEF TypeOK, RowRecords
<1>2. PICK f : f = [sell[x] EXCEPT ![h] = new]
  OBVIOUS
<1>3. f \in [Sessions -> RowRecords] /\ \A g \in Sessions : f[g] = IF g = h THEN new ELSE sell[x][g]
  BY <1>1, <1>2
<1>4. sell' = [sell EXCEPT ![x] = f]
  BY <1>2
<1> QED  BY <1>1, <1>3, <1>4 DEF Writes

LEMMA RowType ==
    ASSUME IInv, NEW s \in Symbols, NEW g \in Sessions
    PROVE  /\ sell[s][g] \in RowRecords /\ sell[s][g].qty \in Nat /\ RowFacts(s, g, sell[s][g])
           /\ qty[s] \in Nat /\ target[s] \in Nat /\ qty[s] <= MaxTarget
           /\ g \in 0..MaxSessions /\ g \in Nat /\ g # 0
<1>1. TypeOK /\ RowsKnown
  BY DEF IInv
<1>2. sell[s][g] \in RowRecords /\ qty[s] \in Quantities /\ target[s] \in Quantities
  BY <1>1 DEF TypeOK, RowRecords
<1>3. sell[s][g].qty \in Quantities
  BY <1>2 DEF RowRecords
<1>4. RowFacts(s, g, sell[s][g])
  BY <1>1 DEF RowsKnown
<1>5. g \in 0..MaxSessions /\ g \in Nat /\ g # 0
  BY Constants DEF Sessions
<1> QED  BY <1>2, <1>3, <1>4, <1>5, Constants DEF Quantities

\* n of the shares of x are taken from the ledger.
Takes(x, n) ==
    /\ qty' \in [Symbols -> Quantities]
    /\ \A s \in Symbols : qty'[s] = IF s = x THEN qty[s] - n ELSE qty[s]

LEMMA SharesTaken ==
    ASSUME TypeOK, NEW x \in Symbols, NEW n \in Nat, n <= qty[x], qty' = [qty EXCEPT ![x] = @ - n]
    PROVE  Takes(x, n)
<1>1. qty \in [Symbols -> Quantities] /\ qty[x] \in Quantities
  BY DEF TypeOK
<1>2. qty[x] - n \in Quantities
  BY <1>1, Constants DEF Quantities
<1>3. PICK k \in Quantities : k = qty[x] - n
  BY <1>2
<1>4. qty' = [qty EXCEPT ![x] = k]
  BY <1>3
<1> QED  BY <1>1, <1>3, <1>4 DEF Takes

\* What the end of a SELL leaves alone.
SameTargets == UNCHANGED <<clockVars, weight, generation, target, stateVars, crashes>>

\* A SELL that was not final ends after n of its shares are taken.
Ended(row, new, n) ==
    /\ new \in RowRecords /\ new.status \in {"FILLED", "CANCELED"} /\ new.applied = TRUE
    /\ n <= row.qty /\ (new.status = "FILLED" => n = row.qty)

LEMMA LiveRowEnds ==
    ASSUME OneRun, IInv, SameTargets, NEW x \in Symbols, NEW h \in Sessions, Live(sell[x][h]),
           NEW n \in Nat, NEW new, Ended(sell[x][h], new, n), Writes(x, h, new), Takes(x, n),
           R.pc = "apply" => Applying(x, h), R'.pc # "apply",
           R.pc = "idle" => R'.pc = "idle", R'.pc \notin Places2
    PROVE  RowsKnown'
<1> SUFFICES ASSUME NEW s \in Symbols, NEW g \in Sessions
             PROVE  RowFacts(s, g, sell[s][g])'
  BY DEF RowsKnown
<1>1. /\ UNCHANGED <<generation, target, key, marker, safe>>
  BY DEF SameTargets, stateVars
<1>2. /\ key = h /\ \A y \in Symbols : generation[y] = h
      /\ sell[x][h].qty <= qty[x] /\ qty[x] - sell[x][h].qty <= target[x]
      /\ h <= marker /\ h # 0
  BY RowType DEF RowFacts, Live
<1>3. ~Applying(s, g)'
  BY DEF Applying
<1> DEFINE row == sell[s][g]
<1>4. RowFacts(s, g, row)
  BY RowType
<1>5. CASE s = x /\ g = h
  <2>1. sell'[s][g] = new
    BY <1>5 DEF Writes
  <2>2. new.status = "FILLED" => qty'[s] <= target[s]
    BY <1>2, <1>5, RowType DEF Takes, Ended
  <2>3. new.status \in {"FILLED", "CANCELED"} /\ new.applied = TRUE
    BY DEF Ended
  <2>4. generation[s] = h
    BY <1>2
  <2> QED  BY <1>1, <1>2, <1>3, <1>5, <2>1, <2>2, <2>3, <2>4 DEF RowFacts, Live
<1>6. CASE ~(s = x /\ g = h)
  <2>1. sell'[s][g] = row
    BY <1>6 DEF Writes
  <2>2. row.status = "FILLED" => row.applied = TRUE
    <3>1. ~Applying(s, g)
      BY <1>6 DEF Applying
    <3> QED  BY <1>4, <3>1 DEF RowFacts
  <2>3. s # x => qty'[s] = qty[s]
    BY DEF Takes
  <2>4. g # h => ~Live(row) /\ ~(key = g)
    BY <1>2, <1>4 DEF RowFacts
  <2> HIDE DEF row
  <2>5. row.status = "UNKNOWN" => safe /\ R'.pc = "idle"
    BY <1>4 DEF RowFacts
  <2>6. row.status = "OPEN" => R'.pc \notin {"set", "clear"} \cup Buying
    BY DEF Places2
  <2>7. g # h \/ s # x
    BY <1>6
  <2> QED  BY <1>1, <1>3, <1>4, <2>1, <2>2, <2>3, <2>4, <2>5, <2>6, <2>7 DEF RowFacts
<1> QED  BY <1>5, <1>6

\* The dates, weights and generations, when none of them is written and the run stays
\* where it is or goes on with the SELLs.
SellMoves ==
    \/ R' = R
    \/ R.pc \in {"sell", "apply"} /\ R'.pc \in {"sell", "barrier", "idle"} /\ R'.date = R.date
    \/ R.pc = "sell" /\ R'.pc = "apply" /\ R'.date = R.date /\ R'.generation = key

LEMMA PartsKept ==
    ASSUME IInv, UNCHANGED <<session, wanted, weight, generation, key, marker>>, SellMoves
    PROVE  Dates' /\ WeightsKnown' /\ GenerationsKnown'
<1>1. \A d, s : WeightOf(d, s)' <=> WeightOf(d, s)
  BY DEF WeightOf
<1>2. CASE R' = R
  <2>1. Done' = Done /\ Symbol(Scheduler)' = Symbol(Scheduler)
    BY <1>2 DEF Done, Symbol, R
  <2> QED  BY <1>1, <1>2, <2>1 DEF IInv, Dates, WeightsKnown, GenerationsKnown
<1>3. CASE /\ R.pc \in {"sell", "apply"} /\ R'.pc \in {"sell", "barrier", "idle", "apply"} /\ R'.date = R.date
           /\ R'.pc = "apply" => R'.generation = key
  <2>1. Dates'
    BY <1>3 DEF IInv, Dates, Evaluating, Trading, Freezing, Selling, Buying
  <2>2. WeightsKnown'
    BY <1>1, <1>3 DEF IInv, WeightsKnown, Trading, Freezing, Selling, Buying
  <2>3. GenerationsKnown'
    BY <1>3 DEF IInv, GenerationsKnown, Freezing, Selling, Buying
  <2> QED  BY <2>1, <2>2, <2>3
<1> QED  BY <1>2, <1>3 DEF SellMoves

LEMMA SettleSellStep ==
    ASSUME OneRun, IInv, SettleSell(Scheduler)
    PROVE  IInv'
<1>0. \A s \in Symbols, g \in Sessions : sell[s][g].qty \in Nat
  BY RowType
<1>1. PICK x \in Symbols, h \in Sessions, n \in Nat :
          /\ n <= sell[x][h].qty /\ sell[x][h].status = "OPEN"
          /\ sell' = [sell EXCEPT
                 ![x][h].status = IF n = sell[x][h].qty THEN "FILLED" ELSE "CANCELED",
                 ![x][h].applied = TRUE]
          /\ qty' = [qty EXCEPT ![x] = @ - n]
  <2>1. PICK x \in Symbols, h \in Sessions : \E n \in 0..sell[x][h].qty :
            /\ sell[x][h].status = "OPEN"
            /\ sell' = [sell EXCEPT
                   ![x][h].status = IF n = sell[x][h].qty THEN "FILLED" ELSE "CANCELED",
                   ![x][h].applied = TRUE]
            /\ qty' = [qty EXCEPT ![x] = @ - n]
    BY Zenon DEF SettleSell
  <2>2. PICK n \in 0..sell[x][h].qty :
            /\ sell[x][h].status = "OPEN"
            /\ sell' = [sell EXCEPT
                   ![x][h].status = IF n = sell[x][h].qty THEN "FILLED" ELSE "CANCELED",
                   ![x][h].applied = TRUE]
            /\ qty' = [qty EXCEPT ![x] = @ - n]
    BY <2>1
  <2>3. n \in Nat /\ n <= sell[x][h].qty
    BY <1>0
  <2> QED  BY <2>2, <2>3
<1>a. R.pc = "settle" /\ TypeOK /\ SameTargets /\ UNCHANGED signalVars /\ UNCHANGED run
  BY DEF SettleSell, At, R, SameTargets, IInv
<1>2. PICK status \in {"FILLED", "CANCELED"} :
          status = IF n = sell[x][h].qty THEN "FILLED" ELSE "CANCELED"
  OBVIOUS
<1>3. PICK new : new = [sell[x][h] EXCEPT !.status = status, !.applied = TRUE]
  OBVIOUS
<1>4. new \in RowRecords /\ new.status = status /\ new.applied = TRUE
  BY <1>3, RowType DEF RowRecords, Statuses
<1>5. sell' = [sell EXCEPT ![x][h] = new]
  BY <1>1, <1>2, <1>3
<1>6. n \in Nat /\ n <= sell[x][h].qty /\ n <= qty[x] /\ Live(sell[x][h])
  BY <1>1, <1>a, RowType DEF RowFacts, Live
<1>7. Ended(sell[x][h], new, n) /\ Writes(x, h, new) /\ Takes(x, n)
  BY <1>1, <1>a, <1>2, <1>4, <1>5, <1>6, RowWritten, SharesTaken DEF Ended
<1>8. R' = R
  BY <1>a DEF R
<1>9. RowsKnown'
  <2>1. R.pc # "apply" /\ R'.pc # "apply" /\ R.pc # "idle" /\ R'.pc \notin Places2
    BY <1>1, <1>a, <1>8 DEF Places2, Buying
  <2> QED  BY <1>a, <1>6, <1>7, <2>1, LiveRowEnds
<1>10. Dates' /\ WeightsKnown' /\ GenerationsKnown'
  BY <1>1, <1>a, <1>8, PartsKept DEF SellMoves, SameTargets, clockVars, stateVars
<1>11. Progress'
  BY <1>1, <1>a, <1>8 DEF Progress, Buying
<1>12. TypeOK'
  BY <1>1, <1>a, <1>7 DEF TypeOK, SameTargets, clockVars, stateVars, signalVars, Writes, Takes, RowRecords
<1> QED  BY <1>9, <1>10, <1>11, <1>12 DEF IInv

\* apply_core_fill of a whole SELL.
LEMMA SellIsApplied ==
    ASSUME OneRun, IInv, NEW x \in Symbols, NEW h \in Sessions, Live(sell[x][h]), ApplySell(x, h)
    PROVE  \E new : /\ Ended(sell[x][h], new, sell[x][h].qty) /\ Writes(x, h, new)
                    /\ Takes(x, sell[x][h].qty)
<1>1. sell[x][h].qty \in Nat /\ sell[x][h].qty <= qty[x] /\ sell[x][h] \in RowRecords /\ TypeOK
  BY RowType DEF RowFacts, IInv
<1>2. PICK new : new = SellApplied(sell[x][h])
  OBVIOUS
<1>3. new \in RowRecords /\ new.status = "FILLED" /\ new.applied = TRUE
  BY <1>1, <1>2 DEF RowRecords, Statuses, SellApplied
<1>4. sell' = [sell EXCEPT ![x][h] = new] /\ qty' = [qty EXCEPT ![x] = @ - sell[x][h].qty]
  BY <1>2 DEF ApplySell
<1>5. Writes(x, h, new) /\ Takes(x, sell[x][h].qty)
  BY <1>1, <1>3, <1>4, RowWritten, SharesTaken
<1>6. Ended(sell[x][h], new, sell[x][h].qty)
  BY <1>1, <1>3 DEF Ended
<1> QED  BY <1>5, <1>6

LEMMA ApplyOwnSellStep ==
    ASSUME OneRun, IInv, ApplyOwnSell(Scheduler)
    PROVE  IInv'
<1>1. PICK x \in Symbols, h \in 0..MaxSessions : x = Symbol(Scheduler) /\ x = SymbolOrder[R.i] /\ h = R.generation
  BY RunType DEF IInv, RunRecords
<1>2. /\ R.pc = "apply" /\ ApplySell(x, h) /\ NextSymbol(Scheduler, "sell", "barrier")
      /\ SameTargets /\ UNCHANGED signalVars /\ TypeOK
  BY <1>1 DEF ApplyOwnSell, At, R, SameTargets, IInv, ApplySell
<1>3. h = key /\ h \in Sessions
  <2>1. h = key /\ key # 0 /\ key \in 0..MaxSessions
    BY <1>1, <1>2 DEF IInv, GenerationsKnown, Selling, TypeOK
  <2> QED  BY <2>1, Constants DEF Sessions
<1>4. Applying(x, h) /\ Live(sell[x][h])
  <2>1. Applying(x, h)
    BY <1>1, <1>2 DEF Applying
  <2> QED  BY <1>3, <2>1, RowType DEF RowFacts, Live
<1>5. PICK new : /\ Ended(sell[x][h], new, sell[x][h].qty) /\ Writes(x, h, new)
                 /\ Takes(x, sell[x][h].qty)
  BY <1>2, <1>3, <1>4, SellIsApplied
<1>6. \/ R.i < Len(SymbolOrder) /\ Moves("sell", R.i + 1)
      \/ R.i = Len(SymbolOrder) /\ Moves("barrier", 1)
  BY <1>2, NextSymbolMoves DEF Places
<1>7. R'.pc \in {"sell", "barrier"} /\ R'.date = R.date /\ run' \in [Runs -> RunRecords]
  BY <1>6 DEF Moves
<1>8. RowsKnown'
  <2>1. R'.pc # "apply" /\ R.pc # "idle" /\ R'.pc \notin Places2 /\ sell[x][h].qty \in Nat
    BY <1>2, <1>3, <1>7, RowType DEF Places2, Buying
  <2> QED  BY <1>2, <1>3, <1>4, <1>5, <2>1, LiveRowEnds
<1>9. Dates' /\ WeightsKnown' /\ GenerationsKnown'
  BY <1>2, <1>7, PartsKept DEF SellMoves, SameTargets, clockVars, stateVars
<1>10. Progress'
  <2>1. UNCHANGED <<target, key>>
    BY <1>2 DEF SameTargets, stateVars
  <2>2. qty'[x] <= target[x]
    BY <1>3, <1>4, <1>5, RowType DEF RowFacts, Takes
  <2>3. ASSUME NEW s \in Done \cup {x} PROVE qty'[s] <= target'[s] \/ sell'[s][key].status = "OPEN"
    <3>1. CASE s = x
      BY <2>1, <2>2, <3>1
    <3>2. CASE s # x
      <4>1. s \in Symbols /\ Sold(s)
        BY <1>2, <3>2, RunType DEF IInv, Progress
      <4>2. qty'[s] = qty[s] /\ sell'[s][key] = sell[s][key]
        BY <1>3, <1>5, <3>2, <4>1 DEF Takes, Writes
      <4> QED  BY <2>1, <4>1, <4>2 DEF Sold
    <3> QED  BY <3>1, <3>2
  <2>4. CASE R.i < Len(SymbolOrder) /\ Moves("sell", R.i + 1)
    <3>1. Done' = Done \cup {x} /\ R'.pc = "sell"
      BY <1>1, <1>2, <2>4, RunType, Loops DEF Done, Moves
    <3> QED  BY <2>1, <2>3, <3>1 DEF Progress, Sold, Buying
  <2>5. CASE R.i = Len(SymbolOrder) /\ Moves("barrier", 1)
    <3>1. R'.pc = "barrier" /\ Symbols = Done \cup {x}
      BY <1>1, <2>5, Loops DEF Done, Moves
    <3>2. OpenSell' \/ \A s \in Symbols : qty'[s] <= target'[s]
      BY <1>3, <2>3, <3>1 DEF OpenSell, Rows
    <3> QED  BY <3>1, <3>2 DEF Progress, Buying
  <2> QED  BY <1>6, <2>4, <2>5
<1>11. TypeOK'
  BY <1>2, <1>5, <1>7 DEF TypeOK, SameTargets, clockVars, stateVars, signalVars, Writes, Takes, RowRecords, RunRecords
<1> QED  BY <1>8, <1>9, <1>10, <1>11 DEF IInv

LEMMA SellFillsStep ==
    ASSUME OneRun, IInv, NEW x \in Symbols, NEW h \in Sessions, SellFills(x, h)
    PROVE  IInv'
<1>1. /\ R.pc = "idle" /\ ApplySell(x, h) /\ UNCHANGED run /\ Live(sell[x][h])
      /\ SameTargets /\ UNCHANGED signalVars /\ TypeOK
  BY DEF SellFills, At, R, SameTargets, IInv, ApplySell, Live
<1>2. PICK new : /\ Ended(sell[x][h], new, sell[x][h].qty) /\ Writes(x, h, new)
                 /\ Takes(x, sell[x][h].qty)
  BY <1>1, SellIsApplied
<1>3. R' = R
  BY <1>1 DEF R
<1>4. RowsKnown'
  <2>1. R.pc # "apply" /\ R'.pc # "apply" /\ R'.pc = "idle" /\ R'.pc \notin Places2 /\ sell[x][h].qty \in Nat
    BY <1>1, <1>3, RowType DEF Places2, Buying
  <2> QED  BY <1>1, <1>2, <2>1, LiveRowEnds
<1>5. Dates' /\ WeightsKnown' /\ GenerationsKnown'
  BY <1>1, <1>3, PartsKept DEF SellMoves, SameTargets, clockVars, stateVars
<1>6. Progress'
  BY <1>1, <1>3 DEF Progress, Buying
<1>7. TypeOK'
  BY <1>1, <1>2 DEF TypeOK, SameTargets, clockVars, stateVars, signalVars, Writes, Takes, RowRecords
<1> QED  BY <1>4, <1>5, <1>6, <1>7 DEF IInv

\* A new SELL, of what the run finds beyond the target.
NewRow(x, new) ==
    /\ new \in RowRecords /\ new.qty = qty[x] - target[x] /\ new.applied = FALSE
    /\ new.status \in {"FILLED", "OPEN", "UNKNOWN"}

LEMMA SellIsNew ==
    ASSUME OneRun, IInv, NEW x \in Symbols, NEW h \in Sessions, h = key, R.pc = "sell",
           sell[x][h].status = "NONE", NEW new, NewRow(x, new), Writes(x, h, new),
           UNCHANGED <<qty, target, generation, key, marker>>, safe => safe',
           R'.pc \in {"sell", "barrier", "apply", "idle"},
           R'.pc = "apply" => new.status = "FILLED",
           new.status = "FILLED" => R'.pc = "apply" /\ R'.generation = h /\ Symbol(Scheduler)' = x,
           new.status = "UNKNOWN" => safe' /\ R'.pc = "idle"
    PROVE  RowsKnown'
<1> SUFFICES ASSUME NEW s \in Symbols, NEW g \in Sessions
             PROVE  RowFacts(s, g, sell[s][g])'
  BY DEF RowsKnown
<1>1. /\ h # 0 /\ h <= marker /\ \A y \in Symbols : generation[y] = h
  BY RowType DEF IInv, Dates, GenerationsKnown, Selling
<1> DEFINE row == sell[s][g]
<1>2. RowFacts(s, g, row) /\ ~Applying(s, g)
  BY RowType DEF Applying
<1>3. R'.pc \notin {"set", "clear"} \cup Buying
  BY DEF Buying
<1>4. CASE s = x /\ g = h
  <2>1. sell'[s][g] = new
    BY <1>4 DEF Writes
  <2>2. new.qty <= qty[s] /\ qty[s] - new.qty <= target[s]
    BY <1>4, RowType DEF NewRow
  <2>3. new.status = "FILLED" <=> Applying(s, g)'
    BY <1>4 DEF Applying
  <2>4. new.status \in {"FILLED", "OPEN", "UNKNOWN"} /\ new.applied = FALSE
    BY DEF NewRow
  <2>5. Applying(s, g)' \in BOOLEAN
    BY DEF Applying
  <2> QED  BY <1>1, <1>3, <1>4, <2>1, <2>2, <2>3, <2>4, <2>5 DEF RowFacts, Live
<1>5. CASE ~(s = x /\ g = h)
  <2>1. sell'[s][g] = row
    BY <1>5 DEF Writes
  <2>2. ~Applying(s, g)'
    BY <1>5 DEF Applying
  <2> HIDE DEF row
  <2>3. row.status # "UNKNOWN"
    BY <1>2 DEF RowFacts
  <2> QED  BY <1>1, <1>2, <1>3, <2>1, <2>2, <2>3 DEF RowFacts, Live
<1> QED  BY <1>4, <1>5

LEMMA SubmitSellStep ==
    ASSUME OneRun, IInv, SubmitSell(Scheduler)
    PROVE  IInv'
<1>1. PICK x \in Symbols, h \in 0..MaxSessions : x = Symbol(Scheduler) /\ x = SymbolOrder[R.i] /\ h = generation[x]
  BY RunType DEF IInv, TypeOK
<1> DEFINE Row(status) == [status |-> status, qty |-> qty[x] - target[x], applied |-> FALSE]
<1>2. /\ R.pc = "sell" /\ qty[x] > target[x] /\ sell[x][h].status = "NONE" /\ TypeOK
      /\ UNCHANGED <<clockVars, coreVars, key, marker, signalVars, crashes>>
      /\ \/ /\ sell' = [sell EXCEPT ![x][h] = Row("FILLED")]
            /\ run' = [run EXCEPT ![Scheduler].pc = "apply", ![Scheduler].generation = h]
            /\ UNCHANGED safe
         \/ /\ sell' = [sell EXCEPT ![x][h] = Row("OPEN")]
            /\ NextSymbol(Scheduler, "sell", "barrier")
            /\ UNCHANGED safe
         \/ /\ sell' = [sell EXCEPT ![x][h] = Row("UNKNOWN")]
            /\ Return(Scheduler) /\ safe' = TRUE
  BY <1>1 DEF SubmitSell, At, R, IInv
<1>3. h = key /\ h \in Sessions
  <2>1. h = key /\ key # 0 /\ key \in 0..MaxSessions
    BY <1>1, <1>2 DEF IInv, GenerationsKnown, Selling, TypeOK
  <2> QED  BY <2>1, Constants DEF Sessions
<1>4. \A status \in {"FILLED", "OPEN", "UNKNOWN"} :
          NewRow(x, Row(status)) /\ Row(status).status = status
  <2>1. qty[x] - target[x] \in Quantities
    BY <1>2, <1>3, RowType, Constants DEF Quantities
  <2> QED  BY <2>1 DEF NewRow, RowRecords, Statuses
<1> HIDE DEF Row
<1>5. UNCHANGED <<qty, target, generation, key, marker, session, wanted, weight>>
  BY <1>2 DEF clockVars, coreVars
<1>6. \A status \in {"FILLED", "OPEN", "UNKNOWN"} :
          sell' = [sell EXCEPT ![x][h] = Row(status)] => Writes(x, h, Row(status))
  BY <1>2, <1>3, <1>4, RowWritten DEF NewRow
<1>7. run \in [Runs -> RunRecords] /\ Scheduler \in Runs /\ R \in RunRecords /\ safe \in BOOLEAN
  BY <1>2, RunType DEF TypeOK
\* The others that the loop has done are sold, or have their SELL.
<1>8. ASSUME NEW status \in {"FILLED", "OPEN", "UNKNOWN"}, Writes(x, h, Row(status)),
             NEW s \in Done
      PROVE  Sold(s)'
  <2>1. Sold(s) /\ s \in Symbols
    BY <1>2, RunType DEF IInv, Progress
  <2>2. s # x \/ qty[s] <= target[s]
    BY <1>2, <1>3, <2>1 DEF Sold
  <2>3. s # x => sell'[s][key] = sell[s][key]
    BY <1>3, <1>8, <2>1 DEF Writes
  <2> QED  BY <1>5, <2>1, <2>2, <2>3 DEF Sold
<1>9. CASE /\ sell' = [sell EXCEPT ![x][h] = Row("FILLED")]
           /\ run' = [run EXCEPT ![Scheduler].pc = "apply", ![Scheduler].generation = h]
           /\ UNCHANGED safe
  <2>1. PICK q : q = [R EXCEPT !.pc = "apply", !.generation = h]
    OBVIOUS
  <2>2. h \in 0..MaxSessions
    BY <1>3, RowType, <1>1
  <2>3. /\ q \in RunRecords /\ q.pc = "apply" /\ q.generation = h /\ q.i = R.i /\ q.date = R.date
    BY <1>7, <2>1, <2>2 DEF RunRecords, Places
  <2>4. run' = [run EXCEPT ![Scheduler] = q]
    BY <1>9, <2>1 DEF R
  <2>5. run' \in [Runs -> RunRecords] /\ R' = q
    BY <1>7, <2>3, <2>4 DEF R
  <2>6. Symbol(Scheduler)' = x /\ Done' = Done
    BY <1>1, <2>3, <2>5 DEF Symbol, R, Done
  <2>7. Writes(x, h, Row("FILLED"))
    BY <1>6, <1>9
  <2>8. RowsKnown'
    BY <1>2, <1>3, <1>4, <1>5, <1>9, <2>3, <2>5, <2>6, <2>7, SellIsNew
  <2>9. Dates' /\ WeightsKnown' /\ GenerationsKnown'
    BY <1>2, <1>3, <1>5, <2>3, <2>5, PartsKept DEF SellMoves
  <2>10. Progress'
    BY <1>8, <2>3, <2>5, <2>6, <2>7 DEF Progress, Buying
  <2>11. TypeOK'
    BY <1>2, <1>9, <2>5, <2>7 DEF TypeOK, clockVars, coreVars, signalVars, Writes, RowRecords, RunRecords
  <2> QED  BY <2>8, <2>9, <2>10, <2>11 DEF IInv
<1>10. CASE /\ sell' = [sell EXCEPT ![x][h] = Row("OPEN")]
            /\ NextSymbol(Scheduler, "sell", "barrier")
            /\ UNCHANGED safe
  <2>1. \/ R.i < Len(SymbolOrder) /\ Moves("sell", R.i + 1)
        \/ R.i = Len(SymbolOrder) /\ Moves("barrier", 1)
    BY <1>2, <1>10, NextSymbolMoves DEF Places
  <2>2. R'.pc \in {"sell", "barrier"} /\ R'.date = R.date /\ run' \in [Runs -> RunRecords]
    BY <2>1 DEF Moves
  <2>3. Writes(x, h, Row("OPEN")) /\ Row("OPEN").status = "OPEN"
    BY <1>4, <1>6, <1>10
  <2>4. RowsKnown'
    BY <1>2, <1>3, <1>4, <1>5, <1>10, <2>2, <2>3, SellIsNew
  <2>5. Dates' /\ WeightsKnown' /\ GenerationsKnown'
    BY <1>2, <1>5, <2>2, PartsKept DEF SellMoves
  <2>6. Sold(x)'
    BY <1>3, <1>5, <2>3 DEF Sold, Writes
  <2>7. Progress'
    <3>1. CASE R.i < Len(SymbolOrder) /\ Moves("sell", R.i + 1)
      <4>1. Done' = Done \cup {x} /\ R'.pc = "sell"
        BY <1>1, <1>2, <3>1, RunType, Loops DEF Done, Moves
      <4> QED  BY <1>8, <2>3, <2>6, <4>1 DEF Progress, Buying
    <3>2. CASE R.i = Len(SymbolOrder) /\ Moves("barrier", 1)
      <4>1. sell'[x][h].status = "OPEN"
        BY <1>3, <2>3 DEF Writes
      <4>2. OpenSell'
        BY <1>3, <4>1 DEF OpenSell, Rows
      <4> QED  BY <3>2, <4>2 DEF Progress, Buying, Moves
    <3> QED  BY <2>1, <3>1, <3>2
  <2>8. TypeOK'
    BY <1>2, <1>10, <2>2, <2>3 DEF TypeOK, clockVars, coreVars, signalVars, Writes, RowRecords, RunRecords
  <2> QED  BY <2>4, <2>5, <2>7, <2>8 DEF IInv
<1>11. CASE /\ sell' = [sell EXCEPT ![x][h] = Row("UNKNOWN")]
            /\ Return(Scheduler) /\ safe' = TRUE
  <2>1. run' \in [Runs -> RunRecords] /\ R'.pc = "idle"
    BY <1>2, <1>11, ReturnMoves
  <2>2. Writes(x, h, Row("UNKNOWN")) /\ Row("UNKNOWN").status = "UNKNOWN"
    BY <1>4, <1>6, <1>11
  <2>3. RowsKnown'
    BY <1>2, <1>3, <1>4, <1>5, <1>11, <2>1, <2>2, SellIsNew
  <2>4. Dates'
    BY <1>2, <1>5, <2>1 DEF IInv, Dates, Evaluating, Trading, Freezing, Selling, Buying
  <2>5. WeightsKnown'
    <3>1. \A d, s : WeightOf(d, s)' <=> WeightOf(d, s)
      BY <1>5 DEF WeightOf
    <3> QED  BY <1>2, <1>5, <2>1, <3>1 DEF IInv, WeightsKnown, Trading, Freezing, Selling, Buying
  <2>6. GenerationsKnown'
    BY <1>5, <2>1 DEF IInv, GenerationsKnown, Freezing, Selling, Buying
  <2>7. Progress'
    BY <2>1 DEF Progress, Buying
  <2>8. TypeOK'
    BY <1>2, <1>11, <2>1, <2>2 DEF TypeOK, clockVars, coreVars, signalVars, Writes, RowRecords, RunRecords
  <2> QED  BY <2>3, <2>4, <2>5, <2>6, <2>7, <2>8 DEF IInv
<1> QED  BY <1>2, <1>9, <1>10, <1>11

LEMMA ResubmitSellStep ==
    ASSUME OneRun, IInv, ResubmitSell(Scheduler)
    PROVE  IInv'
<1>1. PICK x \in Symbols, h \in 0..MaxSessions : x = Symbol(Scheduler) /\ h = generation[x]
  BY RunType DEF IInv, TypeOK
<1>2. /\ R.pc = "sell" /\ qty[x] > target[x] /\ sell[x][h].status # "NONE" /\ TypeOK
      /\ SameBooks /\ UNCHANGED signalVars
      /\ \/ Return(Scheduler) /\ safe' = TRUE
         \/ /\ sell[x][h].status \notin {"CANCELED", "UNKNOWN"}
            /\ NextSymbol(Scheduler, "sell", "barrier") /\ UNCHANGED safe
  BY <1>1 DEF ResubmitSell, At, R, IInv, SameBooks
<1>3. h = key /\ h \in Sessions
  <2>1. h = key /\ key # 0 /\ key \in 0..MaxSessions
    BY <1>1, <1>2 DEF IInv, GenerationsKnown, Selling, TypeOK
  <2> QED  BY <2>1, Constants DEF Sessions
<1>4. CASE Return(Scheduler) /\ safe' = TRUE
  <2>1. safe => safe'
    BY <1>4
  <2>2. safe' \in BOOLEAN /\ R.pc # "apply"
    BY <1>2, <1>4
  <2> QED  BY <1>2, <1>4, <2>1, <2>2, Returns, ReturnMoves
<1>5. CASE /\ sell[x][h].status \notin {"CANCELED", "UNKNOWN"}
           /\ NextSymbol(Scheduler, "sell", "barrier") /\ UNCHANGED safe
  <2>1. ~Applying(x, h) /\ generation[x] = h
    BY <1>1, <1>2 DEF Applying
  <2>2. sell[x][h].status # "FILLED"
    <3>1. RowFacts(x, h, sell[x][h]) /\ qty[x] \in Nat /\ target[x] \in Nat
      BY <1>3, RowType
    <3>2. ~(qty[x] <= target[x])
      BY <1>2, <3>1
    <3>3. sell[x][h].status = "FILLED" => sell[x][h].applied
      BY <2>1, <3>1 DEF RowFacts
    <3> QED  BY <1>3, <2>1, <3>1, <3>2, <3>3 DEF RowFacts
  <2>3. sell[x][h].status = "OPEN"
    BY <1>2, <1>3, <1>5, <2>2, RowType DEF RowRecords, Statuses
  <2>4. Sold(Symbol(Scheduler))
    BY <1>1, <1>3, <2>3 DEF Sold
  <2> QED  BY <1>2, <1>5, <2>4, SellGoesOn
<1> QED  BY <1>2, <1>4, <1>5

-----------------------------------------------------------------------------
(* BUYs, the calendar and the process *)

LEMMA BuyFillsStep ==
    ASSUME OneRun, IInv, NEW x \in Symbols, BuyFills(x)
    PROVE  IInv'
<1>1. PICK n \in Nat : qty[x] + n <= target[x] /\ qty' = [qty EXCEPT ![x] = @ + n]
  <2>1. \A n \in 1..offered[x] : n \in Nat
    BY Constants DEF IInv, TypeOK, Quantities
  <2>2. PICK n \in 1..offered[x] : qty[x] + n <= target[x] /\ qty' = [qty EXCEPT ![x] = @ + n]
    BY Zenon DEF BuyFills
  <2> QED  BY <2>1, <2>2
<1>2. /\ UNCHANGED <<session, started, wanted, weight, generation, target, key, marker, safe, sell, run, crashes>>
      /\ offered' = [offered EXCEPT ![x] = 0] /\ offeredOn' = [offeredOn EXCEPT ![x] = 0]
      /\ TypeOK /\ RowsKnown
  BY DEF BuyFills, clockVars, stateVars, IInv
<1>3. /\ qty' \in [Symbols -> Quantities]
      /\ \A s \in Symbols : qty'[s] = IF s = x THEN qty[s] + n ELSE qty[s]
  <2>1. qty \in [Symbols -> Quantities] /\ target[x] \in Quantities /\ qty[x] \in Quantities
    BY <1>2 DEF TypeOK
  <2>2. PICK k \in Quantities : k = qty[x] + n
    BY <1>1, <2>1, Constants DEF Quantities
  <2>3. qty' = [qty EXCEPT ![x] = k]
    BY <1>1, <2>2
  <2> QED  BY <2>1, <2>2, <2>3
<1>4. R' = R
  BY <1>2 DEF R
<1>5. \A s \in Symbols : qty[s] \in Nat /\ target[s] \in Nat
  BY <1>2, Constants DEF TypeOK, Quantities
<1>6. \A s \in Symbols : qty[s] <= target[s] => qty'[s] <= target[s]
  BY <1>1, <1>3, <1>5
<1>7. \A s \in Symbols : qty'[s] = qty[s] \/ (qty[s] <= qty'[s] /\ qty'[s] <= target[s])
  BY <1>1, <1>3, <1>5
<1>8. RowsKnown'
  <2> SUFFICES ASSUME NEW s \in Symbols, NEW g \in Sessions
               PROVE  RowFacts(s, g, sell[s][g])'
    BY DEF RowsKnown
  <2> DEFINE row == sell[s][g]
  <2>1. RowFacts(s, g, row) /\ sell'[s][g] = row /\ row.qty \in Nat
    BY <1>2, RowType
  <2>2. Applying(s, g)' <=> Applying(s, g)
    BY <1>2, <1>4 DEF Applying, Symbol, R
  <2>3. Applying(s, g) \in BOOLEAN /\ Applying(s, g)' \in BOOLEAN
    BY DEF Applying
  <2> HIDE DEF row
  <2>4. Live(row) => row.qty <= qty'[s] /\ qty'[s] - row.qty <= target[s]
    <3>1. qty[s] \in Nat /\ target[s] \in Nat /\ qty'[s] \in Nat
      BY <1>3, <1>5, Constants DEF Quantities
    <3>2. qty'[s] = qty[s] \/ (qty[s] <= qty'[s] /\ qty'[s] <= target[s])
      BY <1>7
    <3>3. Live(row) => row.qty <= qty[s] /\ qty[s] - row.qty <= target[s]
      BY <2>1 DEF RowFacts
    <3> QED  BY <2>1, <3>1, <3>2, <3>3
  <2>5. qty[s] <= target[s] => qty'[s] <= target[s]
    BY <1>6
  <2> QED  BY <1>2, <1>4, <2>1, <2>2, <2>3, <2>4, <2>5 DEF RowFacts, Live
<1>9. Dates' /\ WeightsKnown' /\ GenerationsKnown'
  BY <1>2, <1>4, PartsKept DEF SellMoves
<1>10. Progress'
  <2>1. Done' = Done /\ OpenSell' = OpenSell
    BY <1>2, <1>4 DEF Done, OpenSell, Rows
  <2>2. \A s \in Symbols : Sold(s) => Sold(s)'
    BY <1>2, <1>6 DEF Sold
  <2>3. Done \subseteq Symbols
    BY <1>2, RunType
  <2> QED  BY <1>2, <1>4, <1>6, <2>1, <2>2, <2>3 DEF IInv, Progress
<1>11. TypeOK'
  <2>1. offered \in [Symbols -> Quantities] /\ offeredOn \in [Symbols -> 0..MaxSessions]
    BY <1>2 DEF TypeOK
  <2>2. 0 \in Quantities /\ 0 \in 0..MaxSessions
    BY Constants DEF Quantities
  <2>3. offered' \in [Symbols -> Quantities] /\ offeredOn' \in [Symbols -> 0..MaxSessions]
    BY <1>2, <2>1, <2>2, Zenon
  <2> QED  BY <1>2, <1>3, <2>3 DEF TypeOK
<1> QED  BY <1>8, <1>9, <1>10, <1>11 DEF IInv

\* The calendar touches neither the rows nor the run.
LEMMA BooksKept ==
    ASSUME RowsKnown, Progress, UNCHANGED <<generation, target, qty, key, marker, safe, sell, run>>
    PROVE  RowsKnown' /\ Progress'
<1>1. R' = R /\ Done' = Done /\ OpenSell' = OpenSell
  BY DEF R, Done, OpenSell, Rows
<1>2. RowsKnown'
  <2> SUFFICES ASSUME NEW s \in Symbols, NEW g \in Sessions
               PROVE  RowFacts(s, g, sell[s][g])'
    BY DEF RowsKnown
  <2>1. RowFacts(s, g, sell[s][g])
    BY DEF RowsKnown
  <2>2. Applying(s, g)' = Applying(s, g)
    BY <1>1 DEF Applying, Symbol, R
  <2> QED  BY <1>1, <2>1, <2>2 DEF RowFacts, Live
<1>3. \A s : Sold(s)' <=> Sold(s)
  BY DEF Sold
<1>4. Progress'
  BY <1>1, <1>3 DEF Progress
<1> QED  BY <1>2, <1>4

LEMMA SessionCompletesStep ==
    ASSUME OneRun, IInv, SessionCompletes
    PROVE  IInv'
<1>1. PICK w \in [Symbols -> Weights] : wanted' = [wanted EXCEPT ![session + 1] = w]
  BY DEF SessionCompletes
<1>2. /\ UNCHANGED <<weight, generation, target, qty, key, marker, safe, sell, offered, offeredOn, run, crashes>>
      /\ session < MaxSessions /\ session' = session + 1 /\ started' = FALSE /\ TypeOK
  BY DEF SessionCompletes, coreVars, stateVars, signalVars, IInv
<1>3. session \in Nat /\ marker \in Nat /\ session' \in 0..MaxSessions /\ R' = R /\ marker <= session
  BY <1>2, Constants DEF TypeOK, R, IInv, Dates
<1>4. /\ wanted' \in [Sessions -> [Symbols -> Weights]]
      /\ \A d \in Sessions : d # session + 1 => wanted'[d] = wanted[d]
  BY <1>1, <1>2 DEF TypeOK
<1>5. TypeOK'
  BY <1>2, <1>3, <1>4 DEF TypeOK
<1>6. R.pc # "idle" => R.date \in Sessions /\ R.date # session + 1
  <2>1. R.date \in 0..MaxSessions
    BY <1>2, RunType
  <2> QED  BY <1>3, <2>1, Constants DEF IInv, Dates, Sessions
<1>7. Dates'
  <2>1. R.date \in Nat
    BY <1>2, RunType, Constants
  <2> QED  BY <1>2, <1>3, <2>1 DEF IInv, Dates
<1>8. WeightsKnown'
  <2>1. R.pc # "idle" => \A s : WeightOf(R.date, s)' <=> WeightOf(R.date, s)
    BY <1>2, <1>3, <1>4, <1>6 DEF WeightOf
  <2>2. R.pc \in Trading => R.date = marker /\ R.pc # "idle"
    BY DEF IInv, Dates, Trading, Freezing, Selling, Buying
  <2>3. marker # session + 1
    BY <1>3
  <2>4. Done' = Done /\ Symbol(Scheduler)' = Symbol(Scheduler)
    BY <1>2, <1>3 DEF Done, Symbol, R
  <2> QED  BY <1>2, <1>3, <2>1, <2>2, <2>3, <2>4 DEF IInv, WeightsKnown
<1>9. GenerationsKnown'
  <2>1. Done' = Done
    BY <1>3 DEF Done
  <2> QED  BY <1>2, <1>3, <2>1 DEF IInv, GenerationsKnown
<1>10. RowsKnown' /\ Progress'
  BY <1>2, <1>3, BooksKept DEF IInv
<1> QED  BY <1>5, <1>7, <1>8, <1>9, <1>10 DEF IInv

LEMMA NextSessionStartsStep ==
    ASSUME OneRun, IInv, NextSessionStarts
    PROVE  IInv'
<1>1. /\ started' = TRUE
      /\ UNCHANGED <<session, wanted, weight, generation, target, qty, key, marker, safe, sell,
                     offered, offeredOn, run, crashes>>
  BY DEF NextSessionStarts, coreVars, stateVars, signalVars
<1>2. R' = R
  BY <1>1 DEF R
<1>3. TypeOK'
  BY <1>1 DEF IInv, TypeOK
<1>4. Dates' /\ WeightsKnown' /\ GenerationsKnown'
  BY <1>1, <1>2, PartsKept DEF SellMoves
<1>5. RowsKnown' /\ Progress'
  BY <1>1, <1>2, BooksKept DEF IInv
<1> QED  BY <1>3, <1>4, <1>5 DEF IInv

LEMMA IdleType == Idle \in RunRecords /\ Idle.pc = "idle"
<1>1. NoPlan \in [Symbols -> Quantities]
  BY Constants DEF NoPlan, Quantities
<1> QED  BY <1>1, Constants DEF Idle, RunRecords, Places

\* A fill that the ledger lacks can only be that of the run that died: the start-up
\* applies it once.
LEMMA CrashStep ==
    ASSUME OneRun, IInv, Crash
    PROVE  IInv'
<1> DEFINE Lost(s) == {g \in Sessions : sell[s][g].status = "FILLED" /\ ~sell[s][g].applied}
<1>1. /\ UNCHANGED <<session, started, wanted, weight, generation, target, key, marker, offered, offeredOn>>
      /\ crashes < MaxCrashes /\ crashes' = crashes + 1
      /\ run' = [r \in Runs |-> Idle]
      /\ qty' = [s \in Symbols |->
            IF Lost(s) = {} THEN qty[s] ELSE qty[s] - sell[s][CHOOSE g \in Lost(s) : TRUE].qty]
      /\ sell' = [s \in Symbols |-> [g \in Sessions |->
            [sell[s][g] EXCEPT !.applied = @ \/ g \in Lost(s)]]]
      /\ TypeOK
  BY DEF Crash, clockVars, signalVars, IInv
<1>2. safe' \in BOOLEAN
  BY DEF Crash
<1>3. safe => safe'
  BY DEF Crash
<1>4. run' \in [Runs -> RunRecords] /\ R'.pc = "idle"
  BY <1>1, IdleType, RunType DEF R
<1>5. ASSUME NEW s \in Symbols, NEW g \in Lost(s)
      PROVE  g \in Sessions /\ g = key /\ sell[s][g].qty <= qty[s] /\ qty[s] - sell[s][g].qty <= target[s]
  BY RowType DEF RowFacts, Live
<1>6. ASSUME NEW s \in Symbols
      PROVE  /\ Lost(s) = {} => qty'[s] = qty[s]
             /\ Lost(s) # {} => /\ Lost(s) = {key} /\ key \in Sessions
                                /\ qty'[s] = qty[s] - sell[s][key].qty
  <2>1. Lost(s) # {} => Lost(s) = {key} /\ key \in Sessions
    BY <1>5
  <2>2. Lost(s) # {} => (CHOOSE g \in Lost(s) : TRUE) = key
    BY <2>1
  <2> HIDE DEF Lost
  <2> QED  BY <1>1, <2>1, <2>2
<1>7. ASSUME NEW s \in Symbols
      PROVE  qty'[s] \in Quantities
  <2>1. qty[s] \in Nat /\ qty[s] <= MaxTarget /\ MaxTarget \in Nat
    BY <1>1, Constants, SMTT(20) DEF TypeOK, Quantities
  <2>2. CASE Lost(s) = {}
    BY <1>6, <2>1, <2>2 DEF Quantities
  <2>3. CASE Lost(s) # {}
    <3>1. key \in Lost(s) /\ key \in Sessions /\ qty'[s] = qty[s] - sell[s][key].qty
      BY <1>6, <2>3
    <3>2. sell[s][key].qty \in Nat /\ sell[s][key].qty <= qty[s]
      BY <1>5, <3>1, RowType
    <3> QED  BY <2>1, <3>1, <3>2 DEF Quantities
  <2> QED  BY <2>2, <2>3
<1>8. ASSUME NEW s \in Symbols, NEW g \in Sessions
      PROVE  /\ sell'[s][g] \in RowRecords
             /\ sell'[s][g].status = sell[s][g].status /\ sell'[s][g].qty = sell[s][g].qty
             /\ sell'[s][g].applied = (sell[s][g].applied \/ g \in Lost(s))
  <2>1. PICK row \in RowRecords : row = sell[s][g]
    BY RowType
  <2>2. PICK b \in BOOLEAN : b = (row.applied \/ g \in Lost(s))
    BY <2>1
  <2> HIDE DEF Lost
  <2>3. sell'[s][g] = [row EXCEPT !.applied = b]
    BY <1>1, <2>1, <2>2
  <2> QED  BY <2>1, <2>2, <2>3 DEF RowRecords
<1>9. TypeOK'
  <2>1. sell' \in [Symbols -> [Sessions -> RowRecords]]
    <3>1. \A s \in Symbols : sell'[s] \in [Sessions -> RowRecords]
      <4>1. TAKE s \in Symbols
      <4>2. sell'[s] = [g \in Sessions |-> sell'[s][g]]
        <5> HIDE DEF Lost
        <5> QED  BY <1>1
      <4> QED  BY <1>8, <4>2
    <3>2. sell' = [s \in Symbols |-> sell'[s]]
      <4> HIDE DEF Lost
      <4> QED  BY <1>1
    <3> QED  BY <3>1, <3>2
  <2>2. qty' \in [Symbols -> Quantities]
    <3>1. qty' = [s \in Symbols |-> qty'[s]]
      <4> HIDE DEF Lost
      <4> QED  BY <1>1
    <3> QED  BY <1>7, <3>1
  <2>3. crashes' \in 0..MaxCrashes
    BY <1>1, Constants DEF TypeOK
  <2> HIDE DEF Lost
  <2> QED  BY <1>1, <1>2, <1>4, <2>1, <2>2, <2>3 DEF TypeOK, RowRecords, RunRecords
<1>10. RowsKnown'
  <2> SUFFICES ASSUME NEW s \in Symbols, NEW g \in Sessions
               PROVE  RowFacts(s, g, sell[s][g])'
    BY DEF RowsKnown
  <2>1. PICK row, new : row = sell[s][g] /\ new = sell'[s][g]
    OBVIOUS
  <2>2. /\ RowFacts(s, g, row) /\ row \in RowRecords /\ new \in RowRecords
        /\ new.status = row.status /\ new.qty = row.qty
        /\ new.applied = (row.applied \/ g \in Lost(s))
        /\ g \in Lost(s) <=> row.status = "FILLED" /\ ~row.applied
    BY <1>8, <2>1, RowType
  <2>3. new.status = "FILLED" => new.applied = TRUE
    BY <2>2 DEF RowRecords
  <2>4. ~Applying(s, g)'
    BY <1>4 DEF Applying
  <2>5. Live(new) => Live(row) /\ key = g /\ g \notin Lost(s)
    BY <2>2, <2>3 DEF Live, RowFacts
  <2>6. Live(new) => qty'[s] = qty[s]
    BY <1>6, <2>5
  <2>7. key = g /\ generation[s] = g /\ new.status = "FILLED" => qty'[s] <= target[s]
    <3>1. CASE g \in Lost(s)
      BY <1>5, <1>6, <3>1
    <3>2. CASE g \notin Lost(s) /\ key = g
      <4>1. qty'[s] = qty[s]
        BY <1>6, <3>2
      <4>2. new.status = "FILLED" => row.applied
        BY <2>2, <3>2
      <4> QED  BY <2>2, <4>1, <4>2 DEF RowFacts
    <3> QED  BY <3>1, <3>2
  <2> HIDE DEF Lost
  <2>8. Live(new) => /\ key = g /\ \A x \in Symbols : generation[x] = g
                     /\ new.qty <= qty'[s] /\ qty'[s] - new.qty <= target[s]
    BY <2>2, <2>5, <2>6 DEF RowFacts
  <2>9. new.status = "UNKNOWN" => safe'
    BY <1>3, <2>2 DEF RowFacts
  <2>10. /\ new.status # "NONE" => g <= marker /\ generation[s] # 0
         /\ generation[s] = g /\ g # key => new.status = "NONE"
    BY <2>2 DEF RowFacts
  <2> QED  BY <1>1, <1>4, <2>1, <2>3, <2>4, <2>7, <2>8, <2>9, <2>10 DEF RowFacts, Buying
<1> HIDE DEF Lost
<1>11. Dates'
  BY <1>1, <1>4 DEF IInv, Dates, Evaluating, Trading, Freezing, Selling, Buying
<1>12. WeightsKnown'
  <2>1. \A d, s : WeightOf(d, s)' <=> WeightOf(d, s)
    BY <1>1 DEF WeightOf
  <2> QED
    BY <1>1, <1>4, <2>1 DEF IInv, WeightsKnown, Trading, Freezing, Selling, Buying
<1>13. GenerationsKnown'
  BY <1>1, <1>4 DEF IInv, GenerationsKnown, Freezing, Selling, Buying
<1>14. Progress'
  BY <1>4 DEF Progress, Buying
<1> QED  BY <1>9, <1>10, <1>11, <1>12, <1>13, <1>14 DEF IInv

-----------------------------------------------------------------------------
(* The invariant *)

LEMMA InitIInv ==
    ASSUME OneRun, Init
    PROVE  IInv
<1>1. /\ safe = FALSE /\ sell = [s \in Symbols |-> [g \in Sessions |-> NoRow]]
      /\ offered = NoPlan /\ offeredOn = NoPlan /\ run = [r \in Runs |-> Idle] /\ crashes = 0
  BY DEF Init
<1>2. R = Idle /\ run \in [Runs -> RunRecords] /\ R.pc = "idle"
  BY <1>1, IdleType, AllocationAssumption DEF R
<1>3. 0 \in Quantities /\ MaxTarget \in Quantities /\ 0 \in 0..MaxSessions /\ 1 \in 0..MaxSessions /\ 0 \in 0..MaxCrashes
      /\ 0 \in Weights
  BY Constants DEF Quantities
<1>4. NoPlan \in [Symbols -> Quantities] /\ NoPlan \in [Symbols -> 0..MaxSessions]
      /\ NoPlan \in [Symbols -> Weights] /\ \A s \in Symbols : NoPlan[s] = 0
  BY <1>3 DEF NoPlan
<1>5. sell \in [Symbols -> [Sessions -> RowRecords]]
  <2>1. NoRow \in RowRecords
    BY <1>3 DEF NoRow, RowRecords, Statuses
  <2> QED  BY <1>1, <2>1
<1>6. RowsKnown
  <2> SUFFICES ASSUME NEW s \in Symbols, NEW g \in Sessions
               PROVE  RowFacts(s, g, sell[s][g])
    BY DEF RowsKnown
  <2>1. PICK row : row = sell[s][g]
    OBVIOUS
  <2>2. row.status = "NONE"
    BY <1>1, <2>1 DEF NoRow
  <2>3. ~Applying(s, g)
    BY <1>2 DEF Applying
  <2> QED  BY <2>1, <2>2, <2>3 DEF RowFacts, Live
<1>7. Progress
  BY <1>2 DEF Progress, Buying
<1>8. CASE Fresh
  <2>1. /\ session = 0 /\ started = FALSE /\ wanted = [d \in Sessions |-> NoPlan] /\ key = 0 /\ marker = 0
        /\ weight = NoPlan /\ generation = NoPlan /\ target = NoPlan /\ qty = NoPlan
    BY <1>8 DEF Fresh
  <2>2. TypeOK
    BY <1>1, <1>2, <1>3, <1>4, <1>5, <2>1 DEF TypeOK, RunRecords, RowRecords
  <2>3. Dates /\ WeightsKnown /\ GenerationsKnown
    BY <1>2, <2>1 DEF Dates, WeightsKnown, GenerationsKnown, Evaluating, Trading, Freezing, Selling, Buying
  <2> QED  BY <1>6, <1>7, <2>2, <2>3 DEF IInv
<1>9. CASE JustFrozen
  <2>1. /\ session = 1 /\ started = TRUE /\ key = 1 /\ marker = 1
        /\ weight \in [Symbols -> Weights]
        /\ wanted = [d \in Sessions |-> IF d = 1 THEN weight ELSE NoPlan]
        /\ generation = [s \in Symbols |-> 1]
        /\ target = [s \in Symbols |-> IF weight[s] = 0 THEN 0 ELSE MaxTarget]
        /\ qty = [s \in Symbols |-> MaxTarget]
    BY <1>9 DEF JustFrozen
  <2>2. TypeOK
    BY <1>1, <1>2, <1>3, <1>4, <1>5, <2>1 DEF TypeOK, RunRecords, RowRecords
  <2>3. \A s \in Symbols : WeightOf(1, s)
    <3>1. 1 \in Sessions
      BY Constants DEF Sessions
    <3> QED  BY <2>1, <3>1 DEF WeightOf
  <2>4. Dates /\ WeightsKnown /\ GenerationsKnown
    BY <1>2, <2>1, <2>3 DEF Dates, WeightsKnown, GenerationsKnown, Evaluating, Trading, Freezing, Selling, Buying
  <2> QED  BY <1>6, <1>7, <2>2, <2>4 DEF IInv
<1> QED  BY <1>8, <1>9 DEF Init

LEMMA NextIInv ==
    ASSUME OneRun, IInv, [Next]_vars
    PROVE  IInv'
<1>1. CASE UNCHANGED vars
  <2>1. /\ UNCHANGED <<session, started, wanted, weight, generation, target, qty, key, marker, safe, sell,
                       offered, offeredOn, run, crashes>>
        /\ R' = R
    BY <1>1 DEF vars, clockVars, coreVars, stateVars, signalVars, R
  <2>2. TypeOK'
    BY <2>1 DEF IInv, TypeOK
  <2>3. Dates' /\ WeightsKnown' /\ GenerationsKnown'
    BY <2>1, PartsKept DEF SellMoves
  <2>4. RowsKnown' /\ Progress'
    BY <2>1, BooksKept DEF IInv
  <2> QED  BY <2>2, <2>3, <2>4 DEF IInv
<1>2. CASE Begin(Scheduler)
  BY <1>2, BeginStep
<1>3. CASE Step(Scheduler)
  <2>1. CASE \/ Compare(Scheduler) \/ Invalidate(Scheduler) \/ SettleSell(Scheduler) \/ Settled(Scheduler)
             \/ SetTarget(Scheduler) \/ ClearKey(Scheduler) \/ MarkEvaluated(Scheduler)
    BY <2>1, CompareStep, InvalidateStep, SettleSellStep, SettledStep, SetTargetStep, ClearKeyStep,
       MarkEvaluatedStep
  <2>2. CASE \/ CheckGenerations(Scheduler) \/ ReadKey(Scheduler) \/ Plan(Scheduler)
             \/ FreezeRead(Scheduler) \/ FreezeWrite(Scheduler) \/ StampKey(Scheduler)
    BY <2>2, CheckGenerationsStep, ReadKeyStep, PlanStep, FreezeReadStep, FreezeWriteStep, StampKeyStep
  <2>3. CASE \/ CheckSells(Scheduler) \/ NothingToSell(Scheduler) \/ SubmitSell(Scheduler)
             \/ ResubmitSell(Scheduler) \/ ApplyOwnSell(Scheduler)
    BY <2>3, CheckSellsStep, NothingToSellStep, SubmitSellStep, ResubmitSellStep, ApplyOwnSellStep
  <2>4. CASE \/ Barrier(Scheduler) \/ Reconcile(Scheduler) \/ ExpireSignals(Scheduler) \/ Offer(Scheduler)
    BY <2>4, BarrierStep, ReconcileStep, ExpireSignalsStep, OfferStep
  <2> QED  BY <1>3, <2>1, <2>2, <2>3, <2>4 DEF Step
<1>4. CASE Fails(Scheduler)
  BY <1>4, FailsStep
<1>5. CASE \E s \in Symbols : BuyFills(s) \/ \E g \in Sessions : SellFills(s, g)
  BY <1>5, BuyFillsStep, SellFillsStep
<1>6. CASE SessionCompletes \/ NextSessionStarts \/ Crash
  BY <1>6, SessionCompletesStep, NextSessionStartsStep, CrashStep
<1> QED  BY <1>1, <1>2, <1>3, <1>4, <1>5, <1>6 DEF Next, OneRun

\* The inductive invariant: what the run has read is still true wherever it relies on it,
\* weights, generations and keys are those of one session in the places that trade, and
\* a SELL whose shares are not yet taken fits into the ledger.
THEOREM Invariance == OneRun /\ Spec => []IInv
<1>1. OneRun /\ Init => IInv
  BY InitIInv
<1>2. OneRun /\ IInv /\ [Next]_vars => IInv'
  BY NextIInv
<1>3. OneRun => []OneRun
  <2>1. OneRun => OneRun'
    BY DEF OneRun
  <2> QED  BY <2>1, PTL
<1> QED  BY <1>1, <1>2, <1>3, PTL DEF Spec

-----------------------------------------------------------------------------
(* What follows from it *)

\* The types: no holding becomes negative, and none exceeds the bound on targets, though
\* a SELL is applied by the run, the monitor, a settlement or the start-up.
THEOREM TypeCorrectness == OneRun /\ Spec => []TypeOK
<1>1. IInv => TypeOK
  BY DEF IInv
<1> QED  BY <1>1, Invariance, PTL

LEMMA StepOf ==
    ASSUME OneRun, Next
    PROVE  \/ Begin(Scheduler) \/ Step(Scheduler) \/ Fails(Scheduler)
           \/ \E s \in Symbols : BuyFills(s) \/ \E g \in Sessions : SellFills(s, g)
           \/ SessionCompletes \/ NextSessionStarts \/ Crash
BY DEF Next, OneRun

\* A BUY is offered by the last loop of a run, where no SELL is open, nothing is held
\* beyond its target and all rows have the stamped generation.
LEMMA OffersComeLast ==
    ASSUME OneRun, IInv, [Next]_vars, NEW x \in Symbols, NewOffer(x)
    PROVE  /\ R.pc \in Buying
           /\ \A row \in Rows : row.status \notin {"OPEN", "UNKNOWN"}
           /\ \A s \in Symbols : qty[s] <= target[s] /\ generation[s] = key
<1>1. /\ offered \in [Symbols -> Quantities] /\ offered' # offered
      /\ \E s \in Symbols : offered[s] = 0 /\ offered'[s] # 0
  <2>1. offered[x] = 0 /\ offered'[x] # 0
    <3>1. offered[x] = 0 /\ offered'[x] > 0 /\ ~(0 > 0)
      BY DEF NewOffer
    <3> QED  BY <3>1
  <2> QED  BY <2>1 DEF IInv, TypeOK
<1>2. R.pc = "offer"
  <2>1. Next
    BY <1>1 DEF vars, signalVars
  <2>2. CASE Begin(Scheduler) \/ Fails(Scheduler) \/ SessionCompletes \/ NextSessionStarts \/ Crash
    BY <1>1, <2>2 DEF Begin, Fails, RunFails, SettleFails, SessionNotAllowed, SessionCompletes,
       NextSessionStarts, Crash, signalVars
  <2>3. CASE \E s \in Symbols : BuyFills(s) \/ \E g \in Sessions : SellFills(s, g)
    <3>1. CASE \E s \in Symbols : BuyFills(s)
      <4>1. PICK s \in Symbols : offered' = [offered EXCEPT ![s] = 0]
        BY <3>1 DEF BuyFills
      <4> QED  BY <1>1, <4>1
    <3>2. CASE \E s \in Symbols : \E g \in Sessions : SellFills(s, g)
      BY <1>1, <3>2 DEF SellFills, signalVars
    <3> QED  BY <2>3, <3>1, <3>2
  <2>4. CASE Step(Scheduler)
    <3>1. CASE Invalidate(Scheduler)
      <4>1. offered' = [offered EXCEPT ![Symbol(Scheduler)] = 0]
        BY <3>1 DEF Invalidate, InvalidateSignals
      <4> QED  BY <1>1, <4>1
    <3>2. CASE ExpireSignals(Scheduler)
      <4>1. offered' = [s \in Symbols |-> IF Lapsed(s, R.date) THEN 0 ELSE offered[s]]
        BY <3>2 DEF ExpireSignals, R
      <4> QED  BY <1>1, <4>1
    <3>3. CASE Offer(Scheduler)
      BY <3>3 DEF Offer, At, R
    <3>4. CASE ~Invalidate(Scheduler) /\ ~ExpireSignals(Scheduler) /\ ~Offer(Scheduler)
      <4>1. UNCHANGED offered
        BY <2>4, <3>4 DEF Step, signalVars, Compare, SettleSell, Settled, SetTarget, ClearKey, MarkEvaluated,
           CheckGenerations, ReadKey, Plan, FreezeRead, FreezeWrite, StampKey, CheckSells, NothingToSell,
           SubmitSell, ResubmitSell, ApplyOwnSell, Barrier, Reconcile
      <4> QED  BY <1>1, <4>1
    <3> QED  BY <3>1, <3>2, <3>3, <3>4
  <2> QED  BY <2>1, <2>2, <2>3, <2>4, StepOf
<1>3. \A row \in Rows : row.status \notin {"OPEN", "UNKNOWN"}
  <2>1. ASSUME NEW s \in Symbols, NEW g \in Sessions
        PROVE  sell[s][g].status \notin {"OPEN", "UNKNOWN"}
    BY <1>2, RowType DEF RowFacts, Buying
  <2> QED  BY <2>1 DEF Rows
<1> QED  BY <1>2, <1>3 DEF IInv, Progress, GenerationsKnown, Buying, Selling

\* A SELL is placed by the loop of SELLs only.
LEMMA SellsComeFromTheLoop ==
    ASSUME OneRun, IInv, [Next]_vars, NEW x \in Symbols, NewSell(x)
    PROVE  R.pc = "sell"
<1>1. PICK g \in Sessions : sell[x][g].status = "NONE" /\ sell'[x][g].status # "NONE"
  BY DEF NewSell
<1>2. sell \in [Symbols -> [Sessions -> RowRecords]] /\ sell' # sell
  BY <1>1 DEF IInv, TypeOK, RowRecords
<1>3. Next
  BY <1>2 DEF vars
\* One that ends was there before.
<1>4. ASSUME NEW y \in Symbols, NEW h \in Sessions, NEW new, Writes(y, h, new),
             sell[y][h].status # "NONE"
      PROVE  FALSE
  <2>1. ~(x = y /\ g = h)
    BY <1>1, <1>4
  <2>2. sell'[x][g] = sell[x][g]
    BY <1>4, <2>1 DEF Writes
  <2> QED  BY <1>1, <2>2
<1>5. CASE Begin(Scheduler) \/ Fails(Scheduler) \/ SessionCompletes \/ NextSessionStarts
  BY <1>2, <1>5 DEF Begin, Fails, RunFails, SettleFails, SessionNotAllowed, SessionCompletes, NextSessionStarts
<1>6. CASE Crash
  <2> DEFINE Lost(s) == {h \in Sessions : sell[s][h].status = "FILLED" /\ ~sell[s][h].applied}
  <2>1. sell' = [s \in Symbols |-> [h \in Sessions |-> [sell[s][h] EXCEPT !.applied = @ \/ h \in Lost(s)]]]
    BY <1>6 DEF Crash
  <2>2. PICK row \in RowRecords : row = sell[x][g]
    BY <1>2
  <2>3. PICK b : b = (row.applied \/ g \in Lost(x))
    OBVIOUS
  <2> HIDE DEF Lost
  <2>4. sell'[x][g] = [row EXCEPT !.applied = b]
    BY <2>1, <2>2, <2>3
  <2> QED  BY <1>1, <2>2, <2>4 DEF RowRecords
<1>7. CASE \E s \in Symbols : BuyFills(s) \/ \E h \in Sessions : SellFills(s, h)
  <2>1. CASE \E s \in Symbols : BuyFills(s)
    BY <1>2, <2>1 DEF BuyFills
  <2>2. ASSUME NEW y \in Symbols, NEW h \in Sessions, SellFills(y, h)
        PROVE  FALSE
    <3>1. sell[y][h].status = "OPEN" /\ ApplySell(y, h) /\ Live(sell[y][h])
      BY <2>2 DEF SellFills, Live
    <3> QED  BY <1>4, <3>1, SellIsApplied
  <2> QED  BY <1>7, <2>1, <2>2
<1>8. CASE Step(Scheduler)
  <2>1. CASE SettleSell(Scheduler)
    <3>1. PICK y \in Symbols, h \in Sessions : \E n \in 0..sell[y][h].qty :
              /\ sell[y][h].status = "OPEN"
              /\ sell' = [sell EXCEPT
                     ![y][h].status = IF n = sell[y][h].qty THEN "FILLED" ELSE "CANCELED",
                     ![y][h].applied = TRUE]
      BY <2>1, Zenon DEF SettleSell
    <3>2. PICK status \in {"FILLED", "CANCELED"} :
              sell[y][h].status = "OPEN" /\ sell' = [sell EXCEPT ![y][h].status = status, ![y][h].applied = TRUE]
      BY <3>1
    <3>3. PICK row \in RowRecords : row = sell[y][h]
      BY <1>2
    <3>4. PICK new : new = [row EXCEPT !.status = status, !.applied = TRUE]
      OBVIOUS
    <3>5. new \in RowRecords
      BY <3>4 DEF RowRecords, Statuses
    <3>6. sell' = [sell EXCEPT ![y][h] = new]
      BY <3>2, <3>3, <3>4
    <3>7. Writes(y, h, new)
      BY <3>5, <3>6, RowWritten DEF IInv
    <3> QED  BY <1>4, <3>2, <3>7
  <2>2. CASE ApplyOwnSell(Scheduler)
    <3>1. PICK y \in Symbols, h \in 0..MaxSessions : y = Symbol(Scheduler) /\ h = R.generation
      BY RunType DEF IInv, RunRecords
    <3>2. R.pc = "apply" /\ ApplySell(y, h)
      BY <2>2, <3>1 DEF ApplyOwnSell, At, R
    <3>3. h \in Sessions
      <4>1. h = key /\ key # 0 /\ key \in 0..MaxSessions
        BY <3>1, <3>2 DEF IInv, GenerationsKnown, Selling, TypeOK
      <4> QED  BY <4>1, Constants DEF Sessions
    <3>4. sell[y][h].status = "FILLED" /\ Live(sell[y][h])
      <4>1. Applying(y, h)
        BY <3>1, <3>2 DEF Applying
      <4> QED  BY <3>3, <4>1, RowType DEF RowFacts, Live
    <3> QED  BY <1>4, <3>2, <3>3, <3>4, SellIsApplied
  <2>3. CASE SubmitSell(Scheduler)
    BY <2>3 DEF SubmitSell, At, R
  <2>4. CASE ~SettleSell(Scheduler) /\ ~ApplyOwnSell(Scheduler) /\ ~SubmitSell(Scheduler)
    <3>1. UNCHANGED sell
      BY <1>8, <2>4 DEF Step, Compare, Invalidate, Settled, SetTarget, ClearKey, MarkEvaluated,
         CheckGenerations, ReadKey, Plan, FreezeRead, FreezeWrite, StampKey, CheckSells, NothingToSell,
         ResubmitSell, Barrier, Reconcile, ExpireSignals, Offer
    <3> QED  BY <1>2, <3>1
  <2> QED  BY <2>1, <2>2, <2>3, <2>4
<1> QED  BY <1>3, <1>5, <1>6, <1>7, <1>8, StepOf

\* A BUY is offered after every SELL is final and applied and nothing is held beyond its
\* target, whatever run failed or died before.
THEOREM BuysFollowSells == OneRun /\ Spec => BuyAfterSell
<1> DEFINE A == (\E s \in Symbols : NewOffer(s)) =>
                  /\ \A row \in Rows : row.status \notin {"OPEN", "UNKNOWN"}
                  /\ \A s \in Symbols : qty[s] <= target[s] /\ (generation[s] # 0 => generation[s] = key)
<1>1. OneRun /\ IInv /\ [Next]_vars => [A]_vars
  <2> SUFFICES ASSUME OneRun, IInv, [Next]_vars, NEW x \in Symbols, NewOffer(x)
               PROVE  /\ \A row \in Rows : row.status \notin {"OPEN", "UNKNOWN"}
                      /\ \A s \in Symbols : qty[s] <= target[s] /\ (generation[s] # 0 => generation[s] = key)
    OBVIOUS
  <2> QED  BY OffersComeLast
<1>2. OneRun => []OneRun
  <2>1. OneRun => OneRun'
    BY DEF OneRun
  <2> QED  BY <2>1, PTL
<1> HIDE DEF A
<1>3. OneRun /\ Spec => [][A]_vars
  BY <1>1, <1>2, Invariance, PTL DEF Spec
<1> QED  BY <1>3 DEF BuyAfterSell, A

\* Every SELL placed and every BUY offered follows the weights of the one session that the
\* marker names: those of all symbols, though they are stored one by one and a run can die
\* between two of them.
THEOREM TradesFollow == OneRun /\ Spec => TradesFollowTheStrategy
<1> DEFINE A == (\E s \in Symbols : NewOffer(s) \/ NewSell(s)) => weight = wanted[marker]
<1>1. OneRun /\ IInv /\ [Next]_vars => [A]_vars
  <2> SUFFICES ASSUME OneRun, IInv, [Next]_vars, NEW x \in Symbols, NewOffer(x) \/ NewSell(x)
               PROVE  weight = wanted[marker]
    OBVIOUS
  <2>1. R.pc \in Trading
    BY OffersComeLast, SellsComeFromTheLoop DEF Trading, Selling
  <2>2. marker \in Sessions
    <3>1. R.date = marker /\ 1 <= R.date
      BY <2>1 DEF IInv, Dates, Trading, Freezing, Selling, Buying
    <3> QED  BY <3>1, Constants DEF IInv, TypeOK, Sessions
  <2>3. \A s \in Symbols : weight[s] = wanted[marker][s]
    BY <2>1 DEF IInv, WeightsKnown, WeightOf
  <2> QED  BY <2>2, <2>3 DEF IInv, TypeOK
<1>2. OneRun => []OneRun
  <2>1. OneRun => OneRun'
    BY DEF OneRun
  <2> QED  BY <2>1, PTL
<1> HIDE DEF A
<1>3. OneRun /\ Spec => [][A]_vars
  BY <1>1, <1>2, Invariance, PTL DEF Spec
<1> QED  BY <1>3 DEF TradesFollowTheStrategy, A

\* Once the key is stamped, no step changes the quantities of its generation.
THEOREM QuantitiesAreFrozenOnce == OneRun /\ Spec => FrozenOnce
<1> DEFINE A == \A s \in Symbols : (key # 0 /\ generation[s] = key /\ UNCHANGED <<key, generation>>)
                                      => target'[s] = target[s]
<1>1. OneRun /\ IInv /\ [Next]_vars => [A]_vars
  <2> SUFFICES ASSUME OneRun, IInv, [Next]_vars, NEW s \in Symbols, key # 0, generation[s] = key,
                      UNCHANGED <<key, generation>>, target' # target
               PROVE  target'[s] = target[s]
    OBVIOUS
  <2>1. Next /\ TypeOK
    BY DEF vars, coreVars, IInv
  <2>2. SetTarget(Scheduler) \/ FreezeWrite(Scheduler)
    <3>1. ~Begin(Scheduler) /\ ~Fails(Scheduler) /\ ~SessionCompletes /\ ~NextSessionStarts /\ ~Crash
      BY DEF Begin, Fails, RunFails, SettleFails, SessionNotAllowed, SessionCompletes, NextSessionStarts,
         Crash, coreVars
    <3>2. ~\E x \in Symbols : BuyFills(x) \/ \E g \in Sessions : SellFills(x, g)
      BY DEF BuyFills, SellFills, ApplySell
    <3>3. Step(Scheduler)
      BY <2>1, <3>1, <3>2, StepOf
    <3> QED
      BY <3>3 DEF Step, coreVars, Compare, Invalidate, SettleSell, Settled, ClearKey, MarkEvaluated,
         CheckGenerations, ReadKey, Plan, FreezeRead, StampKey, CheckSells, NothingToSell, SubmitSell,
         ResubmitSell, ApplyOwnSell, ApplySell, Barrier, Reconcile, ExpireSignals, Offer
  <2>3. PICK x \in Symbols : x = Symbol(Scheduler)
    BY <2>1, RunType
  <2>4. PICK g, n : /\ generation' = [generation EXCEPT ![x] = g] /\ target' = [target EXCEPT ![x] = n]
                    /\ g # key
    <3>1. CASE SetTarget(Scheduler)
      <4>1. R.pc = "set" /\ R.date \in 0..MaxSessions
        BY <2>1, <3>1, RunType DEF SetTarget, At, R
      <4>2. R.date # key
        <5>1. marker < R.date /\ key <= marker /\ marker \in Nat /\ key \in Nat /\ R.date \in Nat
          BY <2>1, <4>1, Constants DEF IInv, Dates, Evaluating, TypeOK
        <5> QED  BY <5>1
      <4> QED  BY <2>3, <3>1, <4>2 DEF SetTarget, SetCoreTarget, R
    <3>2. CASE FreezeWrite(Scheduler)
      <4>1. R.generation # key
        BY <3>2 DEF FreezeWrite, At, R, IInv, GenerationsKnown, Freezing
      <4> QED  BY <2>3, <3>2, <4>1 DEF FreezeWrite, SetCoreTarget, R
    <3> QED  BY <2>2, <3>1, <3>2
  <2>5. x # s
    BY <2>1, <2>4 DEF TypeOK
  <2> QED  BY <2>1, <2>4, <2>5 DEF TypeOK
<1>2. OneRun => []OneRun
  <2>1. OneRun => OneRun'
    BY DEF OneRun
  <2> QED  BY <2>1, PTL
<1> HIDE DEF A
<1>3. OneRun /\ Spec => [][A]_vars
  BY <1>1, <1>2, Invariance, PTL DEF Spec
<1> QED  BY <1>3 DEF FrozenOnce, A
=============================================================================
